----------------------------- MODULE ToolStream -----------------------------
(***************************************************************************)
(* One streamed model turn: the server's chunks, ToolCallAssembler         *)
(* (workload/native_tools.py), _parse_stream (workload/openai_client.py)   *)
(* and what the agent loop makes of the turn.  The model says some calls   *)
(* and some text; the server cuts each call into pieces (its id, its name, *)
(* its arguments), numbers them, and may stop at any chunk: a stream that  *)
(* ends, by [DONE] at the token limit or by a closed connection, is        *)
(* finalized like one that is complete.                                    *)
(*                                                                         *)
(* Task takes the outcome of a stream as given; here it is derived.        *)
(***************************************************************************)
EXTENDS Naturals

CONSTANTS
  Calls,       \* calls the model may say in one turn
  Turns,       \* what it may say: some calls, and of each its tool and arguments
  Indexes,     \* stream indexes a server may number them with
  NamePieces,  \* a name comes in so many fragments
  ArgPieces,   \* and its arguments in so many
  MaxChunks,   \* bound on content and reasoning chunks
  BadIndex,    \* a missing, boolean, negative or non-integer index
  NoCall

ASSUME ToolStreamAssumption ==
  /\ NamePieces \in Nat \ {0} /\ ArgPieces \in Nat \ {0} /\ MaxChunks \in Nat
  /\ BadIndex \notin Indexes
  /\ NoCall \notin [tool : {"lenient", "strict", "terminal"},
                    args : {"fit", "misfit", "none"}]

ASSUME TurnsAssumption ==
  Turns \subseteq [calls : SUBSET Calls,
                   tool : [Calls -> {"lenient", "strict", "terminal", "unknown"}],
                   args : [Calls -> {"fit", "misfit", "no_object"}]]

\* The pieces of a call in the order they are streamed.
Last == 1 + NamePieces + ArgPieces
IdPart == {1}
NamePart == 2 .. (1 + NamePieces)
ArgPart == (2 + NamePieces) .. Last

\* What a contract knows of a tool: none of the lenient ones (get_service_health,
\* check_recent_changes) has a required argument; "unknown" is not in TOOL_SPECS.
Tools == {"lenient", "strict", "terminal", "unknown"}

VARIABLES
  said,      \* what the model says
  workflow,  \* whether the contract corrects a schema-invalid terminal call
  pc,        \* "stream", "tool" or "over"
  server,    \* what was streamed: pieces of each call, indexes used, text, faults
  asm,       \* the assembler: slots, their contents and flags
  turn,      \* the turn record: first output seen, output events, recorded
  call,      \* the assembled call
  outcome    \* the assembler's failure category, or what became of the call

vars == <<said, workflow, pc, server, asm, turn, call, outcome>>

Init ==
  /\ said \in Turns
  /\ workflow \in BOOLEAN
  /\ pc = "stream" /\ call = NoCall /\ outcome = "none"
  /\ server = [sent |-> [k \in Calls |-> 0], used |-> {}, text |-> FALSE,
               strayed |-> FALSE, chunks |-> 0]
  /\ asm = [slots |-> {}, got |-> {}, content |-> FALSE, legacy |-> FALSE,
            delta |-> FALSE, badIndex |-> FALSE]
  /\ turn = [first |-> FALSE, outputs |-> 0, recorded |-> FALSE]

-----------------------------------------------------------------------------
(* Chunks. *)

\* An output event reaches the agent loop: it starts the TTFT clock and counts.
OutputEvent == turn' = [turn EXCEPT !.first = TRUE, !.outputs = @ + 1]

Reasoning ==
  /\ pc = "stream" /\ server.chunks < MaxChunks
  /\ server' = [server EXCEPT !.chunks = @ + 1]
  /\ OutputEvent
  /\ UNCHANGED <<said, workflow, pc, asm, call, outcome>>

Content(legacy) ==
  /\ pc = "stream" /\ server.chunks < MaxChunks
  /\ server' = [server EXCEPT !.chunks = @ + 1, !.text = TRUE]
  /\ asm' = [asm EXCEPT !.content = TRUE, !.legacy = @ \/ legacy]
  /\ OutputEvent
  /\ UNCHANGED <<said, workflow, pc, call, outcome>>

\* Mutant: an unusable index is coerced to the first slot.
Coerced(i) == IF i = BadIndex THEN CHOOSE j \in Indexes : TRUE ELSE i

\* Only a usable index names a slot.
SlotOf(i) == i

\* Mutant: every call of the turn has a first fragment of its own.
FirstOfSlot(i) == i \notin asm.slots

\* The first usable fragment of the stream is a timing event.
FirstDelta(i) == ~asm.delta

\* The next m pieces of call k under index i; one delta may hold several such
\* fragments, which are worked through one after the other.
Fragment(k, m, i) ==
  LET slot == SlotOf(i)
      new == {[slot |-> slot, call |-> k, piece |-> p] :
                p \in (server.sent[k] + 1) .. (server.sent[k] + m)}
  IN
  /\ pc = "stream" /\ k \in said.calls /\ server.sent[k] + m <= Last
  /\ server' = [server EXCEPT !.sent[k] = @ + m, !.strayed = @ \/ i = BadIndex,
                              !.used = IF i = BadIndex THEN @ ELSE @ \cup {i}]
  /\ IF slot = BadIndex
     THEN asm' = [asm EXCEPT !.badIndex = TRUE] /\ UNCHANGED turn
     ELSE /\ asm' = [asm EXCEPT !.slots = @ \cup {slot}, !.got = @ \cup new, !.delta = TRUE]
          /\ IF FirstDelta(i) THEN OutputEvent ELSE UNCHANGED turn
  /\ UNCHANGED <<said, workflow, pc, call, outcome>>

\* A payload that is no JSON object, a malformed usage count, a lost connection
\* that raises, or an exception nobody expected: the turn leaves no record.
Breaks ==
  /\ pc = "stream"
  /\ outcome' \in {"endpoint_error", "agent_runtime_error"}
  /\ pc' = "over"
  /\ UNCHANGED <<said, workflow, server, asm, turn, call>>

-----------------------------------------------------------------------------
(* finalize. *)

Held(i, part) == {e \in asm.got : e.slot = i /\ e.piece \in part}

\* The slot's text of this part is exactly that of call k.
IsWhole(i, part, k) ==
  Held(i, part) = {[slot |-> i, call |-> k, piece |-> p] : p \in part}

\* A slot that mixes or tears names holds the name of no tool.
ToolOf(i) ==
  IF \E k \in Calls : IsWhole(i, NamePart, k)
  THEN said.tool[CHOOSE k \in Calls : IsWhole(i, NamePart, k)] ELSE "unknown"

\* json.loads of the joined fragments: nothing at all is an empty object, and
\* neither a part nor a mixture of argument texts is JSON.
ArgsOf(i) ==
  IF Held(i, ArgPart) = {} THEN "none"
  ELSE IF \E k \in Calls : IsWhole(i, ArgPart, k)
  THEN said.args[CHOOSE k \in Calls : IsWhole(i, ArgPart, k)] ELSE "torn"

\* validate_tool_call, for a known tool.
Valid(tool, args) == args = "fit" \/ (args = "none" /\ tool = "lenient")

Correctable(tool) == tool = "terminal" /\ workflow

SlotFailure(i) ==
  IF Held(i, IdPart) = {} THEN "missing_call_id"
  ELSE IF Held(i, NamePart) = {} THEN "missing_function_name"
  ELSE IF ToolOf(i) = "unknown" THEN "unknown_tool"
  ELSE IF ArgsOf(i) \in {"torn", "no_object"} THEN "malformed_argument_json"
  ELSE IF ~Valid(ToolOf(i), ArgsOf(i)) /\ ~Correctable(ToolOf(i)) THEN "invalid_arguments"
  ELSE "none"

OneSlot == \E i \in Indexes : asm.slots = {i}
TheSlot == CHOOSE i \in Indexes : asm.slots = {i}

\* Mutant: reasoning beside a call is refused like text.
FailureOfAnyText ==
  IF asm.badIndex THEN "malformed_tool_call_index"
  ELSE IF asm.slots = {} THEN "zero_tool_calls"
  ELSE IF ~OneSlot THEN "parallel_or_multiple_tool_calls"
  ELSE IF server.chunks > 0 THEN "mixed_text_and_tool_call"
  ELSE SlotFailure(TheSlot)

\* In the order of finalize; reasoning is allowed beside a call.
Failure ==
  IF asm.badIndex THEN "malformed_tool_call_index"
  ELSE IF asm.slots = {}
  THEN IF asm.legacy THEN "legacy_text_tool_call" ELSE "zero_tool_calls"
  ELSE IF ~OneSlot THEN "parallel_or_multiple_tool_calls"
  ELSE IF asm.content THEN "mixed_text_and_tool_call"
  ELSE SlotFailure(TheSlot)

\* The stream ends, complete or not.
Finalize ==
  /\ pc = "stream"
  /\ turn' = [turn EXCEPT !.recorded = TRUE]
  /\ IF Failure = "none"
     THEN /\ call' = [tool |-> ToolOf(TheSlot), args |-> ArgsOf(TheSlot)]
          /\ pc' = "tool" /\ UNCHANGED outcome
     ELSE pc' = "over" /\ outcome' = Failure /\ UNCHANGED call
  /\ UNCHANGED <<said, workflow, server, asm>>

\* The agent loop hands the call to the toolbox, which validates once more; a
\* schema-invalid terminal goes to the controller of the contract.
Execute ==
  /\ pc = "tool" /\ pc' = "over"
  /\ outcome' = IF Valid(call.tool, call.args) THEN "executed"
                ELSE IF Correctable(call.tool) THEN "corrected"
                ELSE "invalid_tool_arguments"
  /\ UNCHANGED <<said, workflow, server, asm, turn, call>>

Next ==
  \/ Reasoning \/ Breaks \/ Finalize \/ Execute
  \/ \E legacy \in BOOLEAN : Content(legacy)
  \/ \E k \in Calls, m \in 0 .. Last, i \in Indexes \cup {BadIndex} : Fragment(k, m, i)

Spec == Init /\ [][Next]_vars

-----------------------------------------------------------------------------
(* Properties. *)

Failures ==
  {"malformed_tool_call_index", "legacy_text_tool_call", "zero_tool_calls",
   "parallel_or_multiple_tool_calls", "mixed_text_and_tool_call", "missing_call_id",
   "missing_function_name", "unknown_tool", "malformed_argument_json", "invalid_arguments"}

\* Every state is well formed.
TypeOK ==
  /\ said \in Turns
  /\ workflow \in BOOLEAN
  /\ pc \in {"stream", "tool", "over"}
  /\ server \in [sent : [Calls -> 0 .. Last], used : SUBSET Indexes,
                 text : BOOLEAN, strayed : BOOLEAN, chunks : 0 .. MaxChunks]
  /\ asm \in [slots : SUBSET Indexes,
              got : SUBSET [slot : Indexes, call : Calls, piece : 1 .. Last],
              content : BOOLEAN, legacy : BOOLEAN, delta : BOOLEAN, badIndex : BOOLEAN]
  /\ turn \in [first : BOOLEAN, outputs : Nat, recorded : BOOLEAN]
  /\ call \in [tool : Tools \ {"unknown"}, args : {"fit", "misfit", "none"}] \cup {NoCall}
  /\ outcome \in {"none", "executed", "corrected", "endpoint_error", "agent_runtime_error"}
                 \cup Failures

\* A call that reaches a tool or the controller is one the model said, by its
\* whole name, alone and without text, however the chunks of the turn were cut,
\* numbered and interleaved; its arguments are the model's or, when the stream
\* stopped before the first of them, none (ToolCallAssembler.finalize).
ExecutedAsSaid ==
  pc = "tool" \/ outcome \in {"executed", "corrected"} =>
    /\ ~server.text /\ ~server.strayed
    /\ \E k \in said.calls :
         /\ call.tool = said.tool[k]
         /\ \/ server.sent[k] = Last /\ call.args = said.args[k]
            \/ server.sent[k] = 1 + NamePieces /\ call.args = "none"
         /\ \A j \in Calls \ {k} : server.sent[j] <= 1

\* The converse: one complete and valid call, under one index and without text,
\* is executed, whatever came before, between and after its fragments, and the
\* toolbox agrees with the assembler.
CleanCallIsExecuted ==
  pc = "over" /\ outcome \notin {"endpoint_error", "agent_runtime_error"} =>
    \A k \in Calls :
      (/\ said.calls = {k} /\ server.sent[k] = Last
       /\ ~server.text /\ ~server.strayed /\ \E i \in Indexes : server.used = {i}
       /\ said.tool[k] # "unknown" /\ said.args[k] = "fit")
      => outcome = "executed"

\* A recorded turn has a time to first token exactly if the model put anything
\* out, a fragment that names nothing included, and its chunk count is that of
\* the text and reasoning chunks and one for the call (TurnRecord).
OutputIsTimed ==
  turn.recorded =>
    /\ turn.first <=> (server.chunks > 0 \/ server.used # {})
    /\ turn.outputs = server.chunks + (IF server.used # {} THEN 1 ELSE 0)
=============================================================================
