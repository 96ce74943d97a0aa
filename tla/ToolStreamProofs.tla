-------------------------- MODULE ToolStreamProofs --------------------------
(***************************************************************************)
(* Theorems about ToolStream: for any number of calls and indexes, and     *)
(* however finely the server cuts names and arguments.                     *)
(***************************************************************************)
EXTENDS ToolStream, TLAPS

(* What the assembler holds is what the server streamed under a usable     *)
(* index, each piece in a slot.                                            *)
InASlot(k, p) == \E i \in Indexes : [slot |-> i, call |-> k, piece |-> p] \in asm.got

Assembled ==
  /\ asm.badIndex <=> server.strayed
  /\ asm.content <=> server.text
  /\ asm.slots = server.used
  /\ asm.delta <=> asm.slots # {}
  /\ \A k \in Calls : server.sent[k] > 0 => k \in said.calls
  /\ \A e \in asm.got : e.slot \in asm.slots /\ e.piece <= server.sent[e.call]
  /\ ~asm.badIndex =>
       \A k \in Calls : \A p \in 1 .. server.sent[k] : InASlot(k, p)

(* Output events so far. *)
Timed ==
  /\ turn.first <=> (server.chunks > 0 \/ server.used # {})
  /\ turn.outputs = server.chunks + (IF server.used # {} THEN 1 ELSE 0)

(* Before the end of the stream there is no call and no outcome, and after *)
(* it there is no call but for a tool, which accepts it.                   *)
Placed ==
  /\ pc = "stream" => outcome = "none"
  /\ pc = "tool" =>
       /\ outcome = "none" /\ call # NoCall
       /\ Valid(call.tool, call.args) \/ Correctable(call.tool)
  /\ outcome \in {"executed", "corrected"} => pc = "over" /\ call # NoCall

IInv == TypeOK /\ Assembled /\ Timed /\ Placed /\ ExecutedAsSaid /\ CleanCallIsExecuted

-----------------------------------------------------------------------------
(* The pieces of a call. *)

LEMMA Parts ==
  /\ Last \in Nat /\ Last > 1 + NamePieces
  /\ IdPart \subseteq 1 .. Last /\ NamePart \subseteq 1 .. Last /\ ArgPart \subseteq 1 .. Last
  /\ \A p \in Nat : p \in NamePart <=> (2 <= p /\ p <= 1 + NamePieces)
  /\ \A p \in Nat : p \in ArgPart <=> (2 + NamePieces <= p /\ p <= Last)
  /\ 2 \in NamePart /\ 1 + NamePieces \in NamePart
  /\ 2 + NamePieces \in ArgPart /\ Last \in ArgPart
  /\ 1 \in IdPart
BY ToolStreamAssumption DEF Last, IdPart, NamePart, ArgPart

LEMMA WhatIsSaid ==
  ASSUME said \in Turns
  PROVE  /\ said.tool \in [Calls -> Tools]
         /\ said.args \in [Calls -> {"fit", "misfit", "no_object"}]
BY TurnsAssumption DEF Tools

(* With one slot and no unusable index, the slot holds all that was sent.  *)
LEMMA SlotHoldsAll ==
  ASSUME TypeOK, Assembled, ~asm.badIndex, NEW i \in Indexes, asm.slots = {i},
         NEW part \in SUBSET (1 .. Last)
  PROVE  /\ \A k \in Calls, p \in part :
              p <= server.sent[k] <=> [slot |-> i, call |-> k, piece |-> p] \in Held(i, part)
         /\ \A e \in Held(i, part) :
              /\ e.call \in Calls /\ e.piece \in part
              /\ e = [slot |-> i, call |-> e.call, piece |-> e.piece]
<1>1. asm.got \subseteq [slot : Indexes, call : Calls, piece : 1 .. Last]
  BY DEF TypeOK
<1>2. \A k \in Calls : server.sent[k] \in 0 .. Last  BY DEF TypeOK
<1>3. Last \in Nat  BY Parts
<1>4. ASSUME NEW k \in Calls, NEW p \in part
      PROVE  p <= server.sent[k] <=> [slot |-> i, call |-> k, piece |-> p] \in Held(i, part)
  <2>1. ASSUME p <= server.sent[k] PROVE [slot |-> i, call |-> k, piece |-> p] \in asm.got
    <3>1. p \in 1 .. server.sent[k]  BY <1>2, <1>3, <2>1
    <3>2. PICK j \in Indexes : [slot |-> j, call |-> k, piece |-> p] \in asm.got
      BY <3>1 DEF Assembled, InASlot
    <3>3. j \in asm.slots  BY <3>2 DEF Assembled
    <3> QED  BY <3>2, <3>3
  <2>2. ASSUME [slot |-> i, call |-> k, piece |-> p] \in asm.got PROVE p <= server.sent[k]
    BY <2>2 DEF Assembled
  <2> QED  BY <2>1, <2>2 DEF Held
<1>5. ASSUME NEW e \in Held(i, part)
      PROVE  /\ e.call \in Calls /\ e.piece \in part
             /\ e = [slot |-> i, call |-> e.call, piece |-> e.piece]
  BY <1>1, <1>5 DEF Held
<1> QED  BY <1>4, <1>5

(* A part that is whole for one call is not begun for another.             *)
LEMMA WholeIsAlone ==
  ASSUME TypeOK, Assembled, ~asm.badIndex, NEW i \in Indexes, asm.slots = {i},
         NEW part \in SUBSET (1 .. Last), NEW k \in Calls, IsWhole(i, part, k)
  PROVE  /\ \A p \in part : p <= server.sent[k]
         /\ \A j \in Calls \ {k} : \A p \in part : ~(p <= server.sent[j])
<1>1. \A p \in part : [slot |-> i, call |-> k, piece |-> p] \in Held(i, part)
  BY DEF IsWhole
<1>2. \A j \in Calls \ {k} : \A p \in part : [slot |-> i, call |-> j, piece |-> p] \notin Held(i, part)
  BY DEF IsWhole
<1> QED  BY <1>1, <1>2, SlotHoldsAll

(* What a call without failure is. *)
LEMMA NoFailure ==
  ASSUME TypeOK, Assembled, Failure = "none"
  PROVE  /\ ~server.text /\ ~server.strayed
         /\ Valid(ToolOf(TheSlot), ArgsOf(TheSlot)) \/ Correctable(ToolOf(TheSlot))
         /\ ToolOf(TheSlot) \in {"lenient", "strict", "terminal"}
         /\ ArgsOf(TheSlot) \in {"fit", "misfit", "none"}
         /\ \E k \in said.calls :
              /\ ToolOf(TheSlot) = said.tool[k]
              /\ \/ server.sent[k] = Last /\ ArgsOf(TheSlot) = said.args[k]
                 \/ server.sent[k] = 1 + NamePieces /\ ArgsOf(TheSlot) = "none"
              /\ \A j \in Calls \ {k} : server.sent[j] <= 1
<1>1. /\ ~asm.badIndex /\ ~asm.content /\ OneSlot /\ SlotFailure(TheSlot) = "none"
  BY DEF Failure
<1>2. PICK i : i = TheSlot /\ i \in Indexes /\ asm.slots = {i}
  BY <1>1 DEF OneSlot, TheSlot
<1>3. /\ ToolOf(i) # "unknown" /\ ArgsOf(i) \notin {"torn", "no_object"}
      /\ Valid(ToolOf(i), ArgsOf(i)) \/ Correctable(ToolOf(i))
  BY <1>1, <1>2 DEF SlotFailure
<1>4. PICK k \in Calls : IsWhole(i, NamePart, k) /\ ToolOf(i) = said.tool[k]
  BY <1>3 DEF ToolOf
<1>5. \A j \in Calls : server.sent[j] \in 0 .. Last  BY DEF TypeOK
<1>6. /\ 1 + NamePieces <= server.sent[k]
      /\ \A j \in Calls \ {k} : ~(2 <= server.sent[j])
  BY <1>1, <1>2, <1>4, Parts, WholeIsAlone
<1>7. /\ \A j \in Calls \ {k} : server.sent[j] <= 1
      /\ server.sent[k] > 0
  BY <1>5, <1>6, Parts, ToolStreamAssumption
<1>8. k \in said.calls  BY <1>7 DEF Assembled
<1>9. said.tool[k] \in Tools /\ said.args[k] \in {"fit", "misfit", "no_object"}
  BY WhatIsSaid DEF TypeOK
<1>10. \/ server.sent[k] = Last /\ ArgsOf(i) = said.args[k]
       \/ server.sent[k] = 1 + NamePieces /\ ArgsOf(i) = "none"
  <2>1. CASE Held(i, ArgPart) = {}
    <3>1. ~(2 + NamePieces <= server.sent[k])
      <4>1. ArgPart \in SUBSET (1 .. Last) /\ 2 + NamePieces \in ArgPart  BY Parts
      <4>2. \A p \in ArgPart : ~(p <= server.sent[k])
        <5>1. \A p \in ArgPart : [slot |-> i, call |-> k, piece |-> p] \notin Held(i, ArgPart)
          BY <2>1
        <5> QED  BY <1>1, <1>2, <4>1, <5>1, SlotHoldsAll
      <4> QED  BY <4>1, <4>2
    <3>2. server.sent[k] = 1 + NamePieces  BY <1>5, <1>6, <3>1, ToolStreamAssumption
    <3> QED  BY <2>1, <3>2 DEF ArgsOf
  <2>2. CASE Held(i, ArgPart) # {}
    <3>1. PICK j \in Calls : IsWhole(i, ArgPart, j) /\ ArgsOf(i) = said.args[j]
      BY <1>3, <2>2 DEF ArgsOf
    <3>2. Last <= server.sent[j]  BY <1>1, <1>2, <3>1, Parts, WholeIsAlone
    <3>3. j = k  BY <1>7, <3>2, Parts, <1>5, ToolStreamAssumption
    <3>4. server.sent[k] = Last  BY <1>5, <3>2, <3>3, Parts
    <3> QED  BY <3>1, <3>3, <3>4
  <2> QED  BY <2>1, <2>2
<1>11. ArgsOf(i) \in {"fit", "misfit", "none"}  BY <1>3, <1>9, <1>10
<1>12. ~server.text /\ ~server.strayed  BY <1>1 DEF Assembled
<1> QED  BY <1>2, <1>3, <1>4, <1>7, <1>8, <1>9, <1>10, <1>11, <1>12 DEF Tools

(* A complete, valid call by itself in its slot does not fail.             *)
LEMMA CleanDoesNotFail ==
  ASSUME TypeOK, Assembled, NEW k \in Calls, said.calls = {k}, server.sent[k] = Last,
         ~server.text, ~server.strayed, NEW i \in Indexes, server.used = {i},
         said.tool[k] # "unknown", said.args[k] = "fit"
  PROVE  Failure = "none"
<1>1. ~asm.badIndex /\ ~asm.content /\ asm.slots = {i}  BY DEF Assembled
<1>2. TheSlot = i /\ OneSlot  BY <1>1 DEF TheSlot, OneSlot
<1>3. \A j \in Calls \ {k} : server.sent[j] = 0
  BY DEF Assembled, TypeOK
<1>4. ASSUME NEW part \in SUBSET (1 .. Last), part # {} PROVE IsWhole(i, part, k) /\ Held(i, part) # {}
  <2>1. \A p \in part : [slot |-> i, call |-> k, piece |-> p] \in Held(i, part)
    BY <1>1, SlotHoldsAll, Parts
  <2>2. ASSUME NEW e \in Held(i, part)
        PROVE  \E p \in part : e = [slot |-> i, call |-> k, piece |-> p]
    <3>1. /\ e.call \in Calls /\ e.piece \in part /\ e.piece \in 1 .. Last
          /\ e = [slot |-> i, call |-> e.call, piece |-> e.piece]
      BY <1>1, SlotHoldsAll
    <3>2. e.piece <= server.sent[e.call]  BY <1>1, <3>1, SlotHoldsAll
    <3>3. e.call = k  BY <1>3, <3>1, <3>2
    <3> QED  BY <3>1, <3>3
  <2>3. IsWhole(i, part, k)  BY <2>1, <2>2 DEF IsWhole
  <2> QED  BY <1>4, <2>1, <2>3
<1>5. ASSUME NEW part \in SUBSET (1 .. Last), part # {}, NEW j \in Calls, IsWhole(i, part, j) PROVE j = k
  <2>1. PICK p \in part : p <= server.sent[j] /\ p \in 1 .. Last
    BY <1>1, <1>5, WholeIsAlone
  <2> QED  BY <1>3, <2>1
<1>6. /\ NamePart # {} /\ ArgPart # {} /\ IdPart # {}
      /\ NamePart \in SUBSET (1 .. Last) /\ ArgPart \in SUBSET (1 .. Last)
      /\ IdPart \in SUBSET (1 .. Last)
  BY Parts
<1>7. ToolOf(i) = said.tool[k]  BY <1>4, <1>5, <1>6 DEF ToolOf
<1>8. ArgsOf(i) = "fit"  BY <1>4, <1>5, <1>6 DEF ArgsOf
<1>9. SlotFailure(i) = "none"
  BY <1>4, <1>6, <1>7, <1>8 DEF SlotFailure, Valid
<1> QED  BY <1>1, <1>2, <1>9 DEF Failure

-----------------------------------------------------------------------------
(* The steps. *)

LEMMA FirstState == ASSUME Init PROVE IInv
<1>1. TypeOK
  <2>1. server \in [sent : [Calls -> 0 .. Last], used : SUBSET Indexes,
                   text : BOOLEAN, strayed : BOOLEAN, chunks : 0 .. MaxChunks]
    <3>1. 0 \in 0 .. Last /\ 0 \in 0 .. MaxChunks  BY Parts, ToolStreamAssumption
    <3> QED  BY <3>1 DEF Init
  <2>2. asm \in [slots : SUBSET Indexes,
                got : SUBSET [slot : Indexes, call : Calls, piece : 1 .. Last],
                content : BOOLEAN, legacy : BOOLEAN, delta : BOOLEAN, badIndex : BOOLEAN]
    BY DEF Init
  <2>3. turn \in [first : BOOLEAN, outputs : Nat, recorded : BOOLEAN]  BY DEF Init
  <2> QED  BY <2>1, <2>2, <2>3 DEF Init, TypeOK
<1>2. Assembled  BY DEF Init, Assembled
<1>3. Timed  BY DEF Init, Timed
<1>4. Placed /\ ExecutedAsSaid /\ CleanCallIsExecuted
  BY DEF Init, Placed, ExecutedAsSaid, CleanCallIsExecuted
<1> QED  BY <1>1, <1>2, <1>3, <1>4 DEF IInv

(* As long as the stream goes on, the last three say nothing.              *)
LEMMA StillStreaming ==
  ASSUME IInv, pc = "stream", pc' = pc, outcome' = outcome
  PROVE  Placed' /\ ExecutedAsSaid' /\ CleanCallIsExecuted'
BY DEF IInv, Placed, ExecutedAsSaid, CleanCallIsExecuted

(* An output event keeps the turn record well formed.                      *)
LEMMA OutputCounts ==
  ASSUME turn \in [first : BOOLEAN, outputs : Nat, recorded : BOOLEAN], OutputEvent
  PROVE  turn' \in [first : BOOLEAN, outputs : Nat, recorded : BOOLEAN]
<1>1. turn.outputs + 1 \in Nat  OBVIOUS
<1> QED  BY <1>1 DEF OutputEvent

LEMMA ReasoningStep == ASSUME IInv, Reasoning PROVE IInv'
<1>1. TypeOK'
  <2>1. server.chunks + 1 \in 0 .. MaxChunks
    BY ToolStreamAssumption DEF IInv, TypeOK, Reasoning
  <2>2. server' \in [sent : [Calls -> 0 .. Last], used : SUBSET Indexes,
                    text : BOOLEAN, strayed : BOOLEAN, chunks : 0 .. MaxChunks]
    BY <2>1 DEF IInv, TypeOK, Reasoning
  <2>3. turn' \in [first : BOOLEAN, outputs : Nat, recorded : BOOLEAN]
    BY OutputCounts DEF IInv, TypeOK, Reasoning
  <2> QED  BY <2>2, <2>3 DEF IInv, TypeOK, Reasoning
<1>2. Assembled'  BY DEF IInv, TypeOK, Assembled, InASlot, Reasoning
<1>3. Timed'
  BY DEF IInv, TypeOK, Timed, Reasoning, OutputEvent
<1> QED  BY <1>1, <1>2, <1>3, StillStreaming DEF IInv, Reasoning

LEMMA ContentStep == ASSUME IInv, NEW legacy \in BOOLEAN, Content(legacy) PROVE IInv'
<1>1. TypeOK'
  <2>1. server.chunks + 1 \in 0 .. MaxChunks
    BY ToolStreamAssumption DEF IInv, TypeOK, Content
  <2>2. server' \in [sent : [Calls -> 0 .. Last], used : SUBSET Indexes,
                    text : BOOLEAN, strayed : BOOLEAN, chunks : 0 .. MaxChunks]
    BY <2>1 DEF IInv, TypeOK, Content
  <2>3. turn' \in [first : BOOLEAN, outputs : Nat, recorded : BOOLEAN]
    BY OutputCounts DEF IInv, TypeOK, Content
  <2>4. (asm.legacy \/ legacy) \in BOOLEAN  OBVIOUS
  <2>5. asm' \in [slots : SUBSET Indexes,
                 got : SUBSET [slot : Indexes, call : Calls, piece : 1 .. Last],
                 content : BOOLEAN, legacy : BOOLEAN, delta : BOOLEAN, badIndex : BOOLEAN]
    BY <2>4 DEF IInv, TypeOK, Content
  <2> QED  BY <2>2, <2>3, <2>5 DEF IInv, TypeOK, Content
<1>2. Assembled'  BY DEF IInv, TypeOK, Assembled, InASlot, Content
<1>3. Timed'
  BY DEF IInv, TypeOK, Timed, Content, OutputEvent
<1> QED  BY <1>1, <1>2, <1>3, StillStreaming DEF IInv, Content

LEMMA FragmentStep ==
  ASSUME IInv, NEW k \in Calls, NEW m \in 0 .. Last, NEW i \in Indexes \cup {BadIndex},
         Fragment(k, m, i)
  PROVE  IInv'
<1> DEFINE new == {[slot |-> i, call |-> k, piece |-> p] :
                     p \in (server.sent[k] + 1) .. (server.sent[k] + m)}
<1>1. /\ server.sent \in [Calls -> 0 .. Last] /\ server.sent[k] + m \in 0 .. Last
      /\ m \in Nat /\ Last \in Nat /\ server.sent[k] \in Nat
  BY Parts DEF IInv, TypeOK, Fragment
<1>2. /\ server'.sent = [server.sent EXCEPT ![k] = @ + m]
      /\ server'.strayed = (server.strayed \/ i = BadIndex)
      /\ server'.used = IF i = BadIndex THEN server.used ELSE server.used \cup {i}
      /\ server'.text = server.text /\ server'.chunks = server.chunks
      /\ server' \in [sent : [Calls -> 0 .. Last], used : SUBSET Indexes,
                      text : BOOLEAN, strayed : BOOLEAN, chunks : 0 .. MaxChunks]
  BY <1>1 DEF IInv, TypeOK, Fragment
<1>3. k \in said.calls /\ said' = said /\ workflow' = workflow /\ call' = call
      /\ pc = "stream" /\ pc' = pc /\ outcome' = outcome
  BY DEF Fragment
<1>4. CASE i = BadIndex
  <2>1. asm' = [asm EXCEPT !.badIndex = TRUE] /\ turn' = turn
    BY <1>4 DEF Fragment, SlotOf
  <2>2. /\ asm'.badIndex /\ asm'.slots = asm.slots /\ asm'.got = asm.got
        /\ asm'.content = asm.content /\ asm'.delta = asm.delta
        /\ asm' \in [slots : SUBSET Indexes,
              got : SUBSET [slot : Indexes, call : Calls, piece : 1 .. Last],
              content : BOOLEAN, legacy : BOOLEAN, delta : BOOLEAN, badIndex : BOOLEAN]
    BY <2>1 DEF IInv, TypeOK
  <2>3. TypeOK'  BY <1>2, <1>3, <2>1, <2>2 DEF IInv, TypeOK
  <2>4. \A e \in asm.got : e.piece <= server'.sent[e.call]
    <3>1. ASSUME NEW e \in asm.got PROVE e.piece <= server'.sent[e.call]
      <4>1. e.call \in Calls /\ e.piece \in Nat /\ e.piece <= server.sent[e.call]
        BY DEF IInv, TypeOK, Assembled
      <4> QED  BY <1>1, <1>2, <4>1
    <3> QED  BY <3>1
  <2>5. \A j \in Calls : server'.sent[j] > 0 => j \in said.calls
    BY <1>1, <1>2, <1>3 DEF IInv, Assembled
  <2>6. Assembled'
    BY <1>2, <1>3, <1>4, <2>2, <2>4, <2>5 DEF IInv, Assembled
  <2>7. Timed'  BY <1>2, <1>4, <2>1 DEF IInv, Timed
  <2> QED  BY <1>3, <2>3, <2>6, <2>7, StillStreaming DEF IInv
<1>5. CASE i # BadIndex
  <2>1. asm' = [asm EXCEPT !.slots = @ \cup {i}, !.got = @ \cup new, !.delta = TRUE]
    BY <1>5 DEF Fragment, SlotOf
  <2>2. new \subseteq [slot : Indexes, call : Calls, piece : 1 .. Last]
    BY <1>1, <1>5
  <2> HIDE DEF new
  <2>3. /\ asm'.badIndex = asm.badIndex /\ asm'.slots = asm.slots \cup {i}
        /\ asm'.got = asm.got \cup new /\ asm'.content = asm.content /\ asm'.delta
        /\ asm' \in [slots : SUBSET Indexes,
              got : SUBSET [slot : Indexes, call : Calls, piece : 1 .. Last],
              content : BOOLEAN, legacy : BOOLEAN, delta : BOOLEAN, badIndex : BOOLEAN]
    BY <1>5, <2>1, <2>2 DEF IInv, TypeOK
  <2>4. turn' = IF asm.delta THEN turn ELSE [turn EXCEPT !.first = TRUE, !.outputs = @ + 1]
    BY <1>5 DEF Fragment, SlotOf, FirstDelta, OutputEvent
  <2>5. turn' \in [first : BOOLEAN, outputs : Nat, recorded : BOOLEAN]
    <3>1. CASE asm.delta  BY <2>4, <3>1 DEF IInv, TypeOK
    <3>2. CASE ~asm.delta
      <4>1. OutputEvent  BY <2>4, <3>2 DEF OutputEvent
      <4> QED  BY <4>1, OutputCounts DEF IInv, TypeOK
    <3> QED  BY <3>1, <3>2
  <2>6. TypeOK'  BY <1>2, <1>3, <2>3, <2>5 DEF IInv, TypeOK
  <2>7. ASSUME NEW e \in asm.got \cup new
        PROVE  e.slot \in asm'.slots /\ e.piece <= server'.sent[e.call]
    <3>1. CASE e \in asm.got
      <4>1. /\ e.call \in Calls /\ e.piece \in Nat /\ e.piece <= server.sent[e.call]
            /\ e.slot \in asm.slots
        BY <3>1 DEF IInv, TypeOK, Assembled
      <4> QED  BY <1>1, <1>2, <2>3, <4>1
    <3>2. CASE e \in new
      <4>1. PICK p \in (server.sent[k] + 1) .. (server.sent[k] + m) :
              e = [slot |-> i, call |-> k, piece |-> p]
        BY <3>2 DEF new
      <4> QED  BY <1>1, <1>2, <2>3, <4>1
    <3> QED  BY <2>7, <3>1, <3>2
  <2>8. ASSUME ~asm.badIndex, NEW j \in Calls, NEW p \in 1 .. server'.sent[j]
        PROVE  \E s \in Indexes : [slot |-> s, call |-> j, piece |-> p] \in asm.got \cup new
    <3>1. CASE p \in 1 .. server.sent[j]
      BY <2>8, <3>1 DEF IInv, Assembled, InASlot
    <3>2. CASE p \notin 1 .. server.sent[j]
      <4>1. j = k /\ p \in (server.sent[k] + 1) .. (server.sent[k] + m)
        BY <1>1, <1>2, <2>8, <3>2
      <4> QED  BY <1>5, <4>1 DEF new
    <3> QED  BY <3>1, <3>2
  <2>9. \A j \in Calls : server'.sent[j] > 0 => j \in said.calls
    BY <1>1, <1>2, <1>3 DEF IInv, Assembled
  <2>10. Assembled'
    BY <1>2, <1>3, <1>5, <2>3, <2>7, <2>8, <2>9 DEF IInv, Assembled, InASlot
  <2>11. Timed'
    <3>1. /\ server'.used # {} /\ server'.chunks = server.chunks /\ server.chunks \in Nat
          /\ asm.delta <=> server.used # {}
          /\ turn.outputs \in Nat
      BY <1>2, <1>5, ToolStreamAssumption DEF IInv, TypeOK, Assembled
    <3>2. CASE asm.delta  BY <2>4, <3>1, <3>2 DEF IInv, Timed
    <3>3. CASE ~asm.delta
      <4>1. turn'.first /\ turn'.outputs = turn.outputs + 1
        BY <2>4, <3>3 DEF IInv, TypeOK
      <4> QED  BY <3>1, <3>3, <4>1 DEF IInv, Timed
    <3> QED  BY <3>2, <3>3
  <2> QED  BY <1>3, <2>6, <2>10, <2>11, StillStreaming DEF IInv
<1> QED  BY <1>4, <1>5

LEMMA BreaksStep == ASSUME IInv, Breaks PROVE IInv'
<1>1. TypeOK'  BY DEF IInv, TypeOK, Breaks
<1>2. Assembled' /\ Timed'  BY DEF IInv, Assembled, InASlot, Timed, Breaks
<1>3. Placed' /\ ExecutedAsSaid' /\ CleanCallIsExecuted'
  BY DEF IInv, Placed, ExecutedAsSaid, CleanCallIsExecuted, Breaks
<1> QED  BY <1>1, <1>2, <1>3 DEF IInv

LEMMA FinalizeStep == ASSUME IInv, Finalize PROVE IInv'
<1>1. /\ turn' = [turn EXCEPT !.recorded = TRUE] /\ pc = "stream"
      /\ UNCHANGED <<said, workflow, server, asm>>
  BY DEF Finalize
<1>2. turn' \in [first : BOOLEAN, outputs : Nat, recorded : BOOLEAN]
      /\ turn'.first = turn.first /\ turn'.outputs = turn.outputs
  BY <1>1 DEF IInv, TypeOK
<1>3. Assembled'  BY <1>1 DEF IInv, Assembled, InASlot
<1>4. Timed'  BY <1>1, <1>2 DEF IInv, Timed
<1>5. CASE Failure = "none"
  <2>1. /\ call' = [tool |-> ToolOf(TheSlot), args |-> ArgsOf(TheSlot)]
        /\ pc' = "tool" /\ outcome' = outcome /\ outcome = "none"
    BY <1>1, <1>5 DEF Finalize, IInv, Placed
  <2>2. call'.tool = ToolOf(TheSlot) /\ call'.args = ArgsOf(TheSlot)  BY <2>1
  <2>3. /\ ~server.text /\ ~server.strayed
        /\ ToolOf(TheSlot) \in {"lenient", "strict", "terminal"}
        /\ ArgsOf(TheSlot) \in {"fit", "misfit", "none"}
        /\ \E k \in said.calls :
             /\ ToolOf(TheSlot) = said.tool[k]
             /\ \/ server.sent[k] = Last /\ ArgsOf(TheSlot) = said.args[k]
                \/ server.sent[k] = 1 + NamePieces /\ ArgsOf(TheSlot) = "none"
             /\ \A j \in Calls \ {k} : server.sent[j] <= 1
    BY <1>5, NoFailure DEF IInv
  <2>4. call' \in [tool : {"lenient", "strict", "terminal"}, args : {"fit", "misfit", "none"}]
    BY <2>1, <2>3
  <2>5. TypeOK'  BY <1>1, <1>2, <2>1, <2>4 DEF IInv, TypeOK, Tools
  <2>6. call' # NoCall  BY <2>4, ToolStreamAssumption
  <2>7. Placed'
    <3>1. (Valid(call.tool, call.args) \/ Correctable(call.tool))'
      BY <1>1, <1>5, <2>2, NoFailure DEF IInv, Valid, Correctable
    <3> QED  BY <2>1, <2>6, <3>1 DEF Placed
  <2>8. ExecutedAsSaid'  BY <1>1, <2>2, <2>3 DEF ExecutedAsSaid
  <2>9. CleanCallIsExecuted'  BY <2>1 DEF CleanCallIsExecuted
  <2> QED  BY <1>3, <1>4, <2>5, <2>7, <2>8, <2>9 DEF IInv
<1>6. CASE Failure # "none"
  <2>1. pc' = "over" /\ outcome' = Failure /\ call' = call
    BY <1>1, <1>6 DEF Finalize
  <2>2. Failure \in Failures  BY <1>6 DEF Failure, SlotFailure, Failures
  <2>3. TypeOK'  BY <1>1, <1>2, <2>1, <2>2 DEF IInv, TypeOK
  <2>4. outcome' \notin {"none", "executed", "corrected"}  BY <2>1, <2>2 DEF Failures
  <2>5. Placed' /\ ExecutedAsSaid'  BY <2>1, <2>4 DEF Placed, ExecutedAsSaid
  <2>6. CleanCallIsExecuted'
    BY <1>1, <1>6, CleanDoesNotFail DEF IInv, CleanCallIsExecuted
  <2> QED  BY <1>3, <1>4, <2>3, <2>5, <2>6 DEF IInv
<1> QED  BY <1>5, <1>6

LEMMA ExecuteStep == ASSUME IInv, Execute PROVE IInv'
<1>1. /\ pc = "tool" /\ pc' = "over" /\ UNCHANGED <<said, workflow, server, asm, turn, call>>
      /\ outcome' = IF Valid(call.tool, call.args) THEN "executed"
                    ELSE IF Correctable(call.tool) THEN "corrected" ELSE "invalid_tool_arguments"
  BY DEF Execute
<1>2. Valid(call.tool, call.args) \/ Correctable(call.tool)
  BY <1>1 DEF IInv, Placed
<1>3. outcome' \in {"executed", "corrected"}  BY <1>1, <1>2
<1>4. TypeOK'  BY <1>1, <1>3 DEF IInv, TypeOK
<1>5. Assembled' /\ Timed'  BY <1>1 DEF IInv, Assembled, InASlot, Timed
<1>6. Placed' /\ ExecutedAsSaid'  BY <1>1, <1>3 DEF IInv, Placed, ExecutedAsSaid
<1>7. CleanCallIsExecuted'
  <2>1. ASSUME NEW k \in Calls, said.calls = {k}, server.sent[k] = Last, said.args[k] = "fit"
        PROVE  outcome' = "executed"
    <3>1. call.args = "fit"
      BY <1>1, <2>1, Parts DEF IInv, ExecutedAsSaid
    <3> QED  BY <1>1, <3>1 DEF Valid
  <2> QED  BY <1>1, <2>1 DEF CleanCallIsExecuted
<1> QED  BY <1>4, <1>5, <1>6, <1>7 DEF IInv

LEMMA Inductive == Spec => []IInv
<1>1. Init => IInv  BY FirstState
<1>2. ASSUME IInv, [Next]_vars PROVE IInv'
  <2>1. CASE UNCHANGED vars
    <3>1. /\ said' = said /\ workflow' = workflow /\ pc' = pc /\ server' = server
          /\ asm' = asm /\ turn' = turn /\ call' = call /\ outcome' = outcome
      BY <2>1 DEF vars
    <3>4. TypeOK'  BY <1>2, <3>1 DEF IInv, TypeOK
    <3>5. Assembled'  BY <1>2, <3>1 DEF IInv, Assembled, InASlot
    <3>2. Timed' /\ Placed'  BY <1>2, <2>1 DEF vars, IInv, Timed, Placed, Valid, Correctable
    <3>3. ExecutedAsSaid' /\ CleanCallIsExecuted'
      BY <1>2, <2>1 DEF vars, IInv, ExecutedAsSaid, CleanCallIsExecuted
    <3> QED  BY <3>2, <3>3, <3>4, <3>5 DEF IInv
  <2> QED
    BY <1>2, <2>1, ReasoningStep, ContentStep, FragmentStep, BreaksStep, FinalizeStep, ExecuteStep
       DEF Next
<1> QED  BY <1>1, <1>2, PTL DEF Spec

(* Every state is well formed; among the outcomes there is no second       *)
(* refusal: what the assembler accepts, the toolbox accepts too.           *)
THEOREM TypeCorrect == Spec => []TypeOK
<1>1. IInv => TypeOK  BY DEF IInv
<1> QED  BY <1>1, Inductive, PTL

(* A call that reaches a tool or the controller is the one call the model  *)
(* said, however its turn was cut, numbered and interleaved; only its      *)
(* arguments may be missing, and then all of them.                         *)
THEOREM ExecutesWhatWasSaid == Spec => []ExecutedAsSaid
<1>1. IInv => ExecutedAsSaid  BY DEF IInv
<1> QED  BY <1>1, Inductive, PTL

(* One complete, valid call under one index is executed, whatever reasoning*)
(* surrounds it.                                                           *)
THEOREM CleanCallsRun == Spec => []CleanCallIsExecuted
<1>1. IInv => CleanCallIsExecuted  BY DEF IInv
<1> QED  BY <1>1, Inductive, PTL

(* A recorded turn is timed and counted by what the server put out.        *)
THEOREM RecordedTurnsAreTimed == Spec => []OutputIsTimed
<1>1. IInv => OutputIsTimed  BY DEF IInv, Timed, OutputIsTimed
<1> QED  BY <1>1, Inductive, PTL
=============================================================================
