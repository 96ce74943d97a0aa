------------------------------ MODULE Custody ------------------------------
(***************************************************************************)
(* The sealed-set custody location: a directory outside every repository   *)
(* into which `sealed-sets import-bundles` writes one approved task set,   *)
(* and from which a qualification stage later reads its own half.          *)
(*                                                                         *)
(* Every run of the import command is an attempt.  Attempts share nothing  *)
(* but the directory: there is no lock, only O_EXCL creation and mkdir, so *)
(* attempts, their scrubs and the stage readers interleave file by file.   *)
(* A file's bytes are abstracted to the set they were derived from and to  *)
(* whether they were written out completely; a digest comparison succeeds  *)
(* exactly when a complete file belongs to the expected set.               *)
(***************************************************************************)
EXTENDS Integers, FiniteSets, Sequences

CONSTANTS Attempts,         \* runs of the import command
          Readers,          \* stage loads by qualify-agent
          Sets,             \* approved task sets that may be imported
          TASKS_PER_STAGE,  \* blobs in each stage
          MaxRunning,       \* environment: import commands running at once
          Stubborn,         \* environment: paths a scrub may fail to list or remove
          NoSet, NoPath, Unreadable

ASSUME CustodyAssumption ==
  /\ TASKS_PER_STAGE \in Nat \ {0}
  /\ MaxRunning \in Nat
  /\ NoSet \notin Sets

STAGES == {"development", "holdout"}

VARIABLES tree,       \* existing path -> who created it and whether it is complete
          att,        \* the import attempts
          rd,         \* the stage readers
          contended   \* two attempts have been past _prepare_destination at once

vars == <<tree, att, rd, contended>>

-----------------------------------------------------------------------------
(* Layout of the custody directory. *)

Root     == <<"root">>
Private  == <<"private">>
Manifest == <<"manifest">>
Receipt  == <<"receipt">>
StageDir(st) == <<"stage", st>>
BlobDir(st)  == <<"blobs", st>>
Index(st)    == <<"index", st>>
Blob(st, s, i) == <<"blob", st, s, i>>

BlobsOf(s, st) == {Blob(st, s, i) : i \in 1..TASKS_PER_STAGE}
StagePart(s, st) == {StageDir(st), BlobDir(st)} \cup BlobsOf(s, st)
Body(s) == {Private} \cup UNION {StagePart(s, st) : st \in STAGES}
Indexes == {Index(st) : st \in STAGES}
Package(s) == Body(s) \cup Indexes \cup {Manifest, Receipt}
Paths == {Root} \cup UNION {Package(s) : s \in Sets}

ASSUME NoPathAssumption == NoPath \notin Paths

IsDir(p) == p[1] \in {"root", "private", "stage", "blobs"}

Parent(p) ==
  CASE p[1] \in {"private", "manifest", "receipt"} -> Root
    [] p[1] = "stage" -> Private
    [] p[1] \in {"blobs", "index"} -> StageDir(p[2])
    [] p[1] = "blob" -> BlobDir(p[2])
    [] OTHER -> NoPath

(* A path and the directories above it. *)
Above(q) ==
  CASE q[1] = "root" -> {q}
    [] q[1] \in {"private", "manifest", "receipt"} -> {Root, q}
    [] q[1] = "stage" -> {Root, Private, q}
    [] q[1] \in {"blobs", "index"} -> {Root, Private, StageDir(q[2]), q}
    [] q[1] = "blob" -> {Root, Private, StageDir(q[2]), BlobDir(q[2]), q}

Exists(p) == p \in DOMAIN tree
Children(p) == {q \in DOMAIN tree : Parent(q) = p}
Complete(p) == Exists(p) /\ tree[p].whole

(* The set a complete index, manifest or receipt was derived from. *)
Content(p) == IF Complete(p) THEN att[tree[p].by].set ELSE Unreadable

Put(p, a, whole) ==
  [q \in DOMAIN tree \cup {p} |->
     IF q = p THEN [by |-> a, whole |-> whole] ELSE tree[q]]
Drop(p) == [q \in DOMAIN tree \ {p} |-> tree[q]]

-----------------------------------------------------------------------------
(* An attempt: what it has written, what it re-reads, what it scrubs and   *)
(* what its scrub could not list or remove.                                *)

NewAttempt ==
  [pc |-> "new", set |-> NoSet, created |-> FALSE, wrote |-> {}, opening |-> NoPath,
   pos |-> 1, seen |-> NoSet, todo |-> {}, stack |-> <<>>, stuck |-> {}]

NewReader ==
  [pc |-> "new", stage |-> "development", bound |-> NoSet, pos |-> 1,
   idx |-> NoSet, got |-> {}]

Trying   == {"writing", "readback", "sealing", "verifying"}   \* inside the try block
Inside   == Trying \cup {"scrubbing"}
Running  == Inside \cup {"making"}
Finished == {"done", "failed", "refused", "killed", "half_scrubbed"}

\* Mutant: the manifest is sealed before the indexes.
BeforeManifestEarly(s, p) ==
  CASE p = Private -> {}
    [] p = StageDir("development") -> {Private}
    [] p = StageDir("holdout") -> {Private} \cup StagePart(s, "development")
    [] p[1] = "blobs" -> {StageDir(p[2])}
    [] p[1] = "blob" -> {BlobDir(p[2])} \cup {Blob(p[2], s, j) : j \in 1..(p[4] - 1)}
    [] p = Manifest -> Body(s)
    [] OTHER -> Body(s) \cup {Manifest}

(* The write order: what must be on disk before p is created. *)
Before(s, p) ==
  CASE p = Private -> {}
    [] p = StageDir("development") -> {Private}
    [] p = StageDir("holdout") -> {Private} \cup StagePart(s, "development")
    [] p[1] = "blobs" -> {StageDir(p[2])}
    [] p[1] = "blob" -> {BlobDir(p[2])} \cup {Blob(p[2], s, j) : j \in 1..(p[4] - 1)}
    [] p = Index("development") -> Body(s)
    [] p = Index("holdout") -> Body(s) \cup {Index("development")}
    [] p = Manifest -> Body(s) \cup Indexes
    [] p = Receipt -> Body(s) \cup Indexes \cup {Manifest}
    [] OTHER -> {}

(* The paths each writing phase creates. *)
PhasePaths(me) == IF me.pc = "writing" THEN Body(me.set)
                  ELSE Indexes \cup {Manifest, Receipt}

MayWrite(me, p) ==
  /\ me.opening = NoPath
  /\ p \in PhasePaths(me) \ me.wrote
  /\ Before(me.set, p) \subseteq me.wrote

(* The order of the reads of a sequence of paths per stage. *)
BlobSeq(s, st) == [i \in 1..TASKS_PER_STAGE |-> Blob(st, s, i)]
ReadbackPlan(s) == BlobSeq(s, "development") \o BlobSeq(s, "holdout")
VerifyPlan(s) ==
  <<Index("development")>> \o BlobSeq(s, "development")
  \o <<Index("holdout")>> \o BlobSeq(s, "holdout")
  \o <<BlobDir("development"), StageDir("development"),
       BlobDir("holdout"), StageDir("holdout"), Private, Receipt>>

(* What the exact-contents checks of _check_all_stages expect of a directory. *)
Listing(s, p) ==
  CASE p[1] = "blobs" -> BlobsOf(s, p[2])
    [] p[1] = "stage" -> {Index(p[2]), BlobDir(p[2])}
    [] OTHER -> {StageDir(st) : st \in STAGES}

\* Mutant: the index is not compared with the digest in the manifest.
IndexUndigested(s, st) ==
  Exists(Private) /\ Exists(StageDir(st)) /\ Exists(BlobDir(st)) /\ Complete(Index(st))

(* load_stage_index: the private directories exist and the index is the    *)
(* one whose digest the manifest of set s records.                         *)
IndexAccepted(s, st) ==
  /\ Exists(Private) /\ Exists(StageDir(st)) /\ Exists(BlobDir(st))
  /\ Content(Index(st)) = s

(* One read of the full verification of set s. *)
VerifyOK(s, p) ==
  CASE p[1] = "index" -> IndexAccepted(s, p[2])
    [] p[1] = "blob" -> Complete(p)
    [] p = Receipt -> Content(Receipt) = s
    [] OTHER -> Exists(p) /\ Children(p) = Listing(s, p)

-----------------------------------------------------------------------------
\* Mutant: a destination the attempt did not create is not scrubbed.
ScrubCreatedOnly(me) == IF me.created THEN {Root} \cap DOMAIN tree ELSE {}

(* Scrubbing starts with what the attempt is entitled to remove: the root  *)
(* when it created it, the root's present children otherwise.              *)
ScrubTargets(me) == IF me.created THEN {Root} \cap DOMAIN tree ELSE Children(Root)

(* What the attempt knew of its own progress is no longer used.            *)
StartScrub(a) ==
  att' = [att EXCEPT ![a] = [NewAttempt EXCEPT !.pc = "scrubbing", !.set = att[a].set,
                                               !.todo = ScrubTargets(att[a])]]

(* The attempt's process ends; only its verdict, its set and what its      *)
(* scrub could not remove matter now.                                      *)
End(a, pc) ==
  [att EXCEPT ![a] = [NewAttempt EXCEPT !.pc = pc, !.set = att[a].set,
                                        !.stuck = att[a].stuck]]

(* Contention: a second attempt passes _prepare_destination. *)
Enter(a) == contended' = (contended \/ \E b \in Attempts \ {a} : att[b].pc \in Inside)

\* Mutant: an existing destination is taken without looking into it.
LookPresent == Exists(Root)

(* _prepare_destination looks at the destination. *)
LookEmpty == Exists(Root) /\ Children(Root) = {}
LookAbsent == ~Exists(Root)

(* A manifest of the same set or any other content: "replay" and           *)
(* "destination-nonempty"; either way nothing is touched.                  *)
LookRefused == ~LookAbsent /\ ~LookEmpty

Prepare(a) ==
  /\ att[a].pc = "new"
  /\ Cardinality({b \in Attempts : att[b].pc \in Running}) < MaxRunning
  /\ \E s \in Sets :
       \/ /\ LookAbsent
          /\ att' = [att EXCEPT ![a].pc = "making", ![a].set = s]
          /\ UNCHANGED contended
       \/ /\ LookEmpty
          /\ att' = [att EXCEPT ![a].pc = "writing", ![a].set = s]
          /\ Enter(a)
       \/ /\ LookRefused
          /\ att' = End(a, "refused")
          /\ UNCHANGED contended
  /\ UNCHANGED <<tree, rd>>

(* mkdir of an absent destination; losing that race is an error outside    *)
(* the try block and scrubs nothing.                                       *)
MakeRoot(a) ==
  /\ att[a].pc = "making"
  /\ IF Exists(Root)
     THEN /\ att' = End(a, "refused")
          /\ UNCHANGED <<tree, contended>>
     ELSE /\ tree' = Put(Root, a, TRUE)
          /\ att' = [att EXCEPT ![a].pc = "writing", ![a].created = TRUE]
          /\ Enter(a)
  /\ UNCHANGED rd

(* mkdir fails when the name is taken or its parent is gone. *)
CanCreate(p) == ~Exists(p) /\ Exists(Parent(p))

MakeDir(a) ==
  /\ att[a].pc = "writing"
  /\ \E p \in Body(att[a].set) :
       /\ IsDir(p) /\ MayWrite(att[a], p)
       /\ IF CanCreate(p)
          THEN tree' = Put(p, a, TRUE) /\ att' = [att EXCEPT ![a].wrote = @ \cup {p}]
          ELSE StartScrub(a) /\ UNCHANGED tree
  /\ UNCHANGED <<rd, contended>>

(* _write_bytes, first half: O_CREAT | O_EXCL leaves an empty file. *)
OpenFile(a) ==
  /\ att[a].pc \in {"writing", "sealing"}
  /\ \E p \in PhasePaths(att[a]) :
       /\ ~IsDir(p) /\ MayWrite(att[a], p)
       /\ IF CanCreate(p)
          THEN tree' = Put(p, a, FALSE) /\ att' = [att EXCEPT ![a].opening = p]
          ELSE StartScrub(a) /\ UNCHANGED tree
  /\ UNCHANGED <<rd, contended>>

(* _write_bytes, second half: the bytes go to the inode that was opened;   *)
(* chmod by name fails when the name has been removed meanwhile.           *)
FillFile(a) ==
  LET p == att[a].opening IN
  /\ att[a].pc \in {"writing", "sealing"}
  /\ p # NoPath
  /\ IF Exists(p)
     THEN /\ tree' = IF tree[p].by = a THEN Put(p, a, TRUE) ELSE tree
          /\ att' = [att EXCEPT ![a].opening = NoPath, ![a].wrote = @ \cup {p}]
     ELSE StartScrub(a) /\ UNCHANGED tree
  /\ UNCHANGED <<rd, contended>>

(* All blobs written: the "before-manifest" checkpoint. *)
BodyWritten(a) ==
  /\ att[a].pc = "writing" /\ Body(att[a].set) \subseteq att[a].wrote
  /\ att' = [att EXCEPT ![a].pc = "readback", ![a].pos = 1]
  /\ UNCHANGED <<tree, rd, contended>>

(* Re-read one blob and compare its digest before anything is sealed. *)
Readback(a) ==
  LET plan == ReadbackPlan(att[a].set) IN
  /\ att[a].pc = "readback"
  /\ IF Complete(plan[att[a].pos])
     THEN att' = IF att[a].pos < Len(plan) THEN [att EXCEPT ![a].pos = @ + 1]
                 ELSE [att EXCEPT ![a].pc = "sealing", ![a].pos = 1]
     ELSE StartScrub(a)
  /\ UNCHANGED <<tree, rd, contended>>

\* Mutant: the manifest is trusted without reading it back.
VerifyUnread(a) ==
  /\ att[a].pc = "sealing" /\ Package(att[a].set) \subseteq att[a].wrote
  /\ att' = [att EXCEPT ![a].pc = "verifying", ![a].pos = 1, ![a].seen = Content(Manifest)]
  /\ UNCHANGED <<tree, rd, contended>>

(* verify_custody, first part: the root, and the manifest that says which  *)
(* set the rest is held against.  The walk over file modes is not modelled:*)
(* modes never change, and a name that vanishes under it is an IOError.    *)
VerifyManifest(a) ==
  /\ att[a].pc = "sealing" /\ Package(att[a].set) \subseteq att[a].wrote
  /\ IF Exists(Root) /\ Complete(Manifest)
     THEN att' = [att EXCEPT ![a].pc = "verifying", ![a].pos = 1,
                             ![a].seen = Content(Manifest)]
     ELSE StartScrub(a)
  /\ UNCHANGED <<tree, rd, contended>>

(* verify_custody, one further read; after the last the receipt is emitted.*)
Verify(a) ==
  LET plan == VerifyPlan(att[a].seen) IN
  /\ att[a].pc = "verifying"
  /\ IF VerifyOK(att[a].seen, plan[att[a].pos])
     THEN att' = IF att[a].pos < Len(plan) THEN [att EXCEPT ![a].pos = @ + 1]
                 ELSE [End(a, "done") EXCEPT ![a].seen = att[a].seen]
     ELSE StartScrub(a)
  /\ UNCHANGED <<tree, rd, contended>>

(* Any other exception inside the try block (a full disk, an I/O error,    *)
(* a raising checkpoint): the attempt scrubs.                              *)
IOError(a) ==
  /\ att[a].pc \in Trying
  /\ StartScrub(a)
  /\ UNCHANGED <<tree, rd, contended>>

(* The process dies, or Ctrl-C raises KeyboardInterrupt, which neither     *)
(* except clause catches: nothing more is done.                            *)
Kill(a) ==
  /\ att[a].pc \in Running
  /\ att' = End(a, IF att[a].pc = "scrubbing" THEN "half_scrubbed" ELSE "killed")
  /\ UNCHANGED <<tree, rd, contended>>

(* The entries the scrub now works on: those of the directory it is in. *)
Pending(me) ==
  IF me.stack = <<>> THEN me.todo
  ELSE {q \in me.todo : Parent(q) = Head(me.stack)}

(* The file system may refuse to list or to remove p (permissions, a file  *)
(* system gone read-only, an I/O error).                                   *)
MayStick(p) == p \in Stubborn /\ Exists(p)

(* rmtree enters a directory: it lists it once and works on that list.  A  *)
(* listing that fails is ignored and leaves the list empty.                *)
ScrubEnter(a) ==
  /\ att[a].pc = "scrubbing"
  /\ \E p \in Pending(att[a]) :
       /\ IsDir(p) /\ Exists(p)
       /\ \/ att' = [att EXCEPT ![a].todo = (@ \ {p}) \cup Children(p),
                                ![a].stack = <<p>> \o @]
          \/ /\ MayStick(p)
             /\ att' = [att EXCEPT ![a].todo = @ \ {p}, ![a].stack = <<p>> \o @,
                                   ![a].stuck = @ \cup {p}]
  /\ UNCHANGED <<tree, rd, contended>>

(* unlink of one listed file; a name that is already gone is ignored, and  *)
(* below the top so is the unlink that fails: ignore_errors=True.          *)
ScrubFile(a) ==
  /\ att[a].pc = "scrubbing"
  /\ \E p \in Pending(att[a]) :
       /\ ~(IsDir(p) /\ Exists(p))
       /\ \/ /\ tree' = Drop(p)
             /\ att' = [att EXCEPT ![a].todo = @ \ {p}]
          \/ /\ MayStick(p) /\ att[a].stack # <<>>
             /\ att' = [att EXCEPT ![a].todo = @ \ {p}, ![a].stuck = @ \cup {p}]
             /\ UNCHANGED tree
  /\ UNCHANGED <<rd, contended>>

(* rmdir of the directory that was worked through; when something is left  *)
(* in it, has been added to it meanwhile, or the rmdir itself fails, the   *)
(* failure is ignored.                                                     *)
ScrubLeave(a) ==
  LET p == Head(att[a].stack) IN
  /\ att[a].pc = "scrubbing" /\ att[a].stack # <<>> /\ Pending(att[a]) = {}
  /\ \/ /\ tree' = IF Children(p) = {} THEN Drop(p) ELSE tree
        /\ att' = [att EXCEPT ![a].stack = Tail(@)]
     \/ /\ MayStick(p)
        /\ att' = [att EXCEPT ![a].stack = Tail(@), ![a].stuck = @ \cup {p}]
        /\ UNCHANGED tree
  /\ UNCHANGED <<rd, contended>>

(* In a destination the attempt did not create, _scrub lists the root and  *)
(* removes the files in it outside rmtree: an error of these calls leaves  *)
(* the scrub, and import_authorized_set with it, at once.                  *)
ScrubRaises(a) ==
  /\ att[a].pc = "scrubbing" /\ att[a].stack = <<>> /\ att[a].todo \ {Root} # {}
  /\ att' = End(a, "half_scrubbed")
  /\ UNCHANGED <<tree, rd, contended>>

(* The command reports the failure, whatever the scrub has left behind. *)
ScrubDone(a) ==
  /\ att[a].pc = "scrubbing" /\ att[a].stack = <<>> /\ att[a].todo = {}
  /\ att' = End(a, "failed")
  /\ UNCHANGED <<tree, rd, contended>>

-----------------------------------------------------------------------------
(* A stage reader (_load of the sealed binding): one bound set, one stage. *)

(* The command fails closed and may be run again. *)
Reject(r) == rd' = [rd EXCEPT ![r] = NewReader]

(* The binding pins the manifest's own hash; any other manifest is refused.*)
StartRead(r) ==
  /\ rd[r].pc = "new"
  /\ \E s \in Sets, st \in STAGES :
       /\ Exists(Root) /\ Content(Manifest) = s
       /\ rd' = [rd EXCEPT ![r].stage = st, ![r].bound = s, ![r].pc = "receipt"]
  /\ UNCHANGED <<tree, att, contended>>

ReadReceipt(r) ==
  /\ rd[r].pc = "receipt"
  /\ IF Content(Receipt) = rd[r].bound THEN rd' = [rd EXCEPT ![r].pc = "index"]
     ELSE Reject(r)
  /\ UNCHANGED <<tree, att, contended>>

ReadIndex(r) ==
  /\ rd[r].pc = "index"
  /\ IF IndexAccepted(rd[r].bound, rd[r].stage)
     THEN rd' = [rd EXCEPT ![r].pc = "blobs", ![r].idx = Content(Index(rd[r].stage))]
     ELSE Reject(r)
  /\ UNCHANGED <<tree, att, contended>>

(* Blobs are opened by the path the index names, one at a time. *)
ReadBlob(r) ==
  LET p == Blob(rd[r].stage, rd[r].idx, rd[r].pos) IN
  /\ rd[r].pc = "blobs"
  /\ IF Complete(p)
     THEN rd' = [rd EXCEPT ![r].pos = @ + 1, ![r].got = @ \cup {p},
                           ![r].pc = IF rd[r].pos = TASKS_PER_STAGE THEN "passed" ELSE @]
     ELSE Reject(r)
  /\ UNCHANGED <<tree, att, contended>>

-----------------------------------------------------------------------------
(* The destination is absent or an empty private directory; an operator    *)
(* made the latter, which the tree records under no attempt.               *)
Init ==
  /\ \/ tree = << >>
     \/ tree = [p \in {Root} |-> [by |-> NoSet, whole |-> TRUE]]
  /\ att = [a \in Attempts |-> NewAttempt]
  /\ rd = [r \in Readers |-> NewReader]
  /\ contended = FALSE

Import(a) ==
  \/ Prepare(a) \/ MakeRoot(a) \/ MakeDir(a) \/ OpenFile(a) \/ FillFile(a)
  \/ BodyWritten(a) \/ Readback(a) \/ VerifyManifest(a) \/ Verify(a)
  \/ IOError(a) \/ Kill(a)
  \/ ScrubEnter(a) \/ ScrubFile(a) \/ ScrubLeave(a)
  \/ ScrubRaises(a) \/ ScrubDone(a)

Load(r) == StartRead(r) \/ ReadReceipt(r) \/ ReadIndex(r) \/ ReadBlob(r)

Next == (\E a \in Attempts : Import(a)) \/ (\E r \in Readers : Load(r))

Spec == Init /\ [][Next]_vars

-----------------------------------------------------------------------------
(* Properties. *)

(* Types of the tree, the attempts and the readers. *)
TypeOK ==
  /\ DOMAIN tree \subseteq Paths
  /\ \A p \in DOMAIN tree : tree[p] \in [by : Attempts \cup {NoSet}, whole : BOOLEAN]
  /\ \A a \in Attempts :
       /\ att[a].pc \in {"new"} \cup Running \cup Finished
       /\ att[a].set \in Sets \cup {NoSet}
       /\ att[a].created \in BOOLEAN
       /\ att[a].wrote \subseteq Paths
       /\ att[a].opening \in Paths \cup {NoPath}
       /\ att[a].pos \in Nat
       /\ att[a].seen \in Sets \cup {NoSet}
       /\ att[a].todo \subseteq Paths
       /\ \A k \in DOMAIN att[a].stack : att[a].stack[k] \in Paths
       /\ att[a].stuck \subseteq Paths
  /\ \A r \in Readers :
       /\ rd[r].pc \in {"new", "receipt", "index", "blobs", "passed"}
       /\ rd[r].bound \in Sets \cup {NoSet}
       /\ rd[r].idx \in Sets \cup {NoSet}
       /\ rd[r].got \subseteq Paths
  /\ contended \in BOOLEAN

Whole(s) == /\ \A p \in Indexes \cup {Manifest, Receipt} : Content(p) = s
            /\ \A p \in {Root} \cup Package(s) : Complete(p)

(* An emitted import receipt describes the importer's own set, and that    *)
(* set stays complete on disk whatever later attempts, refusals, crashes   *)
(* and scrubs do, as long as no two attempts were inside the try block of  *)
(* import_authorized_set at the same time; and there is one such receipt.  *)
ReceiptedSetStaysWhole ==
  ~contended =>
    \A a \in Attempts : att[a].pc = "done" =>
      /\ att[a].seen = att[a].set
      /\ Whole(att[a].set)
      /\ \A b \in Attempts : att[b].pc = "done" => b = a

(* A manifest is sealed last: unless its writer has begun to scrub, every  *)
(* blob and both indexes are complete, so that no crash while writing, at  *)
(* whatever step, leaves a manifest over a torn set.                       *)
SealedOverWholeBody ==
  \A a \in Attempts :
    (/\ ~contended /\ Complete(Manifest) /\ tree[Manifest].by = a
     /\ att[a].pc \notin {"scrubbing", "half_scrubbed", "failed"})
    => \A p \in Body(att[a].set) \cup Indexes : Complete(p)

(* A command that reports a failed import has left no file of its own on   *)
(* disk but those its scrub was refused, by name or with a directory above *)
(* them, even when several attempts write and scrub the same directory at  *)
(* once: a failing removal costs what lies there and nothing beside it.    *)
FailureLeavesOnlyStuck ==
  \A a \in Attempts : att[a].pc = "failed" =>
    \A q \in DOMAIN tree :
      ~IsDir(q) /\ tree[q].by = a => Above(q) \cap att[a].stuck # {}

(* A reader that accepts the stage has read every blob of the set it was   *)
(* bound to and no other set's, even when the package was scrubbed and     *)
(* another set imported between two of its reads.                          *)
ReadsOneSet ==
  \A r \in Readers : rd[r].pc = "passed" => rd[r].got = BlobsOf(rd[r].bound, rd[r].stage)

(* What a stage reader could accept now. *)
Published ==
  IF \E s \in Sets : Whole(s) THEN CHOOSE s \in Sets : Whole(s) ELSE NoSet

(* The set whose receipt was emitted. *)
Receipted ==
  IF \E a \in Attempts : att[a].pc = "done"
  THEN att[CHOOSE a \in Attempts : att[a].pc = "done"].seen ELSE NoSet

Promise == INSTANCE CustodyLocation
             WITH published <- Published, receipted <- Receipted, contended <- contended

(* The directory implements a write-once location, up to contention. *)
WriteOnce == Promise!Spec
=============================================================================
