--------------------------- MODULE CustodyProofs ---------------------------
(***************************************************************************)
(* Theorems about Custody, for any number of attempts, readers, sets and   *)
(* tasks.                                                                  *)
(***************************************************************************)
EXTENDS Custody, TLAPS

-----------------------------------------------------------------------------
(* The layout. *)

Kinds(q) ==
  \/ q = Root \/ q = Private \/ q = Manifest \/ q = Receipt
  \/ \E st \in STAGES : q = StageDir(st) \/ q = BlobDir(st) \/ q = Index(st)
  \/ \E st \in STAGES, s \in Sets, i \in 1..TASKS_PER_STAGE : q = Blob(st, s, i)

LEMMA PackagePaths ==
  ASSUME NEW s \in Sets
  PROVE  Package(s) \subseteq Paths /\ Root \notin Package(s)
<1>1. Package(s) \subseteq Paths  BY DEF Paths
<1>2. ASSUME NEW q \in Package(s) PROVE q[1] # "root"
  BY <1>2 DEF Package, Body, StagePart, BlobsOf, Indexes, Private, Manifest, Receipt,
              StageDir, BlobDir, Index, Blob
<1>3. Root[1] = "root"  BY DEF Root
<1> QED  BY <1>1, <1>2, <1>3

LEMMA PathKinds == ASSUME NEW q \in Paths PROVE Kinds(q)
<1>1. CASE q = Root  BY <1>1 DEF Kinds
<1>2. ASSUME NEW s \in Sets, q \in Package(s) PROVE Kinds(q)
  BY <1>2 DEF Kinds, Package, Body, StagePart, BlobsOf, Indexes
<1> QED  BY <1>1, <1>2 DEF Paths

LEMMA BodyPaths ==
  ASSUME NEW s \in Sets, NEW st \in STAGES
  PROVE  {Private, StageDir(st), BlobDir(st), Index(st), Manifest, Receipt} \subseteq Package(s)
BY DEF Package, Body, StagePart, Indexes

LEMMA LayoutTable ==
  /\ Above(Root) = {Root}
  /\ \A p \in {Private, Manifest, Receipt} :
       p # Root /\ Parent(p) = Root /\ Above(p) = {Root, p}
  /\ \A st \in STAGES :
       /\ StageDir(st) # Root /\ BlobDir(st) # Root /\ Index(st) # Root
       /\ Parent(StageDir(st)) = Private
       /\ Parent(BlobDir(st)) = StageDir(st) /\ Parent(Index(st)) = StageDir(st)
       /\ Above(StageDir(st)) = {Root, Private, StageDir(st)}
       /\ Above(BlobDir(st)) = {Root, Private, StageDir(st), BlobDir(st)}
       /\ Above(Index(st)) = {Root, Private, StageDir(st), Index(st)}
       /\ \A s \in Sets, i \in 1..TASKS_PER_STAGE :
            /\ Blob(st, s, i) # Root /\ Parent(Blob(st, s, i)) = BlobDir(st)
            /\ Above(Blob(st, s, i)) = {Root, Private, StageDir(st), BlobDir(st), Blob(st, s, i)}
BY DEF Above, Parent, Root, Private, Manifest, Receipt, StageDir, BlobDir, Index, Blob

(* What lies above a path: directories, each with an entry of the chain.   *)
Climbs(q) ==
  /\ Root \in Above(q) /\ q \in Above(q)
  /\ q # Root => Parent(q) \in Above(q) /\ IsDir(Parent(q)) /\ Above(q) = {q} \cup Above(Parent(q))
  /\ \A p \in Above(q) : p # q => IsDir(p) /\ \E c \in Above(q) : Parent(c) = p
  /\ q = Root => Above(q) = {q}

LEMMA Climb == ASSUME NEW q \in Paths PROVE Climbs(q)
<1>1. Kinds(q)  BY PathKinds
<1>0. /\ IsDir(Root) /\ IsDir(Private)
      /\ \A st \in STAGES : IsDir(StageDir(st)) /\ IsDir(BlobDir(st))
  BY DEF IsDir, Root, Private, StageDir, BlobDir
<1>2. CASE q = Root  BY <1>2, LayoutTable DEF Climbs
<1>3. CASE q \in {Private, Manifest, Receipt}  BY <1>3, <1>0, LayoutTable DEF Climbs
<1>4. ASSUME NEW st \in STAGES, q = StageDir(st) PROVE Climbs(q)
  BY <1>4, <1>0, LayoutTable DEF Climbs
<1>5. ASSUME NEW st \in STAGES, q = BlobDir(st) \/ q = Index(st) PROVE Climbs(q)
  BY <1>5, <1>0, LayoutTable DEF Climbs
<1>6. ASSUME NEW st \in STAGES, NEW s \in Sets, NEW i \in 1..TASKS_PER_STAGE, q = Blob(st, s, i)
      PROVE  Climbs(q)
  BY <1>6, <1>0, LayoutTable DEF Climbs
<1> QED  BY <1>1, <1>2, <1>3, <1>4, <1>5, <1>6 DEF Kinds

-----------------------------------------------------------------------------
(* The inductive invariant, contention or not. *)

AttemptType ==
  [pc : {"new"} \cup Running \cup Finished, set : Sets \cup {NoSet}, created : BOOLEAN,
   wrote : SUBSET Paths, opening : Paths \cup {NoPath}, pos : Nat,
   seen : Sets \cup {NoSet}, todo : SUBSET Paths, stack : Seq(Paths), stuck : SUBSET Paths]

ReaderType ==
  [pc : {"new", "receipt", "index", "blobs", "passed"}, stage : STAGES,
   bound : Sets \cup {NoSet}, pos : Nat, idx : Sets \cup {NoSet}, got : SUBSET Paths]

FileType == [by : Attempts \cup {NoSet}, whole : BOOLEAN]

TypeInv ==
  /\ DOMAIN tree \subseteq Paths
  /\ tree \in [DOMAIN tree -> FileType]
  /\ att \in [Attempts -> AttemptType]
  /\ rd \in [Readers -> ReaderType]
  /\ contended \in BOOLEAN

(* Every entry lies in a directory that exists.  The root is no file, and  *)
(* everything else was created by an attempt.                              *)
TreeInv ==
  \A p \in DOMAIN tree :
    /\ p = Root => tree[p].whole
    /\ p # Root => Parent(p) \in DOMAIN tree /\ tree[p].by \in Attempts

(* What an attempt works on: its set, and in the order of the writes.      *)
WorkOK(me) ==
  /\ me.pc \in Running \cup {"done"} => me.set \in Sets
  /\ me.pc \in {"new", "making"} => me.wrote = {} /\ me.opening = NoPath
  /\ me.pc \in Trying =>
       /\ me.wrote \subseteq Package(me.set)
       /\ me.opening \in Package(me.set) \cup {NoPath}
       /\ Manifest \in me.wrote \cup {me.opening}
            => Body(me.set) \cup Indexes \subseteq me.wrote

WorkInv == \A a \in Attempts : WorkOK(att[a])

(* An attempt owns no file before it writes, a scrub has above each of its *)
(* files a listed entry or one it was refused, and after a reported        *)
(* failure only the latter.                                                *)
FileOK(me, q) ==
  /\ me.pc \notin {"new", "making", "refused"}
  /\ me.pc = "scrubbing" => \E p \in me.todo \cup me.stuck : p \in Above(q)
  /\ me.pc = "failed" => \E p \in me.stuck : p \in Above(q)

FileInv ==
  \A a \in Attempts : \A q \in DOMAIN tree :
    ~IsDir(q) /\ tree[q].by = a => FileOK(att[a], q)

ReadInv ==
  \A r \in Readers :
    /\ rd[r].pc \notin {"new", "passed"} => rd[r].bound \in Sets
    /\ rd[r].pc \in {"new", "receipt", "index"} => rd[r].pos = 1 /\ rd[r].got = {}
    /\ rd[r].pc = "blobs" =>
         /\ rd[r].idx = rd[r].bound /\ rd[r].pos \in 1..TASKS_PER_STAGE
         /\ rd[r].got = {Blob(rd[r].stage, rd[r].bound, i) : i \in 1..(rd[r].pos - 1)}
    /\ rd[r].pc = "passed" => rd[r].got = BlobsOf(rd[r].bound, rd[r].stage)

IInv == TypeInv /\ TreeInv /\ WorkInv /\ FileInv /\ ReadInv

(* While nobody has overlapped, an attempt inside its try block is alone,  *)
(* everything below the root is its own, and while it is trying the        *)
(* directory holds what it remembers; once a receipt is emitted nobody is  *)
(* inside any more.                                                        *)
Kept(me) ==
  /\ me.pc \in Trying =>
       /\ Root \in DOMAIN tree
       /\ DOMAIN tree \subseteq {Root} \cup me.wrote \cup {me.opening}
       /\ \A p \in me.wrote : p \in DOMAIN tree /\ tree[p].whole
  /\ me.pc = "verifying" => Package(me.set) \subseteq me.wrote /\ me.seen = me.set

SoleInv ==
  ~contended =>
    \A a \in Attempts :
      /\ Kept(att[a])
      /\ att[a].pc \in Inside =>
           /\ \A p \in DOMAIN tree : p # Root => tree[p].by = a
           /\ \A b \in Attempts \ {a} : att[b].pc \notin Inside \cup {"done"}

Inv == IInv /\ SoleInv /\ ReceiptedSetStaysWhole /\ SealedOverWholeBody

-----------------------------------------------------------------------------
(* Lemmas about the tree. *)

LEMMA DropTree ==
  ASSUME NEW p
  PROVE  /\ DOMAIN Drop(p) = DOMAIN tree \ {p}
         /\ \A q \in DOMAIN tree \ {p} : Drop(p)[q] = tree[q]
BY DEF Drop

LEMMA AboveExists ==
  ASSUME TypeInv, TreeInv, NEW q \in DOMAIN tree
  PROVE  Above(q) \subseteq DOMAIN tree
<1>1. Kinds(q)  BY PathKinds DEF TypeInv
<1>2. \A p \in DOMAIN tree : p # Root => Parent(p) \in DOMAIN tree  BY DEF TreeInv
<1>3. CASE q = Root  BY <1>3, LayoutTable
<1>4. CASE q = Private \/ q = Manifest \/ q = Receipt  BY <1>2, <1>4, LayoutTable
<1>5. ASSUME NEW st \in STAGES, q = StageDir(st) PROVE Above(q) \subseteq DOMAIN tree
  <2>1. Private \in DOMAIN tree  BY <1>2, <1>5, LayoutTable
  <2>2. Root \in DOMAIN tree  BY <1>2, <2>1, LayoutTable
  <2> QED  BY <1>5, <2>1, <2>2, LayoutTable
<1>6. ASSUME NEW st \in STAGES, q = BlobDir(st) \/ q = Index(st)
      PROVE  Above(q) \subseteq DOMAIN tree
  <2>1. StageDir(st) \in DOMAIN tree  BY <1>2, <1>6, LayoutTable
  <2>2. Private \in DOMAIN tree  BY <1>2, <2>1, LayoutTable
  <2>3. Root \in DOMAIN tree  BY <1>2, <2>2, LayoutTable
  <2> QED  BY <1>6, <2>1, <2>2, <2>3, LayoutTable
<1>7. ASSUME NEW st \in STAGES, NEW s \in Sets, NEW i \in 1..TASKS_PER_STAGE, q = Blob(st, s, i)
      PROVE  Above(q) \subseteq DOMAIN tree
  <2>1. BlobDir(st) \in DOMAIN tree  BY <1>2, <1>7, LayoutTable
  <2>2. StageDir(st) \in DOMAIN tree  BY <1>2, <2>1, LayoutTable
  <2>3. Private \in DOMAIN tree  BY <1>2, <2>2, LayoutTable
  <2>4. Root \in DOMAIN tree  BY <1>2, <2>3, LayoutTable
  <2> QED  BY <1>7, <2>1, <2>2, <2>3, <2>4, LayoutTable
<1> QED  BY <1>1, <1>3, <1>4, <1>5, <1>6, <1>7 DEF Kinds

(* A directory without entries is above nothing but itself. *)
LEMMA ChildBelow ==
  ASSUME TypeInv, TreeInv, NEW q \in DOMAIN tree, NEW p \in Above(q), p # q
  PROVE  IsDir(p) /\ \E c \in Children(p) : c \in Above(q)
<1>1. q \in Paths  BY DEF TypeInv
<1>2. IsDir(p) /\ \E c \in Above(q) : Parent(c) = p  BY <1>1, Climb DEF Climbs
<1>3. Above(q) \subseteq DOMAIN tree  BY AboveExists
<1> QED  BY <1>2, <1>3 DEF Children

(* Creating, completing and removing an entry. *)
LEMMA Created ==
  ASSUME TypeInv, TreeInv, NEW p \in Paths, p # Root, CanCreate(p),
         NEW a \in Attempts, tree' = Put(p, a, TRUE) \/ tree' = Put(p, a, FALSE)
  PROVE  /\ DOMAIN tree' = DOMAIN tree \cup {p} /\ tree' \in [DOMAIN tree' -> FileType]
         /\ TreeInv'
         /\ tree'[p].by = a
         /\ \A q \in DOMAIN tree : q # p /\ tree'[q] = tree[q]
<1>1. /\ DOMAIN tree' = DOMAIN tree \cup {p}
      /\ \A q \in DOMAIN tree : q # p => tree'[q] = tree[q]
      /\ tree' = [q \in DOMAIN tree' |-> tree'[q]]
      /\ tree'[p] = [by |-> a, whole |-> TRUE] \/ tree'[p] = [by |-> a, whole |-> FALSE]
  BY DEF Put
<1>2. p \notin DOMAIN tree /\ Parent(p) \in DOMAIN tree  BY DEF CanCreate, Exists
<1>3. [by |-> a, whole |-> TRUE] \in FileType /\ [by |-> a, whole |-> FALSE] \in FileType
  BY DEF FileType
<1>4. tree'[p] \in FileType  BY <1>1, <1>3
<1>7. tree'[p].by = a
  <2>1. CASE tree' = Put(p, a, TRUE)  BY <2>1 DEF Put
  <2>2. CASE tree' = Put(p, a, FALSE)  BY <2>2 DEF Put
  <2> QED  BY <2>1, <2>2
<1>5. tree' \in [DOMAIN tree' -> FileType]  BY <1>1, <1>4 DEF TypeInv
<1>6. TreeInv'  BY <1>1, <1>2, <1>7 DEF TreeInv
<1> QED  BY <1>1, <1>2, <1>5, <1>6, <1>7 DEF TypeInv

LEMMA Filled ==
  ASSUME TypeInv, TreeInv, NEW p, p \in DOMAIN tree, NEW a \in Attempts, tree[p].by = a,
         tree' = Put(p, a, TRUE)
  PROVE  /\ DOMAIN tree' = DOMAIN tree /\ tree' \in [DOMAIN tree' -> FileType]
         /\ TreeInv'
         /\ \A q \in DOMAIN tree' :
              tree'[q].by = tree[q].by /\ (q # p => tree'[q] = tree[q])
         /\ tree'[p].whole
<1> DEFINE t == Put(p, a, TRUE)
<1>1. /\ DOMAIN t = DOMAIN tree
      /\ \A q \in DOMAIN tree : q # p => t[q] = tree[q]
  BY DEF Put
<1>2. t[p].by = a  BY DEF Put
<1>3. t[p].whole  BY DEF Put
<1>4. t \in [DOMAIN t -> FileType]
  <2>1. [by |-> a, whole |-> TRUE] \in FileType  BY DEF FileType
  <2>2. t[p] = [by |-> a, whole |-> TRUE] /\ t = [q \in DOMAIN t |-> t[q]]
    BY <1>1 DEF Put
  <2> HIDE DEF t
  <2> QED  BY <1>1, <2>1, <2>2 DEF TypeInv
<1>5. tree' = t  OBVIOUS
<1> HIDE DEF t
<1>6. TreeInv'  BY <1>1, <1>2, <1>3, <1>5 DEF TreeInv
<1> QED  BY <1>1, <1>2, <1>3, <1>4, <1>5, <1>6

LEMMA Removed ==
  ASSUME TypeInv, TreeInv, NEW p \in Paths, Children(p) = {}, tree' = Drop(p)
  PROVE  /\ DOMAIN tree' = DOMAIN tree \ {p} /\ tree' \in [DOMAIN tree' -> FileType]
         /\ TreeInv'
         /\ \A q \in DOMAIN tree' : tree'[q] = tree[q]
<1>1. DOMAIN tree' = DOMAIN tree \ {p} /\ \A q \in DOMAIN tree \ {p} : tree'[q] = tree[q]
  BY DropTree
<1>2. tree' = [q \in DOMAIN tree' |-> tree'[q]]  BY DEF Drop
<1>3. tree' \in [DOMAIN tree' -> FileType]  BY <1>1, <1>2 DEF TypeInv
<1>4. TreeInv'  BY <1>1 DEF TreeInv, Children
<1> QED  BY <1>1, <1>3, <1>4

LEMMA LeafHasNoChildren ==
  ASSUME TypeInv, TreeInv, NEW p \in Paths, ~(IsDir(p) /\ Exists(p))
  PROVE  Children(p) = {}
<1>1. ASSUME NEW c \in DOMAIN tree, Parent(c) = p PROVE FALSE
  <2>1. c \in Paths /\ c # Root  BY <1>1, NoPathAssumption DEF TypeInv, Parent, Root
  <2>2. IsDir(p)  BY <1>1, <2>1, Climb DEF Climbs
  <2>3. p \in DOMAIN tree  BY <1>1, <2>1 DEF TreeInv
  <2> QED  BY <2>2, <2>3 DEF Exists
<1> QED  BY <1>1 DEF Children

(* One attempt does a step: what is to be shown of it and of the tree.     *)
LEMMA AttemptStep ==
  ASSUME IInv, NEW a \in Attempts, NEW me \in AttemptType, WorkOK(me),
         att' = [att EXCEPT ![a] = me], rd' = rd, contended' \in BOOLEAN,
         DOMAIN tree' \subseteq Paths, tree' \in [DOMAIN tree' -> FileType], TreeInv',
         \A q \in DOMAIN tree' :
           \/ tree'[q].by = a
           \/ q \in DOMAIN tree /\ tree'[q].by = tree[q].by,
         \A q \in DOMAIN tree' : ~IsDir(q) /\ tree'[q].by = a => FileOK(me, q)
  PROVE  IInv'
<1>1. att \in [Attempts -> AttemptType]  BY DEF IInv, TypeInv
<1>2. att'[a] = me /\ \A b \in Attempts : b # a => att'[b] = att[b]  BY <1>1
<1>3. TypeInv'  BY <1>1 DEF IInv, TypeInv
<1>4. WorkInv'  BY <1>2 DEF IInv, WorkInv, WorkOK, Package, Body, StagePart
<1>5. FileInv'  BY <1>2 DEF IInv, FileInv, FileOK
<1>6. ReadInv'  BY DEF IInv, ReadInv
<1> QED  BY <1>3, <1>4, <1>5, <1>6 DEF IInv

(* The same when the tree is left alone. *)
LEMMA QuietStep ==
  ASSUME IInv, NEW a \in Attempts, NEW me \in AttemptType, WorkOK(me),
         att' = [att EXCEPT ![a] = me], UNCHANGED <<tree, rd>>, contended' \in BOOLEAN,
         \A q \in DOMAIN tree : ~IsDir(q) /\ tree[q].by = a => FileOK(me, q)
  PROVE  IInv'
<1>1. DOMAIN tree' \subseteq Paths /\ tree' \in [DOMAIN tree' -> FileType] /\ TreeInv'
  BY DEF IInv, TypeInv, TreeInv
<1> QED  BY <1>1, AttemptStep

-----------------------------------------------------------------------------
(* The steps of an import. *)

LEMMA BeforeManifest ==
  ASSUME NEW s PROVE Before(s, Manifest) = Body(s) \cup Indexes
<1>1. /\ Manifest # Private /\ Manifest # StageDir("development")
      /\ Manifest # StageDir("holdout") /\ Manifest # Index("development")
      /\ Manifest # Index("holdout") /\ Manifest # Receipt
      /\ Manifest[1] # "blobs" /\ Manifest[1] # "blob"
  BY DEF Manifest, Private, Receipt, StageDir, Index
<1> QED  BY <1>1 DEF Before

LEMMA AttemptTyped ==
  ASSUME IInv, NEW a \in Attempts
  PROVE  /\ att[a] \in AttemptType /\ WorkOK(att[a])
         /\ \A q \in DOMAIN tree : ~IsDir(q) /\ tree[q].by = a => FileOK(att[a], q)
BY DEF IInv, TypeInv, WorkInv, FileInv

LEMMA NewTyped == NewAttempt \in AttemptType
<1>1. <<>> \in Seq(Paths)  OBVIOUS
<1> QED  BY <1>1 DEF AttemptType, NewAttempt

LEMMA Endings ==
  ASSUME IInv, NEW a \in Attempts, NEW pc \in {"refused", "failed", "killed", "half_scrubbed", "done"},
         att' = End(a, pc), UNCHANGED <<tree, rd>>, contended' \in BOOLEAN,
         pc = "done" => att[a].set \in Sets,
         pc = "refused" => \A q \in DOMAIN tree : ~IsDir(q) => tree[q].by # a,
         pc = "failed" => att[a].pc = "scrubbing" /\ att[a].todo = {}
  PROVE  IInv'
<1> DEFINE me == [NewAttempt EXCEPT !.pc = pc, !.set = att[a].set, !.stuck = att[a].stuck]
<1>1. att[a].set \in Sets \cup {NoSet} /\ att[a].stuck \in SUBSET Paths
  BY AttemptTyped DEF AttemptType
<1>2. me \in AttemptType  BY <1>1, NewTyped DEF AttemptType, Finished
<1>3. me.pc = pc /\ me.set = att[a].set /\ me.stuck = att[a].stuck  BY DEF NewAttempt
<1>4. att' = [att EXCEPT ![a] = me]  BY DEF End
<1> HIDE DEF me
<1>5. WorkOK(me)  BY <1>3 DEF WorkOK, Running, Inside, Trying
<1>6. \A q \in DOMAIN tree : ~IsDir(q) /\ tree[q].by = a => FileOK(me, q)
  BY <1>3, AttemptTyped DEF FileOK
<1> QED  BY <1>2, <1>4, <1>5, <1>6, QuietStep

LEMMA ScrubStarts ==
  ASSUME IInv, NEW a \in Attempts, att[a].pc \in Trying, StartScrub(a),
         UNCHANGED <<tree, rd, contended>>
  PROVE  IInv'
<1> DEFINE me == [NewAttempt EXCEPT !.pc = "scrubbing", !.set = att[a].set,
                                    !.todo = ScrubTargets(att[a])]
<1>1. att[a].set \in Sets  BY AttemptTyped DEF WorkOK, Running, Inside
<1>2. ScrubTargets(att[a]) \subseteq Paths
  BY DEF ScrubTargets, Children, IInv, TypeInv
<1>3. me \in AttemptType  BY <1>1, <1>2, NewTyped DEF AttemptType, Running, Inside
<1>4. me.pc = "scrubbing" /\ me.set \in Sets /\ me.todo = ScrubTargets(att[a])
  BY <1>1 DEF NewAttempt
<1>5. att' = [att EXCEPT ![a] = me]  BY DEF StartScrub
<1> HIDE DEF me
<1>6. WorkOK(me)  BY <1>4 DEF WorkOK, Trying
<1>7. ASSUME NEW q \in DOMAIN tree, ~IsDir(q)
      PROVE  \E p \in ScrubTargets(att[a]) : p \in Above(q)
  <2>1. q \in Paths /\ q # Root  BY <1>7 DEF IInv, TypeInv, IsDir, Root
  <2>2. Root \in Above(q) /\ Above(q) \subseteq DOMAIN tree
    BY <2>1, Climb, AboveExists DEF Climbs, IInv
  <2>3. \E c \in Children(Root) : c \in Above(q)
    BY <2>1, <2>2, ChildBelow DEF IInv
  <2> QED  BY <2>2, <2>3 DEF ScrubTargets
<1>8. contended' \in BOOLEAN  BY DEF IInv, TypeInv
<1> QED  BY <1>3, <1>4, <1>5, <1>6, <1>7, <1>8, QuietStep DEF FileOK

LEMMA PrepareStep == ASSUME IInv, NEW a \in Attempts, Prepare(a) PROVE IInv'
<1>1. att[a] \in AttemptType /\ att[a].pc = "new" /\ WorkOK(att[a])
      /\ \A q \in DOMAIN tree : ~IsDir(q) => tree[q].by # a
  BY AttemptTyped DEF Prepare, FileOK
<1>2. contended' \in BOOLEAN  BY DEF Prepare, Enter, IInv, TypeInv
<1>3. CASE att' = End(a, "refused")
  BY <1>1, <1>2, <1>3, Endings DEF Prepare
<1>4. ASSUME NEW s \in Sets, NEW pc \in {"making", "writing"},
             att' = [att EXCEPT ![a].pc = pc, ![a].set = s]
      PROVE  IInv'
  <2> DEFINE me == [att[a] EXCEPT !.pc = pc, !.set = s]
  <2>1. me \in AttemptType  BY <1>1 DEF AttemptType, Running, Inside, Trying
  <2>2. me.pc = pc /\ me.set = s /\ me.wrote = {} /\ me.opening = NoPath
    BY <1>1 DEF AttemptType, WorkOK
  <2>3. att' = [att EXCEPT ![a] = me]  BY <1>4
  <2> HIDE DEF me
  <2>4. Manifest \in Paths  BY PackagePaths, BodyPaths DEF STAGES
  <2>5. WorkOK(me)  BY <2>2, <2>4, NoPathAssumption DEF WorkOK
  <2> QED  BY <1>1, <1>2, <2>1, <2>3, <2>5, QuietStep DEF Prepare
<1> QED  BY <1>3, <1>4 DEF Prepare

LEMMA MakeRootStep == ASSUME IInv, NEW a \in Attempts, MakeRoot(a) PROVE IInv'
<1>1. att[a] \in AttemptType /\ att[a].pc = "making" /\ WorkOK(att[a])
      /\ \A q \in DOMAIN tree : ~IsDir(q) => tree[q].by # a
  BY AttemptTyped DEF MakeRoot, FileOK
<1>2. contended' \in BOOLEAN  BY DEF MakeRoot, Enter, IInv, TypeInv
<1>3. CASE Exists(Root)  BY <1>1, <1>2, <1>3, Endings DEF MakeRoot
<1>4. CASE ~Exists(Root)
  <2> DEFINE me == [att[a] EXCEPT !.pc = "writing", !.created = TRUE]
  <2>1. me \in AttemptType  BY <1>1 DEF AttemptType, Running, Inside, Trying
  <2>2. me.pc = "writing" /\ me.set = att[a].set /\ me.wrote = {} /\ me.opening = NoPath
    BY <1>1 DEF AttemptType, WorkOK
  <2>3. att' = [att EXCEPT ![a] = me]  BY <1>4 DEF MakeRoot
  <2> HIDE DEF me
  <2>4. att[a].set \in Sets  BY <1>1 DEF WorkOK, Running
  <2>5. Manifest \in Paths  BY <2>4, PackagePaths, BodyPaths DEF STAGES
  <2>6. WorkOK(me)  BY <2>2, <2>4, <2>5, NoPathAssumption DEF WorkOK
  <2>7. DOMAIN tree = {}
    <3>1. ASSUME NEW q \in DOMAIN tree PROVE FALSE
      BY <1>4, AboveExists, Climb DEF Climbs, IInv, TypeInv, Exists
    <3> QED  BY <3>1
  <2>8. tree' = Put(Root, a, TRUE)  BY <1>4 DEF MakeRoot
  <2>9. DOMAIN tree' = {Root} /\ tree' = [q \in {Root} |-> tree'[q]]  BY <2>7, <2>8 DEF Put
  <2>10. tree'[Root] = [by |-> a, whole |-> TRUE] /\ tree'[Root].by = a /\ tree'[Root].whole
    BY <2>8 DEF Put
  <2>11. [by |-> a, whole |-> TRUE] \in FileType  BY DEF FileType
  <2>12. tree' \in [DOMAIN tree' -> FileType]  BY <2>9, <2>10, <2>11
  <2>13. DOMAIN tree' \subseteq Paths  BY <2>9 DEF Paths
  <2>14. TreeInv'  BY <2>9, <2>10 DEF TreeInv
  <2>15. IsDir(Root)  BY DEF IsDir, Root
  <2>16. rd' = rd  BY DEF MakeRoot
  <2>17. \A q \in DOMAIN tree' : tree'[q].by = a /\ IsDir(q)  BY <2>9, <2>10, <2>15
  <2> QED  BY <1>2, <2>1, <2>3, <2>6, <2>12, <2>13, <2>14, <2>16, <2>17, AttemptStep
<1> QED  BY <1>3, <1>4

(* What a step that creates p leaves to be shown. *)
LEMMA CreateStep ==
  ASSUME IInv, NEW a \in Attempts, att[a].pc \in {"writing", "sealing"},
         NEW p \in Package(att[a].set), CanCreate(p),
         tree' = Put(p, a, TRUE) \/ tree' = Put(p, a, FALSE),
         NEW me \in AttemptType, WorkOK(me), me.pc = att[a].pc,
         att' = [att EXCEPT ![a] = me], UNCHANGED <<rd, contended>>
  PROVE  IInv'
<1>1. att[a].set \in Sets  BY AttemptTyped DEF WorkOK, Running, Inside, Trying
<1>2. p \in Paths /\ p # Root  BY <1>1, PackagePaths
<1>3. /\ DOMAIN tree' = DOMAIN tree \cup {p} /\ tree' \in [DOMAIN tree' -> FileType]
      /\ TreeInv' /\ tree'[p].by = a
      /\ \A q \in DOMAIN tree : q # p /\ tree'[q] = tree[q]
  BY <1>2, Created DEF IInv
<1>4. DOMAIN tree' \subseteq Paths /\ contended' \in BOOLEAN
  BY <1>2, <1>3 DEF IInv, TypeInv
<1>5. \A q \in DOMAIN tree' :
        tree'[q].by = a \/ (q \in DOMAIN tree /\ tree'[q].by = tree[q].by)
  BY <1>3
<1>6. \A q \in DOMAIN tree' : ~IsDir(q) /\ tree'[q].by = a => FileOK(me, q)
  BY DEF FileOK
<1> QED  BY <1>3, <1>4, <1>5, <1>6, AttemptStep

LEMMA MakeDirStep == ASSUME IInv, NEW a \in Attempts, MakeDir(a) PROVE IInv'
<1>1. att[a] \in AttemptType /\ att[a].pc = "writing" /\ WorkOK(att[a]) /\ att[a].pc \in Trying
      /\ UNCHANGED <<rd, contended>>
  BY AttemptTyped DEF MakeDir, Trying
<1>2. PICK p \in Body(att[a].set) :
        /\ IsDir(p) /\ MayWrite(att[a], p)
        /\ IF CanCreate(p)
           THEN tree' = Put(p, a, TRUE) /\ att' = [att EXCEPT ![a].wrote = @ \cup {p}]
           ELSE StartScrub(a) /\ UNCHANGED tree
  BY DEF MakeDir
<1>3. CASE ~CanCreate(p)  BY <1>1, <1>2, <1>3, ScrubStarts
<1>4. CASE CanCreate(p)
  <2> DEFINE me == [att[a] EXCEPT !.wrote = @ \cup {p}]
  <2>1. att[a].set \in Sets  BY <1>1 DEF WorkOK, Running, Inside
  <2>2. p \in Package(att[a].set) /\ p \in Paths  BY <2>1, PackagePaths DEF Package
  <2>3. me \in AttemptType  BY <1>1, <2>2 DEF AttemptType
  <2>4. /\ me.pc = att[a].pc /\ me.set = att[a].set
        /\ me.wrote = att[a].wrote \cup {p} /\ me.opening = att[a].opening
    BY <1>1 DEF AttemptType
  <2>5. att' = [att EXCEPT ![a] = me]  BY <1>2, <1>4
  <2> HIDE DEF me
  <2>6. p # Manifest  BY <1>2 DEF IsDir, Manifest
  <2>7. WorkOK(me)  BY <1>1, <2>2, <2>4, <2>6 DEF WorkOK
  <2>8. tree' = Put(p, a, TRUE)  BY <1>2, <1>4
  <2> QED  BY <1>1, <1>4, <2>2, <2>3, <2>4, <2>5, <2>7, <2>8, CreateStep
<1> QED  BY <1>3, <1>4

LEMMA OpenFileStep == ASSUME IInv, NEW a \in Attempts, OpenFile(a) PROVE IInv'
<1>1. att[a] \in AttemptType /\ att[a].pc \in {"writing", "sealing"} /\ WorkOK(att[a])
      /\ att[a].pc \in Trying /\ UNCHANGED <<rd, contended>>
  BY AttemptTyped DEF OpenFile, Trying
<1>2. PICK p \in PhasePaths(att[a]) :
        /\ ~IsDir(p) /\ MayWrite(att[a], p)
        /\ IF CanCreate(p)
           THEN tree' = Put(p, a, FALSE) /\ att' = [att EXCEPT ![a].opening = p]
           ELSE StartScrub(a) /\ UNCHANGED tree
  BY DEF OpenFile
<1>3. CASE ~CanCreate(p)  BY <1>1, <1>2, <1>3, ScrubStarts
<1>4. CASE CanCreate(p)
  <2> DEFINE me == [att[a] EXCEPT !.opening = p]
  <2>1. att[a].set \in Sets  BY <1>1 DEF WorkOK, Running, Inside
  <2>2. p \in Package(att[a].set) /\ p \in Paths
    BY <2>1, PackagePaths DEF Package, PhasePaths
  <2>3. me \in AttemptType  BY <1>1, <2>2 DEF AttemptType
  <2>4. /\ me.pc = att[a].pc /\ me.set = att[a].set
        /\ me.wrote = att[a].wrote /\ me.opening = p
    BY <1>1 DEF AttemptType
  <2>5. att' = [att EXCEPT ![a] = me]  BY <1>2, <1>4
  <2> HIDE DEF me
  <2>6. p = Manifest => Body(att[a].set) \cup Indexes \subseteq att[a].wrote
    BY <1>2, BeforeManifest DEF MayWrite
  <2>7. WorkOK(me)  BY <1>1, <2>2, <2>4, <2>6 DEF WorkOK
  <2>8. tree' = Put(p, a, FALSE)  BY <1>2, <1>4
  <2> QED  BY <1>1, <1>4, <2>2, <2>3, <2>4, <2>5, <2>7, <2>8, CreateStep
<1> QED  BY <1>3, <1>4

LEMMA FillFileStep == ASSUME IInv, NEW a \in Attempts, FillFile(a) PROVE IInv'
<1>1. att[a] \in AttemptType /\ att[a].pc \in {"writing", "sealing"} /\ WorkOK(att[a])
      /\ att[a].pc \in Trying /\ UNCHANGED <<rd, contended>> /\ att[a].opening # NoPath
  BY AttemptTyped DEF FillFile, Trying
<1> DEFINE p == att[a].opening
<1>2. CASE ~Exists(p)  BY <1>1, <1>2, ScrubStarts DEF FillFile
<1>3. CASE Exists(p)
  <2> DEFINE me == [att[a] EXCEPT !.opening = NoPath, !.wrote = @ \cup {p}]
  <2>1. att[a].set \in Sets  BY <1>1 DEF WorkOK, Running, Inside
  <2>2. p \in Package(att[a].set) /\ p \in Paths
    BY <1>1, <2>1, PackagePaths DEF WorkOK
  <2>3. me \in AttemptType  BY <1>1, <2>2 DEF AttemptType
  <2>4. /\ me.pc = att[a].pc /\ me.set = att[a].set
        /\ me.wrote = att[a].wrote \cup {p} /\ me.opening = NoPath
    BY <1>1 DEF AttemptType
  <2>5. att' = [att EXCEPT ![a] = me]  BY <1>3 DEF FillFile
  <2> HIDE DEF me
  <2>6. Manifest \in Paths  BY <2>1, PackagePaths, BodyPaths DEF STAGES
  <2>7. WorkOK(me)  BY <1>1, <2>2, <2>4, <2>6, NoPathAssumption DEF WorkOK
  <2>8. \A q : FileOK(me, q)  BY <1>1, <2>4 DEF FileOK
  <2>9. contended' \in BOOLEAN  BY <1>1 DEF IInv, TypeInv
  <2>10. CASE tree[p].by = a
    <3>1. tree' = Put(p, a, TRUE) /\ p \in DOMAIN tree
      BY <1>3, <2>10 DEF FillFile, Exists
    <3>2. /\ DOMAIN tree' = DOMAIN tree /\ tree' \in [DOMAIN tree' -> FileType]
          /\ TreeInv'
          /\ \A q \in DOMAIN tree' :
               tree'[q].by = tree[q].by /\ (q # p => tree'[q] = tree[q])
      BY <3>1, <2>10, Filled DEF IInv
    <3>3. DOMAIN tree' \subseteq Paths  BY <3>2 DEF IInv, TypeInv
    <3>4. /\ \A q \in DOMAIN tree' : tree'[q].by = a \/ (q \in DOMAIN tree /\ tree'[q].by = tree[q].by)
          /\ \A q \in DOMAIN tree' : ~IsDir(q) /\ tree'[q].by = a => FileOK(me, q)
      BY <2>8, <3>2
    <3>5. tree' \in [DOMAIN tree' -> FileType] /\ TreeInv' /\ rd' = rd  BY <1>3, <3>2 DEF FillFile
    <3> QED  BY <2>3, <2>5, <2>7, <2>9, <3>3, <3>4, <3>5, AttemptStep
  <2>11. CASE tree[p].by # a
    <3>1. tree' = tree  BY <1>3, <2>11 DEF FillFile
    <3> QED  BY <1>1, <2>3, <2>5, <2>7, <2>8, <2>9, <3>1, QuietStep
  <2> QED  BY <2>10, <2>11
<1> QED  BY <1>2, <1>3

LEMMA BodyWrittenStep == ASSUME IInv, NEW a \in Attempts, BodyWritten(a) PROVE IInv'
<1> DEFINE me == [att[a] EXCEPT !.pc = "readback", !.pos = 1]
<1>1. att[a] \in AttemptType /\ att[a].pc = "writing" /\ WorkOK(att[a])
  BY AttemptTyped DEF BodyWritten
<1>2. me \in AttemptType  BY <1>1 DEF AttemptType, Running, Inside, Trying
<1>3. /\ me.pc = "readback" /\ me.set = att[a].set
      /\ me.wrote = att[a].wrote /\ me.opening = att[a].opening
  BY <1>1 DEF AttemptType
<1>4. att' = [att EXCEPT ![a] = me] /\ UNCHANGED <<tree, rd, contended>>  BY DEF BodyWritten
<1> HIDE DEF me
<1>5. WorkOK(me)  BY <1>1, <1>3 DEF WorkOK, Running, Inside, Trying
<1>6. \A q : FileOK(me, q)  BY <1>3 DEF FileOK
<1>7. contended' \in BOOLEAN  BY <1>4 DEF IInv, TypeInv
<1> QED  BY <1>2, <1>4, <1>5, <1>6, <1>7, QuietStep

LEMMA ReadbackStep == ASSUME IInv, NEW a \in Attempts, Readback(a) PROVE IInv'
<1>1. /\ att[a] \in AttemptType /\ att[a].pc = "readback" /\ WorkOK(att[a])
      /\ att[a].pc \in Trying /\ UNCHANGED <<tree, rd, contended>>
  BY AttemptTyped DEF Readback, Trying
<1>2. CASE StartScrub(a)  BY <1>1, <1>2, ScrubStarts
<1>3. ASSUME NEW pc \in {"readback", "sealing"}, NEW n \in Nat,
             att' = [att EXCEPT ![a].pc = pc, ![a].pos = n]
      PROVE  IInv'
  <2> DEFINE me == [att[a] EXCEPT !.pc = pc, !.pos = n]
  <2>1. me \in AttemptType  BY <1>1 DEF AttemptType, Running, Inside, Trying
  <2>2. /\ me.pc = pc /\ me.set = att[a].set
        /\ me.wrote = att[a].wrote /\ me.opening = att[a].opening
    BY <1>1 DEF AttemptType
  <2>3. att' = [att EXCEPT ![a] = me]  BY <1>3
  <2> HIDE DEF me
  <2>4. WorkOK(me)  BY <1>1, <2>2 DEF WorkOK, Running, Inside, Trying
  <2>5. \A q : FileOK(me, q)  BY <2>2 DEF FileOK
  <2>6. contended' \in BOOLEAN  BY <1>1 DEF IInv, TypeInv
  <2> QED  BY <1>1, <2>1, <2>3, <2>4, <2>5, <2>6, QuietStep
<1>4. att[a].pos \in Nat  BY <1>1 DEF AttemptType
<1>5. CASE att' = [att EXCEPT ![a].pos = @ + 1]
  <2> DEFINE n == att[a].pos + 1
  <2>1. att' = [att EXCEPT ![a].pc = "readback", ![a].pos = n]
    BY <1>1, <1>5 DEF IInv, TypeInv, AttemptType
  <2>2. n \in Nat  BY <1>4
  <2> HIDE DEF n
  <2> QED  BY <1>3, <2>1, <2>2
<1>6. CASE att' = [att EXCEPT ![a].pc = "sealing", ![a].pos = 1]  BY <1>3, <1>6
<1> QED  BY <1>2, <1>5, <1>6 DEF Readback

(* What the verification reads as the manifest's set. *)
LEMMA ManifestSet ==
  ASSUME IInv, Complete(Manifest)
  PROVE  /\ tree[Manifest].by \in Attempts
         /\ Content(Manifest) = att[tree[Manifest].by].set
         /\ Content(Manifest) \in Sets \cup {NoSet}
<1>1. Manifest \in DOMAIN tree /\ Manifest # Root  BY LayoutTable DEF Complete, Exists
<1>2. tree[Manifest].by \in Attempts  BY <1>1 DEF IInv, TreeInv
<1>3. Content(Manifest) = att[tree[Manifest].by].set  BY DEF Content
<1> QED  BY <1>2, <1>3, AttemptTyped DEF AttemptType

LEMMA VerifyManifestStep == ASSUME IInv, NEW a \in Attempts, VerifyManifest(a) PROVE IInv'
<1>1. /\ att[a] \in AttemptType /\ att[a].pc = "sealing" /\ WorkOK(att[a])
      /\ att[a].pc \in Trying /\ UNCHANGED <<tree, rd, contended>>
  BY AttemptTyped DEF VerifyManifest, Trying
<1>2. CASE StartScrub(a)  BY <1>1, <1>2, ScrubStarts
<1>3. CASE /\ Complete(Manifest)
           /\ att' = [att EXCEPT ![a].pc = "verifying", ![a].pos = 1,
                                 ![a].seen = Content(Manifest)]
  <2> DEFINE me == [att[a] EXCEPT !.pc = "verifying", !.pos = 1, !.seen = Content(Manifest)]
  <2>1. me \in AttemptType
    BY <1>1, <1>3, ManifestSet DEF AttemptType, Running, Inside, Trying
  <2>2. /\ me.pc = "verifying" /\ me.set = att[a].set
        /\ me.wrote = att[a].wrote /\ me.opening = att[a].opening
    BY <1>1 DEF AttemptType
  <2>3. att' = [att EXCEPT ![a] = me]  BY <1>3
  <2> HIDE DEF me
  <2>4. WorkOK(me)  BY <1>1, <2>2 DEF WorkOK, Running, Inside, Trying
  <2>5. \A q : FileOK(me, q)  BY <2>2 DEF FileOK
  <2>6. contended' \in BOOLEAN  BY <1>1 DEF IInv, TypeInv
  <2> QED  BY <1>1, <2>1, <2>3, <2>4, <2>5, <2>6, QuietStep
<1> QED  BY <1>2, <1>3 DEF VerifyManifest

LEMMA VerifyStep == ASSUME IInv, NEW a \in Attempts, Verify(a) PROVE IInv'
<1>1. /\ att[a] \in AttemptType /\ att[a].pc = "verifying" /\ WorkOK(att[a])
      /\ att[a].pc \in Trying /\ UNCHANGED <<tree, rd, contended>>
      /\ att[a].pos \in Nat /\ att[a].seen \in Sets \cup {NoSet} /\ att[a].set \in Sets
      /\ contended' \in BOOLEAN
  BY AttemptTyped DEF Verify, Trying, AttemptType, WorkOK, Running, Inside, IInv, TypeInv
<1>2. CASE StartScrub(a)  BY <1>1, <1>2, ScrubStarts
<1>3. CASE att' = [att EXCEPT ![a].pos = @ + 1]
  <2> DEFINE me == [att[a] EXCEPT !.pos = @ + 1]
  <2>1. me \in AttemptType  BY <1>1 DEF AttemptType
  <2>2. /\ me.pc = "verifying" /\ me.set = att[a].set
        /\ me.wrote = att[a].wrote /\ me.opening = att[a].opening
    BY <1>1 DEF AttemptType
  <2>3. att' = [att EXCEPT ![a] = me]  BY <1>3
  <2> HIDE DEF me
  <2>4. WorkOK(me)  BY <1>1, <2>2 DEF WorkOK
  <2>5. \A q : FileOK(me, q)  BY <2>2 DEF FileOK
  <2> QED  BY <1>1, <2>1, <2>3, <2>4, <2>5, QuietStep
<1>4. CASE att' = [End(a, "done") EXCEPT ![a].seen = att[a].seen]
  <2> DEFINE me == [NewAttempt EXCEPT !.pc = "done", !.set = att[a].set,
                                  !.stuck = att[a].stuck, !.seen = att[a].seen]
  <2>1. me \in AttemptType  BY <1>1, NewTyped DEF AttemptType, Finished
  <2>2. me.pc = "done" /\ me.set = att[a].set  BY DEF NewAttempt
  <2>3. att' = [att EXCEPT ![a] = me]  BY <1>4 DEF End, IInv, TypeInv
  <2> HIDE DEF me
  <2>4. WorkOK(me)  BY <1>1, <2>2 DEF WorkOK, Trying
  <2>5. \A q : FileOK(me, q)  BY <2>2 DEF FileOK
  <2> QED  BY <1>1, <2>1, <2>3, <2>4, <2>5, QuietStep
<1> QED  BY <1>2, <1>3, <1>4 DEF Verify

LEMMA IOErrorStep == ASSUME IInv, NEW a \in Attempts, IOError(a) PROVE IInv'
BY ScrubStarts DEF IOError

LEMMA KillStep == ASSUME IInv, NEW a \in Attempts, Kill(a) PROVE IInv'
BY Endings DEF Kill, IInv, TypeInv

(* The scrub drops an entry from its list: it was refused, or it is a      *)
(* directory and its entries are listed instead.                           *)
LEMMA ListStep ==
  ASSUME IInv, NEW a \in Attempts, att[a].pc = "scrubbing", UNCHANGED <<tree, rd, contended>>,
         NEW me \in AttemptType, me.pc = "scrubbing", me.set = att[a].set,
         att[a].stuck \subseteq me.stuck,
         \A c \in att[a].todo \ me.todo :
           c \in me.stuck \/ (IsDir(c) /\ Children(c) \subseteq me.todo),
         att' = [att EXCEPT ![a] = me]
  PROVE  IInv'
<1>1. WorkOK(me) /\ contended' \in BOOLEAN
  BY AttemptTyped DEF WorkOK, Trying, Running, Inside, IInv, TypeInv
<1>2. ASSUME NEW q \in DOMAIN tree, ~IsDir(q), tree[q].by = a PROVE FileOK(me, q)
  <2>1. PICK c \in att[a].todo \cup att[a].stuck : c \in Above(q)
    BY <1>2, AttemptTyped DEF FileOK
  <2>2. c \in me.todo \cup me.stuck \/ (IsDir(c) /\ Children(c) \subseteq me.todo)  BY <2>1
  <2>3. IsDir(c) => \E d \in Children(c) : d \in Above(q)
    BY <1>2, <2>1, ChildBelow DEF IInv
  <2> QED  BY <2>1, <2>2, <2>3 DEF FileOK
<1> QED  BY <1>1, <1>2, QuietStep

LEMMA ScrubEnterStep == ASSUME IInv, NEW a \in Attempts, ScrubEnter(a) PROVE IInv'
<1>1. /\ att[a] \in AttemptType /\ att[a].pc = "scrubbing"
      /\ UNCHANGED <<tree, rd, contended>>
  BY AttemptTyped DEF ScrubEnter
<1>2. PICK p \in Pending(att[a]) :
        /\ IsDir(p) /\ Exists(p)
        /\ \/ att' = [att EXCEPT ![a].todo = (@ \ {p}) \cup Children(p),
                                 ![a].stack = <<p>> \o @]
           \/ att' = [att EXCEPT ![a].todo = @ \ {p}, ![a].stack = <<p>> \o @,
                                 ![a].stuck = @ \cup {p}]
  BY DEF ScrubEnter
<1>3. p \in Paths /\ Children(p) \subseteq Paths
  BY <1>1, <1>2 DEF Pending, AttemptType, Children, IInv, TypeInv
<1>4. <<p>> \o att[a].stack \in Seq(Paths)  BY <1>1, <1>3 DEF AttemptType
<1>5. CASE att' = [att EXCEPT ![a].todo = (@ \ {p}) \cup Children(p), ![a].stack = <<p>> \o @]
  <2> DEFINE me == [att[a] EXCEPT !.todo = (@ \ {p}) \cup Children(p), !.stack = <<p>> \o @]
  <2>1. me \in AttemptType  BY <1>1, <1>3, <1>4 DEF AttemptType
  <2>2. /\ me.pc = "scrubbing" /\ me.set = att[a].set /\ me.stuck = att[a].stuck
        /\ me.todo = (att[a].todo \ {p}) \cup Children(p)
    BY <1>1 DEF AttemptType
  <2>3. att' = [att EXCEPT ![a] = me]  BY <1>5
  <2> HIDE DEF me
  <2> QED  BY <1>1, <1>2, <2>1, <2>2, <2>3, ListStep
<1>6. CASE att' = [att EXCEPT ![a].todo = @ \ {p}, ![a].stack = <<p>> \o @,
                              ![a].stuck = @ \cup {p}]
  <2> DEFINE me == [att[a] EXCEPT !.todo = @ \ {p}, !.stack = <<p>> \o @, !.stuck = @ \cup {p}]
  <2>1. me \in AttemptType  BY <1>1, <1>3, <1>4 DEF AttemptType
  <2>2. /\ me.pc = "scrubbing" /\ me.set = att[a].set /\ me.stuck = att[a].stuck \cup {p}
        /\ me.todo = att[a].todo \ {p}
    BY <1>1 DEF AttemptType
  <2>3. att' = [att EXCEPT ![a] = me]  BY <1>6
  <2> HIDE DEF me
  <2> QED  BY <1>1, <2>1, <2>2, <2>3, ListStep
<1> QED  BY <1>2, <1>5, <1>6

(* An entry goes, a leaf or an empty directory; the list forgets it when   *)
(* it is a leaf.                                                           *)
LEMMA RemoveStep ==
  ASSUME IInv, NEW a \in Attempts, att[a].pc = "scrubbing",
         NEW p \in Paths, Children(p) = {}, tree' = Drop(p),
         NEW me \in AttemptType, me.pc = "scrubbing", me.set = att[a].set,
         me.stuck = att[a].stuck,
         me.todo = att[a].todo \/ (me.todo = att[a].todo \ {p} /\ ~(IsDir(p) /\ Exists(p))),
         att' = [att EXCEPT ![a] = me], UNCHANGED <<rd, contended>>
  PROVE  IInv'
<1>1. /\ DOMAIN tree' = DOMAIN tree \ {p} /\ tree' \in [DOMAIN tree' -> FileType]
      /\ TreeInv' /\ \A q \in DOMAIN tree' : tree'[q] = tree[q]
  BY Removed DEF IInv
<1>2. DOMAIN tree' \subseteq Paths /\ contended' \in BOOLEAN  BY <1>1 DEF IInv, TypeInv
<1>3. WorkOK(me)  BY AttemptTyped DEF WorkOK, Trying, Running, Inside
<1>4. ASSUME NEW q \in DOMAIN tree', ~IsDir(q), tree'[q].by = a PROVE FileOK(me, q)
  <2>1. q \in DOMAIN tree /\ q # p /\ tree[q].by = a  BY <1>1, <1>4
  <2>2. PICK c \in att[a].todo \cup att[a].stuck : c \in Above(q)
    BY <2>1, <1>4, AttemptTyped DEF FileOK
  <2>3. c = p => IsDir(p) /\ p \in DOMAIN tree
    BY <2>1, <2>2, ChildBelow, AboveExists DEF IInv
  <2>4. c \in me.todo \cup me.stuck  BY <2>2, <2>3 DEF Exists
  <2> QED  BY <2>2, <2>4 DEF FileOK
<1>5. \A q \in DOMAIN tree' : q \in DOMAIN tree /\ tree'[q].by = tree[q].by  BY <1>1
<1> QED  BY <1>1, <1>2, <1>3, <1>4, <1>5, AttemptStep

LEMMA ScrubFileStep == ASSUME IInv, NEW a \in Attempts, ScrubFile(a) PROVE IInv'
<1>1. att[a] \in AttemptType /\ att[a].pc = "scrubbing" /\ UNCHANGED <<rd, contended>>
  BY AttemptTyped DEF ScrubFile
<1>2. PICK p \in Pending(att[a]) :
        /\ ~(IsDir(p) /\ Exists(p))
        /\ \/ tree' = Drop(p) /\ att' = [att EXCEPT ![a].todo = @ \ {p}]
           \/ /\ att' = [att EXCEPT ![a].todo = @ \ {p}, ![a].stuck = @ \cup {p}]
              /\ UNCHANGED tree
  BY DEF ScrubFile
<1>3. p \in Paths  BY <1>1, <1>2 DEF Pending, AttemptType
<1>4. CASE tree' = Drop(p) /\ att' = [att EXCEPT ![a].todo = @ \ {p}]
  <2> DEFINE me == [att[a] EXCEPT !.todo = @ \ {p}]
  <2>1. Children(p) = {}  BY <1>2, <1>3, LeafHasNoChildren DEF IInv
  <2>2. me \in AttemptType  BY <1>1 DEF AttemptType
  <2>3. /\ me.pc = "scrubbing" /\ me.set = att[a].set /\ me.stuck = att[a].stuck
        /\ me.todo = att[a].todo \ {p}
    BY <1>1 DEF AttemptType
  <2>4. att' = [att EXCEPT ![a] = me]  BY <1>4
  <2> HIDE DEF me
  <2> QED  BY <1>1, <1>2, <1>3, <1>4, <2>1, <2>2, <2>3, <2>4, RemoveStep
<1>5. CASE /\ att' = [att EXCEPT ![a].todo = @ \ {p}, ![a].stuck = @ \cup {p}]
           /\ UNCHANGED tree
  <2> DEFINE me == [att[a] EXCEPT !.todo = @ \ {p}, !.stuck = @ \cup {p}]
  <2>1. me \in AttemptType  BY <1>1, <1>3 DEF AttemptType
  <2>2. /\ me.pc = "scrubbing" /\ me.set = att[a].set /\ me.stuck = att[a].stuck \cup {p}
        /\ me.todo = att[a].todo \ {p}
    BY <1>1 DEF AttemptType
  <2>3. att' = [att EXCEPT ![a] = me]  BY <1>5
  <2> HIDE DEF me
  <2> QED  BY <1>1, <1>5, <2>1, <2>2, <2>3, ListStep
<1> QED  BY <1>2, <1>4, <1>5

LEMMA ScrubLeaveStep == ASSUME IInv, NEW a \in Attempts, ScrubLeave(a) PROVE IInv'
<1> DEFINE p == Head(att[a].stack)
<1>1. att[a] \in AttemptType /\ att[a].pc = "scrubbing" /\ UNCHANGED <<rd, contended>>
      /\ att[a].stack # <<>> /\ att[a].stack \in Seq(Paths)
  BY AttemptTyped DEF ScrubLeave, AttemptType
<1>2. p \in Paths /\ Tail(att[a].stack) \in Seq(Paths)  BY <1>1
<1>3. \/ /\ tree' = IF Children(p) = {} THEN Drop(p) ELSE tree
         /\ att' = [att EXCEPT ![a].stack = Tail(@)]
      \/ /\ att' = [att EXCEPT ![a].stack = Tail(@), ![a].stuck = @ \cup {p}]
         /\ UNCHANGED tree
  BY DEF ScrubLeave
<1> HIDE DEF p
<1>4. CASE /\ tree' = IF Children(p) = {} THEN Drop(p) ELSE tree
           /\ att' = [att EXCEPT ![a].stack = Tail(@)]
  <2> DEFINE me == [att[a] EXCEPT !.stack = Tail(@)]
  <2>1. me \in AttemptType  BY <1>1, <1>2 DEF AttemptType
  <2>2. /\ me.pc = "scrubbing" /\ me.set = att[a].set /\ me.stuck = att[a].stuck
        /\ me.todo = att[a].todo
    BY <1>1 DEF AttemptType
  <2>3. att' = [att EXCEPT ![a] = me]  BY <1>4
  <2> HIDE DEF me
  <2>4. CASE Children(p) = {}
    BY <1>1, <1>2, <1>4, <2>1, <2>2, <2>3, <2>4, RemoveStep
  <2>5. CASE Children(p) # {}
    <3>1. tree' = tree  BY <1>4, <2>5
    <3> QED  BY <1>1, <2>1, <2>2, <2>3, <3>1, ListStep
  <2> QED  BY <2>4, <2>5
<1>5. CASE /\ att' = [att EXCEPT ![a].stack = Tail(@), ![a].stuck = @ \cup {p}]
           /\ UNCHANGED tree
  <2> DEFINE me == [att[a] EXCEPT !.stack = Tail(@), !.stuck = @ \cup {p}]
  <2>1. me \in AttemptType  BY <1>1, <1>2 DEF AttemptType
  <2>2. /\ me.pc = "scrubbing" /\ me.set = att[a].set /\ me.stuck = att[a].stuck \cup {p}
        /\ me.todo = att[a].todo
    BY <1>1 DEF AttemptType
  <2>3. att' = [att EXCEPT ![a] = me]  BY <1>5
  <2> HIDE DEF me
  <2> QED  BY <1>1, <1>5, <2>1, <2>2, <2>3, ListStep
<1> QED  BY <1>3, <1>4, <1>5

LEMMA ScrubEndStep ==
  ASSUME IInv, NEW a \in Attempts, ScrubRaises(a) \/ ScrubDone(a) PROVE IInv'
<1>1. contended' \in BOOLEAN /\ UNCHANGED <<tree, rd>>
  BY DEF ScrubRaises, ScrubDone, IInv, TypeInv
<1> QED  BY <1>1, Endings DEF ScrubRaises, ScrubDone

-----------------------------------------------------------------------------
(* The steps of a stage reader.                                            *)

LEMMA ReaderStep ==
  ASSUME IInv, NEW r \in Readers, NEW me \in ReaderType, rd' = [rd EXCEPT ![r] = me],
         UNCHANGED <<tree, att, contended>>,
         me.pc \notin {"new", "passed"} => me.bound \in Sets,
         me.pc \in {"new", "receipt", "index"} => me.pos = 1 /\ me.got = {},
         me.pc = "blobs" =>
           /\ me.idx = me.bound /\ me.pos \in 1..TASKS_PER_STAGE
           /\ me.got = {Blob(me.stage, me.bound, i) : i \in 1..(me.pos - 1)},
         me.pc = "passed" => me.got = BlobsOf(me.bound, me.stage)
  PROVE  IInv'
<1>1. rd \in [Readers -> ReaderType]  BY DEF IInv, TypeInv
<1>2. rd'[r] = me /\ \A q \in Readers : q # r => rd'[q] = rd[q]  BY <1>1
<1>3. TypeInv'  BY <1>1 DEF IInv, TypeInv
<1>4. ReadInv'  BY <1>2 DEF IInv, ReadInv, BlobsOf
<1>5. TreeInv' /\ WorkInv'
  BY DEF IInv, TreeInv, WorkInv, WorkOK, Package, Body, StagePart
<1>6. FileInv'  BY DEF IInv, FileInv, FileOK
<1> QED  BY <1>3, <1>4, <1>5, <1>6 DEF IInv

LEMMA RejectStep ==
  ASSUME IInv, NEW r \in Readers, Reject(r), UNCHANGED <<tree, att, contended>>
  PROVE  IInv'
<1>1. NewReader \in ReaderType  BY DEF NewReader, ReaderType, STAGES
<1>2. NewReader.pc = "new" /\ NewReader.pos = 1 /\ NewReader.got = {}  BY DEF NewReader
<1>3. rd' = [rd EXCEPT ![r] = NewReader]  BY DEF Reject
<1> QED  BY <1>1, <1>2, <1>3, ReaderStep

LEMMA LoadStep == ASSUME IInv, NEW r \in Readers, Load(r) PROVE IInv'
<1>1. rd[r] \in ReaderType /\ UNCHANGED <<tree, att, contended>>
  BY DEF IInv, TypeInv, Load, StartRead, ReadReceipt, ReadIndex, ReadBlob
<1>2. TASKS_PER_STAGE \in Nat \ {0}  BY CustodyAssumption
<1>3. CASE Reject(r)  BY <1>1, <1>3, RejectStep
<1>4. CASE StartRead(r)
  <2>1. PICK s \in Sets, st \in STAGES :
          rd' = [rd EXCEPT ![r].stage = st, ![r].bound = s, ![r].pc = "receipt"]
    BY <1>4 DEF StartRead
  <2> DEFINE me == [rd[r] EXCEPT !.stage = st, !.bound = s, !.pc = "receipt"]
  <2>2. me \in ReaderType  BY <1>1 DEF ReaderType
  <2>3. me.pc = "receipt" /\ me.bound = s /\ me.pos = 1 /\ me.got = {}
    BY <1>1, <1>4 DEF ReaderType, StartRead, IInv, ReadInv
  <2>4. rd' = [rd EXCEPT ![r] = me]  BY <2>1
  <2> HIDE DEF me
  <2> QED  BY <1>1, <2>2, <2>3, <2>4, ReaderStep
<1>5. CASE ReadReceipt(r) /\ ~Reject(r)
  <2> DEFINE me == [rd[r] EXCEPT !.pc = "index"]
  <2>1. me \in ReaderType  BY <1>1 DEF ReaderType
  <2>2. me.pc = "index" /\ me.bound \in Sets /\ me.pos = 1 /\ me.got = {}
    BY <1>1, <1>5 DEF ReaderType, ReadReceipt, IInv, ReadInv
  <2>3. rd' = [rd EXCEPT ![r] = me]  BY <1>5 DEF ReadReceipt
  <2> HIDE DEF me
  <2> QED  BY <1>1, <2>1, <2>2, <2>3, ReaderStep
<1>6. CASE ReadIndex(r) /\ ~Reject(r)
  <2> DEFINE me == [rd[r] EXCEPT !.pc = "blobs", !.idx = Content(Index(rd[r].stage))]
  <2>1. /\ rd[r].bound \in Sets /\ rd[r].pos = 1 /\ rd[r].got = {}
        /\ Content(Index(rd[r].stage)) = rd[r].bound
    BY <1>1, <1>6 DEF ReadIndex, IInv, ReadInv, IndexAccepted
  <2>2. me \in ReaderType  BY <1>1, <2>1 DEF ReaderType
  <2>3. /\ me.pc = "blobs" /\ me.bound = rd[r].bound /\ me.idx = rd[r].bound /\ me.pos = 1
        /\ me.got = {} /\ me.stage = rd[r].stage
    BY <1>1, <2>1 DEF ReaderType
  <2>4. rd' = [rd EXCEPT ![r] = me]  BY <1>6 DEF ReadIndex
  <2> HIDE DEF me
  <2>5. 1..(me.pos - 1) = {} /\ me.pos \in 1..TASKS_PER_STAGE  BY <1>2, <2>3
  <2>6. me.got = {Blob(me.stage, me.bound, i) : i \in 1..(me.pos - 1)}  BY <2>3, <2>5
  <2> QED  BY <1>1, <2>1, <2>2, <2>3, <2>4, <2>5, <2>6, ReaderStep
<1>7. CASE ReadBlob(r) /\ ~Reject(r)
  <2> DEFINE p  == Blob(rd[r].stage, rd[r].idx, rd[r].pos)
             pc == IF rd[r].pos = TASKS_PER_STAGE THEN "passed" ELSE "blobs"
             me == [rd[r] EXCEPT !.pos = @ + 1, !.got = @ \cup {p}, !.pc = pc]
  <2>1. /\ rd[r].pc = "blobs" /\ rd[r].bound \in Sets /\ rd[r].idx = rd[r].bound
        /\ rd[r].pos \in 1..TASKS_PER_STAGE
        /\ rd[r].got = {Blob(rd[r].stage, rd[r].bound, i) : i \in 1..(rd[r].pos - 1)}
    BY <1>7 DEF ReadBlob, IInv, ReadInv
  <2>2. p \in DOMAIN tree  BY <1>7 DEF ReadBlob, Complete, Exists
  <2>3. p \in Paths  BY <2>2 DEF IInv, TypeInv
  <2>4. rd' = [rd EXCEPT ![r] = me]  BY <1>7, <2>1 DEF ReadBlob
  <2>5. me \in ReaderType
    <3>1. rd[r].pos + 1 \in Nat /\ pc \in {"blobs", "passed"}  BY <1>2, <2>1
    <3>2. rd[r].got \cup {p} \in SUBSET Paths  BY <1>1, <2>3 DEF ReaderType
    <3> HIDE DEF pc, p
    <3> QED  BY <1>1, <3>1, <3>2 DEF ReaderType
  <2>6. /\ me.pc = pc /\ me.bound = rd[r].bound /\ me.idx = rd[r].bound
        /\ me.pos = rd[r].pos + 1 /\ me.stage = rd[r].stage
        /\ me.got = rd[r].got \cup {p}
    BY <1>1, <2>1 DEF ReaderType
  <2> HIDE DEF me
  <2>7. 1..(me.pos - 1) = 1..(rd[r].pos - 1) \cup {rd[r].pos}  BY <1>2, <2>1, <2>6
  <2>8. me.got = {Blob(me.stage, me.bound, i) : i \in 1..(me.pos - 1)}
    BY <2>1, <2>6, <2>7
  <2>9. pc = "passed" => me.got = BlobsOf(me.bound, me.stage)
    <3>1. pc = "passed" => me.pos - 1 = TASKS_PER_STAGE  BY <1>2, <2>1, <2>6
    <3> QED  BY <2>8, <3>1 DEF BlobsOf
  <2>10. pc = "blobs" => me.pos \in 1..TASKS_PER_STAGE  BY <1>2, <2>1, <2>6
  <2> QED  BY <1>1, <2>1, <2>4, <2>5, <2>6, <2>8, <2>9, <2>10, ReaderStep
<1> QED  BY <1>3, <1>4, <1>5, <1>6, <1>7 DEF Load

LEMMA FirstState == ASSUME Init PROVE IInv
<1>1. Root \in Paths  BY DEF Paths
<1>2. [by |-> NoSet, whole |-> TRUE] \in FileType  BY DEF FileType
<1>3. /\ DOMAIN tree \subseteq {Root} /\ tree \in [DOMAIN tree -> FileType]
      /\ \A p \in DOMAIN tree : p = Root /\ tree[p].whole
  <2>1. CASE tree = << >>
    <3>1. DOMAIN tree = {} /\ tree \in [{} -> FileType]  BY <2>1
    <3> QED  BY <3>1
  <2>2. CASE tree = [p \in {Root} |-> [by |-> NoSet, whole |-> TRUE]]
    <3>1. DOMAIN tree = {Root} /\ tree[Root] = [by |-> NoSet, whole |-> TRUE] /\ tree[Root].whole
      BY <2>2
    <3>2. tree \in [{Root} -> FileType]  BY <1>2, <2>2
    <3> QED  BY <3>1, <3>2
  <2> QED  BY <2>1, <2>2 DEF Init
<1>4. TypeInv
  <2>1. NewReader \in ReaderType  BY DEF NewReader, ReaderType, STAGES
  <2> QED  BY <1>1, <1>3, <2>1, NewTyped DEF TypeInv, Init
<1>5. TreeInv  BY <1>3 DEF TreeInv
<1>6. \A a \in Attempts : att[a].pc = "new" /\ att[a].wrote = {} /\ att[a].opening = NoPath
  BY DEF Init, NewAttempt
<1>7. WorkInv  BY <1>6 DEF WorkInv, WorkOK, Running, Inside, Trying
<1>8. IsDir(Root)  BY DEF IsDir, Root
<1>9. FileInv  BY <1>3, <1>8 DEF FileInv
<1>10. \A r \in Readers : rd[r].pc = "new" /\ rd[r].pos = 1 /\ rd[r].got = {}
  BY DEF Init, NewReader
<1>11. ReadInv  BY <1>10 DEF ReadInv
<1> QED  BY <1>4, <1>5, <1>7, <1>9, <1>11 DEF IInv

LEMMA NextStep == ASSUME IInv, [Next]_vars PROVE IInv'
<1>1. CASE UNCHANGED vars
  <2>1. TypeInv' /\ TreeInv'  BY <1>1 DEF vars, IInv, TypeInv, TreeInv
  <2>2. WorkInv' /\ FileInv'
    BY <1>1 DEF vars, IInv, WorkInv, WorkOK, FileInv, FileOK, Package, Body, StagePart
  <2>3. ReadInv'  BY <1>1 DEF vars, IInv, ReadInv
  <2> QED  BY <2>1, <2>2, <2>3 DEF IInv
<1>2. ASSUME NEW a \in Attempts, Import(a) PROVE IInv'
  BY <1>2, PrepareStep, MakeRootStep, MakeDirStep, OpenFileStep, FillFileStep,
     BodyWrittenStep, ReadbackStep, VerifyManifestStep, VerifyStep, IOErrorStep, KillStep,
     ScrubEnterStep, ScrubFileStep, ScrubLeaveStep, ScrubEndStep
     DEF Import
<1> QED  BY <1>1, <1>2, LoadStep DEF Next

LEMMA Inductive == Spec => []IInv
<1>1. Init => IInv  BY FirstState
<1>2. IInv /\ [Next]_vars => IInv'  BY NextStep
<1> QED  BY <1>1, <1>2, PTL DEF Spec

-----------------------------------------------------------------------------

(* Every state of the directory, the attempts and the readers is well      *)
(* formed.                                                                 *)
THEOREM TypeCorrect == Spec => []TypeOK
<1>1. IInv => TypeOK
  <2> SUFFICES ASSUME IInv PROVE TypeOK  OBVIOUS
  <2>1. /\ DOMAIN tree \subseteq Paths /\ contended \in BOOLEAN
        /\ \A p \in DOMAIN tree : tree[p] \in [by : Attempts \cup {NoSet}, whole : BOOLEAN]
    BY DEF IInv, TypeInv, FileType
  <2>2. \A a \in Attempts : att[a] \in AttemptType  BY DEF IInv, TypeInv
  <2>3. \A r \in Readers : rd[r] \in ReaderType  BY DEF IInv, TypeInv
  <2>4. \A a \in Attempts : \A k \in DOMAIN att[a].stack : att[a].stack[k] \in Paths
    BY <2>2 DEF AttemptType
  <2> QED  BY <2>1, <2>2, <2>3, <2>4 DEF TypeOK, AttemptType, ReaderType
<1> QED  BY <1>1, Inductive, PTL

(* import_authorized_set that reports a failure has left no file of its    *)
(* own but those its scrub was refused, however many attempts write and    *)
(* scrub in the directory and whichever of the removals fail.              *)
THEOREM FailuresLeaveOnlyStuck == Spec => []FailureLeavesOnlyStuck
<1>1. IInv => FailureLeavesOnlyStuck
  BY DEF IInv, FileInv, FileOK, FailureLeavesOnlyStuck
<1> QED  BY <1>1, Inductive, PTL

(* A stage reader that passes read every blob of the set it was bound to,  *)
(* whatever was imported and scrubbed between its reads.                   *)
THEOREM ReadersReadOneSet == Spec => []ReadsOneSet
<1>1. IInv => ReadsOneSet  BY DEF IInv, ReadInv, ReadsOneSet
<1> QED  BY <1>1, Inductive, PTL

-----------------------------------------------------------------------------
(* Without contention.                                                     *)

(* An attempt inside, alone, does a step.                                  *)
LEMMA SoleStep ==
  ASSUME Inv, IInv', ~contended, ~contended', NEW a \in Attempts, att[a].pc \in Inside,
         NEW me \in AttemptType, att' = [att EXCEPT ![a] = me],
         me.pc \notin {"new", "making", "refused"},
         \A q \in DOMAIN tree' :
           q = Root \/ tree'[q].by = a \/ (q \in DOMAIN tree /\ tree'[q].by = tree[q].by),
         Kept(me)',
         me.pc = "killed" => /\ tree' = tree /\ att[a].pc \in Trying /\ me.set = att[a].set,
         me.pc = "done" => me.seen = me.set /\ Whole(me.set)'
  PROVE  Inv'
<1>1. att \in [Attempts -> AttemptType]  BY DEF Inv, IInv, TypeInv
<1>2. att'[a] = me /\ \A b \in Attempts : b # a => att'[b] = att[b]  BY <1>1
<1>3. /\ \A p \in DOMAIN tree : p # Root => tree[p].by = a
      /\ \A b \in Attempts \ {a} : att[b].pc \notin Inside \cup {"done"}
  BY DEF Inv, SoleInv
<1>4. \A p \in DOMAIN tree' : p # Root => tree'[p].by = a  BY <1>3
<1>5. \A b \in Attempts \ {a} : att'[b].pc \notin Inside \cup {"done"}  BY <1>2, <1>3
<1>6. SoleInv'
  <2>1. ASSUME NEW b \in Attempts, b # a PROVE Kept(att[b])'
    <3>1. att'[b].pc \notin Trying /\ att'[b].pc # "verifying"
      BY <1>5, <2>1 DEF Inside, Trying
    <3> QED  BY <3>1 DEF Kept
  <2>2. Kept(att[a])'  BY <1>2
  <2> QED  BY <2>1, <2>2, <1>4, <1>5 DEF SoleInv
<1>7. ReceiptedSetStaysWhole'  BY <1>2, <1>5 DEF ReceiptedSetStaysWhole
<1>8. SealedOverWholeBody'
  <2>1. SUFFICES ASSUME NEW b \in Attempts, Complete(Manifest)', tree'[Manifest].by = b,
                        att'[b].pc \notin {"scrubbing", "half_scrubbed", "failed"},
                        NEW p \in Body(att'[b].set) \cup Indexes
                 PROVE  Complete(p)'
    BY DEF SealedOverWholeBody, Body, StagePart
  <2>2. Manifest \in DOMAIN tree' /\ Manifest # Root /\ tree'[Manifest].whole
    BY <2>1, LayoutTable DEF Complete, Exists
  <2>3. b = a /\ att'[b] = me  BY <1>2, <1>4, <2>1, <2>2
  <2>5. CASE me.pc \in Trying
    <3>1. Body(me.set) \cup Indexes \subseteq me.wrote
      BY <2>2, <2>3, <2>5 DEF Kept, IInv, WorkInv, WorkOK, Body, StagePart
    <3> QED  BY <2>1, <2>3, <2>5, <3>1 DEF Kept, Complete, Exists
  <2>6. CASE me.pc = "killed"
    <3>1. Complete(Manifest) /\ tree[Manifest].by = a /\ att[a].pc \notin {"scrubbing", "half_scrubbed", "failed"}
      BY <2>1, <2>3, <2>6 DEF Complete, Exists, Trying
    <3>2. Complete(p)  BY <2>1, <2>3, <2>6, <3>1 DEF Inv, SealedOverWholeBody
    <3> QED  BY <2>6, <3>2 DEF Complete, Exists
  <2>7. CASE me.pc = "done"
    BY <2>1, <2>3, <2>7 DEF Whole, Package
  <2> QED  BY <2>1, <2>3, <2>5, <2>6, <2>7 DEF AttemptType, Running, Inside, Finished
<1> QED  BY <1>6, <1>7, <1>8 DEF Inv

(* An attempt outside does a step that leaves it outside and the tree      *)
(* alone.                                                                  *)
LEMMA OutsideStep ==
  ASSUME Inv, IInv', ~contended, ~contended', NEW a \in Attempts, att[a].pc \in {"new", "making"},
         NEW me \in AttemptType, att' = [att EXCEPT ![a] = me],
         me.pc \in {"making", "refused", "killed"}, tree' = tree
  PROVE  Inv'
<1>1. att \in [Attempts -> AttemptType]  BY DEF Inv, IInv, TypeInv
<1>2. att'[a] = me /\ \A b \in Attempts : b # a => att'[b] = att[b]  BY <1>1
<1>3. me.pc \notin Inside /\ me.pc \notin Trying /\ att[a].pc \notin Inside
  BY DEF Inside, Trying
<1>4. \A q \in DOMAIN tree : ~IsDir(q) => tree[q].by # a
  BY DEF Inv, IInv, FileInv, FileOK
<1>5. SoleInv'
  <2>1. ASSUME NEW b \in Attempts, b # a PROVE Kept(att[b])'
    <3>1. Kept(att[b])  BY DEF Inv, SoleInv
    <3> QED  BY <1>2, <2>1, <3>1 DEF Kept, Package, Body, StagePart
  <2>2. Kept(att[a])'  BY <1>2, <1>3 DEF Kept
  <2> QED  BY <1>2, <1>3, <2>1, <2>2 DEF Inv, SoleInv
<1>6. \A p : Complete(p)' <=> Complete(p)  BY DEF Complete, Exists
<1>7. ASSUME NEW p \in Indexes \cup {Manifest, Receipt}, Complete(p)
      PROVE  Content(p)' = Content(p)
  <2>1. p \in DOMAIN tree /\ ~IsDir(p) /\ p # Root
    BY <1>7, LayoutTable DEF Complete, Exists, IsDir, Indexes, Index, Manifest, Receipt
  <2>2. tree[p].by # a /\ tree[p].by \in Attempts  BY <1>4, <2>1 DEF Inv, IInv, TreeInv
  <2>3. Content(p)' = att'[tree[p].by].set  BY <1>6, <1>7 DEF Content
  <2> QED  BY <1>2, <1>7, <2>2, <2>3 DEF Content
<1>8. \A s : Whole(s) => Whole(s)'
  <2>1. SUFFICES ASSUME NEW s, Whole(s) PROVE Whole(s)'  OBVIOUS
  <2>2. \A p \in {Root} \cup Package(s) : Complete(p)'  BY <1>6, <2>1 DEF Whole
  <2>3. \A p \in Indexes \cup {Manifest, Receipt} : Content(p)' = s
    BY <1>7, <2>1 DEF Whole, Package
  <2> QED  BY <2>2, <2>3 DEF Whole, Package, Body, StagePart
<1>9. ReceiptedSetStaysWhole'
  BY <1>2, <1>8 DEF Inv, ReceiptedSetStaysWhole
<1>10. SealedOverWholeBody'
  <2>1. SUFFICES ASSUME NEW b \in Attempts, Complete(Manifest), tree[Manifest].by = b,
                        att'[b].pc \notin {"scrubbing", "half_scrubbed", "failed"},
                        NEW p \in Body(att'[b].set) \cup Indexes
                 PROVE  Complete(p)
    BY <1>6 DEF SealedOverWholeBody, Body, StagePart
  <2>2. b # a  BY <1>4, <2>1 DEF Complete, Exists, IsDir, Manifest
  <2> QED  BY <1>2, <2>1, <2>2 DEF Inv, SealedOverWholeBody
<1> QED  BY <1>5, <1>9, <1>10 DEF Inv

(* An attempt enters an empty directory. *)
LEMMA EnterStep ==
  ASSUME Inv, IInv', ~contended, ~contended', NEW a \in Attempts, Enter(a),
         NEW me \in AttemptType, att' = [att EXCEPT ![a] = me],
         me.pc = "writing", me.wrote = {},
         DOMAIN tree \subseteq {Root}, DOMAIN tree' = {Root}
  PROVE  Inv'
<1>1. att \in [Attempts -> AttemptType]  BY DEF Inv, IInv, TypeInv
<1>2. att'[a] = me /\ \A b \in Attempts : b # a => att'[b] = att[b]  BY <1>1
<1>3. \A b \in Attempts \ {a} : att[b].pc \notin Inside  BY DEF Enter
<1>4. \A b \in Attempts : att[b].pc # "done"
  <2>1. \A s : Private \in Package(s)  BY DEF Package, Body
  <2>2. Private # Root  BY LayoutTable
  <2> QED  BY <2>1, <2>2 DEF Inv, ReceiptedSetStaysWhole, Whole, Complete, Exists
<1>5. ASSUME NEW b \in Attempts PROVE Kept(att[b])'
  <2>1. CASE b = a  BY <1>2, <2>1 DEF Kept
  <2>2. CASE b # a  BY <1>2, <1>3, <2>2 DEF Kept, Inside, Trying
  <2> QED  BY <2>1, <2>2
<1>6. SoleInv'  BY <1>2, <1>3, <1>4, <1>5 DEF SoleInv
<1>7. ReceiptedSetStaysWhole'  BY <1>2, <1>4 DEF ReceiptedSetStaysWhole
<1>8. ~Complete(Manifest)'  BY LayoutTable DEF Complete, Exists
<1>9. SealedOverWholeBody'  BY <1>8 DEF SealedOverWholeBody
<1> QED  BY <1>6, <1>7, <1>9 DEF Inv

(* A step inside that leaves the tree and what the attempt remembers of it.*)
LEMMA SameTreeStep ==
  ASSUME Inv, IInv', ~contended, ~contended', NEW a \in Attempts, att[a].pc \in Trying,
         NEW me \in AttemptType, att' = [att EXCEPT ![a] = me], tree' = tree,
         me.pc \in Trying, me.wrote = att[a].wrote, me.opening = att[a].opening,
         me.pc = "verifying" => Package(me.set) \subseteq me.wrote /\ me.seen = me.set
  PROVE  Inv'
<1>1. Kept(att[a]) /\ att[a].pc \in Inside  BY DEF Inv, SoleInv, Inside
<1>2. Kept(me)'  BY <1>1 DEF Kept, Package, Body, StagePart
<1> QED  BY <1>1, <1>2, SoleStep DEF Trying

(* A step after which the attempt does not try any more. *)
LEMMA GiveUpStep ==
  ASSUME Inv, IInv', ~contended, ~contended', NEW a \in Attempts, att[a].pc \in Inside,
         NEW me \in AttemptType, att' = [att EXCEPT ![a] = me],
         me.pc \in {"scrubbing", "half_scrubbed", "failed", "killed"},
         \A q \in DOMAIN tree' : q \in DOMAIN tree /\ tree'[q].by = tree[q].by,
         me.pc = "killed" => /\ tree' = tree /\ att[a].pc \in Trying /\ me.set = att[a].set
  PROVE  Inv'
<1>1. Kept(me)'  BY DEF Kept, Trying
<1> QED  BY <1>1, SoleStep

LEMMA ScrubStartsSole ==
  ASSUME Inv, IInv', ~contended, ~contended', NEW a \in Attempts, att[a].pc \in Trying,
         StartScrub(a), tree' = tree
  PROVE  Inv'
<1> DEFINE me == [NewAttempt EXCEPT !.pc = "scrubbing", !.set = att[a].set,
                                    !.todo = ScrubTargets(att[a])]
<1>1. att' = [att EXCEPT ![a] = me]  BY DEF StartScrub
<1>2. me = att'[a]  BY <1>1 DEF Inv, IInv, TypeInv
<1>3. me \in AttemptType  BY <1>2 DEF IInv, TypeInv
<1>4. me.pc = "scrubbing"  BY DEF NewAttempt
<1> HIDE DEF me
<1>5. att[a].pc \in Inside  BY DEF Inside
<1> QED  BY <1>1, <1>3, <1>4, <1>5, GiveUpStep

LEMMA EndSole ==
  ASSUME Inv, IInv', ~contended, ~contended', NEW a \in Attempts, att[a].pc \in Inside,
         NEW pc \in {"half_scrubbed", "failed", "killed"},
         att' = End(a, pc), tree' = tree, pc = "killed" => att[a].pc \in Trying
  PROVE  Inv'
<1> DEFINE me == [NewAttempt EXCEPT !.pc = pc, !.set = att[a].set, !.stuck = att[a].stuck]
<1>1. att' = [att EXCEPT ![a] = me]  BY DEF End
<1>2. me = att'[a]  BY <1>1 DEF Inv, IInv, TypeInv
<1>3. me \in AttemptType  BY <1>2 DEF IInv, TypeInv
<1>4. me.pc = pc /\ me.set = att[a].set  BY DEF NewAttempt
<1> HIDE DEF me
<1> QED  BY <1>1, <1>3, <1>4, GiveUpStep

(* An entry below the root exists only if the root has one. *)
LEMMA EmptyRoot ==
  ASSUME IInv, Children(Root) = {}
  PROVE  DOMAIN tree \subseteq {Root}
<1>1. ASSUME NEW q \in DOMAIN tree, q # Root PROVE FALSE
  <2>1. Root \in Above(q)  BY Climb DEF Climbs, IInv, TypeInv
  <2> QED  BY <1>1, <2>1, ChildBelow DEF IInv
<1> QED  BY <1>1

LEMMA PrepareSole ==
  ASSUME Inv, IInv', ~contended, ~contended', NEW a \in Attempts, Prepare(a) PROVE Inv'
<1>1. att[a].pc = "new" /\ tree' = tree /\ att \in [Attempts -> AttemptType] /\ IInv
      /\ WorkOK(att[a])
  BY AttemptTyped DEF Prepare, Inv, IInv, TypeInv
<1>2. CASE att' = End(a, "refused")
  <2> DEFINE me == [NewAttempt EXCEPT !.pc = "refused", !.set = att[a].set,
                                  !.stuck = att[a].stuck]
  <2>1. att' = [att EXCEPT ![a] = me]  BY <1>2 DEF End
  <2>2. me = att'[a]  BY <1>1, <2>1
  <2>3. me \in AttemptType  BY <2>2 DEF IInv, TypeInv
  <2>4. me.pc = "refused"  BY DEF NewAttempt
  <2> HIDE DEF me
  <2> QED  BY <1>1, <2>1, <2>3, <2>4, OutsideStep
<1>3. ASSUME NEW s \in Sets, att' = [att EXCEPT ![a].pc = "making", ![a].set = s]
      PROVE  Inv'
  <2> DEFINE me == [att[a] EXCEPT !.pc = "making", !.set = s]
  <2>1. att' = [att EXCEPT ![a] = me]  BY <1>3
  <2>2. me = att'[a]  BY <1>1, <2>1
  <2>3. me \in AttemptType  BY <2>2 DEF IInv, TypeInv
  <2>4. me.pc = "making"  BY <1>1 DEF AttemptType
  <2> HIDE DEF me
  <2> QED  BY <1>1, <2>1, <2>3, <2>4, OutsideStep
<1>4. ASSUME NEW s \in Sets, LookEmpty, Enter(a),
             att' = [att EXCEPT ![a].pc = "writing", ![a].set = s]
      PROVE  Inv'
  <2> DEFINE me == [att[a] EXCEPT !.pc = "writing", !.set = s]
  <2>1. att' = [att EXCEPT ![a] = me]  BY <1>4
  <2>2. me = att'[a]  BY <1>1, <2>1
  <2>3. me \in AttemptType  BY <2>2 DEF IInv, TypeInv
  <2>4. me.pc = "writing" /\ me.wrote = {}  BY <1>1 DEF AttemptType, WorkOK
  <2> HIDE DEF me
  <2>5. DOMAIN tree = {Root}  BY <1>1, <1>4, EmptyRoot DEF LookEmpty, Exists
  <2> QED  BY <1>1, <1>4, <2>1, <2>3, <2>4, <2>5, EnterStep
<1> QED  BY <1>2, <1>3, <1>4 DEF Prepare

LEMMA MakeRootSole ==
  ASSUME Inv, IInv', ~contended, ~contended', NEW a \in Attempts, MakeRoot(a) PROVE Inv'
<1>1. att[a].pc = "making" /\ att \in [Attempts -> AttemptType] /\ IInv /\ WorkOK(att[a])
  BY AttemptTyped DEF MakeRoot, Inv, IInv, TypeInv
<1>2. CASE Exists(Root)
  <2> DEFINE me == [NewAttempt EXCEPT !.pc = "refused", !.set = att[a].set,
                                  !.stuck = att[a].stuck]
  <2>1. att' = [att EXCEPT ![a] = me] /\ tree' = tree  BY <1>2 DEF MakeRoot, End
  <2>2. me = att'[a]  BY <1>1, <2>1
  <2>3. me \in AttemptType  BY <2>2 DEF IInv, TypeInv
  <2>4. me.pc = "refused"  BY DEF NewAttempt
  <2> HIDE DEF me
  <2> QED  BY <1>1, <2>1, <2>3, <2>4, OutsideStep
<1>3. CASE ~Exists(Root)
  <2> DEFINE me == [att[a] EXCEPT !.pc = "writing", !.created = TRUE]
  <2>1. att' = [att EXCEPT ![a] = me] /\ Enter(a)  BY <1>3 DEF MakeRoot
  <2>2. me = att'[a]  BY <1>1, <2>1
  <2>3. me \in AttemptType  BY <2>2 DEF IInv, TypeInv
  <2>4. me.pc = "writing" /\ me.wrote = {}  BY <1>1 DEF AttemptType, WorkOK
  <2> HIDE DEF me
  <2>5. DOMAIN tree = {}
    <3>1. ASSUME NEW q \in DOMAIN tree PROVE FALSE
      BY <1>1, <1>3, AboveExists, Climb DEF Climbs, IInv, TypeInv, Exists
    <3> QED  BY <3>1
  <2>6. DOMAIN tree' = {Root}  BY <1>3, <2>5 DEF MakeRoot, Put
  <2> QED  BY <1>1, <2>1, <2>3, <2>4, <2>5, <2>6, EnterStep
<1> QED  BY <1>2, <1>3

LEMMA MakeDirSole ==
  ASSUME Inv, IInv', ~contended, ~contended', NEW a \in Attempts, MakeDir(a) PROVE Inv'
<1>1. /\ att[a] \in AttemptType /\ att[a].pc = "writing" /\ WorkOK(att[a])
      /\ att[a].pc \in Trying /\ att[a].pc \in Inside /\ IInv /\ Kept(att[a])
      /\ att \in [Attempts -> AttemptType]
  BY AttemptTyped DEF MakeDir, Trying, Inside, Inv, SoleInv, IInv, TypeInv
<1>2. PICK p \in Body(att[a].set) :
        /\ IsDir(p) /\ MayWrite(att[a], p)
        /\ IF CanCreate(p)
           THEN tree' = Put(p, a, TRUE) /\ att' = [att EXCEPT ![a].wrote = @ \cup {p}]
           ELSE StartScrub(a) /\ UNCHANGED tree
  BY DEF MakeDir
<1>3. CASE ~CanCreate(p)  BY <1>1, <1>2, <1>3, ScrubStartsSole
<1>4. CASE CanCreate(p)
  <2>0. PICK me : me = [att[a] EXCEPT !.wrote = @ \cup {p}]  OBVIOUS
  <2>1. att' = [att EXCEPT ![a] = me]  BY <2>0, <1>2, <1>4
  <2>2. me = att'[a]  BY <1>1, <2>1
  <2>3. me \in AttemptType  BY <2>2 DEF IInv, TypeInv
  <2>4. /\ me.pc = "writing" /\ me.wrote = att[a].wrote \cup {p}
        /\ me.opening = att[a].opening
    BY <1>1, <2>0 DEF AttemptType
  <2>5. tree' = Put(p, a, TRUE)  BY <1>2, <1>4
  <2>6. /\ DOMAIN tree' = DOMAIN tree \cup {p} /\ tree'[p].by = a /\ tree'[p].whole
        /\ \A q \in DOMAIN tree : q # p => tree'[q] = tree[q]
    BY <2>5 DEF Put
  <2>7. p \notin DOMAIN tree  BY <1>4 DEF CanCreate, Exists
  <2>8. Kept(me)'  BY <1>1, <2>4, <2>6, <2>7 DEF Kept
  <2>9. \A q \in DOMAIN tree' :
          tree'[q].by = a \/ (q \in DOMAIN tree /\ tree'[q].by = tree[q].by)
    BY <2>6
  <2> QED  BY <1>1, <2>1, <2>3, <2>4, <2>8, <2>9, SoleStep
<1> QED  BY <1>3, <1>4

LEMMA OpenFileSole ==
  ASSUME Inv, IInv', ~contended, ~contended', NEW a \in Attempts, OpenFile(a) PROVE Inv'
<1>1. /\ att[a] \in AttemptType /\ att[a].pc \in {"writing", "sealing"} /\ WorkOK(att[a])
      /\ att[a].pc \in Trying /\ att[a].pc \in Inside /\ IInv /\ Kept(att[a])
      /\ att \in [Attempts -> AttemptType]
  BY AttemptTyped DEF OpenFile, Trying, Inside, Inv, SoleInv, IInv, TypeInv
<1>2. PICK p \in PhasePaths(att[a]) :
        /\ ~IsDir(p) /\ MayWrite(att[a], p)
        /\ IF CanCreate(p)
           THEN tree' = Put(p, a, FALSE) /\ att' = [att EXCEPT ![a].opening = p]
           ELSE StartScrub(a) /\ UNCHANGED tree
  BY DEF OpenFile
<1>3. CASE ~CanCreate(p)  BY <1>1, <1>2, <1>3, ScrubStartsSole
<1>4. CASE CanCreate(p)
  <2>0. PICK me : me = [att[a] EXCEPT !.opening = p]  OBVIOUS
  <2>1. att' = [att EXCEPT ![a] = me]  BY <2>0, <1>2, <1>4
  <2>2. me = att'[a]  BY <1>1, <2>1
  <2>3. me \in AttemptType  BY <2>2 DEF IInv, TypeInv
  <2>4. me.pc = att[a].pc /\ me.wrote = att[a].wrote /\ me.opening = p
    BY <1>1, <2>0 DEF AttemptType
  <2>5. tree' = Put(p, a, FALSE) /\ att[a].opening = NoPath  BY <1>2, <1>4 DEF MayWrite
  <2>6. /\ DOMAIN tree' = DOMAIN tree \cup {p} /\ tree'[p].by = a
        /\ \A q \in DOMAIN tree : q # p => tree'[q] = tree[q]
    BY <2>5 DEF Put
  <2>7. p \notin DOMAIN tree  BY <1>4 DEF CanCreate, Exists
  <2>8. NoPath \notin DOMAIN tree  BY <1>1, NoPathAssumption DEF IInv, TypeInv
  <2>9. Kept(me)'  BY <1>1, <2>4, <2>5, <2>6, <2>7, <2>8 DEF Kept
  <2>10. \A q \in DOMAIN tree' :
          tree'[q].by = a \/ (q \in DOMAIN tree /\ tree'[q].by = tree[q].by)
    BY <2>6
  <2> QED  BY <1>1, <2>1, <2>3, <2>4, <2>9, <2>10, SoleStep
<1> QED  BY <1>3, <1>4

LEMMA FillFileSole ==
  ASSUME Inv, IInv', ~contended, ~contended', NEW a \in Attempts, FillFile(a) PROVE Inv'
<1> DEFINE p == att[a].opening
<1>1. /\ att[a] \in AttemptType /\ att[a].pc \in {"writing", "sealing"} /\ WorkOK(att[a])
      /\ att[a].pc \in Trying /\ att[a].pc \in Inside /\ IInv /\ Kept(att[a])
      /\ att \in [Attempts -> AttemptType] /\ p # NoPath
      /\ \A q \in DOMAIN tree : q # Root => tree[q].by = a
  BY AttemptTyped DEF FillFile, Trying, Inside, Inv, SoleInv, IInv, TypeInv
<1>2. CASE ~Exists(p)  BY <1>1, <1>2, ScrubStartsSole DEF FillFile
<1>3. CASE Exists(p)
  <2>0. PICK me : me = [att[a] EXCEPT !.opening = NoPath, !.wrote = @ \cup {p}]  OBVIOUS
  <2>1. att' = [att EXCEPT ![a] = me]  BY <2>0, <1>3 DEF FillFile
  <2>2. me = att'[a]  BY <1>1, <2>1
  <2>3. me \in AttemptType  BY <2>2 DEF IInv, TypeInv
  <2>4. me.pc = att[a].pc /\ me.wrote = att[a].wrote \cup {p} /\ me.opening = NoPath
    BY <1>1, <2>0 DEF AttemptType
  <2>5. att[a].set \in Sets  BY <1>1 DEF WorkOK, Running
  <2>6. p # Root /\ p \in DOMAIN tree  BY <1>1, <1>3, <2>5, PackagePaths DEF WorkOK, Exists
  <2>7. tree' = Put(p, a, TRUE)  BY <1>1, <1>3, <2>6 DEF FillFile
  <2>8. /\ DOMAIN tree' = DOMAIN tree /\ tree'[p].by = a /\ tree'[p].whole
        /\ \A q \in DOMAIN tree : q # p => tree'[q] = tree[q]
    BY <2>6, <2>7 DEF Put
  <2>9. Kept(me)'  BY <1>1, <2>4, <2>6, <2>8 DEF Kept
  <2>10. \A q \in DOMAIN tree' :
          tree'[q].by = a \/ (q \in DOMAIN tree /\ tree'[q].by = tree[q].by)
    BY <2>8
  <2> QED  BY <1>1, <2>1, <2>3, <2>4, <2>9, <2>10, SoleStep
<1> QED  BY <1>2, <1>3

(* What holds of an attempt that tries. *)
LEMMA SoleTrying ==
  ASSUME Inv, ~contended, NEW a \in Attempts, att[a].pc \in Trying
  PROVE  /\ IInv /\ att \in [Attempts -> AttemptType] /\ att[a] \in AttemptType
         /\ WorkOK(att[a]) /\ Kept(att[a]) /\ att[a].pc \in Inside /\ att[a].set \in Sets
         /\ \A p \in DOMAIN tree : p # Root => tree[p].by = a
BY AttemptTyped DEF Inv, SoleInv, IInv, TypeInv, WorkOK, Running, Inside

LEMMA BodyWrittenSole ==
  ASSUME Inv, IInv', ~contended, ~contended', NEW a \in Attempts, BodyWritten(a) PROVE Inv'
<1>1. att[a].pc \in Trying  BY DEF BodyWritten, Trying
<1>2. att \in [Attempts -> AttemptType] /\ att[a] \in AttemptType  BY <1>1, SoleTrying
<1>3. PICK me : me = [att[a] EXCEPT !.pc = "readback", !.pos = 1]  OBVIOUS
<1>4. att' = [att EXCEPT ![a] = me] /\ tree' = tree  BY <1>3 DEF BodyWritten
<1>5. me \in AttemptType  BY <1>2, <1>4 DEF IInv, TypeInv
<1>6. me.pc = "readback" /\ me.wrote = att[a].wrote /\ me.opening = att[a].opening
  BY <1>2, <1>3 DEF AttemptType
<1> QED  BY <1>1, <1>4, <1>5, <1>6, SameTreeStep DEF Trying

LEMMA ReadbackSole ==
  ASSUME Inv, IInv', ~contended, ~contended', NEW a \in Attempts, Readback(a) PROVE Inv'
<1>1. att[a].pc \in Trying /\ att[a].pc = "readback" /\ tree' = tree
  BY DEF Readback, Trying
<1>2. att \in [Attempts -> AttemptType] /\ att[a] \in AttemptType  BY <1>1, SoleTrying
<1>3. CASE StartScrub(a)  BY <1>1, <1>3, ScrubStartsSole
<1>4. CASE ~StartScrub(a)
  <2>1. PICK me : me = att'[a]  OBVIOUS
  <2>2. att' = [att EXCEPT ![a] = me]  BY <1>2, <1>4, <2>1 DEF Readback
  <2>3. me \in AttemptType  BY <2>1 DEF IInv, TypeInv
  <2>4. /\ me.pc \in {"readback", "sealing"} /\ me.wrote = att[a].wrote
        /\ me.opening = att[a].opening
    BY <1>1, <1>2, <1>4, <2>1 DEF Readback, AttemptType
  <2> QED  BY <1>1, <2>2, <2>3, <2>4, SameTreeStep DEF Trying
<1> QED  BY <1>3, <1>4

LEMMA VerifyManifestSole ==
  ASSUME Inv, IInv', ~contended, ~contended', NEW a \in Attempts, VerifyManifest(a) PROVE Inv'
<1>1. att[a].pc \in Trying /\ tree' = tree /\ Package(att[a].set) \subseteq att[a].wrote
  BY DEF VerifyManifest, Trying
<1>2. att \in [Attempts -> AttemptType] /\ att[a] \in AttemptType /\ IInv
      /\ \A p \in DOMAIN tree : p # Root => tree[p].by = a
  BY <1>1, SoleTrying
<1>3. CASE StartScrub(a)  BY <1>1, <1>3, ScrubStartsSole
<1>4. CASE /\ Complete(Manifest)
           /\ att' = [att EXCEPT ![a].pc = "verifying", ![a].pos = 1,
                                 ![a].seen = Content(Manifest)]
  <2>1. Content(Manifest) = att[a].set
    BY <1>2, <1>4, ManifestSet, LayoutTable DEF Complete, Exists
  <2>2. PICK me : me = [att[a] EXCEPT !.pc = "verifying", !.pos = 1, !.seen = att[a].set]
    OBVIOUS
  <2>3. att' = [att EXCEPT ![a] = me]  BY <1>4, <2>1, <2>2
  <2>4. me \in AttemptType  BY <1>2, <2>3 DEF IInv, TypeInv
  <2>5. /\ me.pc = "verifying" /\ me.wrote = att[a].wrote /\ me.opening = att[a].opening
        /\ me.seen = me.set /\ me.set = att[a].set
    BY <1>2, <2>2 DEF AttemptType
  <2> QED  BY <1>1, <2>3, <2>4, <2>5, SameTreeStep DEF Trying
<1> QED  BY <1>3, <1>4 DEF VerifyManifest

(* A verified package is whole. *)
LEMMA VerifiedWhole ==
  ASSUME Inv, ~contended, NEW a \in Attempts, att[a].pc = "verifying"
  PROVE  Whole(att[a].set) /\ att[a].seen = att[a].set
<1>1. att[a].pc \in Trying  BY DEF Trying
<1>2. IInv /\ Kept(att[a]) /\ att[a].set \in Sets /\ \A p \in DOMAIN tree : p # Root => tree[p].by = a
  BY <1>1, SoleTrying
<1>3. Package(att[a].set) \subseteq att[a].wrote /\ att[a].seen = att[a].set
  BY <1>2 DEF Kept
<1>4. \A p \in Package(att[a].set) : p \in DOMAIN tree /\ tree[p].whole /\ p # Root
  BY <1>1, <1>2, <1>3, PackagePaths DEF Kept
<1>5. Root \in DOMAIN tree /\ tree[Root].whole  BY <1>1, <1>2 DEF Kept, IInv, TreeInv
<1>6. \A p \in {Root} \cup Package(att[a].set) : Complete(p)
  BY <1>4, <1>5 DEF Complete, Exists
<1>7. \A p \in Indexes \cup {Manifest, Receipt} : p \in Package(att[a].set)  BY DEF Package
<1>8. \A p \in Indexes \cup {Manifest, Receipt} : Content(p) = att[a].set
  BY <1>2, <1>4, <1>6, <1>7 DEF Content
<1> QED  BY <1>3, <1>6, <1>8 DEF Whole

LEMMA VerifySole ==
  ASSUME Inv, IInv', ~contended, ~contended', NEW a \in Attempts, Verify(a) PROVE Inv'
<1>1. att[a].pc \in Trying /\ att[a].pc = "verifying" /\ tree' = tree  BY DEF Verify, Trying
<1>2. /\ att \in [Attempts -> AttemptType] /\ att[a] \in AttemptType /\ att[a].pc \in Inside
      /\ Kept(att[a])
  BY <1>1, SoleTrying
<1>3. CASE StartScrub(a)  BY <1>1, <1>3, ScrubStartsSole
<1>4. CASE att' = [att EXCEPT ![a].pos = @ + 1]
  <2>1. PICK me : me = [att[a] EXCEPT !.pos = @ + 1]  OBVIOUS
  <2>2. att' = [att EXCEPT ![a] = me]  BY <1>4, <2>1
  <2>3. me \in AttemptType  BY <1>2, <2>2 DEF IInv, TypeInv
  <2>4. /\ me.pc = "verifying" /\ me.wrote = att[a].wrote /\ me.opening = att[a].opening
        /\ me.seen = att[a].seen /\ me.set = att[a].set
    BY <1>1, <1>2, <2>1 DEF AttemptType
  <2>5. Package(me.set) \subseteq me.wrote /\ me.seen = me.set
    BY <1>1, <1>2, <2>4 DEF Kept
  <2> QED  BY <1>1, <2>2, <2>3, <2>4, <2>5, SameTreeStep DEF Trying
<1>5. CASE att' = [End(a, "done") EXCEPT ![a].seen = att[a].seen]
  <2>1. PICK me : me = [NewAttempt EXCEPT !.pc = "done", !.set = att[a].set,
                                       !.stuck = att[a].stuck, !.seen = att[a].seen]
    OBVIOUS
  <2>2. att' = [att EXCEPT ![a] = me]  BY <1>2, <1>5, <2>1 DEF End
  <2>3. me \in AttemptType  BY <1>2, <2>2 DEF IInv, TypeInv
  <2>4. me.pc = "done" /\ me.set = att[a].set /\ me.seen = att[a].seen
    BY <2>1 DEF NewAttempt
  <2>5. Whole(att[a].set) /\ me.seen = me.set  BY <1>1, <2>4, VerifiedWhole
  <2>6. Whole(me.set)'
    <3>1. \A p \in {Root} \cup Package(me.set) : Complete(p)'
      BY <1>1, <2>4, <2>5 DEF Whole, Complete, Exists
    <3>2. \A p \in DOMAIN tree : p # Root => tree[p].by = a
      BY <1>1, SoleTrying
    <3>3. ASSUME NEW p \in Indexes \cup {Manifest, Receipt} PROVE Content(p)' = me.set
      <4>1. p \in Package(me.set) /\ p # Root
        BY LayoutTable DEF Package, Indexes
      <4>2. Complete(p)' /\ tree'[p].by = a  BY <1>1, <3>1, <3>2, <4>1 DEF Complete, Exists
      <4> QED  BY <1>2, <2>2, <4>2 DEF Content
    <3> QED  BY <3>1, <3>3 DEF Whole, Package, Body, StagePart
  <2>7. Kept(me)'  BY <2>4 DEF Kept, Trying
  <2> QED  BY <1>1, <1>2, <2>2, <2>3, <2>4, <2>5, <2>6, <2>7, SoleStep
<1> QED  BY <1>3, <1>4, <1>5 DEF Verify

LEMMA KillSole ==
  ASSUME Inv, IInv', ~contended, ~contended', NEW a \in Attempts, Kill(a) PROVE Inv'
<1>1. att[a].pc \in Running /\ tree' = tree
      /\ att' = End(a, IF att[a].pc = "scrubbing" THEN "half_scrubbed" ELSE "killed")
  BY DEF Kill
<1>2. CASE att[a].pc = "scrubbing"
  BY <1>1, <1>2, EndSole DEF Inside
<1>3. CASE att[a].pc \in Trying
  <2>1. att' = End(a, "killed")  BY <1>1, <1>3 DEF Trying
  <2> QED  BY <1>1, <1>3, <2>1, EndSole DEF Inside
<1>4. CASE att[a].pc = "making"
  <2>1. att \in [Attempts -> AttemptType]  BY DEF Inv, IInv, TypeInv
  <2>2. PICK me : me = [NewAttempt EXCEPT !.pc = "killed", !.set = att[a].set,
                                       !.stuck = att[a].stuck]  OBVIOUS
  <2>3. att' = [att EXCEPT ![a] = me]  BY <1>1, <1>4, <2>2 DEF End
  <2>4. me \in AttemptType  BY <2>1, <2>3 DEF IInv, TypeInv
  <2>5. me.pc = "killed"  BY <2>2 DEF NewAttempt
  <2> QED  BY <1>1, <1>4, <2>3, <2>4, <2>5, OutsideStep
<1> QED  BY <1>1, <1>2, <1>3, <1>4 DEF Running, Inside

(* A scrub changes what it has left to do, and its own place in the tree.  *)
LEMMA ScrubKeeps ==
  ASSUME IInv, NEW a \in Attempts, ScrubEnter(a) \/ ScrubFile(a) \/ ScrubLeave(a)
  PROVE  att'[a].pc = "scrubbing" /\ att'[a].set = att[a].set
<1>1. att \in [Attempts -> AttemptType] /\ att[a] \in AttemptType  BY DEF IInv, TypeInv
<1>2. att[a].pc = "scrubbing"  BY DEF ScrubEnter, ScrubFile, ScrubLeave
<1>3. CASE ScrubEnter(a)
  <2>1. PICK p :
          \/ att' = [att EXCEPT ![a].todo = (@ \ {p}) \cup Children(p),
                                ![a].stack = <<p>> \o @]
          \/ att' = [att EXCEPT ![a].todo = @ \ {p}, ![a].stack = <<p>> \o @,
                                ![a].stuck = @ \cup {p}]
    BY <1>3 DEF ScrubEnter
  <2> QED  BY <1>1, <1>2, <2>1 DEF AttemptType
<1>4. CASE ScrubFile(a)
  <2>1. PICK p : \/ att' = [att EXCEPT ![a].todo = @ \ {p}]
                 \/ att' = [att EXCEPT ![a].todo = @ \ {p}, ![a].stuck = @ \cup {p}]
    BY <1>4 DEF ScrubFile
  <2> QED  BY <1>1, <1>2, <2>1 DEF AttemptType
<1>5. CASE ScrubLeave(a)
  <2>1. PICK p : \/ att' = [att EXCEPT ![a].stack = Tail(@)]
                 \/ att' = [att EXCEPT ![a].stack = Tail(@), ![a].stuck = @ \cup {p}]
    BY <1>5 DEF ScrubLeave
  <2> QED  BY <1>1, <1>2, <2>1 DEF AttemptType
<1> QED  BY <1>3, <1>4, <1>5

LEMMA ScrubSole ==
  ASSUME Inv, IInv', ~contended, ~contended', NEW a \in Attempts,
         ScrubEnter(a) \/ ScrubFile(a) \/ ScrubLeave(a)
  PROVE  Inv'
<1>1. att[a].pc = "scrubbing" /\ att[a].pc \in Inside
  BY DEF ScrubEnter, ScrubFile, ScrubLeave, Inside
<1>2. att \in [Attempts -> AttemptType] /\ att[a] \in AttemptType
  BY DEF Inv, IInv, TypeInv
<1>3. PICK me : me = att'[a]  OBVIOUS
<1>4. att' = [att EXCEPT ![a] = me]
  BY <1>2, <1>3 DEF ScrubEnter, ScrubFile, ScrubLeave
<1>5. me \in AttemptType  BY <1>3 DEF IInv, TypeInv
<1>6. me.pc = "scrubbing"  BY <1>3, ScrubKeeps DEF Inv
<1>7. \A q \in DOMAIN tree' : q \in DOMAIN tree /\ tree'[q].by = tree[q].by
  BY DEF ScrubEnter, ScrubFile, ScrubLeave, Drop
<1> QED  BY <1>1, <1>4, <1>5, <1>6, <1>7, GiveUpStep

LEMMA ImportSole ==
  ASSUME Inv, IInv', ~contended, ~contended', NEW a \in Attempts, Import(a) PROVE Inv'
<1>1. CASE IOError(a)  BY <1>1, ScrubStartsSole DEF IOError
<1>2. CASE ScrubRaises(a) \/ ScrubDone(a)
  BY <1>2, EndSole DEF ScrubRaises, ScrubDone, Inside
<1> QED
  BY <1>1, <1>2, PrepareSole, MakeRootSole, MakeDirSole, OpenFileSole, FillFileSole,
     BodyWrittenSole, ReadbackSole, VerifyManifestSole, VerifySole, KillSole, ScrubSole
     DEF Import

(* Readers and stuttering change none of it. *)
LEMMA SameStep ==
  ASSUME Inv, IInv', UNCHANGED <<tree, att, contended>> PROVE Inv'
<1>1. SoleInv'
  BY DEF Inv, SoleInv, Kept, Package, Body, StagePart
<1>2. \A p : (Complete(p)' <=> Complete(p)) /\ Content(p)' = Content(p)
  BY DEF Complete, Exists, Content
<1>3. ReceiptedSetStaysWhole' /\ SealedOverWholeBody'
  BY <1>2 DEF Inv, ReceiptedSetStaysWhole, SealedOverWholeBody, Whole, Package, Body, StagePart
<1> QED  BY <1>1, <1>3 DEF Inv

(* Contention is remembered. *)
LEMMA ContentionStays ==
  ASSUME [Next]_vars, contended PROVE contended'
BY DEF Next, vars, Import, Load, Prepare, MakeRoot, MakeDir, OpenFile, FillFile, BodyWritten,
       Readback, VerifyManifest, Verify, IOError, Kill, ScrubEnter, ScrubFile, ScrubLeave,
       ScrubRaises, ScrubDone, StartRead, ReadReceipt, ReadIndex, ReadBlob, Enter

LEMMA NextSole == ASSUME Inv, [Next]_vars PROVE Inv'
<1>1. IInv'  BY NextStep DEF Inv
<1>2. CASE contended'
  BY <1>1, <1>2 DEF Inv, SoleInv, ReceiptedSetStaysWhole, SealedOverWholeBody
<1>3. CASE ~contended'
  <2>1. ~contended  BY <1>3, ContentionStays
  <2>2. CASE \E a \in Attempts : Import(a)  BY <1>1, <1>3, <2>1, <2>2, ImportSole
  <2>3. CASE \E r \in Readers : Load(r)
    BY <1>1, <2>3, SameStep DEF Load, StartRead, ReadReceipt, ReadIndex, ReadBlob
  <2>4. CASE UNCHANGED vars  BY <1>1, <2>4, SameStep DEF vars
  <2> QED  BY <2>2, <2>3, <2>4 DEF Next
<1> QED  BY <1>2, <1>3

LEMMA FirstSole == ASSUME Init PROVE Inv
<1>1. \A a \in Attempts : att[a].pc = "new"  BY DEF Init, NewAttempt
<1>2. SoleInv  BY <1>1 DEF SoleInv, Kept, Inside, Trying
<1>3. ReceiptedSetStaysWhole  BY <1>1 DEF ReceiptedSetStaysWhole
<1>4. ~Complete(Manifest)  BY LayoutTable DEF Init, Complete, Exists
<1>5. SealedOverWholeBody  BY <1>4 DEF SealedOverWholeBody
<1> QED  BY <1>2, <1>3, <1>5, FirstState DEF Inv

LEMMA Invariance == Spec => []Inv
<1>1. Init => Inv  BY FirstSole
<1>2. Inv /\ [Next]_vars => Inv'  BY NextSole
<1> QED  BY <1>1, <1>2, PTL DEF Spec

(* As long as no two imports have overlapped, an emitted receipt is of the *)
(* importer's own set, is the only one, and its set stays whole on disk.   *)
THEOREM ReceiptsStayTrue == Spec => []ReceiptedSetStaysWhole
<1>1. Inv => ReceiptedSetStaysWhole  BY DEF Inv
<1> QED  BY <1>1, Invariance, PTL

(* As long as no two imports have overlapped, whatever step a crash falls  *)
(* on, a complete manifest lies over complete blobs and indexes, unless    *)
(* its writer has begun to scrub.                                          *)
THEOREM ManifestSealsWholeBody == Spec => []SealedOverWholeBody
<1>1. Inv => SealedOverWholeBody  BY DEF Inv
<1> QED  BY <1>1, Invariance, PTL

-----------------------------------------------------------------------------
(* The directory implements a write-once location. *)

LEMMA AttemptsApart ==
  ASSUME IInv, [Next]_vars, NEW b \in Attempts
  PROVE  \/ att'[b] = att[b]
         \/ Import(b)
<1>1. att \in [Attempts -> AttemptType]  BY DEF IInv, TypeInv
<1>2. CASE UNCHANGED att  BY <1>2
<1>3. ASSUME NEW a \in Attempts, Import(a), a # b PROVE att'[b] = att[b]
  <2>1. CASE StartScrub(a)  BY <1>1, <1>3, <2>1 DEF StartScrub
  <2>2. CASE ~StartScrub(a)
    BY <1>1, <1>3, <2>2
       DEF Import, Prepare, MakeRoot, MakeDir, OpenFile, FillFile, BodyWritten, Readback,
           VerifyManifest, Verify, IOError, Kill, ScrubEnter, ScrubFile, ScrubLeave, ScrubRaises, ScrubDone, End
  <2> QED  BY <2>1, <2>2
<1> QED
  BY <1>2, <1>3 DEF Next, vars, Load, StartRead, ReadReceipt, ReadIndex, ReadBlob

(* A finished import does nothing more, and only the verification ends in  *)
(* a receipt.                                                              *)
LEMMA DoneStays ==
  ASSUME IInv, [Next]_vars, NEW b \in Attempts, att[b].pc = "done"
  PROVE  att'[b] = att[b]
<1>1. ~Import(b)
  BY DEF Import, Prepare, MakeRoot, MakeDir, OpenFile, FillFile, BodyWritten, Readback,
         VerifyManifest, Verify, IOError, Kill, ScrubEnter, ScrubFile, ScrubLeave, ScrubRaises, ScrubDone,
         Trying, Running, Inside
<1> QED  BY <1>1, AttemptsApart

(* A step of writing that does not fail keeps the point and the set.       *)
LEMMA WriteKeeps ==
  ASSUME IInv, NEW a \in Attempts, MakeDir(a) \/ OpenFile(a) \/ FillFile(a), ~StartScrub(a)
  PROVE  att[a].pc \in {"writing", "sealing"} /\ att'[a].pc = att[a].pc /\ att'[a].set = att[a].set
<1>1. att \in [Attempts -> AttemptType] /\ att[a] \in AttemptType  BY DEF IInv, TypeInv
<1>2. att[a].pc \in {"writing", "sealing"}  BY DEF MakeDir, OpenFile, FillFile
<1>3. CASE MakeDir(a)
  <2>1. PICK p : att' = [att EXCEPT ![a].wrote = @ \cup {p}]  BY <1>3 DEF MakeDir
  <2> QED  BY <1>1, <1>2, <2>1 DEF AttemptType
<1>4. CASE OpenFile(a)
  <2>1. PICK p : att' = [att EXCEPT ![a].opening = p]  BY <1>4 DEF OpenFile
  <2> QED  BY <1>1, <1>2, <2>1 DEF AttemptType
<1>5. CASE FillFile(a)
  <2>1. PICK p : att' = [att EXCEPT ![a].opening = NoPath, ![a].wrote = @ \cup {p}]
    BY <1>5 DEF FillFile
  <2> QED  BY <1>1, <1>2, <2>1 DEF AttemptType
<1> QED  BY <1>3, <1>4, <1>5

LEMMA DoneByVerify ==
  ASSUME IInv, [Next]_vars, NEW b \in Attempts, att[b].pc # "done", att'[b].pc = "done"
  PROVE  att[b].pc = "verifying" /\ att'[b].set = att[b].set
<1>1. att \in [Attempts -> AttemptType] /\ att[b] \in AttemptType  BY DEF IInv, TypeInv
<1>2. Import(b)  BY AttemptsApart
<1>3. ~StartScrub(b)  BY <1>1 DEF StartScrub, NewAttempt
<1>4. \A pc \in {"refused", "failed", "killed", "half_scrubbed"} : att' # End(b, pc)
  BY <1>1 DEF End, NewAttempt
<1>5. Verify(b)
  <2>1. ~Prepare(b)
    <3>1. ASSUME NEW s \in Sets, NEW pc \in {"making", "writing"},
                 att' = [att EXCEPT ![b].pc = pc, ![b].set = s]
          PROVE  FALSE
      <4>1. att'[b] = [att[b] EXCEPT !.pc = pc, !.set = s]  BY <1>1, <3>1
      <4>2. att'[b].pc = pc  BY <1>1, <4>1 DEF AttemptType
      <4> QED  BY <4>2
    <3> QED  BY <1>4, <3>1 DEF Prepare
  <2>2. ~MakeRoot(b)
    <3>1. att' # [att EXCEPT ![b].pc = "writing", ![b].created = TRUE]
      BY <1>1 DEF AttemptType
    <3> QED  BY <1>4, <3>1 DEF MakeRoot
  <2>3. ~MakeDir(b) /\ ~OpenFile(b) /\ ~FillFile(b)  BY <1>3, WriteKeeps
  <2>4. ~BodyWritten(b) /\ ~VerifyManifest(b) /\ ~IOError(b)
    BY <1>1, <1>3 DEF BodyWritten, VerifyManifest, IOError, AttemptType
  <2>7. ~Readback(b)  BY <1>1, <1>3 DEF Readback, AttemptType
  <2>5. ~Kill(b) /\ ~ScrubRaises(b) /\ ~ScrubDone(b)
    BY <1>4 DEF Kill, ScrubRaises, ScrubDone
  <2>6. ~ScrubEnter(b) /\ ~ScrubFile(b) /\ ~ScrubLeave(b)  BY ScrubKeeps
  <2> QED  BY <1>2, <2>1, <2>2, <2>3, <2>4, <2>5, <2>6, <2>7 DEF Import
<1>6. att' = [End(b, "done") EXCEPT ![b].seen = att[b].seen]
  BY <1>1, <1>3, <1>5 DEF Verify, AttemptType
<1>7. att'[b].set = att[b].set  BY <1>1, <1>6 DEF End, NewAttempt
<1> QED  BY <1>5, <1>7 DEF Verify

(* The author of an entry and the set of an attempt that has begun stay.   *)
LEMMA SetStays ==
  ASSUME IInv, [Next]_vars, NEW b \in Attempts, att[b].pc # "new"
  PROVE  att'[b].set = att[b].set
<1>1. att \in [Attempts -> AttemptType] /\ att[b] \in AttemptType  BY DEF IInv, TypeInv
<1>2. CASE att'[b] = att[b]  BY <1>2
<1>3. CASE StartScrub(b)  BY <1>1, <1>3 DEF StartScrub, NewAttempt
<1>4. ASSUME NEW pc, att' = End(b, pc) PROVE att'[b].set = att[b].set
  BY <1>1, <1>4 DEF End, NewAttempt
<1>5. CASE att' = [End(b, "done") EXCEPT ![b].seen = att[b].seen]
  BY <1>1, <1>5 DEF End, NewAttempt
<1>6. ~Prepare(b)  BY DEF Prepare
<1>7. CASE MakeRoot(b)
  <2>1. CASE att' = End(b, "refused")  BY <1>4, <2>1
  <2>2. CASE att' = [att EXCEPT ![b].pc = "writing", ![b].created = TRUE]
    BY <1>1, <2>2 DEF AttemptType
  <2> QED  BY <1>7, <2>1, <2>2 DEF MakeRoot
<1>8. CASE MakeDir(b) \/ OpenFile(b) \/ FillFile(b)  BY <1>3, <1>8, WriteKeeps
<1>9. CASE BodyWritten(b) \/ Readback(b) \/ VerifyManifest(b) \/ IOError(b)
  BY <1>1, <1>3, <1>9 DEF BodyWritten, Readback, VerifyManifest, IOError, AttemptType
<1>10. CASE Verify(b)  BY <1>1, <1>3, <1>5, <1>10 DEF Verify, AttemptType
<1>11. CASE Kill(b) \/ ScrubRaises(b) \/ ScrubDone(b)
  BY <1>4, <1>11 DEF Kill, ScrubRaises, ScrubDone
<1>12. CASE ScrubEnter(b) \/ ScrubFile(b) \/ ScrubLeave(b)  BY <1>12, ScrubKeeps
<1> QED
  BY <1>2, <1>6, <1>7, <1>8, <1>9, <1>10, <1>11, <1>12, AttemptsApart DEF Import

LEMMA AuthorStays ==
  ASSUME IInv, [Next]_vars, NEW p \in DOMAIN tree, p \in DOMAIN tree'
  PROVE  tree'[p].by = tree[p].by
<1>1. CASE tree' = tree  BY <1>1
<1>2. ASSUME NEW a \in Attempts, MakeRoot(a) \/ MakeDir(a) \/ OpenFile(a), tree' # tree
      PROVE  tree'[p].by = tree[p].by
  <2>1. PICK q : /\ ~Exists(q)
                 /\ tree' = Put(q, a, TRUE) \/ tree' = Put(q, a, FALSE)
    BY <1>2 DEF MakeRoot, MakeDir, OpenFile, CanCreate
  <2>2. tree'[p] = tree[p]  BY <2>1 DEF Put, Exists
  <2> QED  BY <2>2
<1>3. ASSUME NEW a \in Attempts, FillFile(a), tree' # tree PROVE tree'[p].by = tree[p].by
  <2>1. PICK q \in DOMAIN tree : tree[q].by = a /\ tree' = Put(q, a, TRUE)
    BY <1>3 DEF FillFile, Exists
  <2> QED  BY <2>1 DEF Put
<1>4. ASSUME NEW a \in Attempts, ScrubFile(a) \/ ScrubLeave(a) PROVE tree'[p].by = tree[p].by
  BY <1>4 DEF ScrubFile, ScrubLeave, Drop
<1>5. ASSUME NEW a \in Attempts, Import(a), tree' # tree PROVE tree'[p].by = tree[p].by
  BY <1>2, <1>3, <1>4, <1>5
     DEF Import, Prepare, BodyWritten, Readback, VerifyManifest, Verify, IOError, Kill,
         ScrubEnter, ScrubRaises, ScrubDone
<1> QED
  BY <1>1, <1>5 DEF Next, vars, Load, StartRead, ReadReceipt, ReadIndex, ReadBlob

-----------------------------------------------------------------------------

PublishedFacts ==
  /\ \A s \in Sets : Whole(s) => Published = s
  /\ (~\E s \in Sets : Whole(s)) => Published = NoSet
  /\ Published \in Sets \cup {NoSet}

ReceiptedFacts ==
  /\ (~\E a \in Attempts : att[a].pc = "done") => Receipted = NoSet
  /\ Receipted \in Sets \cup {NoSet}
  /\ \A a \in Attempts : ~contended /\ att[a].pc = "done" =>
       /\ att[a].set \in Sets
       /\ Receipted = att[a].set /\ Published = att[a].set

LEMMA PublishedIs == PublishedFacts
<1>1. \A s, t : Whole(s) /\ Whole(t) => s = t  BY DEF Whole
<1> QED  BY <1>1 DEF PublishedFacts, Published

LEMMA PublishedIsNext == PublishedFacts'
BY PublishedIs, PTL

LEMMA ReceiptedIs == Inv => ReceiptedFacts
<1> SUFFICES ASSUME Inv PROVE ReceiptedFacts  OBVIOUS
<1>1. (~\E a \in Attempts : att[a].pc = "done") => Receipted = NoSet  BY DEF Receipted
<1>2. Receipted \in Sets \cup {NoSet}
  <2>1. CASE \E a \in Attempts : att[a].pc = "done"
    <3>1. PICK a \in Attempts : Receipted = att[a].seen  BY <2>1 DEF Receipted
    <3>2. att[a] \in AttemptType  BY DEF Inv, IInv, TypeInv
    <3> QED  BY <3>1, <3>2 DEF AttemptType
  <2> QED  BY <1>1, <2>1
<1>3. ASSUME NEW a \in Attempts, ~contended, att[a].pc = "done"
      PROVE  att[a].set \in Sets /\ Receipted = att[a].set /\ Published = att[a].set
  <2>1. /\ att[a].seen = att[a].set /\ Whole(att[a].set)
        /\ \A b \in Attempts : att[b].pc = "done" => b = a
    BY <1>3 DEF Inv, ReceiptedSetStaysWhole
  <2>2. att[a].set \in Sets  BY <1>3 DEF Inv, IInv, WorkInv, WorkOK
  <2>3. Receipted = att[a].seen  BY <1>3, <2>1 DEF Receipted
  <2> QED  BY <2>1, <2>2, <2>3, PublishedIs DEF PublishedFacts
<1> QED  BY <1>1, <1>2, <1>3 DEF ReceiptedFacts

LEMMA ReceiptedIsNext == Inv' => ReceiptedFacts'
BY ReceiptedIs, PTL

LEMMA OneSetAtATime ==
  ASSUME Inv, [Next]_vars, NEW s \in Sets, NEW t \in Sets, Whole(s), Whole(t)'
  PROVE  s = t
<1>1. /\ Complete(Manifest) /\ Content(Manifest) = s
      /\ Complete(Manifest)' /\ Content(Manifest)' = t
  BY DEF Whole, Package
<1>2. Manifest \in DOMAIN tree /\ Manifest \in DOMAIN tree' /\ ~IsDir(Manifest)
  BY <1>1 DEF Complete, Exists, IsDir, Manifest
<1>3. PICK b \in Attempts : tree[Manifest].by = b /\ att[b].set = s
  BY <1>1, ManifestSet DEF Inv
<1>4. tree'[Manifest].by = b  BY <1>2, <1>3, AuthorStays DEF Inv
<1>5. att[b].pc # "new"  BY <1>2, <1>3 DEF Inv, IInv, FileInv, FileOK
<1>6. att'[b].set = s  BY <1>3, <1>5, SetStays DEF Inv
<1> QED  BY <1>1, <1>4, <1>6 DEF Content


(* Every step publishes, withdraws, emits the receipt, overlaps or leaves  *)
(* the location as it is.                                                  *)
LEMMA PromiseKept ==
  ASSUME Inv, Inv', [Next]_vars
  PROVE  [Promise!Next]_<<Published, Receipted, contended>>
<1> USE PublishedIs, PublishedIsNext, ReceiptedIs, ReceiptedIsNext
<1>1. Published' \in Sets \cup {NoSet} /\ Receipted' \in Sets \cup {NoSet}
  BY DEF PublishedFacts, ReceiptedFacts
<1>2. CASE contended'
  <2>1. contended' = TRUE  BY <1>2 DEF Inv, IInv, TypeInv
  <2> QED  BY <1>1, <2>1 DEF Promise!Next, Promise!Overlap
<1>3. CASE ~contended'
  <2>1. ~contended /\ contended' = contended
    BY <1>3, ContentionStays DEF Inv, IInv, TypeInv
  <2>2. ASSUME NEW a \in Attempts, att[a].pc = "done"
        PROVE  UNCHANGED <<Published, Receipted, contended>>
    <3>1. att'[a] = att[a]  BY <2>2, DoneStays DEF Inv
    <3>2. Receipted = att[a].set /\ Published = att[a].set
      BY <2>1, <2>2 DEF ReceiptedFacts
    <3>3. Receipted' = att'[a].set /\ Published' = att'[a].set
      BY <1>3, <2>2, <3>1 DEF ReceiptedFacts
    <3> QED  BY <2>1, <3>1, <3>2, <3>3
  <2>3. ASSUME ~\E b \in Attempts : att[b].pc = "done",
               NEW a \in Attempts, att'[a].pc = "done"
        PROVE  Promise!EmitReceipt
    <3>1. att[a].pc = "verifying" /\ att'[a].set = att[a].set
      BY <2>3, DoneByVerify DEF Inv
    <3>2. Whole(att[a].set)  BY <2>1, <3>1, VerifiedWhole
    <3>3. Receipted' = att'[a].set /\ Published' = att'[a].set /\ att'[a].set \in Sets
      BY <1>3, <2>3 DEF ReceiptedFacts
    <3>4. Published = att[a].set  BY <3>1, <3>2, <3>3 DEF PublishedFacts
    <3>5. Receipted = NoSet  BY <2>3 DEF ReceiptedFacts
    <3>6. Published # NoSet  BY <3>1, <3>3, <3>4, CustodyAssumption
    <3> QED  BY <2>1, <3>1, <3>3, <3>4, <3>5, <3>6 DEF Promise!EmitReceipt
  <2>4. ASSUME ~\E b \in Attempts : att[b].pc = "done",
               ~\E b \in Attempts : att'[b].pc = "done"
        PROVE  \/ UNCHANGED <<Published, Receipted, contended>>
               \/ Promise!Publish \/ Promise!Withdraw
    <3>1. Receipted = NoSet /\ Receipted' = NoSet  BY <2>4 DEF ReceiptedFacts
    <3>2. CASE Published' = NoSet  BY <2>1, <3>1, <3>2 DEF Promise!Withdraw
    <3>3. CASE Published = NoSet /\ Published' \in Sets
      BY <2>1, <3>1, <3>3 DEF Promise!Publish
    <3>4. CASE Published # NoSet /\ Published' # NoSet
      <4>1. PICK s \in Sets : Whole(s)  BY <3>4 DEF PublishedFacts
      <4>2. PICK t \in Sets : Whole(t)'  BY <3>4 DEF PublishedFacts
      <4>3. s = t  BY <4>1, <4>2, OneSetAtATime
      <4>4. Published = s /\ Published' = t  BY <4>1, <4>2 DEF PublishedFacts
      <4> QED  BY <2>1, <3>1, <4>3, <4>4
    <3> QED  BY <1>1, <3>2, <3>3, <3>4
  <2> QED  BY <2>2, <2>3, <2>4 DEF Promise!Next
<1> QED  BY <1>2, <1>3

LEMMA PromiseBegun == Init => Promise!Init
<1> SUFFICES ASSUME Init PROVE Promise!Init  OBVIOUS
<1>1. \A s : ~Whole(s)
  <2>1. ~Complete(Manifest)  BY LayoutTable DEF Init, Complete, Exists
  <2> QED  BY <2>1 DEF Whole, Package
<1>2. Published = NoSet  BY <1>1, PublishedIs DEF PublishedFacts
<1>3. \A a \in Attempts : att[a].pc = "new"  BY DEF Init, NewAttempt
<1>4. Receipted = NoSet  BY <1>3 DEF Receipted
<1> QED  BY <1>2, <1>4 DEF Promise!Init, Init

(* The custody directory, with its attempts, scrubs, crashes and files     *)
(* written one by one, implements the write-once location of               *)
(* CustodyLocation.                                                        *)
THEOREM ImplementsLocation == Spec => WriteOnce
<1>1. Init => Promise!Init  BY PromiseBegun
<1>2. Inv /\ Inv' /\ [Next]_vars => [Promise!Next]_<<Published, Receipted, contended>>
  BY PromiseKept
<1> QED  BY <1>1, <1>2, Invariance, PTL DEF Spec, WriteOnce, Promise!Spec
=============================================================================
