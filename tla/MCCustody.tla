----------------------------- MODULE MCCustody -----------------------------
(***************************************************************************)
(* A small instance of Custody.                                            *)
(***************************************************************************)
EXTENDS Custody, TLC

(* What a scrub may fail on: the removal of one file, and the listing and  *)
(* the removal of one directory.                                           *)
StubbornPaths == {Manifest, Root}

(* Bound: readers are followed up to the first overlap of two imports.     *)
(* What they accept after it is left to the proof of ReadsOneSet.          *)
ReadersUntilOverlap == contended => \A r \in Readers : rd[r].pc = "new"

(* Bound: the files two scrubs at once meet in the tree.                   *)
FilesLeft == Cardinality({p \in DOMAIN tree : ~IsDir(p)})
SmallOverlappingScrubs ==
  (\A a \in Attempts : att[a].pc = "scrubbing") => FilesLeft <= 4

Symmetry == Permutations(Attempts) \cup Permutations(Sets)
=============================================================================
