----------------------------- MODULE MCBaseline -----------------------------
(***************************************************************************)
(* Small instances of Baseline.  A session of apply may hold no usable     *)
(* event, one, a second one of a second apply, or one of a clock ahead.    *)
(***************************************************************************)
EXTENDS Baseline

TheMatrix == <<1, 2>>
TheSessions ==
  {<<>>, <<Garbled>>, <<Naive>>, <<0>>, <<1>>, <<3>>, <<0, 2>>}
TheFreezes == {0, 1, 2}
=============================================================================
