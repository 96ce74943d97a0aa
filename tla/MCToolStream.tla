---------------------------- MODULE MCToolStream ----------------------------
EXTENDS ToolStream, TLC

CONSTANTS a, b

Says(calls, tool, args, other) ==
  [calls |-> calls, tool |-> a :> tool @@ b :> other, args |-> a :> args @@ b :> "fit"]

\* Nothing, one call of any kind, or two calls of which one may be unknown.
MCTurns ==
  {Says({}, "lenient", "fit", "lenient")}
  \cup {Says({a}, tool, args, "lenient") :
          tool \in {"lenient", "strict", "terminal", "unknown"},
          args \in {"fit", "misfit", "no_object"}}
  \cup {Says({a, b}, tool, "fit", other) :
          tool \in {"lenient", "unknown"}, other \in {"lenient", "terminal"}}
=============================================================================
