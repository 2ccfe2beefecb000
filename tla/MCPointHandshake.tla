--------------------------- MODULE MCPointHandshake ---------------------------
(***************************************************************************)
(* Where the spray node paints, on small instances: the points of           *)
(* PointHandshake, or the lines of SprayLine.  `subject` names which; the   *)
(* other stays in an initial state, and fairness is of the points.          *)
(***************************************************************************)
EXTENDS PointHandshake, SprayLine, TLC

VARIABLE subject

\* A line between two transits, a corner with its run-out, a square that closes
\* on its start, and a line with the way back.  A boundary is two points in one place.
MCPaths ==
  {[points |-> <<<<0, 0>>, <<2, 0>>, <<2, 0>>, <<5, 0>>, <<5, 0>>, <<6, 0>>>>,
    flags |-> <<FALSE, FALSE, TRUE, TRUE, FALSE, FALSE>>],
   [points |-> <<<<0, 0>>, <<3, 0>>, <<3, 2>>, <<3, 2>>, <<3, 3>>>>, flags |-> <<TRUE, TRUE, TRUE, FALSE, FALSE>>],
   [points |-> <<<<0, 0>>, <<2, 0>>, <<2, 2>>, <<0, 2>>, <<0, 0>>>>, flags |-> <<TRUE, TRUE, TRUE, TRUE, TRUE>>],
   [points |-> <<<<0, 0>>, <<3, 0>>, <<3, 0>>, <<0, 0>>>>, flags |-> <<TRUE, TRUE, FALSE, FALSE>>]}
MCErrors == {<<0, 0>>, <<0, 2>>, <<1, 0>>}

MCVars == <<vars, lineVars, subject>>

MCInit ==
  /\ Init /\ LineInit /\ subject \in {"points", "line"}
  /\ subject = "points" => setup = "own" /\ Len(model.flags) = 4
  /\ subject = "line" => ~manual /\ ~wired

MCNext ==
  \/ subject = "points" /\ Next /\ UNCHANGED <<lineVars, subject>>
  \/ subject = "line" /\ LineNext /\ UNCHANGED <<vars, subject>>

FairSpec == MCInit /\ [][MCNext]_MCVars /\ RppFairness
=============================================================================
