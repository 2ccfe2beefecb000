---------------------------- MODULE MCPathIntake ----------------------------
(* Every path of four legs out of eight, painted from one point to another, *)
(* with every point a vertex of the drawing or none; and a line that runs   *)
(* into a circle, goes round it and leaves it at the corner where it came;   *)
(* and the paths that go nowhere, such as the one point of a stop.           *)
EXTENDS PathIntake

MCSteps == {<<2, 0>>, <<2, 1>>, <<1, 2>>, <<0, 2>>, <<1, 0>>, <<0, -1>>, <<-2, 0>>, <<0, 0>>}

Walk(steps) ==
  FoldLeft(LAMBDA out, u : Append(out, <<Last(out)[1] + u[1], Last(out)[2] + u[2]>>),
           <<<<0, 0>>>>, steps)
Flagged(pts, first, last, must) ==
  [i \in DOMAIN pts |-> [at |-> pts[i], on |-> i \in first .. last, must |-> must]]

RoundACircle ==
  << <<2, 0>>, <<2, 0>>, <<2, 1>>, <<1, 2>>, <<0, 2>>, <<-1, 2>>, <<-2, 1>>, <<-2, 0>>,
     <<-2, -1>>, <<-1, -2>>, <<0, -2>>, <<1, -2>>, <<2, -1>>, <<0, 2>> >>

Walks == {Flagged(Walk(<<<<2, 0>>>> \o s), on[1], on[2], must) :
            s \in [1 .. 3 -> MCSteps], must \in BOOLEAN,
            on \in {x \in (1 .. 6) \X (0 .. 5) : x[2] + 1 >= x[1]}}
Circle == {Flagged(Walk(RoundACircle), 1, 15, FALSE)}
Standing == {Flagged(<<<<0, 0>>>>, 1, 0, TRUE), Flagged(<<<<0, 0>>, <<0, 0>>>>, 2, 2, FALSE)}

MCPaths == Walks \cup Circle \cup Standing
=============================================================================
