---------------------------- MODULE MCRppMotion ----------------------------
(* Small missions, each with cases of its own: a closed run entered around *)
(* a corner; a soft and a hard vertex inside a run (a path with the segment *)
(* profile) and a corner between two segment runs; runs of no length, and a *)
(* straight transition.                                                     *)
EXTENDS RppMotion

Segment(n, vertices, hard, turn) ==
  [profile |-> "segment", length |-> n, vertices |-> vertices, hard |-> hard,
   closed |-> FALSE, turn |-> turn]
Smooth(n, closed, turn) ==
  [profile |-> "smooth", length |-> n, vertices |-> {}, hard |-> {},
   closed |-> closed, turn |-> turn]

MCMissions ==
  { <<Segment(2, {}, {}, FALSE), Smooth(2, TRUE, TRUE)>>,
    <<Segment(3, {1, 2}, {1}, FALSE), Segment(1, {}, {}, TRUE)>>,
    <<Segment(0, {}, {}, FALSE), Smooth(1, FALSE, FALSE), Segment(0, {}, {}, FALSE)>> }

\* For liveness: a corner inside a run and one between two runs.
MCLive == { <<Segment(2, {1}, {1}, FALSE), Smooth(1, FALSE, TRUE)>> }
=============================================================================
