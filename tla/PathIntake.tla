------------------------------ MODULE PathIntake ------------------------------
(***************************************************************************)
(* The path callback of the RPP controller as a component: which path is   *)
(* in force and the runs it was turned into.  The runs are what the rover  *)
(* drives, so the properties compare them with the path that was sent.     *)
(***************************************************************************)
EXTENDS PathConditioning

CONSTANTS Paths,       \* the paths that may be received
          Profiles,    \* the values of tracking_profile
          MaxLoads     \* bound: paths received in a run; the callback remembers none

VARIABLES path,        \* the last path accepted
          requested,   \* tracking_profile when it was
          pathRuns,    \* _runs
          loads        \* paths accepted so far, for the bound

intakeVars == <<path, requested, pathRuns, loads>>

IntakeInit == path = <<>> /\ requested = "auto" /\ pathRuns = <<>> /\ loads = 0

\* A path with a foreign frame or without a point changes nothing.
PathCb(p, profile) ==
  /\ p # <<>>
  /\ loads' = loads + 1
  /\ path' = p /\ requested' = profile
  /\ pathRuns' = Runs(p, profile)

IntakeNext == loads < MaxLoads /\ \E p \in Paths, profile \in Profiles : PathCb(p, profile)

IntakeSpec == IntakeInit /\ [][IntakeNext]_intakeVars

-----------------------------------------------------------------------------
\* No connector of the path was replaced by a corner.
Unabsorbed ==
  requested = "auto" =>
    LET pieces == SplitByFlag(path)
    IN \A k \in DOMAIN pieces : AbsorbConnectors(pieces[k]) = pieces[k]

IntakeTypeOK ==
  /\ requested \in Profiles \cup {"auto"}
  /\ (path = <<>>) <=> (pathRuns = <<>>)
  /\ \A k \in DOMAIN pathRuns :
       /\ pathRuns[k].profile \in {"segment", "smooth"}
       /\ pathRuns[k].length \in Nat
       /\ pathRuns[k].closed \in BOOLEAN

\* The runs are driven without a gap: each begins where the one before it ended,
\* the first begins where the path begins and the last ends where it ends.  (The
\* splitting duplicates the boundary points, the fusing removes them again.)
RunsJoin ==
  pathRuns # <<>> =>
    /\ Head(Head(pathRuns).points).at = Head(path).at
    /\ Last(Last(pathRuns).points).at = Last(path).at
    /\ \A k \in 1 .. Len(pathRuns) - 1 :
         Last(pathRuns[k].points).at = Head(pathRuns[k + 1].points).at

\* A leg between two painted points of the path is painted by some run, and no
\* run paints a leg of the path that leads to an unpainted point: cutting,
\* duplicating and fusing leave the spray flags where the drawing has them.
\* (A connector that was absorbed is no leg any more.)
PaintKept ==
  LET Legs2(s, Test(_)) == {<<s[i].at, s[i + 1].at>> : i \in {j \in 1 .. Len(s) - 1 : Test(j)}}
      Painted(s) == Legs2(s, LAMBDA j : s[j].on /\ s[j + 1].on)
      done == UNION {Painted(pathRuns[k].points) : k \in DOMAIN pathRuns}
  IN Unabsorbed =>
       /\ \A leg \in Painted(path) : leg[1] # leg[2] => leg \in done
       /\ done \subseteq Legs2(path, LAMBDA j : path[j + 1].on)

HardCornersInside(k) ==
  LET v == Simplified(pathRuns[k].points, {})
      legs == Legs(v)
  IN {i \in 2 .. Len(v) - 1 : IsHard(legs[i - 1], legs[i])}

\* In a mission cut into runs a hard corner is the end of a run, where the rover
\* is stopped before it turns.  The exception is a corner at a place the path has
\* been before.
TurnsAreBoundaries ==
  requested = "auto" =>
    \A k \in DOMAIN pathRuns :
      LET v == Simplified(pathRuns[k].points, {})
      IN \A i \in HardCornersInside(k) :
           Cardinality({j \in DOMAIN path : path[j].at = v[i].at}) > 1

\* The vertices of the drawing are driven to the point: a must-hit point of the path
\* is a vertex of the segment run it is in.  (A smooth run is resampled, and the
\* corner that replaces a connector is none of the points it came from.)
MustHitSurvives ==
  Unabsorbed =>
    \A k \in DOMAIN pathRuns : pathRuns[k].profile = "segment" =>
      \A p \in Range(pathRuns[k].points) :
        (\E q \in Range(path) : q.must /\ q.at = p.at)
          => \E v \in Range(pathRuns[k].vertices) : v.at = p.at

\* What cutting, duplicating, fusing and resampling leave of the drawing.
IntakeKeepsDrawing == RunsJoin /\ PaintKept /\ TurnsAreBoundaries /\ MustHitSurvives
=============================================================================
