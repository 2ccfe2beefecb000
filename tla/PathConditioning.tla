--------------------------- MODULE PathConditioning ---------------------------
(***************************************************************************)
(* What the RPP controller makes of a path it receives                     *)
(* (src/src/rpp_controller_node.py, _path_cb and the helpers it calls): it *)
(* splits the path where the spray flag changes, replaces short connectors *)
(* by the corner they stand for, splits at hard corners, fuses the pieces  *)
(* that go straight on, gives every piece a tracking profile, thins it out *)
(* and drops the pieces of no length.  What is left are the RUNS of the    *)
(* mission, tracked one after the other.                                   *)
(*                                                                         *)
(* A waypoint is a point of an integer grid with its two bits of           *)
(* position.z: `on` (spray) and `must` (a vertex of the drawing and not a  *)
(* fill point).  Angles are exact: a bend is judged by the cross and the   *)
(* dot product of the two legs, with the default parameters (hard corner   *)
(* 45 degrees, connector corner 20 degrees, connector shorter than two     *)
(* grid units).  No two legs of so small a grid differ by less than the 5  *)
(* degrees of the collinearity test without being parallel.                *)
(***************************************************************************)
EXTENDS Integers, Sequences, SequencesExt, FiniteSets

CONSTANTS Connector,      \* connector_absorb_m squared, in grid units
          ShortTransit    \* transit_merge_max_len_m, in grid units

ASSUME ConditioningAssumption == Connector \in Nat /\ ShortTransit \in Nat

\* F of the value of x: an operator's argument is evaluated wherever it stands.
Strictly(F(_), x) == CHOOSE y \in {F(value) : value \in {x}} : TRUE

Abs(x) == IF x < 0 THEN -x ELSE x
Vec(a, b) == <<b[1] - a[1], b[2] - a[2]>>
Dot(u, v) == u[1] * v[1] + u[2] * v[2]
Cross(u, v) == u[1] * v[2] - u[2] * v[1]
Size(u) == Dot(u, u)
Length(u) == IF Abs(u[1]) > Abs(u[2]) THEN Abs(u[1]) ELSE Abs(u[2])

\* The bend from leg u to leg v: none, at least 20 and at least 45 degrees.
GoesOn(u, v)  == Cross(u, v) = 0 /\ Dot(u, v) >= 0
Bends(u, v)   == Dot(u, v) <= 0 \/ 1000 * Abs(Cross(u, v)) >= 364 * Dot(u, v)
IsHard(u, v)  == Dot(u, v) <= Abs(Cross(u, v)) /\ ~GoesOn(u, v)

Legs(pts) == [i \in 1 .. Len(pts) - 1 |-> Vec(pts[i].at, pts[i + 1].at)]
PathLength(pts) == FoldLeft(LAMBDA n, u : n + Length(u), 0, Legs(pts))

-----------------------------------------------------------------------------
(* Thinning                                                                *)

\* Coincident neighbours become one point, painted if one of them is; `raw` is
\* the place of the first of them in the path.
Folded(pts) ==
  FoldLeft(LAMBDA out, i :
             IF out # <<>> /\ Last(out).at = pts[i].at
             THEN Front(out) \o <<[Last(out) EXCEPT !.on = @ \/ pts[i].on]>>
             ELSE Append(out, [at |-> pts[i].at, on |-> pts[i].on, raw |-> i]),
           <<>>, [i \in 1 .. Len(pts) |-> i])

\* An inner point stays when the path bends there as seen from the last point
\* that stayed, when the spray flag changes next to it, or when it is one of the
\* must-hit positions.
Simplified(points, musts) ==
  LET Stays(pts, kept, i) ==
        \/ ~GoesOn(Vec(Last(kept).at, pts[i].at), Vec(pts[i].at, pts[i + 1].at))
        \/ pts[i - 1].on # pts[i].on \/ pts[i].on # pts[i + 1].on
        \/ pts[i].at \in musts
      Thinned(pts) ==
        Append(FoldLeft(LAMBDA kept, i : IF Stays(pts, kept, i) THEN Append(kept, pts[i]) ELSE kept,
                        <<Head(pts)>>, [i \in 1 .. Len(pts) - 2 |-> i + 1]),
               Last(pts))
  IN Strictly(LAMBDA pts : IF Len(pts) < 3 THEN pts ELSE Thinned(pts), Folded(points))

\* Straight or with a hard corner: "segment"; turning three times or more
\* without one: "smooth".
Profile(pts) ==
  LET Of(legs) ==
        LET turns == {i \in 1 .. Len(legs) - 1 : ~GoesOn(legs[i], legs[i + 1])}
        IN IF Cardinality(turns) >= 3 /\ \A i \in turns : ~IsHard(legs[i], legs[i + 1])
           THEN "smooth" ELSE "segment"
  IN Strictly(Of, Legs(Simplified(pts, {})))

-----------------------------------------------------------------------------
(* Cutting the path into runs                                              *)

\* The pieces of one spray flag.  Every piece after the first begins at the
\* last point of the piece before it, under its own flag.
SplitByFlag(pts) ==
  LET starts == SelectSeq([i \in 1 .. Len(pts) |-> i],
                          LAMBDA i : i = 1 \/ pts[i].on # pts[i - 1].on)
      Piece(k) ==
        LET first == starts[k]
            last == IF k < Len(starts) THEN starts[k + 1] - 1 ELSE Len(pts)
            own == SubSeq(pts, first, last)
        IN IF k = 1 THEN own
           ELSE <<[pts[first - 1] EXCEPT !.on = pts[first].on]>> \o own
  IN [k \in 1 .. Len(starts) |-> Piece(k)]

\* Where the lines a-b and c-d meet, on the grid; the middle of b-c when they
\* are parallel or meet too far from it.
Apex(a, b, c, d) ==
  LET u == Vec(a, b)
      v == Vec(c, d)
      det == Cross(u, v)
      mid == <<(b[1] + c[1]) \div 2, (b[2] + c[2]) \div 2>>
      num == Cross(Vec(a, c), v)
      meet == <<a[1] + (num * u[1]) \div det, a[2] + (num * u[2]) \div det>>
  IN IF det # 0 /\ Size(Vec(meet, mid)) <= 25 * Size(Vec(b, c)) THEN meet ELSE mid

\* A leg shorter than a connector between two real bends is replaced by one
\* point.  The end of a connector is not the beginning of the next one.
AbsorbConnectors(pts) ==
  LET Chosen(v) ==
        LET IsConnector(i) ==
              LET into == Vec(v[i - 1].at, v[i].at)
                  leg  == Vec(v[i].at, v[i + 1].at)
                  out  == Vec(v[i + 1].at, v[i + 2].at)
              IN Size(leg) < Connector /\ Bends(into, leg) /\ Bends(leg, out)
        IN FoldLeft(LAMBDA S, i : IF (i - 1) \notin S /\ IsConnector(i) THEN S \cup {i} ELSE S,
                    {}, [i \in 1 .. Len(v) - 3 |-> i + 1])
      Absorb(arg) ==
        LET v == arg[1]
            chosen == arg[2]
            Merged(i) == [at |-> Apex(v[i - 1].at, v[i].at, v[i + 1].at, v[i + 2].at),
                          on |-> v[i].on]
            Begins(p) == {i \in chosen : v[i].raw = p}
            Covers(p) == {i \in chosen : p \in v[i].raw + 1 .. v[i + 1].raw}
        IN IF Len(v) < 4 \/ chosen = {} THEN pts
           ELSE FoldLeft(LAMBDA out, p :
                           IF Begins(p) # {} THEN Append(out, Merged(CHOOSE i \in Begins(p) : TRUE))
                           ELSE IF Covers(p) # {} THEN out
                           ELSE Append(out, pts[p]),
                         <<>>, [p \in 1 .. Len(pts) |-> p])
      AbsorbIn(v) == Strictly(Absorb, <<v, Chosen(v)>>)
  IN Strictly(AbsorbIn, Simplified(pts, {}))

CutAfter(pts, ends) ==
  [k \in DOMAIN ends |-> SubSeq(pts, IF k = 1 THEN 1 ELSE ends[k - 1] + 1, ends[k])]
CutAt(pts, ends) ==
  [k \in DOMAIN ends |-> SubSeq(pts, IF k = 1 THEN 1 ELSE ends[k - 1], ends[k])]

\* The piece is cut at its hard corners.  The corners of the thinned piece are
\* looked up in the raw one by position, in order, from its beginning.
SplitAtCorners(pts) ==
  LET Hard(v) == SelectSeq([i \in 1 .. Len(v) - 2 |-> i + 1],
                           LAMBDA i : IsHard(Vec(v[i - 1].at, v[i].at), Vec(v[i].at, v[i + 1].at)))
      Cuts(corners) ==
        FoldLeft(LAMBDA found, i :
                   IF Len(found) < Len(corners) /\ pts[i].at = corners[Len(found) + 1]
                   THEN Append(found, i) ELSE found,
                 <<>>, [i \in 1 .. Len(pts) |-> i])
      Corners(v) == Strictly(LAMBDA hard : [k \in DOMAIN hard |-> v[hard[k]].at], Hard(v))
      At(cuts) == CutAt(pts, SelectSeq(cuts, LAMBDA i : i > 1 /\ i < Len(pts)) \o <<Len(pts)>>)
      Split(corners) == IF corners = <<>> THEN <<pts>> ELSE Strictly(At, Cuts(corners))
  IN Strictly(Split, Strictly(Corners, Simplified(pts, {})))

IsShortTransit(pts) ==
  /\ ShortTransit > 0
  /\ \A i \in DOMAIN pts : ~pts[i].on
  /\ PathLength(pts) <= ShortTransit

EndsWhereNextBegins(prev, next) == Last(prev).at = Head(next).at

\* The next run goes on in the direction the last one ended in.
GoesStraightOn(prev, next) ==
  LET On(p, q) == p # <<>> /\ q # <<>> /\ ~IsHard(Last(p), Head(q))
  IN /\ EndsWhereNextBegins(prev, next)
     /\ \E p \in {Legs(Simplified(prev, {}))}, q \in {Legs(Simplified(next, {}))} : On(p, q)

MergeCollinear(pieces) ==
  LET Fusible(prev, next) ==
        /\ \/ Profile(prev) = Profile(next)
           \/ IsShortTransit(prev)
           \/ IsShortTransit(next)
        /\ GoesStraightOn(prev, next)
      Fuse(arg) ==
        LET out == arg[1]
            piece == arg[2]
        IN IF Fusible(Last(out), piece)
           THEN Front(out) \o <<Last(out) \o Tail(piece)>>
           ELSE Append(out, piece)
  IN FoldLeft(LAMBDA out, piece : Strictly(Fuse, <<out, piece>>), <<Head(pieces)>>, Tail(pieces))

-----------------------------------------------------------------------------
(* The runs of a path                                                      *)

RawRuns(pts, requested) ==
  IF requested = "auto"
  THEN LET Cut(piece) == Strictly(SplitAtCorners, AbsorbConnectors(piece))
           Fused(pieces) ==
             Strictly(MergeCollinear, FlattenSeq([k \in DOMAIN pieces |-> Cut(pieces[k])]))
       IN Strictly(Fused, SplitByFlag(pts))
  ELSE <<pts>>

\* A smooth run is resampled: its two ends are its only exact vertices.
Vertices(pts, profile, musts) ==
  IF profile = "segment" THEN Simplified(pts, musts) ELSE <<Head(pts), Last(pts)>>

IsClosed(pts) == Len(pts) >= 3 /\ PathLength(pts) >= 4 /\ Head(pts).at = Last(pts).at

KeepLong(built) == SelectSeq(built, LAMBDA r : r.length > 0)

\* Runs of no length are dropped unless every run is one.
KeepDriven(built) == IF KeepLong(built) = <<>> THEN built ELSE KeepLong(built)

Runs(pts, requested) ==
  LET musts == {p.at : p \in {q \in Range(pts) : q.must}}
      Built(r) ==
        LET profile == IF requested = "auto" THEN Profile(r) ELSE requested
        IN [profile |-> profile, points |-> r, vertices |-> Vertices(r, profile, musts),
            length |-> PathLength(r), closed |-> IsClosed(r)]
      Build(raw) == Strictly(KeepDriven, [k \in DOMAIN raw |-> Built(raw[k])])
  IN Strictly(Build, RawRuns(pts, requested))
=============================================================================
