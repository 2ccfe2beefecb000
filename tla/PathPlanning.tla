----------------------------- MODULE PathPlanning -----------------------------
(***************************************************************************)
(* The planner of a drawing (path_engine): the strokes a parser or a      *)
(* request gives are freed of twins, sampled, grouped into shapes, put in  *)
(* order, given a run-up and a run-out and merged into the one polyline    *)
(* that RPP drives and the spray node reads.  One action per step of       *)
(* _plan_from_segments.                                                    *)
(*                                                                         *)
(* A point is a pair of integers in units of 5 cm, so that two points are  *)
(* one or further apart than the tolerances of 1 cm, and the legs of a     *)
(* drawing run along the axes.  A curve is a stroke whose tangents are     *)
(* those of its first and last leg.                                        *)
(***************************************************************************)
EXTENDS Integers, FiniteSets, SequencesExt

CONSTANTS Drawings,   \* the drawings: sequences of strokes
          Positions,  \* where the rover may stand
          NoPosition, \* no position is given
          Origin,     \* where the drawing is placed
          Spacing,    \* mark_spacing
          PreReach, AftReach, \* pre_extension_m, aft_extension_m
          MaxMoves    \* bound: improving moves of the order

VARIABLES planStep,  \* the step that comes next
          drawing,   \* the strokes asked for
          options,   \* the options of the request
          strokes,   \* the strokes as the steps so far leave them
          moves,     \* improving moves made, for the bound
          planned    \* merged_waypoints, spray_flags and must_hit

planVars == <<planStep, drawing, options, strokes, moves, planned>>

GroupGap == 3       \* _CLOSED_RUN_GAP_TOL_M
ShapeLength == 20   \* _CLOSED_RUN_MIN_LEN_M
ShortLine == 6      \* extension_min_line_length_m
Clearance == 2      \* extension_obstacle_clearance_m
Useful == 2         \* extension_min_useful_m
RunOutFloor == 2    \* the floor of the run-out

-----------------------------------------------------------------------------
Least(S) == CHOOSE x \in S : \A y \in S : x <= y
Away(a, b) == (a[1] - b[1]) * (a[1] - b[1]) + (a[2] - b[2]) * (a[2] - b[2])
Sign(x) == IF x > 0 THEN 1 ELSE IF x < 0 THEN -1 ELSE 0
Way(a, b) == <<Sign(b[1] - a[1]), Sign(b[2] - a[2])>>
Ahead(a, way, n) == <<a[1] + n * way[1], a[2] + n * way[2]>>
Extent(a, b) == (b[1] - a[1]) * Sign(b[1] - a[1]) + (b[2] - a[2]) * Sign(b[2] - a[2])
Reach(pts) == FoldLeftDomain(LAMBDA sum, i : IF i = 1 THEN 0 ELSE sum + Extent(pts[i - 1], pts[i]), 0, pts)
OneByOne(n) == [i \in 1 .. n |-> i]

(* at: the points; keep: the indices of those that are in the source;       *)
(* stale (a history): keep no longer speaks of these points.                *)
Stroke(mark, curve, pts) ==
  [mark |-> mark, curve |-> curve, at |-> pts, keep |-> 1 .. Len(pts), stale |-> FALSE]
Transit(a, b) == Stroke(FALSE, FALSE, <<a, b>>)

(* Turning a stroke round reverses the points and copies the metadata, the  *)
(* indices of the source points with it.                                    *)
TurnedIndices(s) == s.keep
Turned(s) ==
  LET honest == {Len(s.at) + 1 - v : v \in s.keep}
  IN [s EXCEPT !.at = Reverse(@), !.keep = TurnedIndices(s), !.stale = @ \/ TurnedIndices(s) # honest]
TurnedAll(seq) == [i \in DOMAIN seq |-> Turned(Reverse(seq)[i])]

-----------------------------------------------------------------------------
(* Step 1c: of two strokes over the same ground the second is dropped.      *)
Midpoint(pts) ==
  LET half == Reach(pts) \div 2
      i == Least({k \in 1 .. Len(pts) - 1 : Reach(SubSeq(pts, 1, k + 1)) >= half})
  IN Ahead(pts[i], Way(pts[i], pts[i + 1]), half - Reach(SubSeq(pts, 1, i)))

CoincidentMark(a, b) ==
  /\ Reach(a) = Reach(b) /\ Midpoint(a) = Midpoint(b)
  /\ <<a[1], Last(a)>> \in {<<b[1], Last(b)>>, <<Last(b), b[1]>>}

DropTwins(seq) ==
  FoldLeft(LAMBDA kept, s :
             IF /\ s.mark /\ Len(s.at) >= 2
                /\ \E i \in DOMAIN kept : kept[i].mark /\ Len(kept[i].at) >= 2 /\ CoincidentMark(s.at, kept[i].at)
             THEN kept ELSE Append(kept, s),
           <<>>, seq)

(* Step 2: samples between the points of a mark.  The samples of a transit  *)
(* are told apart by nothing and left out.                                  *)
Densified(s) ==
  LET Samples(a, b) == LET n == IF s.mark THEN (Extent(a, b) + Spacing - 1) \div Spacing ELSE 1
                       IN [k \in 1 .. n |-> Ahead(a, Way(a, b), (k * Extent(a, b)) \div n)]
      Add(out, p) == LET more == Samples(Last(out.at), p)
                     IN [out EXCEPT !.at = @ \o more, !.keep = @ \cup {Len(out.at) + Len(more)}]
  IN IF s.mark THEN FoldLeft(Add, [s EXCEPT !.at = <<s.at[1]>>, !.keep = {1}], Tail(s.at)) ELSE s

-----------------------------------------------------------------------------
(* Step 2b: strokes that meet are chained into shapes; a curve never is.    *)
Chainable(s) == s.mark /\ ~s.curve /\ Len(s.at) >= 2
Ends(s) == {s.at[1], Last(s.at)}

\* The strokes connected to stroke i, by growing the set.
Component(seq, i) ==
  LET J == {j \in DOMAIN seq : Chainable(seq[j])}
      Grown(S) == {j \in J : \E k \in S : Ends(seq[j]) \cap Ends(seq[k]) # {}}
  IN FoldLeft(LAMBDA S, k : Grown(S), {i}, OneByOne(Len(seq)))

\* A chain begins at the open end that was met first, or at the first stroke left.
ChainStart(seq, C, left) ==
  LET EndOf(x) == IF x[2] = 1 THEN seq[x[1]].at[1] ELSE Last(seq[x[1]].at)
      Degree(p) == Cardinality({x \in left \X {1, 2} : EndOf(x) = p})
      Met(p) == Least({2 * x[1] + x[2] : x \in {y \in C \X {1, 2} : EndOf(y) = p}})
      open == {p \in UNION {Ends(seq[i]) : i \in left} : Degree(p) = 1}
  IN IF open = {} THEN seq[Least(left)].at[1]
     ELSE CHOOSE p \in open : \A q \in open : Met(p) <= Met(q)

(* One pick of _chain_component: of the unused strokes where the chain      *)
(* stands, the one that turns least; when there is none, a new chain.       *)
NextOfChain(seq, C, walk) ==
  LET begins == walk.chains = <<>> \/ \A i \in walk.left : walk.at \notin Ends(seq[i])
      from == IF begins THEN ChainStart(seq, C, walk.left) ELSE walk.at
      Oriented(i) == IF seq[i].at[1] = from THEN seq[i] ELSE Turned(seq[i])
      Score(i) == LET w == Way(Oriented(i).at[1], Oriented(i).at[2])
                  IN IF begins THEN 1 ELSE w[1] * walk.way[1] + w[2] * walk.way[2]
      near == {i \in walk.left : from \in Ends(seq[i])}
      best == Least({i \in near : \A j \in near : Score(i) >= Score(j)})
      s == Oriented(best)
  IN [left |-> walk.left \ {best}, at |-> Last(s.at), way |-> Way(s.at[Len(s.at) - 1], Last(s.at)),
      chains |-> IF begins THEN Append(walk.chains, <<s>>)
                 ELSE Append(Front(walk.chains), Append(Last(walk.chains), s))]

(* _merge_chain folds the seam and moves the indices of each stroke to      *)
(* where its points have gone.                                              *)
SeamForgets(out, s) == out.keep
SeamIndices(out, s) == out.keep \cup {v + Len(out.at) - 1 : v \in s.keep}
MergeChain(chain) ==
  FoldLeft(LAMBDA out, s : [out EXCEPT !.at = @ \o Tail(s.at), !.keep = SeamIndices(out, s), !.stale = @ \/ s.stale],
           Head(chain), Tail(chain))

\* Every component stands where its first stroke stood.
Grouped(seq) ==
  LET Chains(C) == FoldLeft(LAMBDA walk, k : NextOfChain(seq, C, walk),
                            [left |-> C, at |-> Origin, way |-> <<0, 0>>, chains |-> <<>>],
                            OneByOne(Cardinality(C))).chains
      Shape(i) == LET C == Component(seq, i)
                  IN IF ~Chainable(seq[i]) \/ C = {i} THEN <<seq[i]>>
                     ELSE IF i # Least(C) THEN <<>>
                     ELSE LET chains == Chains(C) IN [k \in DOMAIN chains |-> MergeChain(chains[k])]
  IN FlattenSeq([i \in DOMAIN seq |-> Shape(i)])

(* Step 2c: for the order and the extensions of single lines a chain is cut *)
(* at its corners.                                                          *)
Edges(s) ==
  LET n == Len(s.at)
      inner == {i \in 2 .. n - 1 : Way(s.at[i - 1], s.at[i]) # Way(s.at[i], s.at[i + 1])}
      cuts == SetToSortSeq(inner \cup {1, n}, <)
      Edge(a, b) == [s EXCEPT !.at = SubSeq(@, a, b),
                              !.keep = {1, b - a + 1} \cup {v - a + 1 : v \in @ \cap (a .. b)}]
  IN IF ~s.mark \/ s.curve \/ n < 3 \/ inner = {} THEN <<s>>
     ELSE [k \in 1 .. Len(cuts) - 1 |-> Edge(cuts[k], cuts[k + 1])]

-----------------------------------------------------------------------------
(* Step 3: the nearest end of the marks left comes next, entered from there.*)
NearestFirst(seq, from) ==
  LET Pick(walk, k) ==
        LET Dist(x) == Away(walk.at, IF x[2] = 1 THEN seq[x[1]].at[1] ELSE Last(seq[x[1]].at))
            ends == walk.left \X {1, 2}
            best == CHOOSE x \in ends : \A y \in ends :
                      \/ Dist(x) < Dist(y)
                      \/ Dist(x) = Dist(y) /\ 2 * x[1] + x[2] <= 2 * y[1] + y[2]
            s == IF best[2] = 1 THEN seq[best[1]] ELSE Turned(seq[best[1]])
        IN [left |-> walk.left \ {best[1]}, at |-> Last(s.at), route |-> Append(walk.route, s)]
  IN FoldLeft(Pick, [left |-> DOMAIN seq, at |-> from, route |-> <<>>], OneByOne(Len(seq))).route

Marks(seq) == SelectSeq(seq, LAMBDA s : s.mark)
Resolved(seq) ==
  IF options.start = NoPosition THEN seq[1].at[1]
  ELSE <<options.start[1] - Origin[1], options.start[2] - Origin[2]>>

(* The moves of _apply_two_opt and _or_opt_pass.  Whether one lowers the    *)
(* cost, deadhead and wet paint, is left open.                              *)
SliceReversed(route, i, k) ==
  SubSeq(route, 1, i - 1) \o TurnedAll(SubSeq(route, i, k)) \o SubSeq(route, k + 1, Len(route))
Relocated(route, i, n, j, flip) ==
  LET chunk == SubSeq(route, i, i + n - 1)
      rest == SubSeq(route, 1, i - 1) \o SubSeq(route, i + n, Len(route))
  IN SubSeq(rest, 1, j) \o (IF flip THEN TurnedAll(chunk) ELSE chunk) \o SubSeq(rest, j + 1, Len(rest))

\* Transits between the runs that do not touch.
Connected(seq) ==
  FoldLeft(LAMBDA out, s : IF out = <<>> THEN <<s>>
                           ELSE IF Last(Last(out).at) = s.at[1] THEN Append(out, s)
                           ELSE out \o <<Transit(Last(Last(out).at), s.at[1]), s>>,
           <<>>, seq)

(* A lone mark is linked to where the rover stands, when it is known.       *)
FromRover(route, from) ==
  IF Len(route) = 1 /\ from # route[1].at[1] THEN <<Transit(from, route[1].at[1])>> \o route ELSE route

-----------------------------------------------------------------------------
(* Step 4: the run-up and the run-out, clamped by the length of the line    *)
(* and by the marks in the way.                                             *)
RayHits(from, way, far, polylines) ==
  LET OnLeg(p, a, b) ==
        /\ way[1] * Way(a, b)[2] # way[2] * Way(a, b)[1]
        /\ Extent(a, p) + Extent(p, b) = Extent(a, b)
  IN {t \in 1 .. far : \E pts \in polylines : \E i \in 1 .. Len(pts) - 1 :
                          OnLeg(Ahead(from, way, t), pts[i], pts[i + 1])}

ClampedReach(asked, length, from, way, polylines) ==
  LET far == IF 2 * asked <= length THEN asked ELSE length \div 2
      hits == RayHits(from, way, far, polylines)
      free == IF hits = {} THEN far ELSE Least(hits) - Clearance
  IN IF asked = 0 \/ length < ShortLine \/ free < Useful THEN 0 ELSE free

Retraces(a, b) ==
  /\ a.mark /\ b.mark /\ Len(a.at) >= 2 /\ Len(b.at) >= 2
  /\ Last(a.at) = b.at[1]
  /\ Way(a.at[Len(a.at) - 1], Last(a.at)) = Way(b.at[1], b.at[2])

IsClosedRun(pts) == Len(pts) >= 4 /\ Away(pts[1], Last(pts)) <= GroupGap * GroupGap /\ Reach(pts) >= ShapeLength

Extended(seq, i, perLine) ==
  LET s == seq[i]   n == Len(s.at)
      others == {seq[j].at : j \in {k \in DOMAIN seq \ {i} : seq[k].mark}}
      pre == IF i > 1 /\ Retraces(seq[i - 1], s) THEN 0
             ELSE ClampedReach(PreReach, Reach(s.at), s.at[1], Way(s.at[2], s.at[1]), others)
      aft == IF i < Len(seq) /\ Retraces(s, seq[i + 1]) THEN 0
             ELSE ClampedReach(AftReach, Reach(s.at), s.at[n], Way(s.at[n - 1], s.at[n]), others)
      runUp == IF pre = 0 THEN <<>> ELSE <<Transit(Ahead(s.at[1], Way(s.at[2], s.at[1]), pre), s.at[1])>>
      runOut == IF aft = 0 THEN <<>> ELSE <<Transit(s.at[n], Ahead(s.at[n], Way(s.at[n - 1], s.at[n]), aft))>>
  IN IF ~s.mark \/ n < 2 \/ (~s.curve /\ ~perLine /\ IsClosedRun(s.at)) THEN <<s>>
     ELSE runUp \o <<s>> \o runOut

-----------------------------------------------------------------------------
(* Step 6: one polyline.  A point is dropped only on a coincident one of    *)
(* its own flag: where the flag changes the point is there twice.           *)
CoincidentAnyFlag(last, p, mark) == last.at = p
Coincident(last, p, mark) == last.at = p /\ last.on = mark
Merged(seq, offset) ==
  LET Add(out, s) ==
        FoldLeftDomain(LAMBDA path, i :
          LET p == Ahead(s.at[i], offset, 1)
          IN IF path # <<>> /\ Coincident(Last(path), p, s.mark)
             THEN [path EXCEPT ![Len(path)].must = @ \/ i \in s.keep]
             ELSE Append(path, [at |-> p, on |-> s.mark, must |-> i \in s.keep]),
          out, s.at)
  IN FoldLeft(Add, <<>>, seq)

\* The loop is closed by a point with the spray off.
Closed(path) ==
  IF options.close /\ Last(path).at # path[1].at
  THEN Append(path, [at |-> path[1].at, on |-> FALSE, must |-> TRUE]) ELSE path

(* A path that ends on a mark, and not where it began, gets the end again   *)
(* with the spray off and a run-out.                                        *)
RunOut(path) ==
  LET last == Last(path)
      way == IF Len(path) >= 2 /\ path[Len(path) - 1].at # last.at
             THEN Way(path[Len(path) - 1].at, last.at) ELSE <<1, 0>>
      far == IF options.extend # "off" /\ AftReach > RunOutFloor THEN AftReach ELSE RunOutFloor
      Off(p) == [at |-> p, on |-> FALSE, must |-> FALSE]
  IN IF last.on /\ ~(Len(path) >= 2 /\ last.at = path[1].at)
     THEN path \o <<Off(last.at), Off(Ahead(last.at, way, far))>> ELSE path

\* Where the drawing is placed.
Offset(seq) ==
  IF options.anchor = "first_waypoint" THEN <<Origin[1] - seq[1].at[1][1], Origin[2] - seq[1].at[1][2]>>
  ELSE Origin

-----------------------------------------------------------------------------
Options == [extend : {"off", "chains", "lines"}, optimize : BOOLEAN, close : BOOLEAN,
            anchor : {"drawing_origin", "first_waypoint"}, start : Positions \cup {NoPosition}]

PlanningInit ==
  /\ planStep = "twins" /\ drawing \in Drawings /\ options \in Options
  /\ strokes = drawing /\ moves = 0 /\ planned = <<>>

To(step) == planStep' = step /\ UNCHANGED <<drawing, options>>

Twins ==
  /\ planStep = "twins" /\ strokes' = DropTwins(strokes)
  /\ To("densify") /\ UNCHANGED <<moves, planned>>

Densify ==
  /\ planStep = "densify" /\ strokes' = [i \in DOMAIN strokes |-> Densified(strokes[i])]
  /\ To("group") /\ UNCHANGED <<moves, planned>>

Group ==
  /\ planStep = "group" /\ strokes' = Grouped(strokes)
  /\ To("unfuse") /\ UNCHANGED <<moves, planned>>

Unfuse ==
  /\ planStep = "unfuse"
  /\ strokes' = IF options.extend = "lines" THEN FlattenSeq([i \in DOMAIN strokes |-> Edges(strokes[i])])
                ELSE strokes
  /\ To(IF options.optimize THEN "order" ELSE "extend") /\ UNCHANGED <<moves, planned>>

\* The optimizer keeps only the marks.
Reorder ==
  /\ planStep = "order"
  /\ LET from == Resolved(strokes)
         route == NearestFirst(Marks(strokes), from)
     IN strokes' = IF options.extend = "off" THEN FromRover(route, from) ELSE route
  /\ To("improve") /\ UNCHANGED <<moves, planned>>

Improve ==
  /\ planStep = "improve" /\ Len(strokes) >= 4 /\ moves < MaxMoves
  /\ LET n == Len(strokes)
     IN \/ \E i \in 1 .. n - 2 : \E k \in i + 1 .. n : strokes' = SliceReversed(strokes, i, k)
        \/ \E run \in 1 .. 3 : \E i \in 1 .. n - run + 1 : \E j \in (0 .. n - run) \ {i - 1} : \E flip \in BOOLEAN :
             strokes' = Relocated(strokes, i, run, j, flip)
  /\ moves' = moves + 1
  /\ UNCHANGED <<planStep, drawing, options, planned>>

\* Without extensions the optimizer links the runs itself.
Ordered ==
  /\ planStep = "improve"
  /\ strokes' = IF options.extend = "off" THEN Connected(strokes) ELSE strokes
  /\ To("extend") /\ UNCHANGED <<moves, planned>>

\* With extensions they are linked here, from run-out to run-up.
Extend ==
  /\ planStep = "extend"
  /\ strokes' = IF options.extend = "off" THEN strokes
                ELSE Connected(FlattenSeq([i \in DOMAIN strokes |-> Extended(strokes, i, options.extend = "lines")]))
  /\ To("merge") /\ UNCHANGED <<moves, planned>>

Merge ==
  /\ planStep = "merge" /\ planned' = RunOut(Closed(Merged(strokes, Offset(strokes))))
  /\ To("done") /\ UNCHANGED <<strokes, moves>>

PlanningNext == Twins \/ Densify \/ Group \/ Unfuse \/ Reorder \/ Improve \/ Ordered \/ Extend \/ Merge
PlanningSpec == PlanningInit /\ [][PlanningNext]_planVars

-----------------------------------------------------------------------------
PlanningTypeOK ==
  /\ drawing \in Drawings /\ options \in Options /\ moves \in 0 .. MaxMoves
  /\ \A i \in DOMAIN strokes : strokes[i].at # <<>> /\ strokes[i].keep \subseteq DOMAIN strokes[i].at
  /\ planStep = "done" => planned # <<>>

Placed(p) == Ahead(p, Offset(strokes), 1)

(* The stretches of one unit of a leg, whichever way it is driven.          *)
Stretches(a, b) ==
  {Ahead(<<2 * a[1], 2 * a[2]>>, Way(a, b), 2 * k + 1) : k \in 0 .. Extent(a, b) - 1}
Drawn == UNION {UNION {Stretches(Placed(s.at[k]), Placed(s.at[k + 1])) : k \in 1 .. Len(s.at) - 1} :
                  s \in {drawing[i] : i \in {j \in DOMAIN drawing : drawing[j].mark}}}
PaintedLegs == {i \in 1 .. Len(planned) - 1 : planned[i].on}
Painted == UNION {Stretches(planned[i].at, planned[i + 1].at) : i \in PaintedLegs}
PaintedLength == FoldLeftDomain(LAMBDA sum, i : IF i \in PaintedLegs THEN sum + Extent(planned[i].at, planned[i + 1].at)
                                               ELSE sum, 0, planned)

(* Two cases are left out, and the README tells of them: a mark that does   *)
(* not touch the next one when neither the optimizer nor the extensions are *)
(* there to link them, and a loop that is closed from a mark.               *)
Unlinked == \E i \in 1 .. Len(strokes) - 1 : strokes[i].mark /\ Last(strokes[i].at) # strokes[i + 1].at[1]
ClosedFromMark == options.close /\ Last(strokes).mark

(* The spray flag of a point is that of the leg that leaves it.  Read so,   *)
(* the path paints every stretch of the drawing once, a stretch drawn twice *)
(* too, and nothing else; and it does not end on a mark unless it ends      *)
(* where it began: whatever was dropped, grouped, cut, reordered, turned    *)
(* round, extended, linked and merged on the way.                           *)
PlanKeepsDrawing ==
  planStep = "done" /\ ~Unlinked /\ ~ClosedFromMark =>
    /\ Painted = Drawn
    /\ PaintedLength = Cardinality(Drawn)
    /\ Last(planned).on => Last(planned).at = planned[1].at

(* must_hit tells the points of the drawing from the samples between them:  *)
(* every point of a mark of the drawing is there as one that must be hit,   *)
(* and no sample is.                                                        *)
MustHitIsSource ==
  planStep = "done" =>
    LET source == UNION {{Placed(p) : p \in Range(drawing[i].at)} : i \in {j \in DOMAIN drawing : drawing[j].mark}}
    IN /\ \A p \in source : \E i \in DOMAIN planned : planned[i].at = p /\ planned[i].must
       /\ \A i \in DOMAIN planned : planned[i].on /\ planned[i].must => planned[i].at \in source

(* It does so as long as no stroke whose points lie unevenly was turned     *)
(* round: the grouping and the cutting at the corners keep it.              *)
SourceStaysMustHit == (\A i \in DOMAIN strokes : ~strokes[i].stale) => MustHitIsSource
=============================================================================
