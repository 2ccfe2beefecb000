------------------------------- MODULE SprayLine -------------------------------
(* Where the spray node paints a line: its projection onto the path, with the *)
(* window and the direction gate; the boundaries and their leads; the gates   *)
(* with their latches; and the dash of the dash mode.                        *)
(*                                                                            *)
(* The legs of a path run along the axes between integer points, so distances *)
(* along it are integers and lateral errors compare by their squares.  A tick *)
(* of the watchdog timer is one unit of time, in which the rover stands or    *)
(* moves one cell.  The debounce and the valve are SprayActuator's.           *)
EXTENDS Integers, Sequences, FiniteSetsExt

CONSTANTS
  Paths,          \* the /path messages: points and spray flags
  Errors,         \* of a pose: along and across the leg
  WindowBack, WindowFwd, Reacquire,   \* projection_window_*_m, projection_reacquire_dist_m
  OpenDelay, CloseDelay,              \* solenoid_*_delay_s
  Clear, Trip, MinOff,                \* max_xtrack_error_m, xtrack_trip_error_m, xtrack_gate_min_off_s
  Hold,                               \* gps_recover_hold_s
  ProgressTimeout,                    \* progress_timeout_s
  Epsilon,                            \* terminal_off_epsilon_m
  OnDistance, OffDistance, JumpFactor, AcceptAfter,  \* of the DashMeter
  MaxDisturbances       \* a bound: disturbances in a behaviour

ASSUME LineAssumption ==
  /\ \A p \in Paths : Len(p.points) = Len(p.flags) /\ Len(p.points) > 1
  /\ {WindowBack, WindowFwd, Reacquire, OpenDelay, CloseDelay, Clear, Trip, MinOff, Hold,
      ProgressTimeout, Epsilon, MaxDisturbances} \subseteq Nat
  /\ {OnDistance, OffDistance, JumpFactor, AcceptAfter} \subseteq Nat \ {0}
  /\ \A p \in Paths : p.points \in Seq(Int \X Int) /\ p.flags \in Seq(BOOLEAN)
  /\ Errors \subseteq Int \X Int

VARIABLES
  model,      \* _path_model
  setup,      \* "own", "reported" (consume_rpp_progress), "directed"
              \* (projection_direction_gate_deg > 0), or "dash" (_session_mode)
  at,         \* the rover's station along the path
  pose,       \* _pose_ned, of the nozzle
  speed,
  block,      \* what else stops it: "disarmed", "lost" (no fresh pose), "refused"
              \* (it pivots, or /spray/active is silent), or "none"
  fix,        \* fix_ok of the last GPS sample
  held,       \* ticks since _gps_recover_since, Never without
  tracked,    \* _tracking_seen_since_path_load
  prev,       \* _proj_prev_s, Nowhere without
  tripped, tripAge,       \* _xtrack_tripped, and the ticks since it rose
  dash,      \* the DashMeter
  report, reportAge,      \* the last /rpp/progress, and whether it is about this path
  wants,      \* what the tick passes on: _desired_raw
  stray,      \* whether its boundaries were those of a report on the path before
  calm,       \* ticks without any disturbance
  disturbed      \* disturbances so far

roverVars == <<at, pose, speed>>
gateVars  == <<block, fix, held, tracked, tripped, tripAge>>
feedVars  == <<report, reportAge>>
lineVars  == <<model, setup, roverVars, gateVars, prev, dash, feedVars, wants, stray, calm, disturbed>>

Never   == -1
Nowhere == -1
Settled == Hold + MinOff + ProgressTimeout + 1   \* by then every latch has opened
Older(age, limit) == IF age = Never \/ age > limit THEN age ELSE age + 1

-----------------------------------------------------------------------------
\* The path model

Abs(x) == IF x < 0 THEN -x ELSE x
Between(x, a, b) == IF a <= b THEN (IF x < a THEN a ELSE IF x > b THEN b ELSE x)
                              ELSE (IF x < b THEN b ELSE IF x > a THEN a ELSE x)
Along(p, q)   == Abs(p[1] - q[1]) + Abs(p[2] - q[2])        \* on one leg
Square(p, q)  == (p[1] - q[1]) * (p[1] - q[1]) + (p[2] - q[2]) * (p[2] - q[2])
Sign(x)       == IF x > 0 THEN 1 ELSE IF x < 0 THEN -1 ELSE 0

Legs(m)      == 1 .. Len(m.points) - 1
EndOf(m)     == m.s[Len(m.s)]
Heading(m, i) == <<Sign(m.points[i + 1][1] - m.points[i][1]), Sign(m.points[i + 1][2] - m.points[i][2])>>

\* Where the path turns, RPP begins another run.
Turns(m, i) ==
  LET moves == {j \in Legs(m) : Heading(m, j) # <<0, 0>>}
  IN Heading(m, Max({j \in moves : j < i})) # Heading(m, Min({j \in moves : j >= i}))

\* _build_path_model: the stations of the points, and the boundaries, with one
\* at the end of a path that ends on a MARK.
Stations(points) ==
  LET s[i \in DOMAIN points] == IF i = 1 THEN 0 ELSE s[i - 1] + Along(points[i - 1], points[i]) IN s

Kind(flag) == IF flag THEN "TRANSIT_TO_MARK" ELSE "MARK_TO_TRANSIT"
ModelOf(path) ==
  LET s == Stations(path.points)  n == Len(path.points)
  IN [points |-> path.points, flags |-> path.flags, s |-> s,
      corners |-> {s[i] : i \in {j \in 2 .. n : j = n \/ Turns(path, j)}},
      boundaries |-> {[s |-> s[i], kind |-> Kind(path.flags[i])] :
                        i \in {j \in 2 .. n : path.flags[j] # path.flags[j - 1]}}
                     \cup {[s |-> s[i], kind |-> "MARK_TO_TRANSIT"] : i \in {j \in {n} : path.flags[j]}}]

\* _next_boundary, Nowhere for none.
NextBoundary(m, s, flag) ==
  LET ahead == {b.s : b \in {x \in m.boundaries : x.kind = Kind(~flag) /\ x.s > s}}
  IN IF ahead = {} THEN Nowhere ELSE Min(ahead)

\* _first_mark_start_s
FirstMark(m) ==
  LET starts == {b.s : b \in {x \in m.boundaries : x.kind = "TRANSIT_TO_MARK"}}
  IN IF starts # {} THEN Min(starts) ELSE IF m.flags[1] THEN 0 ELSE Nowhere

-----------------------------------------------------------------------------
\* _project_onto_path

Foot(m, i, p) == <<Between(p[1], m.points[i][1], m.points[i + 1][1]),
                   Between(p[2], m.points[i][2], m.points[i + 1][2])>>

On(m, i, p) ==
  LET foot == Foot(m, i, p)
  IN [s |-> m.s[i] + Along(m.points[i], foot), error |-> Square(p, foot),
      flag |-> m.flags[IF m.points[i] # m.points[i + 1] /\ foot = m.points[i + 1] THEN i + 1 ELSE i]]

\* _scan: the nearest of the legs, of equals the last.
Scan(m, legs, p) ==
  LET square == [i \in legs |-> Square(p, Foot(m, i, p))]
      least  == Min({square[i] : i \in legs})
  IN On(m, Max({i \in legs : square[i] = least}), p)

\* Leg by leg of the fallbacks: the window along the heading, the window, the
\* path along the heading, the path.
Projection(m, p, from, heading) ==
  LET along  == IF setup = "directed"
                THEN {i \in Legs(m) : Heading(m, i) = <<0, 0>>
                                      \/ Heading(m, i)[1] * heading[1] + Heading(m, i)[2] * heading[2] > 0}
                ELSE {}
      window == IF from = Nowhere THEN {}
                ELSE {i \in Legs(m) : m.s[i + 1] >= from - WindowBack /\ m.s[i] <= from + WindowFwd}
      trusted(legs) == legs # {} /\ Scan(m, legs, p).error <= Reacquire * Reacquire
  IN Scan(m, IF trusted(window \cap along) THEN window \cap along
             ELSE IF trusted(window) THEN window
             ELSE IF trusted(along) THEN along ELSE Legs(m), p)

-----------------------------------------------------------------------------
\* Leads and gates

OnLead(v)  == v * OpenDelay
OffLead(v) == v * CloseDelay

\* _apply_mark_boundary_lead, at a distance to the next boundary.
Led(flag, ahead, v) ==
  IF ahead = Nowhere THEN flag ELSE IF flag THEN ahead > OffLead(v) ELSE ahead <= OnLead(v)

FlagAt(m, s) == m.flags[Max({i \in DOMAIN m.s : m.s[i] <= s})]
Ahead(m, s, flag) ==
  LET b == NextBoundary(m, s, flag) IN IF b = Nowhere THEN Nowhere ELSE b - s

\* What RPP reports at a station, on a run that ends at the corner or end r: the
\* next boundary of the run, or in a MARK the end of the run.  At r itself the
\* run may be over.
ReportAt(s, r) ==
  LET over == s = r
      flag == model.flags[Max({1} \cup {i \in DOMAIN model.s : IF over THEN model.s[i] < s ELSE model.s[i] <= s})]
      ahead == Ahead(model, s, flag)
  IN [mark |-> flag, s |-> s, over |-> over, here |-> TRUE,
      ahead |-> IF ahead # Nowhere /\ s + ahead < r THEN ahead ELSE IF flag THEN r - s ELSE Nowhere]
Done == [mark |-> FALSE, ahead |-> Nowhere, s |-> EndOf(model), over |-> TRUE, here |-> TRUE]
Reports(s) ==
  {ReportAt(s, r) : r \in {x \in {s} : s > 0} \cap model.corners}
  \cup {ReportAt(s, Min({r \in model.corners : r > s})) : x \in {y \in {s} : y < EndOf(model)}}
  \cup {Done : x \in {s} \cap {EndOf(model)}}
NoReport == [mark |-> FALSE, ahead |-> Nowhere, s |-> Nowhere, over |-> TRUE, here |-> FALSE]

\* _rpp_boundary_inputs
FromRpp == setup = "reported" /\ report # NoReport /\ reportAge <= ProgressTimeout

\* Variant: a latch that never clears.
TripsForGood(error) == tripped \/ error > Trip * Trip

\* The latch of the cross-track gate.
Trips(error) ==
  IF tripped THEN error > Clear * Clear \/ tripAge < MinOff ELSE error > Trip * Trip

-----------------------------------------------------------------------------
\* DashMeter

NewMeter(m) == [armed |-> FALSE, on |-> TRUE, s |-> 0, toggle |-> 0, ref |-> Nowhere, rejects |-> 0,
                anchor |-> FirstMark(m), moved |-> FALSE]

Target(on) == IF on THEN OnDistance ELSE OffDistance
Smaller(a, b) == IF a < b THEN a ELSE b

MetersAt(s) == [armed : {TRUE}, on : BOOLEAN, s : {s}, toggle : Nat, ref : Int, rejects : Nat,
                anchor : Int, moved : BOOLEAN]

\* The flips the dash owes at its station, each a lead before its boundary.
Lead(d, v)  == Smaller(IF d.on THEN OffLead(v) ELSE OnLead(v), Target(d.on))
Owes(d, v)  == d.s >= d.toggle + Target(d.on) - Lead(d, v)
Toggled(d)  == [d EXCEPT !.on = ~d.on, !.toggle = d.toggle + Target(d.on)]
Flips(s, v) ==
  LET flip[d \in MetersAt(s)] == IF Owes(d, v) THEN flip[Toggled(d)] ELSE d IN flip
Flipped(d, v) == Flips(d.s, v)[d]

Rejected(d, s, step) ==
  LET again == d.ref # Nowhere /\ Abs(s - d.ref) <= step
      count == IF again THEN d.rejects + 1 ELSE 1
  IN IF count >= AcceptAfter
     THEN [d EXCEPT !.s = s, !.toggle = s, !.ref = Nowhere, !.rejects = 0, !.moved = TRUE]
     ELSE [d EXCEPT !.ref = IF again THEN d.ref ELSE s, !.rejects = count]

\* DashMeter.update
Metered(d, s, v, error) ==
  LET step == v * JumpFactor
  IN IF ~d.armed /\ error > Clear * Clear THEN d
     ELSE Flipped(
       IF ~d.armed THEN [d EXCEPT !.armed = TRUE, !.s = s, !.ref = Nowhere, !.rejects = 0,
                                  !.toggle = IF d.anchor # Nowhere THEN d.anchor ELSE s]
       ELSE IF s - d.s \in 0 .. step THEN [d EXCEPT !.s = s, !.ref = Nowhere, !.rejects = 0]
       ELSE Rejected(d, s, step), v)

-----------------------------------------------------------------------------
\* The rover and its feeds

LegAt(m, s)   == Max({i \in Legs(m) : m.s[i] <= s})
LegsAt(m, s)  == {i \in Legs(m) : m.s[i] <= s /\ s <= m.s[i + 1] /\ m.s[i] # m.s[i + 1]}
PointAt(m, s) ==
  LET i == LegAt(m, s)  h == Heading(m, i)  d == s - m.s[i]
  IN <<m.points[i][1] + d * h[1], m.points[i][2] + d * h[2]>>
Displaced(m, s, e) ==
  LET p == PointAt(m, s)  h == Heading(m, LegAt(m, s))
  IN <<p[1] + e[1] * h[1] - e[2] * h[2], p[2] + e[1] * h[2] + e[2] * h[1]>>

\* _path_cb
Loaded(path) ==
  /\ model' = ModelOf(path) /\ at' = 0 /\ pose' = path.points[1] /\ speed' = 0
  /\ prev' = Nowhere /\ tracked' = FALSE /\ report' = [report EXCEPT !.here = FALSE]
  /\ dash' = NewMeter(model') /\ wants' = FALSE /\ stray' = FALSE /\ calm' = 0

PathCb(path) ==
  /\ at = EndOf(model) /\ speed = 0
  /\ Loaded(path)
  /\ UNCHANGED <<setup, block, fix, held, tripped, tripAge, reportAge, disturbed>>

LineInit ==
  /\ \E path \in Paths :
       /\ model = ModelOf(path) /\ pose = path.points[1] /\ dash = NewMeter(model)
  /\ setup \in {"own", "reported", "directed", "dash"}
  /\ at = 0 /\ speed = 0 /\ block = "none" /\ fix = TRUE /\ held = Never /\ tracked = FALSE
  /\ prev = Nowhere /\ tripped = FALSE /\ tripAge = MinOff
  /\ report = NoReport /\ reportAge = ProgressTimeout + 1 /\ wants = FALSE /\ stray = FALSE
  /\ calm = 0 /\ disturbed = 0

Counted(fault) == disturbed' = (IF fault THEN disturbed + 1 ELSE disturbed) /\ disturbed' <= MaxDisturbances

Blocks == {"none", "disarmed", "lost", "refused"}

Disturb(b) ==
  /\ block # b /\ block' = b /\ calm' = 0 /\ Counted(b # "none")
  /\ UNCHANGED <<model, setup, roverVars, fix, held, tracked, tripped, tripAge, prev,
                 dash, feedVars, wants, stray>>

\* _gps_cb
GpsCb ==
  /\ fix' = ~fix /\ calm' = 0 /\ Counted(fix)
  /\ UNCHANGED <<model, setup, roverVars, block, held, tracked, tripped, tripAge, prev,
                 dash, feedVars, wants, stray>>

\* _segment_debug_cb: the first tracking state on this path.
SegmentDebugCb ==
  /\ ~tracked /\ tracked' = TRUE /\ calm' = 0
  /\ UNCHANGED <<model, setup, roverVars, block, fix, held, tripped, tripAge, prev,
                 dash, feedVars, wants, stray, disturbed>>

\* _rpp_progress_cb
RppProgressCb ==
  /\ setup = "reported" /\ report' \in Reports(at) /\ reportAge' = 0
  /\ (report' # report \/ reportAge > 0)
  /\ UNCHANGED <<model, setup, roverVars, gateVars, prev, dash, wants, stray, calm, disturbed>>

-----------------------------------------------------------------------------
\* _distance_aware_tick

\* _gps_gate, which the gates before it keep from being asked.
GpsGate(asked) ==
  held' = IF asked /\ ~fix THEN Never ELSE IF asked /\ held = Never THEN 0 ELSE Older(held, Hold - 1)

Tick(v, e, leg) ==
  LET s0   == at + v
      p    == Displaced(model, s0, e)
      hit  == Projection(model, p, prev, Heading(model, leg))
      seen == block # "lost"
      error == hit.error
      painted == /\ IF FromRpp THEN Led(report.mark, report.ahead, v)
                               ELSE Led(hit.flag, Ahead(model, hit.s, hit.flag), v)
                 /\ setup = "dash" => dash'.armed /\ dash'.on
                 /\ ~(v = 0 /\ EndOf(model) - hit.s <= Epsilon)
  IN /\ s0 <= EndOf(model) /\ at' = s0 /\ speed' = v /\ leg \in LegsAt(model, s0)
     /\ pose' = IF seen THEN p ELSE pose
     /\ GpsGate(block \in {"none", "refused"})
     /\ IF seen
        THEN /\ prev' = hit.s /\ tripped' = Trips(error)
             /\ dash' = IF setup = "dash" THEN Metered(dash, hit.s, v, error) ELSE dash
        ELSE tripped' = FALSE /\ UNCHANGED <<prev, dash>>
     /\ tripAge' = IF tripped' /\ ~tripped THEN 1 ELSE IF tripAge < MinOff THEN tripAge + 1 ELSE tripAge
     /\ wants' = /\ block = "none" /\ held' >= Hold /\ tracked /\ ~tripped' /\ painted
     /\ stray' = (FromRpp /\ ~report.here)
     /\ reportAge' = Older(reportAge, ProgressTimeout)
     /\ Counted(e # <<0, 0>>)
     /\ calm' = IF block = "none" /\ fix /\ tracked /\ e = <<0, 0>>
                   /\ (FromRpp => report.here /\ report.s = at /\ ~report.over)
                THEN Older(calm, Settled - 1) ELSE 0
     /\ UNCHANGED <<model, setup, block, fix, tracked, report>>

LineNext ==
  \/ \E path \in Paths : PathCb(path)
  \/ \E b \in Blocks : Disturb(b)
  \/ GpsCb \/ SegmentDebugCb \/ RppProgressCb
  \/ \E v \in 0 .. 1, e \in Errors : \E leg \in Legs(model) : Tick(v, e, leg)

LineSpec == LineInit /\ [][LineNext]_lineVars

-----------------------------------------------------------------------------
\* Properties

LineTypeOK ==
  /\ setup \in {"own", "reported", "directed", "dash"} /\ block \in Blocks
  /\ {fix, tracked, tripped, wants, stray} \subseteq BOOLEAN
  /\ at \in 0 .. EndOf(model) /\ speed \in 0 .. 1 /\ prev \in {Nowhere} \cup 0 .. EndOf(model)
  /\ held \in {Never} \cup 0 .. Hold /\ tripAge \in 0 .. MinOff \cup {1}
  /\ reportAge \in 0 .. ProgressTimeout + 1
  /\ calm \in 0 .. Settled

MarkPoints(m) == {PointAt(m, s) : s \in {x \in 0 .. EndOf(m) : FlagAt(m, x)}}

(* The node asks for paint only where the nozzle it sees is near a MARK: a   *)
(* trip level beside the path and an opening lead before it, and with the    *)
(* boundaries of RPP as far again as a report may be old, once RPP has       *)
(* reported on this path.                                                    *)
PaintsNearMark ==
  wants /\ ~stray =>
    LET reach == Trip + OpenDelay + IF setup = "reported" THEN ProgressTimeout + 1 ELSE 0
    IN \E q \in MarkPoints(model) : Square(pose, q) <= reach * reach

\* No two stations of the path are in one place.
Plain(m) == \A s, t \in 0 .. EndOf(m) : PointAt(m, s) = PointAt(m, t) => s = t
\* The direction gate tells them apart, but it lets a boundary pass whatever the
\* heading: a disturbance at a corner can leave the projection there.
Unmistakable == IF setup = "directed" THEN disturbed = 0 ELSE Plain(model)

AtEnd(s) == EndOf(model) - s <= Epsilon

\* What is left of the MARK at a station: with the boundaries of RPP, of its run.
MarkLeft(s) ==
  LET ends == {Ahead(model, s, TRUE)} \cup
              {r - s : r \in {x \in model.corners : setup = "reported" /\ x >= s}}
  IN Min(ends)

(* A MARK is painted wherever the gates have been open for as long as their  *)
(* latches last: no latch, lost leg or stale report leaves a gap in it.  A   *)
(* path that meets itself needs the direction gate for that.                 *)
NoGap ==
  /\ calm >= Settled /\ setup # "dash" /\ Unmistakable
  /\ FlagAt(model, at) /\ MarkLeft(at) > OffLead(speed)
  /\ ~(speed = 0 /\ AtEnd(at))
  => wants

(* A rover that stands at the end of its path does not paint, on whatever    *)
(* flag the path ends and whoever gives the boundaries.                      *)
EndsShut == speed = 0 /\ at = EndOf(model) /\ Unmistakable => ~wants

(* Unless it accepted a relocation, the dash meter toggles on the grid laid  *)
(* through the first mark of a path that has one, at most a lead before the  *)
(* boundary of the grid, through glitches, stops and changes of speed.       *)
DashOnGrid ==
  dash.armed /\ ~dash.moved /\ dash.anchor # Nowhere =>
    LET past == dash.toggle - dash.anchor
    IN /\ past >= 0 /\ past % (OnDistance + OffDistance) = IF dash.on THEN 0 ELSE OnDistance
       /\ past > 0 => dash.s >= dash.toggle - IF dash.on THEN OnLead(1) ELSE OffLead(1)
       /\ dash.s < dash.toggle + Target(dash.on)

LineHolds == LineTypeOK /\ PaintsNearMark /\ NoGap /\ EndsShut /\ DashOnGrid
=============================================================================
