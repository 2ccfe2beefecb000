------------------------------ MODULE RppMotion ------------------------------
(***************************************************************************)
(* The control tick of the RPP controller (src/src/rpp_controller_node.py, *)
(* _control_loop_impl) as a state machine: the gates at its top, the       *)
(* alignment at the start of a run, the stop before a run boundary, the    *)
(* precise stop at the last endpoint, the stop before DONE and the corners *)
(* inside a segment run.  How fast and along which arc the rover drives is *)
(* left out: a command is a drive along the path, a correction towards the *)
(* endpoint, a pivot, a brake or a zero.                                   *)
(*                                                                         *)
(* What the callbacks last stored (pose, velocity, GPS fix) is the world   *)
(* the tick reads; it is free to change between two ticks, within what a   *)
(* rover can do.  Lengths are in cells: `along` is how far along the       *)
(* active run the pose says the rover is, one past the length when it is   *)
(* beyond the end plane.  Times are ages in ticks of the stamps the code   *)
(* stores.  The point hold is off (PointHandshake models it) and so is the *)
(* compensation of EKF resets; require_rtk_fix, entry_prealign and the     *)
(* precise endpoint stop are on: their defaults.                           *)
(***************************************************************************)
EXTENDS Integers, Sequences

CONSTANTS
  Missions,       \* the run sequences a path may be made into
  Dwell,          \* segment_stop_dwell_s
  MaxHold,        \* _CORNER_STOP_MAX_HOLD_S
  PivotTimeout,   \* _pivot_timeout_budget
  AlignSettle,    \* segment_align_settle_s
  EndpointMax,    \* segment_endpoint_precise_max_s
  Trigger,        \* braking distance that starts the precise endpoint stop
  MinGoalTravel,  \* min_goal_travel_m
  Gates,          \* the state codes of the gates that may be closed
  MayObey         \* whether the rover ever starts to do as it is told, see Obeys

\* A run: its profile, its length, its inner vertices and the hard ones among
\* them, whether it ends where it begins, whether it is entered around a corner.
IsRun(r) ==
  /\ r.profile \in {"segment", "smooth"}
  /\ r.length \in Nat
  /\ r.vertices \subseteq 1 .. r.length - 1 /\ r.hard \subseteq r.vertices
  /\ r.closed \in BOOLEAN /\ r.turn \in BOOLEAN

ASSUME MotionAssumption ==
  /\ \A m \in Missions : /\ m \in Seq({m[i] : i \in DOMAIN m}) /\ m # <<>>
                         /\ \A i \in DOMAIN m : IsRun(m[i])
  /\ Dwell \in Nat \ {0} /\ MaxHold \in Nat \ {0} /\ PivotTimeout \in Nat \ {0}
  /\ AlignSettle \in Nat /\ EndpointMax \in Nat \ {0}
  /\ Trigger \in Nat /\ MinGoalTravel \in Nat
  /\ Gates \subseteq {"STALE", "RTK_WAIT", "CONVERGING"} /\ MayObey \in BOOLEAN

VARIABLES
  runs,     \* _runs
  rpp,      \* the run, the cursor and the latches, see Applied
  corner,   \* what _reset_corner_pivot_state resets
  lastPos,  \* _last_pos is known: a jump can be told
  cmd,      \* the last command published
  state,    \* the last state code on /rpp/debug
  gate,     \* "open", or the state code of the gate that is closed
  leap,     \* the pose has jumped since the last pose a tick used
  vel,      \* the latest velocity sample: "still", "moving" or "stale"
  along, lateral, heading,  \* where the pose says the rover is on the run
  obeys,    \* from now on the rover does as it is told
  calm,     \* history: ticks since a tick last saw the rover not at rest
  halted,   \* history: ticks since it was last told to drive or pivot
  rested,   \* history: it was seen to stop since it was last told to drive
  far       \* history: the farthest cell of the run a tick saw it in

control == <<runs, rpp, corner, lastPos, cmd, state>>
world   == <<gate, leap, vel, along, lateral, heading, obeys>>
historyVars == <<calm, halted, rested, far>>
motionVars == <<control, world, historyVars>>

None == -1

\* A stamp's age a tick later, up to the age that is compared with.
StampOlder(age, most) == IF age = None \/ age = most THEN age ELSE age + 1
Larger(x, y) == IF x > y THEN x ELSE y
Clamp(x, lo, hi) == IF x < lo THEN lo ELSE IF x > hi THEN hi ELSE x

Run == runs[rpp.run]
HasNext == rpp.run < Len(runs)

\* _reset_corner_pivot_state
NoCorner == [entered |-> None, settle |-> None, complete |-> FALSE,
             pivot |-> None, align |-> None]

Cursor(m, i, completion) ==
  [run |-> i, seg |-> 0, travel |-> 0,
   align |-> m[i].length > 0 /\ (i = 1 \/ m[i].turn),
   boundary |-> FALSE, completion |-> completion, endpoint |-> None, done |-> FALSE]
AppliedKeepsLatch(m, i) == Cursor(m, i, rpp.completion)

\* _apply_run: all that belongs to a run starts afresh.
Applied(m, i) == Cursor(m, i, FALSE)

MotionInit ==
  /\ runs = <<>> /\ corner = NoCorner /\ lastPos = FALSE
  /\ rpp = [run |-> 0, seg |-> 0, travel |-> 0, align |-> FALSE, boundary |-> FALSE,
            completion |-> FALSE, endpoint |-> None, done |-> FALSE]
  /\ cmd = "zero" /\ state = "IDLE"
  /\ calm = 0 /\ halted = 0 /\ rested = FALSE /\ far = 0 /\ obeys = FALSE
  /\ gate = "IDLE" /\ leap = FALSE /\ vel = "stale"
  /\ along = 0 /\ lateral = "on" /\ heading = "off"

\* _path_cb and _install_mission: nothing of the mission before is left.
Load(m) ==
  /\ ~obeys
  /\ runs' = m /\ rpp' = Applied(m, 1) /\ corner' = NoCorner
  /\ lastPos' = FALSE /\ far' = 0
  /\ along' = 0 /\ lateral' = "on" /\ heading' = "off"
  /\ UNCHANGED <<cmd, state, gate, leap, vel, obeys, calm, halted, rested>>

-----------------------------------------------------------------------------
(* The stop check and the pivot watchdog; c is the corner state            *)

\* Every stamp is a tick older than at the tick before.
CornerAged(c) ==
  [c EXCEPT !.entered = StampOlder(@, MaxHold), !.settle = StampOlder(@, Dwell),
            !.pivot = StampOlder(@, PivotTimeout), !.align = StampOlder(@, AlignSettle)]

CheckedKeepsSettle(c) ==
  [c EXCEPT !.entered = IF @ = None THEN 0 ELSE @,
            !.settle = IF vel = "still" /\ @ = None THEN 0 ELSE @]

\* _corner_stop_satisfied: what it leaves behind ...
Checked(c) ==
  [c EXCEPT !.entered = IF @ = None THEN 0 ELSE @,
            !.settle = IF vel # "still" THEN None ELSE IF @ = None THEN 0 ELSE @]

StoppedNeverStale(c) == vel = "still" /\ c.settle # None /\ c.settle >= Dwell

\* ... and what it says: at rest for the dwell, or held for long enough with no
\* velocity to tell it by.
Stopped(c) ==
  \/ vel = "still" /\ c.settle # None /\ c.settle >= Dwell
  \/ vel = "stale" /\ c.entered # None /\ c.entered >= MaxHold

\* _pivot_timed_out, asked only after the stop; the first question starts it.
TimedOut(c) == c.complete /\ c.pivot # None /\ c.pivot >= PivotTimeout
Watched(c) == [c EXCEPT !.pivot = IF c.complete /\ @ = None THEN 0 ELSE @]

\* The heading to leave with: within the tolerance ("in"), or within the wider
\* one ("near") after the timeout; never "off".
HeadingOk(c) == heading = "in" \/ (TimedOut(c) /\ heading = "near")
Ready(c) == c.complete /\ HeadingOk(c) /\ (vel = "still" \/ (vel = "stale" /\ TimedOut(c)))
Settling(c) == [Watched(c) EXCEPT !.align = IF ~Ready(c) THEN None
                                            ELSE IF @ = None THEN 0 ELSE @]
Settled(c) == Ready(c) /\ Settling(c).align >= AlignSettle

-----------------------------------------------------------------------------
(* How a tick ends: with a command, with the next run or with DONE.        *)
(* r and c are the cursor and the corner state it leaves.                  *)

Publish(command, r, c) ==
  /\ cmd' = command /\ state' = "TRACKING" /\ rpp' = r /\ corner' = c

\* _publish_zero: the state code tells why.
PublishZero(code, r, c) ==
  /\ cmd' = "zero" /\ state' = code /\ rpp' = r /\ corner' = c

\* _advance_run: nothing is published in this tick.  The stop before a hard
\* boundary is carried into the new run: it is not stopped a second time.
AdvanceRun(preStopped) ==
  LET r == Applied(runs, rpp.run + 1)
  IN /\ rpp' = r
     /\ corner' = [NoCorner EXCEPT !.complete = preStopped /\ r.align]
     /\ UNCHANGED <<cmd, state>>

\* The stop-and-spin at a corner: brake to a stop, pivot, and once the heading is
\* in, brake again until it has settled.
Spin(r, c) ==
  /\ ~Settled(c)
  /\ \/ /\ c.complete /\ HeadingOk(c)
        /\ Publish("brake", r, Settling(c))
     \/ /\ c.complete /\ ~HeadingOk(c)
        /\ Publish("pivot", r, Settling(c))
     \/ /\ ~c.complete /\ ~Stopped(Checked(c))
        /\ Publish("brake", r, Checked(Settling(c)))
     \/ /\ ~c.complete /\ Stopped(Checked(c))
        /\ Publish("pivot", r, [Checked(Settling(c)) EXCEPT !.complete = TRUE])

\* _hold_before_run_advance: a straight transition is made at once, a hard one
\* after a stop that is latched until it is confirmed.
HoldBeforeRunAdvance(r, c) ==
  LET held == Checked(IF r.boundary THEN c ELSE NoCorner)
      turn == runs[rpp.run + 1].turn
  IN \/ ~turn /\ AdvanceRun(FALSE)
     \/ turn /\ Stopped(held) /\ AdvanceRun(TRUE)
     \/ turn /\ ~Stopped(held) /\ Publish("brake", [r EXCEPT !.boundary = TRUE], held)

\* _hold_at_completion: DONE is said only of a rover that has stopped.
HoldAtCompletion(r, c) ==
  LET held == Checked(IF r.completion THEN c ELSE NoCorner)
      latched == [r EXCEPT !.completion = TRUE]
  IN \/ Stopped(held) /\ PublishZero("DONE", [latched EXCEPT !.done = TRUE], held)
     \/ ~Stopped(held) /\ Publish("brake", latched, held)

\* The rover is at the end of the run, or went through it not too far off.
MinTravel(r) == IF Run.closed THEN 10 * r.travel >= 9 * Run.length
                ELSE r.travel >= MinGoalTravel \/ 2 * r.travel >= Run.length
AtGoal(r) ==
  /\ MinTravel(r)
  /\ \/ lateral = "on" /\ (along = Run.length \/ (Run.closed /\ along = 0))
     \/ lateral # "wide" /\ along > Run.length /\ Run.length > 0 /\ r.travel = Run.length

\* _segment_endpoint_precise_stop_tick: near the end of the last run the rover is
\* brought onto the endpoint, and given up on only when it stands.
EndpointEngages(r) ==
  /\ Run.profile = "segment" /\ ~HasNext /\ Run.length > 0 /\ MinTravel(r)
  /\ r.endpoint # None \/ Run.length - along <= Trigger
EndpointStop(r, c) ==
  LET held == Checked(IF r.endpoint # None THEN c ELSE NoCorner)
      on   == [r EXCEPT !.endpoint = IF @ = None THEN 0 ELSE @]
      there == along = Run.length /\ lateral = "on"
      finished == Stopped(held) /\ (there \/ on.endpoint >= EndpointMax)
  IN \/ finished /\ HoldAtCompletion([on EXCEPT !.endpoint = None, !.completion = TRUE], held)
     \/ ~finished /\ Publish(IF lateral = "wide" THEN "brake" ELSE "correct", on, held)

\* The end of the run is reached: the next one, or the end of the mission.
EndOfRun(r, c) == IF HasNext THEN HoldBeforeRunAdvance(r, c) ELSE HoldAtCompletion(r, c)

-----------------------------------------------------------------------------
(* Tracking                                                                *)

SegEnd(s) == LET ahead == {v \in Run.vertices : v > s}
             IN IF ahead = {} THEN Run.length
                ELSE CHOOSE v \in ahead : \A w \in ahead : v <= w

\* Pure pursuit of a point ahead, along the segment or along the smooth run: where
\* to and how fast is left to the rover's moves.
DriveSegment(r, c) == Publish("drive", r, c)
DriveSmooth(r, c)  == Publish("drive", r, c)

\* _control_segment_profile from the segment that begins at r.seg.  Progress is
\* the projection on that segment alone.
Follow(r0, c) ==
  LET end == SegEnd(r0.seg)
      final == end = Run.length
      r == [r0 EXCEPT !.travel = Larger(@, Clamp(along, r0.seg, end))]
      corners == ~final /\ along = end /\ lateral = "on"
  IN \/ final /\ EndpointEngages(r) /\ EndpointStop(r, c)
     \/ final /\ ~EndpointEngages(r) /\ AtGoal(r) /\ EndOfRun(r, c)
     \/ final /\ ~EndpointEngages(r) /\ ~AtGoal(r) /\ DriveSegment(r, c)
     \/ corners /\ end \in Run.hard /\ Spin(r, c)
     \/ ~final /\ ~corners /\ DriveSegment(r, c)

\* A vertex within the acceptance radius is passed in the same tick: a soft one at
\* once, a hard one when the pivot has settled.
PassesVertex(r, c) ==
  /\ SegEnd(r.seg) # Run.length /\ along = SegEnd(r.seg) /\ lateral = "on"
  /\ SegEnd(r.seg) \in Run.hard => Settled(c)

ControlSegmentProfile(r, c) ==
  IF Run.length = 0
  THEN IF HasNext THEN AdvanceRun(FALSE)
       ELSE PublishZero("DONE", [r EXCEPT !.done = TRUE], c)
  ELSE IF PassesVertex(r, c)
  THEN Follow([r EXCEPT !.travel = Larger(@, along), !.seg = SegEnd(r.seg)], NoCorner)
  ELSE Follow(r, c)

\* The tick after the alignment: the latched stops first, then the arrival tests,
\* then the profile's control.
Track(r0, c) ==
  LET r == IF Run.profile = "segment" THEN r0
           ELSE [r0 EXCEPT !.travel = Larger(@, Clamp(along, 0, Run.length))]
  IN \/ r.boundary /\ HoldBeforeRunAdvance(r, c)
     \/ ~r.boundary /\ r.completion /\ HoldAtCompletion(r, c)
     \/ /\ ~r.boundary /\ ~r.completion
        /\ \/ EndpointEngages(r) /\ EndpointStop(r, c)
           \/ ~EndpointEngages(r) /\ AtGoal(r) /\ EndOfRun(r, c)
           \/ /\ ~EndpointEngages(r) /\ ~AtGoal(r)
              /\ IF Run.profile = "segment" THEN ControlSegmentProfile(r, c)
                 ELSE DriveSmooth(r, c)

-----------------------------------------------------------------------------
(* The tick                                                                *)

\* What the rover and its sensors may do until the next tick.  (What no branch
\* reads keeps one value; a jump stays to be told until a tick has compared poses.)
Drives == gate = "open" /\ runs # <<>> /\ ~rpp.done
Usable == Drives /\ ~(lastPos /\ leap)
Reads(known, r) == gate' = "open" /\ runs # <<>> /\ ~r.done /\ ~(known /\ leap')
LateralRead(r, a) ==
  LET run == runs[r.run]
  IN a \in run.vertices \cup {run.length, run.length + 1} \cup (IF run.closed THEN {0} ELSE {})
HeadingRead(r, a) == r.align \/ a \in runs[r.run].hard

Wanders ==
  LET base == IF rpp'.run # rpp.run THEN 0 ELSE along
      room == IF runs = <<>> THEN 0 ELSE runs[rpp'.run].length + 1
  IN /\ gate' \in {"open"} \cup Gates
     /\ leap' \in {leap /\ ~Drives, TRUE}
     /\ along' \in (IF leap' THEN 0 .. room ELSE (base - 1 .. base + 1) \cap (0 .. room))
     /\ IF Reads(lastPos', rpp')
        THEN /\ vel' \in {"still", "moving", "stale"}
             /\ lateral' \in (IF LateralRead(rpp', along') THEN {"on", "side", "wide"} ELSE {"on"})
             /\ heading' \in (IF HeadingRead(rpp', along') THEN {"in", "near", "off"} ELSE {"off"})
        ELSE vel' = "stale" /\ lateral' = "on" /\ heading' = "off"

\* A rover that does as it is told: it drives towards the vertex ahead, turns when
\* told to pivot and stands otherwise; its velocity is true where it is known.
Obeys ==
  LET goal == IF Run.profile = "smooth" THEN Run.length ELSE SegEnd(rpp'.seg)
      toward == IF along < goal THEN along + 1 ELSE IF along > goal THEN along - 1 ELSE along
      fresh == rpp'.run # rpp.run
  IN /\ gate' = "open" /\ leap' = FALSE
     /\ along' = IF fresh THEN 0 ELSE IF cmd' \in {"drive", "correct"} THEN toward ELSE along
     /\ vel' \in {IF cmd' \in {"drive", "pivot", "correct"} /\ along' # along
                   THEN "moving" ELSE "still", "stale"}
     /\ lateral' = IF fresh \/ cmd' \in {"drive", "correct"} THEN "on" ELSE lateral
     /\ heading' \in IF ~HeadingRead(rpp', along') THEN {"off"}
                     ELSE IF cmd' = "pivot" THEN {"in", "near"}
                     ELSE IF fresh \/ along' # along THEN {"in", "near", "off"}
                     ELSE {heading}

WorldMoves ==
  \/ ~obeys /\ Wanders /\ obeys' = FALSE
  \/ (obeys \/ MayObey) /\ runs # <<>> /\ Obeys /\ obeys' = TRUE

\* A stop as somebody beside the controller tells it: stillness over the dwell, or
\* held for long enough with no velocity to tell it by.
StopSeen == \/ vel = "still" /\ calm >= Dwell
            \/ vel = "stale" /\ halted >= MaxHold

\* What every tick has besides: whether the next one has a pose to compare with,
\* the history, and what happens until then.
Until(known) ==
  /\ lastPos' = known
  /\ halted' = IF cmd' \in {"drive", "pivot"} THEN 0 ELSE StampOlder(halted, MaxHold)
  /\ calm' = IF ~Usable
             THEN (IF calm = 0 THEN 0 ELSE StampOlder(calm, Dwell))
             ELSE IF vel = "still" /\ cmd' \notin {"drive", "pivot"} THEN StampOlder(calm, Dwell) ELSE 0
  /\ rested' = (cmd' # "drive" /\ (rested \/ (Usable /\ StopSeen)))
  /\ far' = IF rpp'.run # rpp.run THEN 0
            ELSE IF Usable THEN Larger(far, along) ELSE far
  /\ WorldMoves
  /\ UNCHANGED runs

R == [rpp EXCEPT !.endpoint = StampOlder(@, EndpointMax)]
C == CornerAged(corner)

\* The gates, in the order they are tried.
GateClosed  == gate # "open" /\ PublishZero(gate, R, C) /\ Until(lastPos)
NoPath      == gate = "open" /\ runs = <<>> /\ PublishZero("IDLE", R, C) /\ Until(lastPos)
AlreadyDone == gate = "open" /\ runs # <<>> /\ rpp.done /\ PublishZero("DONE", R, C) /\ Until(lastPos)
JumpSkip    == Drives /\ lastPos /\ leap /\ PublishZero("JUMP_SKIP", R, C) /\ Until(TRUE)

\* _run_alignment_hold: it holds the tick until the heading has settled, then the
\* tick goes on with the run.
Align   == Usable /\ R.align /\ Spin(R, C) /\ Until(TRUE)
Aligned == Usable /\ R.align /\ Settled(C) /\ Track([R EXCEPT !.align = FALSE], NoCorner) /\ Until(TRUE)
Proceed == Usable /\ ~R.align /\ Track(R, C) /\ Until(TRUE)

ControlTick == GateClosed \/ NoPath \/ AlreadyDone \/ JumpSkip \/ Align \/ Aligned \/ Proceed

MotionNext ==
  \/ \E m \in Missions : Load(m)
  \/ GateClosed \/ NoPath \/ AlreadyDone \/ JumpSkip
  \/ Align \/ Aligned \/ Proceed

MotionSpec == MotionInit /\ [][MotionNext]_motionVars

\* The timer of the control loop keeps firing.
ObeyedTick == obeys /\ ControlTick
MotionLiveSpec == MotionSpec /\ WF_motionVars(ObeyedTick)

-----------------------------------------------------------------------------
StampAges(most) == {None} \cup 0 .. most

MotionTypeOK ==
  /\ runs \in Missions \cup {<<>>}
  /\ rpp.run \in 0 .. Len(runs) /\ (runs # <<>> => rpp.run # 0)
  /\ runs # <<>> => rpp.seg \in Run.vertices \cup {0} /\ rpp.travel \in 0 .. Run.length
  /\ rpp.endpoint \in StampAges(EndpointMax)
  /\ corner \in [entered : StampAges(MaxHold), settle : StampAges(Dwell), complete : BOOLEAN,
                 pivot : StampAges(PivotTimeout), align : StampAges(AlignSettle)]
  /\ cmd \in {"drive", "correct", "pivot", "brake", "zero"}
  /\ calm <= Dwell /\ halted <= MaxHold

\* The rover turns into the next run, and DONE is told, only when it has been seen
\* to stop at the end of the run: the dwell of an earlier stop, the stamp of another
\* corner or a velocity that went stale while it drove are never taken for one.
StopConfirmed ==
  [][ \/ runs' = runs /\ rpp'.run = rpp.run + 1 /\ rpp'.align /\ Run.length > 0
      \/ rpp'.done /\ ~rpp.done /\ Run.length > 0
      => StopSeen ]_motionVars

\* Once the end of a run is reached the rover is held there: nothing that happens
\* until the stop is confirmed (drifting off, a jump, a gap in the pose or in the
\* RTK fix) makes the controller drive, correct or turn again.
LatchHolds == rpp.boundary \/ rpp.completion => cmd \in {"brake", "zero"}

\* The rover turns on the spot at the start of a run only after a stop: the one
\* carried over from the run before, or one of its own.
AlignsFromRest == [][cmd' = "pivot" /\ Align => rested']_motionVars

\* The end of a run is believed only when enough of this run has been driven: a
\* run that begins at its own end, or next to the one before, is not skipped.
RunsAreDriven ==
  rpp.boundary \/ (rpp.completion /\ ~rpp.done) =>
    IF Run.closed THEN 10 * far >= 9 * Run.length
    ELSE far >= MinGoalTravel \/ 2 * far >= Run.length

\* The end of a run is reached once, by driving the run, and then held.
EndsAreEarned == LatchHolds /\ RunsAreDriven

\* No turn, no next run and no DONE without a stop that was seen.
StopsAreSeen == StopConfirmed /\ AlignsFromRest

\* An inner vertex the rover left behind without passing within the acceptance
\* radius: the segment ends there for good.
Missed == Run.profile = "segment" /\ along > SegEnd(rpp.seg)

\* Whatever has happened before: once the rover does as it is told, and no vertex was
\* missed, the mission ends.  No latch, stamp or watchdog leaves the controller
\* waiting for ever.
MissionEnds == (obeys /\ ~Missed) ~> rpp.done

=============================================================================
