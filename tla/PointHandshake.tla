---------------------------- MODULE PointHandshake ----------------------------
(***************************************************************************)
(* Point marking: RPP drives to the points of a path and holds at each,    *)
(* the spray node's meter dwells there, and each tells the other when it   *)
(* may go on (src/rpp_controller_node.py, src/spray_controller_node.py,    *)
(* src/spray_modes.py, src/progress_classifier.py).                        *)
(*                                                                         *)
(* One control tick of either node is one action; the messages between     *)
(* them are in flight for any length of time.  Time is not counted: a      *)
(* timer that runs may end in any later tick, so what holds here holds     *)
(* for every setting of the limits, which are all positive.                *)
(***************************************************************************)
EXTENDS Integers, Sequences

CONSTANTS
  NumPoints,     \* must-hit points of the path, all in one run
  SettleZero,    \* arrival_settle_s = 0
  MaxFaults      \* bound: restarts, slips, missed points, repeated taps

ASSUME HandshakeAssumption ==
  NumPoints \in Nat \ {0} /\ SettleZero \in BOOLEAN /\ MaxFaults \in Nat

Points  == 0..NumPoints - 1
NoPoint == -1

VARIABLES
  manual,        \* point_execution_mode is manual
  wired,         \* the spray node hears /spray/active, which is FALSE off the marks
  next, near,    \* the rover: next point of its path, point within whose radius it is
  hold,          \* RPP's hold of a point
  done,          \* _point_hold_done_keys
  doneIn,        \* the last /spray/point_done RPP has received
  tapIn,         \* the last /point/advance, and whether it came since the wait began
  phase,         \* the phase RPP published last
  meter,         \* the spray node's PointMeter
  atPoint,       \* _at_point_index: the last AT_POINT received
  progress,      \* point of a fresh DWELL_HOLD sample of /rpp/progress
  doneSeq,       \* _point_done_seq of the spray node
  valve,         \* off (confirmed), on, or closing
  milestones, dones, tap,       \* messages in flight
  announced, dwelt, painted, approved,   \* history, for the properties only
  faults

parameters == <<manual, wired>>
rover      == <<next, near>>
rppVars    == <<hold, done, doneIn, tapIn, phase>>
sprayVars  == <<meter, atPoint, progress, doneSeq, valve>>
channels   == <<milestones, dones, tap>>
history    == <<announced, dwelt, painted, approved>>
vars == <<parameters, rover, rppVars, sprayVars, channels, history, faults>>

SpendFault == faults > 0 /\ faults' = faults - 1

NoHold == [point |-> NoPoint, dwelling |-> FALSE, proof |-> "none", waiting |-> FALSE, atArm |-> -1]

-----------------------------------------------------------------------------
(* RPP: the tick's hold overlay, then the progress it publishes.            *)

(* AT_POINT is emitted on the edge into DWELL_HOLD. *)
Publish(ph, p) ==
  /\ phase' = ph
  /\ IF ph = "dwell" /\ phase # "dwell"
     THEN milestones' = Append(milestones, p) /\ announced' = announced \cup {p}
     ELSE UNCHANGED <<milestones, announced>>

(* A point not yet done comes within reach: a new hold, which overwrites    *)
(* whatever an earlier one has left.                                        *)
Arm ==
  /\ near # NoPoint /\ near \notin done /\ hold.point # near
  /\ hold' = [NoHold EXCEPT !.point = near, !.atArm = doneIn.seq]
  /\ Publish("approach", near)
  /\ UNCHANGED <<parameters, rover, done, doneIn, tapIn, sprayVars, dones, tap, dwelt, painted,
                 approved, faults>>

(* The point is out of reach again. *)
HoldLost ==
  /\ hold.point # NoPoint /\ near # hold.point
  /\ near = NoPoint \/ near \in done
  /\ hold' = NoHold
  /\ Publish("approach", NoPoint)
  /\ UNCHANGED <<parameters, rover, done, doneIn, tapIn, sprayVars, dones, tap, dwelt, painted,
                 approved, faults>>

FreshAnyPoint == doneIn.seq > hold.atArm                 \* variant: whatever the point
Fresh         == doneIn.index = hold.point /\ doneIn.seq > hold.atArm

(* Variant: no limit on the hold, point_hold_max_s = 0. *)
ProofsUnlimited == IF hold.proof # "none" THEN {hold.proof}
                   ELSE IF Fresh THEN {"spray"} ELSE {"none"}

(* Phase 1 of _point_handshake_ready: the latched proof, the message of the *)
(* spray node, or, once the hold has lasted long enough, the backstop.      *)
Proofs == IF hold.proof # "none" THEN {hold.proof}
          ELSE IF Fresh THEN {"spray"}
          ELSE IF hold.dwelling THEN {"none", "backstop"} ELSE {"none"}

(* Variant: a tap for any point. *)
AnyTap   == tapIn.new
Advanced == tapIn.new /\ tapIn.index = hold.point

Release ==
  /\ done' = done \cup {hold.point}
  /\ hold' = NoHold
  /\ Publish("approach", NoPoint)
  /\ UNCHANGED tapIn

(* The stop is confirmed, in this tick or before.  manual_wait_timeout_s is *)
(* 0, its default: the wait for the operator has no end of its own.         *)
DwellTick ==
  /\ hold.point # NoPoint /\ near = hold.point
  /\ \E proof \in Proofs :
       LET held == [hold EXCEPT !.dwelling = TRUE, !.proof = proof] IN
       \/ /\ proof = "none"
          /\ hold' = held /\ Publish("dwell", hold.point) /\ UNCHANGED <<done, tapIn>>
       \/ proof # "none" /\ ~manual /\ Release
       \/ /\ proof # "none" /\ manual /\ ~hold.waiting
          /\ hold' = [held EXCEPT !.waiting = TRUE] /\ tapIn' = [tapIn EXCEPT !.new = FALSE]
          /\ Publish("wait", hold.point) /\ UNCHANGED done
       \/ hold.waiting /\ Advanced /\ Release
  /\ UNCHANGED <<parameters, rover, doneIn, sprayVars, dones, tap, dwelt, painted, approved, faults>>

PointDoneCb ==
  /\ dones # <<>>
  /\ doneIn' = Head(dones) /\ dones' = Tail(dones)
  /\ UNCHANGED <<parameters, rover, hold, done, tapIn, phase, sprayVars, milestones, tap, history,
                 faults>>

AdvanceCb ==
  /\ tap # NoPoint
  /\ tapIn' = [index |-> tap, new |-> TRUE] /\ tap' = NoPoint
  /\ UNCHANGED <<parameters, rover, hold, done, doneIn, phase, sprayVars, milestones, dones,
                 history, faults>>

(* The process is respawned: it finds the latched path and nothing else,    *)
(* and joins the path no further than where it was.                         *)
RppRestarts ==
  /\ SpendFault
  /\ hold' = NoHold /\ done' = {} /\ phase' = "approach"
  /\ doneIn' = [index |-> NoPoint, seq |-> -1] /\ tapIn' = [index |-> NoPoint, new |-> FALSE]
  /\ next' \in 0..next
  /\ dones' = <<>> /\ tap' = NoPoint
  /\ UNCHANGED <<parameters, near, sprayVars, milestones, history>>

-----------------------------------------------------------------------------
(* The spray node: the arrival gate, the meter's tick and the valve.        *)

(* Variant: a later announcement stands for the earlier ones. *)
GateCatchesUp == atPoint >= meter.target \/ progress = meter.target
Gate          == atPoint = meter.target \/ progress = meter.target

(* Variant: the end of the list is found one point too late. *)
TurnToPastEnd(t, gate) ==
  [target |-> t, phase |-> IF t > NumPoints THEN "done" ELSE IF gate THEN "arriving" ELSE "transit"]

(* Where the meter is once it has turned to target t, in the same tick.     *)
TurnTo(t, gate) ==
  [target |-> t,
   phase  |-> CASE t = NumPoints        -> "done"
                [] t # NumPoints /\ ~gate               -> "transit"
                [] t # NumPoints /\ gate /\ ~SettleZero -> "arriving"
                [] t # NumPoints /\ gate /\ SettleZero  -> "dwelling"]

(* The bounded loop of PointMeter.update: what it can make of the meter,    *)
(* and the point whose dwell it has completed.  The gate was asked for the  *)
(* target the tick began with, and is used for the next one too.            *)
Turned(gate) == [meter |-> TurnTo(meter.target + 1, gate), completed |-> meter.target]
Stays(ph)    == [meter |-> [meter EXCEPT !.phase = ph], completed |-> NoPoint]
Skips        == [meter |-> TurnTo(meter.target + 1, FALSE), completed |-> NoPoint]

NeverSkips(gate) == {}                                   \* variant: no watchdog

(* The unreachable-target watchdog, before or while settling. *)
WatchdogSkips(gate) ==
  IF meter.phase \in {"transit", "arriving"} /\ ~gate THEN {Skips} ELSE {}

Update(gate, offConfirmed) ==
  WatchdogSkips(gate) \cup
  CASE meter.phase = "transit"  -> {[meter |-> TurnTo(meter.target, gate), completed |-> NoPoint]}
    [] meter.phase = "arriving" -> {Stays("arriving")} \cup (IF gate THEN {Stays("dwelling")} ELSE {})
    [] meter.phase = "dwelling" -> {Stays("dwelling"),
                                    IF offConfirmed THEN Turned(gate) ELSE Stays("off_wait")}
    [] meter.phase = "off_wait" -> {IF offConfirmed THEN Turned(gate) ELSE Stays("off_wait")}
    [] meter.phase = "done"     -> {Stays("done")}

(* The dwell sprays unless /spray/active has been FALSE for longer than     *)
(* active_timeout_s; RPP publishes FALSE at every point and between them.   *)
Desired(m) == m.phase = "dwelling" /\ ~wired

SprayTick ==
  /\ \E u \in Update(Gate, valve = "off") :
       /\ meter' = u.meter
       /\ IF u.completed # NoPoint
          THEN /\ doneSeq' = doneSeq + 1
               /\ dones' = Append(dones, [index |-> u.completed, seq |-> doneSeq + 1])
          ELSE UNCHANGED <<doneSeq, dones>>
       /\ valve' = CASE Desired(u.meter)  /\ valve = "off" -> "on"
                     [] ~Desired(u.meter) /\ valve = "on"  -> "closing"
                     [] OTHER -> valve
       /\ dwelt' = IF meter.phase \in {"dwelling", "off_wait"} /\ u.completed # NoPoint
                   THEN dwelt \cup {u.completed} ELSE dwelt
       /\ painted' = IF valve' = "on" THEN painted \cup {u.meter.target} ELSE painted
  /\ UNCHANGED <<parameters, rover, rppVars, atPoint, progress, milestones, tap, announced, approved,
                 faults>>

MilestoneCb ==
  /\ milestones # <<>>
  /\ atPoint' = Head(milestones) /\ milestones' = Tail(milestones)
  /\ UNCHANGED <<parameters, rover, rppVars, meter, progress, doneSeq, valve, dones, tap, history,
                 faults>>

(* /rpp/progress is best effort: any sample may be lost, and the last goes  *)
(* stale.                                                                   *)
ProgressCb ==
  /\ progress' = IF phase = "dwell" THEN hold.point ELSE NoPoint
  /\ UNCHANGED <<parameters, rover, rppVars, meter, atPoint, doneSeq, valve, channels, history, faults>>

ProgressStale ==
  /\ progress' = NoPoint
  /\ UNCHANGED <<parameters, rover, rppVars, meter, atPoint, doneSeq, valve, channels, history, faults>>

OffConfirmed ==
  /\ valve = "closing" /\ valve' = "off"
  /\ UNCHANGED <<parameters, rover, rppVars, meter, atPoint, progress, doneSeq, channels, history,
                 faults>>

(* The respawned node gets the latched configuration and path: a new meter. *)
SprayRestarts ==
  /\ SpendFault
  /\ meter' = [target |-> 0, phase |-> "transit"]
  /\ atPoint' = NoPoint /\ progress' = NoPoint /\ doneSeq' = 0 /\ valve' = "closing"
  /\ milestones' = <<>>
  /\ UNCHANGED <<parameters, rover, rppVars, dones, tap, history>>

-----------------------------------------------------------------------------
(* External: the rover on its path, and the operator.                       *)

RoverStep(to, at) == next' = to /\ near' = at
  /\ UNCHANGED <<parameters, rppVars, sprayVars, channels, history>>

(* It moves while RPP does not hold it. *)
Reaches == /\ hold.point = NoPoint /\ near = NoPoint /\ next < NumPoints
           /\ RoverStep(next, next) /\ UNCHANGED faults
Leaves  == /\ hold.point = NoPoint /\ near \in done
           /\ RoverStep(near + 1, NoPoint) /\ UNCHANGED faults
Misses  == /\ hold.point = NoPoint /\ near = NoPoint /\ next < NumPoints
           /\ SpendFault /\ RoverStep(next + 1, NoPoint)

(* The estimate jumps, or the rover comes to rest beyond the radius. *)
Slips == near # NoPoint /\ SpendFault /\ RoverStep(next, NoPoint)

(* The operator sees the wait and taps; only the last tap is kept. *)
Taps ==
  /\ phase = "wait"
  /\ tap' = hold.point /\ approved' = approved \cup {hold.point}
  /\ UNCHANGED <<parameters, rover, rppVars, sprayVars, milestones, dones, announced, dwelt, painted,
                 faults>>

(* A second tap on a button that is not up to date. *)
TapsAgain ==
  /\ SpendFault
  /\ \E p \in approved : tap' = p
  /\ UNCHANGED <<parameters, rover, rppVars, sprayVars, milestones, dones, history>>

-----------------------------------------------------------------------------
Init ==
  /\ manual \in BOOLEAN /\ wired \in BOOLEAN
  /\ next = 0 /\ near = NoPoint
  /\ hold = NoHold /\ done = {} /\ phase = "approach"
  /\ doneIn = [index |-> NoPoint, seq |-> -1] /\ tapIn = [index |-> NoPoint, new |-> FALSE]
  /\ meter = [target |-> 0, phase |-> "transit"]
  /\ atPoint = NoPoint /\ progress = NoPoint /\ doneSeq = 0 /\ valve = "off"
  /\ milestones = <<>> /\ dones = <<>> /\ tap = NoPoint
  /\ announced = {} /\ dwelt = {} /\ painted = {} /\ approved = {}
  /\ faults = MaxFaults

Next ==
  \/ Arm \/ HoldLost \/ DwellTick \/ PointDoneCb \/ AdvanceCb \/ RppRestarts
  \/ SprayTick \/ MilestoneCb \/ ProgressCb \/ ProgressStale \/ OffConfirmed \/ SprayRestarts
  \/ Reaches \/ Leaves \/ Misses \/ Slips
  \/ Taps \/ TapsAgain

Spec == Init /\ [][Next]_vars

(* RPP and the rover go on, a tap arrives, and an operator who sees the     *)
(* wait taps.  Nothing of this forces the spray node to do anything.        *)
RppFairness ==
  /\ WF_vars(Arm) /\ WF_vars(HoldLost) /\ WF_vars(DwellTick)
  /\ WF_vars(Reaches) /\ WF_vars(Leaves)
  /\ WF_vars(Taps) /\ WF_vars(AdvanceCb)

(* The spray node ticks, and its valve closes in the end.                   *)
SprayFairness == WF_vars(SprayTick) /\ WF_vars(OffConfirmed)

-----------------------------------------------------------------------------
(* Properties.                                                              *)

Phases == {"transit", "arriving", "dwelling", "off_wait", "done"}

(* Every variable has its type. *)
TypeOK ==
  /\ manual \in BOOLEAN /\ wired \in BOOLEAN
  /\ next \in 0..NumPoints /\ near \in Points \cup {NoPoint}
  /\ hold \in [point : Points \cup {NoPoint}, dwelling : BOOLEAN,
               proof : {"none", "spray", "backstop"}, waiting : BOOLEAN, atArm : Int]
  /\ done \subseteq Points /\ phase \in {"approach", "dwell", "wait"}
  /\ doneIn \in [index : Points \cup {NoPoint}, seq : Int]
  /\ tapIn \in [index : Points \cup {NoPoint}, new : BOOLEAN]
  /\ meter \in [target : 0..NumPoints, phase : Phases]
  /\ (meter.phase = "done" <=> meter.target = NumPoints)
  /\ atPoint \in Points \cup {NoPoint} /\ progress \in Points \cup {NoPoint}
  /\ doneSeq \in Nat /\ valve \in {"off", "on", "closing"}
  /\ milestones \in Seq(Points) /\ dones \in Seq([index : Points, seq : Int])
  /\ tap \in Points \cup {NoPoint}
  /\ announced \subseteq Points /\ dwelt \subseteq Points /\ painted \subseteq Points
  /\ approved \subseteq Points
  /\ faults \in 0..MaxFaults

(* The meter dwells for a point only when RPP has announced a confirmed     *)
(* stop at that very point (the arrival gate of PointMeter.update).         *)
DwellIsAnnounced == meter.phase \in {"dwelling", "off_wait"} => meter.target \in announced

(* RPP takes for the spray node's proof only a dwell that was finished at   *)
(* the point it holds, whatever was late, lost or restarted.                *)
ReleaseIsProven == hold.proof = "spray" => hold.point \in dwelt \cup {NoPoint}

(* In manual mode the rover leaves no point for which the operator has not  *)
(* tapped while it waited there; taps repeated or delayed do not count.     *)
OperatorReleases == manual => done \subseteq approved

(* A point reported as dwelt has been painted: its dwell sprayed.           *)
DoneIsPainted == dwelt \subseteq painted

(* The handshake never wedges the mission: with the spray node dead, its    *)
(* messages lost or either node restarted, the rover gets to the end.       *)
MissionEnds == <>[](next = NumPoints)

(* One point that is never announced does not wedge the meter, as long as   *)
(* the spray node runs and its valve can close.                             *)
MeterFinishes == SprayFairness => <>[](meter.phase = "done")
=============================================================================
