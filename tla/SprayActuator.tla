---------------------------- MODULE SprayActuator -----------------------------
(***************************************************************************)
(* The spray node around its actuator state machine: src/src/spray_        *)
(* controller_node.py, from the inputs that reach SpraySafetyFsm to the    *)
(* command service (MAVROS, external) and the valve it drives.             *)
(*                                                                         *)
(* The node runs on a single-threaded executor, so every callback is one   *)
(* action.  Commands and acknowledgements are not: a request waits in the  *)
(* service, is executed, refused or lost, and its reply comes back (or     *)
(* does not) while other callbacks run.  The process can be terminated,    *)
(* killed and restarted while requests of its previous life are still in   *)
(* flight.                                                                 *)
(*                                                                         *)
(* The default distance-aware mode is modelled; what decides that the      *)
(* nozzle is over a MARK (mark) and that the automatic gates other than    *)
(* armed and OFFBOARD hold (gates) is input here.                          *)
(***************************************************************************)
EXTENDS SpraySafetyFsm, Sequences

CONSTANTS
  DebounceSamples,   \* max(1, debounce_samples)
  ManualTimeout,     \* manual_override_timeout_s, in time units
  MaxLink,           \* bound: requests in flight when a reassert is sent
  MaxSuppressed,     \* bound: commands issued while the service is not ready
  MaxFaults,         \* bound: failures, losses, late replies and kills
  MaxInputs          \* bound: changes of the node's inputs

ASSUME ActuatorAssumption ==
  /\ DebounceSamples \in Nat \ {0}
  /\ ManualTimeout \in Nat \ {0}
  /\ MaxLink \in Nat /\ MaxSuppressed \in Nat
  /\ MaxFaults \in Nat /\ MaxInputs \in Nat

VARIABLES
  fsm,            \* the SpraySafetyStateMachine object
  proc,           \* life cycle of the node's process
  armed, offboard,\* the last /mavros/state
  spray_enabled,  \* the parameter, read at every use
  gates, mark,    \* automatic gates; nozzle over a MARK
  decision,       \* _last_decision.safety_ok, "none" before the first tick
  auto,           \* the debounced automatic desire
  manual,         \* _manual_active and the time left to its deadline
  service_ready,  \* _service_ready
  link,           \* requests accepted by the command service, oldest first
  replies,        \* replies on their way back
  valve,          \* TRUE while paint flows
  faults, inputs  \* what is left of the two budgets

nodeVars == <<decision, auto, manual>>
fcuVars  == <<armed, offboard>>
worldVars == <<spray_enabled, gates, mark>>
linkVars == <<replies, valve>>
vars == <<fsm, proc, armed, offboard, spray_enabled, gates, mark, decision, auto,
          manual, service_ready, link, replies, valve, faults, inputs>>

Life == {"running", "raised", "stopping", "stopped", "dead"}

(* seq = 0 marks a request nobody waits for: an ON reassertion, whose reply *)
(* is only logged, or a request of a process that no longer exists.         *)
Request == [seq : Nat, on : BOOLEAN]
Reply   == [seq : Nat \ {0}, success : BOOLEAN]

NoManual  == [active |-> FALSE, left |-> 0]
AutoInit  == [candidate |-> "none", count |-> 0, desired |-> FALSE]
AsDesire(b) == IF b THEN "on" ELSE "off"

-----------------------------------------------------------------------------
(* Calls on the state machine within one callback.  A call in progress is a *)
(* record of the fields, the link and whether an exception is propagating.  *)

Here  == [fsm |-> fsm, link |-> link, raised |-> FALSE]
Reset == [fsm |-> NoteEventReset(fsm), link |-> link, raised |-> FALSE]

(* With no service a command counts as failed on the spot; the follow-up of *)
(* a suppressed ON is an OFF, whose own failure ends the loop.              *)
FailNow[o \in Outcome] ==
  IF o.raised \/ o.cmd = "none" THEN o ELSE OnAck(o.fsm, o.fsm.cmd_seq, FALSE)

DispatchCommand(c, outcome, ready) ==
  LET Sent[o \in Outcome] ==
        [fsm    |-> o.fsm,
         link   |-> IF o.cmd = "none" THEN c.link
                    ELSE Append(c.link, [seq |-> o.fsm.cmd_seq, on |-> o.cmd = "ON"]),
         raised |-> o.raised]
  IN  Sent[IF ready THEN outcome ELSE FailNow[FailNow[outcome]]]

FsmSafetyOk(a, m, d) == a /\ (m.active \/ d = "safe")

EffectiveDesired(m, u) == m.active \/ u.desired

DriveFsmTick(c, a, m, d, u, e, ready) ==
  IF c.raised THEN c
  ELSE DispatchCommand(c, Tick(c.fsm, EffectiveDesired(m, u), FsmSafetyOk(a, m, d), e), ready)

(* _safety_allows_on: the gate of a manual ON and of the ON reassertion.    *)
SafetyAllowsOn(a, o, m, e) == e /\ a /\ (m.active \/ o)

(* The end of a callback.  While the node flushes its shutdown OFF, the     *)
(* loop ends as soon as OFF is confirmed and drives the machine again       *)
(* otherwise; an exception ends it.                                         *)
Redriven(c) == DriveFsmTick(c, armed', manual', decision', auto', spray_enabled', service_ready')

EndCallback(result) ==
  \E c \in {result} :
    \E d \in {IF proc = "stopping" /\ ~c.raised /\ ~OffConfirmed(c.fsm)
              THEN Redriven(c) ELSE c} :
      /\ ~service_ready' => d.fsm.cmd_seq <= MaxSuppressed
      /\ fsm'  = d.fsm
      /\ link' = d.link
      /\ proc' = CASE proc = "running"  -> IF d.raised THEN "raised" ELSE "running"
                   [] OTHER -> IF d.raised \/ OffConfirmed(d.fsm) THEN "stopped" ELSE "stopping"

Spinning == proc \in {"running", "stopping"}

SpendInput == inputs > 0 /\ inputs' = inputs - 1
SpendFault == faults > 0 /\ faults' = faults - 1

-----------------------------------------------------------------------------
(* Callbacks.                                                               *)

(* _state_cb: losing the ON gate cancels the manual override before the     *)
(* machine is driven.                                                       *)
StateCb(a, o) ==
  /\ Spinning /\ SpendInput
  /\ <<a, o>> # <<armed, offboard>>
  /\ armed' = a /\ offboard' = o
  /\ manual' = IF /\ SafetyAllowsOn(armed, offboard, manual, spray_enabled)
                  /\ ~SafetyAllowsOn(a, o, manual, spray_enabled)
               THEN NoManual ELSE manual
  /\ UNCHANGED <<worldVars, decision, auto, service_ready, linkVars, faults>>
  /\ EndCallback(DriveFsmTick(Here, a, manual', decision, auto, spray_enabled, service_ready))

(* _manual_cb *)
ManualCb(on) ==
  /\ Spinning /\ SpendInput
  /\ manual' = IF on /\ spray_enabled /\ armed
               THEN [active |-> TRUE, left |-> ManualTimeout] ELSE NoManual
  /\ UNCHANGED <<fcuVars, worldVars, decision, auto, service_ready, linkVars, faults>>
  /\ EndCallback(DriveFsmTick(Here, armed, manual', decision, auto, spray_enabled, service_ready))

(* _set_auto_desired and _apply_debounce *)
Debounced(u, raw) ==
  LET cand  == AsDesire(raw)
      count == IF u.candidate = cand
               THEN IF u.count < DebounceSamples THEN u.count + 1 ELSE u.count
               ELSE 1
  IN  [candidate |-> cand, count |-> count,
       desired   |-> IF count >= DebounceSamples THEN raw ELSE u.desired]

Expired(m) == m.active /\ m.left = 0

(* _watchdog_tick in distance-aware mode: expire the manual override, then  *)
(* re-evaluate the automatic gates, the desire and the machine.             *)
WatchdogTick ==
  LET expired == Expired(manual)
      safe    == armed /\ offboard /\ gates
  IN  /\ Spinning
      /\ manual' = IF expired THEN NoManual ELSE manual
      /\ decision' = IF safe THEN "safe" ELSE "unsafe"
      /\ auto' = Debounced(auto, mark /\ safe)
      /\ UNCHANGED <<fcuVars, worldVars, service_ready, linkVars, faults, inputs>>
      /\ \E first \in {IF expired
                       THEN DriveFsmTick(Here, armed, NoManual, decision, auto,
                                         spray_enabled, service_ready)
                       ELSE Here} :
           EndCallback(DriveFsmTick(first, armed, manual', decision', auto',
                                    spray_enabled, service_ready))

(* Mutant: whether the machine still wants ON is not asked.                 *)
ReassertRegardless(c) ==
  /\ service_ready
  /\ EffectiveDesired(manual, auto)
  /\ SafetyAllowsOn(armed, offboard, manual, spray_enabled)

ReassertDue(c) ==
  /\ ~c.raised /\ service_ready
  /\ EffectiveDesired(manual, auto)
  /\ Commanded(c.fsm)
  /\ SafetyAllowsOn(armed, offboard, manual, spray_enabled)

(* _reassert_tick: drive, then re-send the current ON outside the machine.  *)
ReassertTick ==
  /\ Spinning
  /\ Len(link) < MaxLink
  /\ UNCHANGED <<fcuVars, worldVars, nodeVars, service_ready, linkVars, faults, inputs>>
  /\ \E c \in {DriveFsmTick(Here, armed, manual, decision, auto, spray_enabled, service_ready)} :
       EndCallback(IF ReassertDue(c)
                   THEN [c EXCEPT !.link = Append(@, [seq |-> 0, on |-> TRUE])]
                   ELSE c)

(* _command_done: a reply reaches the node; a superseded one is ignored.    *)
CommandDone(r) ==
  /\ Spinning
  /\ r \in replies
  /\ replies' = replies \ {r}
  /\ UNCHANGED <<fcuVars, worldVars, nodeVars, service_ready, valve, faults, inputs>>
  /\ EndCallback(DispatchCommand(Here, OnAck(fsm, r.seq, r.success), service_ready))

(* _service_probe_tick: the service came up after the node.                 *)
ServiceProbeTick ==
  /\ Spinning
  /\ ~service_ready
  /\ service_ready' = TRUE
  /\ UNCHANGED <<fcuVars, worldVars, nodeVars, linkVars, faults, inputs>>
  /\ EndCallback(DriveFsmTick(Here, armed, manual, decision, auto, spray_enabled, service_ready'))

(* _path_cb and _session_config_cb: a new mission resets the retry backoff; *)
(* an empty path also withdraws the automatic desire.                       *)
MissionLoaded(empty) ==
  LET u == IF empty THEN Debounced(auto, FALSE) ELSE auto
  IN  /\ Spinning /\ SpendInput
      /\ auto' = u
      /\ UNCHANGED <<fcuVars, worldVars, decision, manual, service_ready, linkVars, faults>>
      /\ EndCallback(IF empty
                     THEN DriveFsmTick(Reset, armed, manual, decision, u, spray_enabled, service_ready)
                     ELSE Reset)

-----------------------------------------------------------------------------
(* Life cycle of the process.                                               *)

(* shutdown_off up to its flush loop: SIGINT, SIGTERM or an exception that  *)
(* ended the executor.                                                      *)
Shutdown ==
  LET c == DriveFsmTick(Reset, armed, NoManual, decision, AutoInit, spray_enabled, service_ready)
  IN  /\ proc \in {"running", "raised"}
      /\ proc = "running" => SpendFault
      /\ proc = "raised" => UNCHANGED faults
      /\ manual' = NoManual
      /\ auto' = AutoInit
      /\ fsm' = c.fsm
      /\ link' = c.link
      /\ proc' = IF c.raised \/ OffConfirmed(c.fsm) THEN "stopped" ELSE "stopping"
      /\ UNCHANGED <<fcuVars, worldVars, decision, service_ready, linkVars, inputs>>

(* The flush window is over, or a callback run by the flush raised.         *)
FlushExpires ==
  /\ proc = "stopping"
  /\ proc' = "stopped"
  /\ UNCHANGED <<fsm, fcuVars, worldVars, nodeVars, service_ready, link, linkVars, faults, inputs>>

Kill ==
  /\ Spinning /\ SpendFault
  /\ proc' = "dead"
  /\ UNCHANGED <<fsm, fcuVars, worldVars, nodeVars, service_ready, link, linkVars, inputs>>

Orphaned(l) == [i \in DOMAIN l |-> [l[i] EXCEPT !.seq = 0]]

Fresh(l) == [fsm |-> FsmInit, link |-> l, raised |-> FALSE]

(* __init__: every field at its default, no FCU state seen yet, and the     *)
(* first drive of the machine.  Replies to the previous process are lost.   *)
Restart ==
  \E ready \in BOOLEAN :
    LET c == DriveFsmTick(Fresh(Orphaned(link)), FALSE, NoManual, "none", AutoInit,
                          spray_enabled, ready)
    IN  /\ proc \in {"dead", "stopped"}
        /\ proc' = IF c.raised THEN "raised" ELSE "running"
        /\ fsm' = c.fsm
        /\ link' = c.link
        /\ replies' = {}
        /\ armed' = FALSE /\ offboard' = FALSE
        /\ decision' = "none" /\ auto' = AutoInit /\ manual' = NoManual
        /\ service_ready' = ready
        /\ UNCHANGED <<worldVars, valve, faults, inputs>>

-----------------------------------------------------------------------------
(* The command service and the valve (external): requests are executed in   *)
(* the order they were sent.                                                *)

Served(executed, reply) ==
  /\ link # <<>>
  /\ link' = Tail(link)
  /\ valve' = IF executed THEN Head(link).on ELSE valve
  /\ replies' = IF reply = {} \/ Head(link).seq = 0 THEN replies
                ELSE replies \cup {[seq |-> Head(link).seq, success |-> b] : b \in reply}
  /\ UNCHANGED <<fsm, proc, fcuVars, worldVars, nodeVars, service_ready, inputs>>

Execute == Served(TRUE, {TRUE}) /\ UNCHANGED faults

(* A failure reply, with or without effect; a lost reply; a lost request.   *)
Misserve ==
  /\ SpendFault
  /\ \E executed \in BOOLEAN : Served(executed, {FALSE}) \/ Served(executed, {})

-----------------------------------------------------------------------------
(* Inputs of the outside world, and time.                                   *)

WorldChanges ==
  /\ SpendInput
  /\ \/ spray_enabled' = ~spray_enabled /\ UNCHANGED <<gates, mark>>
     \/ gates' = ~gates /\ UNCHANGED <<spray_enabled, mark>>
     \/ mark' = ~mark /\ UNCHANGED <<spray_enabled, gates>>
  /\ UNCHANGED <<fsm, proc, fcuVars, nodeVars, service_ready, link, linkVars, faults>>

Awaited ==
  \/ \E i \in DOMAIN link : link[i].seq = fsm.cmd_seq
  \/ \E r \in replies : r.seq = fsm.cmd_seq

(* A reply that is still on its way when the ack timeout expires is late:   *)
(* that spends a fault.                                                     *)
TimePasses ==
  /\ Spinning
  /\ fsm' = Elapse(fsm)
  /\ manual' = [manual EXCEPT !.left = IF @ > 0 THEN @ - 1 ELSE @]
  /\ <<fsm, manual>>' # <<fsm, manual>>
  /\ IF fsm.ackLeft = 1 /\ Awaited THEN SpendFault ELSE UNCHANGED faults
  /\ UNCHANGED <<proc, fcuVars, worldVars, decision, auto, service_ready, link, linkVars, inputs>>

-----------------------------------------------------------------------------
Init ==
  /\ spray_enabled \in BOOLEAN /\ gates \in BOOLEAN /\ mark \in BOOLEAN
  /\ \E ready \in BOOLEAN :
       LET c == DriveFsmTick(Fresh(<<>>), FALSE, NoManual, "none", AutoInit, spray_enabled, ready)
       IN  /\ fsm = c.fsm /\ link = c.link
           /\ service_ready = ready
  /\ proc = "running"
  /\ armed = FALSE /\ offboard = FALSE
  /\ decision = "none" /\ auto = AutoInit /\ manual = NoManual
  /\ replies = {}
  /\ valve \in BOOLEAN
  /\ faults = MaxFaults /\ inputs = MaxInputs

Callback ==
  \/ \E a, o \in BOOLEAN : StateCb(a, o)
  \/ \E on \in BOOLEAN : ManualCb(on)
  \/ WatchdogTick
  \/ ReassertTick
  \/ \E r \in replies : CommandDone(r)
  \/ ServiceProbeTick
  \/ \E empty \in BOOLEAN : MissionLoaded(empty)

Next ==
  \/ Callback
  \/ Shutdown \/ FlushExpires \/ Kill \/ Restart
  \/ Execute \/ Misserve
  \/ WorldChanges
  \/ TimePasses

Spec == Init /\ [][Next]_vars

(* The executor keeps spinning, the clock runs, the service keeps serving,  *)
(* replies are delivered, the supervisor respawns a node that died.         *)
Fairness ==
  /\ WF_vars(WatchdogTick)
  /\ WF_vars(\E r \in replies : CommandDone(r))
  /\ WF_vars(ServiceProbeTick)
  /\ WF_vars(Execute)
  /\ WF_vars(TimePasses)
  /\ WF_vars(FlushExpires)
  /\ WF_vars(proc = "raised" /\ Shutdown)
  /\ WF_vars(proc = "dead" /\ Restart)

FairSpec == Spec /\ Fairness

-----------------------------------------------------------------------------
(* Properties.                                                              *)

(* The types of the variables; a pending command always has a running       *)
(* timeout, so that no lost reply can wedge the machine.                    *)
TypeOK ==
  /\ fsm \in Fsm
  /\ fsm.state \in Pending <=> fsm.ackLeft # NotPending
  /\ proc \in Life
  /\ armed \in BOOLEAN /\ offboard \in BOOLEAN
  /\ spray_enabled \in BOOLEAN /\ gates \in BOOLEAN /\ mark \in BOOLEAN
  /\ decision \in {"none", "safe", "unsafe"}
  /\ auto \in [candidate : {"none", "on", "off"}, count : 0 .. DebounceSamples, desired : BOOLEAN]
  /\ manual \in [active : BOOLEAN, left : 0 .. ManualTimeout]
  /\ service_ready \in BOOLEAN
  /\ link \in Seq(Request)
  /\ replies \subseteq Reply
  /\ valve \in BOOLEAN
  /\ faults \in Nat /\ inputs \in Nat

(* The valve is at the given position and nothing in flight will move it.   *)
Settled(position) == valve = position /\ \A i \in DOMAIN link : link[i].on = position

(* When the machine reports OFF confirmed (OFF_CONFIRMED or DISABLED), the  *)
(* valve is closed and no ON is left in flight to open it, whatever was     *)
(* refused, lost, late or sent by a previous process.                       *)
OffConfirmedMeansClosed == OffConfirmed(fsm) => Settled(FALSE)

(* /spray/state is truthful: the machine reports spraying only while the    *)
(* valve is open and nothing in flight will close it.                       *)
SprayingMeansOpen == Spraying(fsm) => Settled(TRUE)

(* What makes a reply trustworthy: the command with the current number is   *)
(* the last one that counts, so once it is executed the valve is settled;   *)
(* no request or reply carries a number the machine has not yet issued.     *)
CurrentDecides ==
  /\ \A i \in DOMAIN link : link[i].seq <= fsm.cmd_seq
  /\ \A r \in replies : r.seq <= fsm.cmd_seq
  /\ fsm.state \in Pending =>
       /\ fsm.cmd_seq > 0
       /\ \A i \in DOMAIN link : link[i].seq = fsm.cmd_seq =>
            \A j \in i .. Len(link) : link[j].on = Commanded(fsm)
       /\ \A r \in replies : r.success /\ r.seq = fsm.cmd_seq => Settled(Commanded(fsm))

(* The node implements its indication: see SprayIndication.                 *)
Indication ==
  CASE OffConfirmed(fsm) -> "off"
    [] Spraying(fsm)     -> "on"
    [] OTHER             -> "unknown"

Promise == INSTANCE SprayIndication WITH indication <- Indication

IndicationSpec == Promise!Spec

(* A fresh ON is only ever sent to a closed valve behind an empty line of   *)
(* ONs: the previous mark has been closed and confirmed first.              *)
OnStartsFromClosed ==
  [][(fsm'.state = "ON_PENDING" /\ fsm.state # "ON_PENDING") => Settled(FALSE)]_vars

(* While enabled, a failed OFF is retried no earlier than its backoff,      *)
(* unless the backoff was reset (a safety loss, a new mission, shutdown).   *)
RetryHonoursBackoff ==
  [][(/\ fsm.state = "RECOVERY" /\ fsm.attempt >= 2 /\ fsm.retryLeft > 0
      /\ fsm.prevEnabled /\ fsm'.prevEnabled
      /\ fsm'.cmd_seq # fsm.cmd_seq)
       => fsm'.attempt <= 1]_vars

(* When the machine may command again.                                      *)
CommandDiscipline == OnStartsFromClosed /\ RetryHonoursBackoff

(* Once the rover is disarmed paint stops, through any finite number of     *)
(* faults and restarts (a node stopped for good excepted).                  *)
DisarmedEventuallyClosed == ~armed ~> (~valve \/ armed \/ proc = "stopped")

(* A disabled system settles in DISABLED, with OFF confirmed.               *)
DisabledEventuallySettles ==
  ~spray_enabled ~> (fsm.state = "DISABLED" \/ spray_enabled \/ proc = "stopped")

(* A rover that stays armed, in OFFBOARD, enabled, with every gate holding  *)
(* and its nozzle over a MARK ends up painting and stays so.                *)
MarkEventuallyPainted ==
  <>[](proc = "running" /\ armed /\ offboard /\ spray_enabled /\ gates /\ mark)
    => <>[](Spraying(fsm) /\ valve)

(* The manual override never latches.                                       *)
ManualExpires == manual.active ~> (~manual.active \/ proc = "stopped")

(* Neither a disabled machine nor a manual override is left half way.       *)
OverridesEnd == DisabledEventuallySettles /\ ManualExpires

(* The backoff formula has a value at every attempt.                        *)
BackoffAlwaysDefined == proc # "raised"
=============================================================================
