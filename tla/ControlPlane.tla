----------------------------- MODULE ControlPlane -----------------------------
(***************************************************************************)
(* The control plane of the server: the joystick lease, the mission        *)
(* lifecycle, the emergency stop and the two background loops, as asyncio  *)
(* tasks that interleave at every await (server/joystick_controller.py,    *)
(* offboard_controller.py, emergency.py, mission_loading.py and the loops  *)
(* of main.py).                                                            *)
(*                                                                         *)
(* What runs between two awaits is one action.  A request of a client is a *)
(* task that runs once; the loops run for ever.  The lifecycle lock is     *)
(* first come, first served, as asyncio.Lock is: the head of the queue     *)
(* holds it, and taking a free lock does not yield.  The FCU is external:  *)
(* a service call that times out fails here and may still be carried out   *)
(* there later.                                                            *)
(***************************************************************************)
EXTENDS ControlArbiter, Naturals, Sequences

CONSTANTS
  Clients,      \* sockets that use the joystick
  Attempts,     \* tags of the acquires of one client
  Releases,     \* releases, explicit or on disconnect
  Loads,        \* loads through load_path_for_controller
  DirectLoads,  \* loads that call OffboardController.load_path themselves
  Starts, Stops, Aborts, Clears,   \* lifecycle requests
  Estops,       \* emergency stops of an operator
  Safety,       \* the safety watchdog loop
  Watchdog,     \* tag of the watchdog of an acquired lease
  Telemetry,    \* the telemetry loop
  None,
  MaxFaults,    \* bound: refusals, timeouts, unconfirmed changes, missing poses
  MaxInputs     \* bound: joystick commands and changes of health

Acquires  == Clients \X Attempts
Releasers == Releases \cup Acquires \X {Watchdog}
Emergency == Estops \cup {Safety}
Lifecycle == Starts \cup Stops \cup Aborts \cup Clears \cup Emergency
Tasks     == Acquires \cup Releasers \cup Loads \cup DirectLoads \cup Lifecycle \cup {Telemetry}

(* The kinds of task, and where each awaits: a request is a coroutine of its *)
(* own, so no task is of two kinds.                                         *)
Class ==
  [acquire |-> Acquires, release |-> Releasers, load |-> Loads, direct |-> DirectLoads,
   start |-> Starts, stop |-> Stops, abort |-> Aborts, clear |-> Clears,
   estop |-> Emergency, telemetry |-> {Telemetry}]

Idling == {"idle", "done"}
Places ==
  [acquire   |-> Idling \cup {"barrier", "to_manual", "confirm_manual", "to_arm",
                             "confirm_armed", "undo_arm", "flushing", "flushed"},
   release   |-> Idling \cup {"flushing", "flushed"},
   load      |-> Idling \cup {"loading"},
   direct    |-> Idling,
   start     |-> Idling \cup {"waiting", "arming", "grace", "switching", "undo_start"},
   stop      |-> Idling \cup {"waiting", "settling"},
   abort     |-> Idling \cup {"waiting", "abort_mode", "abort_disarm"},
   clear     |-> Idling \cup {"waiting"},
   estop     |-> Idling \cup {"waiting", "estop_mode", "estop_disarm"},
   telemetry |-> {"idle", "emitting", "disarming"}]
Place == UNION {Places[k] : k \in DOMAIN Places}

ASSUME PlaneAssumption ==
  /\ MaxFaults \in Nat /\ MaxInputs \in Nat
  /\ None \notin Clients \cup Acquires
  /\ \A j, k \in DOMAIN Class : j # k => Class[j] \cap Class[k] = {}

VARIABLES
  owner,        \* ControlArbiter._owner
  lease,        \* state, holder and winning acquire of the joystick lease
  watch,        \* TRUE while _watchdog_task runs
  age,          \* age of the last command: 0 fresh, 1 stop timeout, 2 lease timeout
  gateway,      \* what the gateway streams
  mission,      \* OffboardController.state
  loaded,       \* a path is resident
  stash,        \* the marking path is stashed for the end of the entry leg
  queue,        \* the lifecycle lock: its holder, then the tasks that wait
  path,         \* the latched /path
  rpp,          \* what RPP does with it
  settled,      \* RppStatusMonitor.is_done
  posed,        \* pose_received: the server has had a pose since it started
  unhealthy,    \* RPP, pose or FCU link unhealthy for longer than the grace
  armed, mode,  \* the FCU
  late,         \* requests that timed out here and are still on their way
  pc, call,     \* where each task is, and its service call
  armedByUs,    \* acquires that armed the rover
  twoPhase,     \* starts that drive an entry leg first
  prior,        \* prior_state of each load
  victim,       \* the claim a release was begun against
  faults, inputs

joystickVars == <<owner, lease, watch, age, gateway>>
missionVars  == <<mission, loaded, stash, prior>>
rppVars      == <<path, rpp, settled, posed>>
fcuVars      == <<armed, mode, late>>
localVars    == <<armedByUs, twoPhase, victim>>
vars == <<joystickVars, missionVars, queue, rppVars, unhealthy, fcuVars, pc, call,
          localVars, faults, inputs>>

NoLease == [state |-> "inactive", sid |-> None, claim |-> None]
Leased  == lease.state \in {"active", "held"}        \* is_active

Request == {"ARM", "DISARM", "MANUAL", "OFFBOARD"}
InFlight(t) == pc[t] \notin Idling

SpendFault == faults > 0 /\ faults' = faults - 1
SpendInput == inputs > 0 /\ inputs' = inputs - 1

Goto(t, l)       == pc' = [pc EXCEPT ![t] = l]
End(t)           == Goto(t, IF t = Safety THEN "idle" ELSE "done")
Await(t, l, req) == Goto(t, l) /\ call' = [call EXCEPT ![t] = req]
Replied(t, l)    == pc[t] = l /\ call[t] \in {"ok", "failed"}
Hangup(t)        == call' = [call EXCEPT ![t] = "none"]

-----------------------------------------------------------------------------
(* Joystick: claim, neutral barrier, MANUAL, arm, lease.                    *)

Claim(a) ==
  /\ pc[a] = "idle"
  /\ MayAcquire(owner, mission)
  /\ owner' = "joystick_acquiring"
  /\ lease' = [state |-> "acquiring", sid |-> a[1], claim |-> a]
  /\ \/ gateway' = "neutral" /\ Goto(a, "barrier") /\ UNCHANGED faults
     \/ SpendFault /\ Goto(a, "flushing") /\ UNCHANGED gateway   \* FCU or transport down
  /\ UNCHANGED <<watch, age, missionVars, queue, rppVars, unhealthy, fcuVars, call,
                 localVars, inputs>>

BarrierPassed(a) ==
  /\ pc[a] = "barrier"
  /\ Await(a, "to_manual", "MANUAL")
  /\ UNCHANGED <<joystickVars, missionVars, queue, rppVars, unhealthy, fcuVars, localVars,
                 faults, inputs>>

FailOpen(a) ==
  /\ IF a \in armedByUs THEN Await(a, "undo_arm", "DISARM")
                        ELSE Goto(a, "flushing") /\ Hangup(a)
  /\ UNCHANGED <<owner, lease, watch, age>>

(* The last check and the lease, in the step that confirmed MANUAL or armed. *)
StillWanted(a) == lease.state = "acquiring" /\ lease.sid = a[1]

Grant(a) ==
  \/ /\ StillWanted(a)
     /\ lease' = [lease EXCEPT !.state = "active"]
     /\ owner' = "joystick_active"
     /\ watch' = TRUE /\ age' = 0
     /\ Goto(a, "done") /\ Hangup(a)
  \/ ~StillWanted(a) /\ FailOpen(a)

ManualReplied(a) ==
  /\ Replied(a, "to_manual")
  /\ IF call[a] = "ok" THEN Goto(a, "confirm_manual") /\ Hangup(a) /\ UNCHANGED joystickVars
                       ELSE FailOpen(a) /\ UNCHANGED gateway
  /\ UNCHANGED <<missionVars, queue, rppVars, unhealthy, fcuVars, localVars, faults, inputs>>

ManualConfirmed(a) ==
  /\ pc[a] = "confirm_manual"
  /\ \/ mode = "MANUAL" /\ armed /\ Grant(a) /\ UNCHANGED faults
     \/ mode = "MANUAL" /\ ~armed /\ Await(a, "to_arm", "ARM") /\ UNCHANGED <<owner, lease, watch, age, faults>>
     \/ mode # "MANUAL" /\ FailOpen(a) /\ UNCHANGED faults
  /\ UNCHANGED <<gateway, missionVars, queue, rppVars, unhealthy, fcuVars, localVars, inputs>>

ArmReplied(a) ==
  /\ Replied(a, "to_arm")
  /\ IF call[a] = "ok"
     THEN /\ armedByUs' = armedByUs \cup {a}
          /\ Goto(a, "confirm_armed") /\ Hangup(a) /\ UNCHANGED joystickVars
     ELSE FailOpen(a) /\ UNCHANGED <<gateway, armedByUs>>
  /\ UNCHANGED <<missionVars, queue, rppVars, unhealthy, fcuVars, twoPhase, victim, faults, inputs>>

ArmConfirmed(a) ==
  /\ pc[a] = "confirm_armed"
  /\ IF armed THEN Grant(a) ELSE FailOpen(a)
  /\ UNCHANGED <<gateway, missionVars, queue, rppVars, unhealthy, fcuVars, localVars, faults, inputs>>

UndoArmReplied(a) ==
  /\ Replied(a, "undo_arm")
  /\ Goto(a, "flushing") /\ Hangup(a)
  /\ UNCHANGED <<joystickVars, missionVars, queue, rppVars, unhealthy, fcuVars, localVars,
                 faults, inputs>>

(* deactivate_neutral runs in a thread; its caller resumes later and clears *)
(* the lease, whoever holds it by then.                                     *)
Flush(t) ==
  /\ pc[t] = "flushing"
  /\ gateway' = "off"
  /\ Goto(t, "flushed")
  /\ UNCHANGED <<owner, lease, watch, age, missionVars, queue, rppVars, unhealthy, fcuVars,
                 call, localVars, faults, inputs>>

ClearLocal(t) ==
  /\ pc[t] = "flushed"
  /\ lease' = NoLease
  /\ owner' = Cleared(owner)
  /\ Goto(t, "done")
  /\ UNCHANGED <<watch, age, gateway, missionVars, queue, rppVars, unhealthy, fcuVars, call,
                 localVars, faults, inputs>>

-----------------------------------------------------------------------------
(* Joystick: commands, releases and the watchdog of the lease.              *)

(* Variant: any command of the holder passes, during its release too. *)
MayCommandUntilCleared(c) == lease.sid = c
MayCommand(c)             == lease.sid = c /\ Leased

HandleCommand(c, deadman) ==
  /\ SpendInput
  /\ MayCommand(c)
  /\ mode = "MANUAL"
  /\ lease'   = [lease EXCEPT !.state = IF deadman THEN "active" ELSE "held"]
  /\ owner'   = IF deadman THEN "joystick_active" ELSE MarkHeld(owner)
  /\ gateway' = IF deadman THEN "drive" ELSE "neutral"
  /\ age' = 0
  /\ UNCHANGED <<watch, missionVars, queue, rppVars, unhealthy, fcuVars, pc, call, localVars, faults>>

BeginRelease(r) ==
  /\ pc[r] = "idle"
  /\ lease'  = [lease EXCEPT !.state = "releasing"]
  /\ owner'  = MarkReleasing(owner)
  /\ watch'  = FALSE
  /\ victim' = [victim EXCEPT ![r] = lease.claim]
  /\ Goto(r, "flushing")
  /\ UNCHANGED <<age, gateway, missionVars, queue, rppVars, unhealthy, fcuVars, call,
                 armedByUs, twoPhase, faults>>

(* Explicit, or because the owner's socket disconnected.  The request need  *)
(* not name a session, and without one it passes when nobody holds the lease. *)
ReleaseRequested(r, c) ==
  /\ \/ lease.sid = c /\ UNCHANGED inputs
     \/ lease.sid = None /\ SpendInput
  /\ BeginRelease(r)

LeaseTimeout ==
  /\ watch /\ Leased /\ age = 2
  /\ BeginRelease(<<lease.claim, Watchdog>>)
  /\ UNCHANGED inputs

(* Variant: the loop ends with its first neutral. *)
WatchdogPassesOnce ==
  /\ watch
  /\ \/ Leased /\ age > 0 /\ gateway = "drive" /\ gateway' = "neutral"
     \/ ~Leased /\ UNCHANGED gateway
  /\ watch' = FALSE
  /\ UNCHANGED <<owner, lease, age, missionVars, queue, rppVars, unhealthy, fcuVars, pc,
                 call, localVars, faults, inputs>>

(* The other passes of the watchdog loop: neutral on a stale command, and   *)
(* the end of the loop once the lease is not active any more.               *)
WatchdogPass ==
  /\ watch
  /\ \/ Leased /\ age > 0 /\ gateway = "drive" /\ gateway' = "neutral" /\ UNCHANGED watch
     \/ ~Leased /\ watch' = FALSE /\ UNCHANGED gateway
  /\ UNCHANGED <<owner, lease, age, missionVars, queue, rppVars, unhealthy, fcuVars, pc,
                 call, localVars, faults, inputs>>

(* The client stays silent, or the frame it left in the gateway goes stale. *)
Silence ==
  /\ \/ (Leased \/ gateway = "drive") /\ age < 2 /\ age' = age + 1 /\ UNCHANGED gateway
     \/ gateway = "drive" /\ age > 0 /\ gateway' = "neutral" /\ UNCHANGED age
  /\ UNCHANGED <<owner, lease, watch, missionVars, queue, rppVars, unhealthy, fcuVars, pc,
                 call, localVars, faults, inputs>>

-----------------------------------------------------------------------------
(* The lifecycle lock.  Body(t, q) is what t does with the lock, q being    *)
(* the queue with t at its head; it runs at once when the lock is free.     *)

Enters(t)  == pc[t] = "idle" /\ queue = <<>>
Queues(t)  == pc[t] = "idle" /\ queue # <<>> /\ Goto(t, "waiting") /\ queue' = Append(queue, t)
Resumes(t) == pc[t] = "waiting" /\ Head(queue) = t

(* publish_stop_path: without a pose it publishes nothing. *)
EmptyPublished == posed /\ UNCHANGED rppVars      \* variant: RPP ignores an empty path
StopPublished  == posed /\ path' = "stop" /\ rpp' = "tracking" /\ UNCHANGED <<settled, posed>>
NoPose         == ~posed /\ UNCHANGED rppVars
StopPath       == StopPublished \/ NoPose

StartKeepsLock(s, q, own) ==                       \* variant: the lock is never released
  End(s) /\ queue' = q /\ owner' = Relinquish(own)

StartReturns(s, q, own) == End(s) /\ queue' = Tail(q) /\ owner' = Relinquish(own)

-----------------------------------------------------------------------------
(* Start: start_async around _start_locked.                                 *)

StartBody(s, q, own) ==
  \/ /\ mission \in MissionActive
     /\ StartReturns(s, q, own)
     /\ UNCHANGED <<mission, stash, rppVars, call, twoPhase, faults>>
  \/ /\ mission \notin MissionActive
     /\ \/ (~loaded \/ unhealthy) /\ UNCHANGED faults
        \/ SpendFault                                     \* placement, FCU link
     /\ mission' = "error"
     /\ StartReturns(s, q, own)
     /\ UNCHANGED <<stash, rppVars, call, twoPhase>>
  \/ /\ mission \notin MissionActive
     /\ loaded /\ ~unhealthy
     /\ \E entry \in BOOLEAN :
          /\ stash' = entry
          /\ path' = IF entry THEN "entry" ELSE "mark"
          /\ twoPhase' = IF entry THEN twoPhase \cup {s} ELSE twoPhase
     /\ rpp' = "tracking" /\ settled' = FALSE /\ UNCHANGED posed
     /\ mission' = "arming"
     /\ Await(s, "arming", "ARM")
     /\ queue' = q /\ owner' = own
     /\ UNCHANGED faults

Start(s) ==
  /\ MayClaimMission(owner)
  /\ \/ Enters(s) /\ StartBody(s, <<s>>, "mission")
     \/ /\ Queues(s) /\ owner' = "mission"
        /\ UNCHANGED <<mission, stash, rppVars, call, twoPhase, faults>>
  /\ UNCHANGED <<lease, watch, age, gateway, loaded, prior, unhealthy, fcuVars, armedByUs,
                 victim, inputs>>

StartResumes(s) ==
  /\ Resumes(s) /\ StartBody(s, queue, owner)
  /\ UNCHANGED <<lease, watch, age, gateway, loaded, prior, unhealthy, fcuVars, armedByUs,
                 victim, inputs>>

StartArmed(s) ==
  /\ Replied(s, "arming") /\ Hangup(s)
  /\ IF call[s] = "ok"
     THEN mission' = "switching_offboard" /\ Goto(s, "grace") /\ UNCHANGED <<queue, owner>>
     ELSE mission' = "error" /\ StartReturns(s, queue, owner)
  /\ UNCHANGED <<lease, watch, age, gateway, loaded, stash, prior, rppVars, unhealthy, fcuVars,
                 localVars, faults, inputs>>

(* The grace is over: RPP unhealthy or idle fails the start. *)
StartStreams(s) ==
  /\ pc[s] = "grace"
  /\ \/ /\ \/ unhealthy /\ UNCHANGED faults
           \/ SpendFault
        /\ mission' = "error" /\ Await(s, "undo_start", "DISARM")
     \/ ~unhealthy /\ Await(s, "switching", "OFFBOARD") /\ UNCHANGED <<mission, faults>>
  /\ UNCHANGED <<joystickVars, loaded, stash, prior, queue, rppVars, unhealthy, fcuVars,
                 localVars, inputs>>

StartSwitched(s) ==
  /\ Replied(s, "switching")
  /\ IF call[s] = "ok"
     THEN /\ mission' = IF s \in twoPhase THEN "entry" ELSE "running"
          /\ StartReturns(s, queue, owner) /\ Hangup(s)
     ELSE /\ mission' = "error" /\ Await(s, "undo_start", "DISARM")
          /\ UNCHANGED <<queue, owner>>
  /\ UNCHANGED <<lease, watch, age, gateway, loaded, stash, prior, rppVars, unhealthy, fcuVars,
                 localVars, faults, inputs>>

StartUndone(s) ==
  /\ Replied(s, "undo_start") /\ Hangup(s)
  /\ StartReturns(s, queue, owner)
  /\ UNCHANGED <<lease, watch, age, gateway, missionVars, rppVars, unhealthy, fcuVars,
                 localVars, faults, inputs>>

-----------------------------------------------------------------------------
(* Stop, abort and clear.                                                   *)

Returns(t, q) == End(t) /\ queue' = Tail(q)

StopBody(t, q) ==
  /\ UNCHANGED <<loaded, stash, call, faults>>
  /\ IF mission \in {"running", "entry", "arming", "switching_offboard"}
     THEN \/ StopPublished /\ mission' = "stopping" /\ Goto(t, "settling") /\ queue' = q
          \/ NoPose /\ mission' = "error" /\ Returns(t, q)
     ELSE Returns(t, q) /\ UNCHANGED <<mission, rppVars>>

StopSettles(t) ==
  /\ pc[t] = "settling"
  /\ mission' = "idle"
  /\ Returns(t, queue)
  /\ UNCHANGED <<joystickVars, loaded, stash, prior, rppVars, unhealthy, fcuVars, call,
                 localVars, faults, inputs>>

AbortBody(t, q) ==
  /\ UNCHANGED <<mission, loaded, stash, faults>>
  /\ IF mission \in {"idle", "completed", "aborted"}
     THEN Returns(t, q) /\ UNCHANGED <<rppVars, call>>
     ELSE StopPath /\ Await(t, "abort_mode", "MANUAL") /\ queue' = q

AbortSwitched(t) ==
  /\ Replied(t, "abort_mode")
  /\ mission' = "disarming"
  /\ Await(t, "abort_disarm", "DISARM")
  /\ UNCHANGED <<joystickVars, loaded, stash, prior, queue, rppVars, unhealthy, fcuVars,
                 localVars, faults, inputs>>

AbortDisarmed(t) ==
  /\ Replied(t, "abort_disarm") /\ Hangup(t)
  /\ mission' = "aborted"
  /\ Returns(t, queue)
  /\ UNCHANGED <<joystickVars, loaded, stash, prior, rppVars, unhealthy, fcuVars, localVars,
                 faults, inputs>>

ClearBody(t, q) ==
  /\ UNCHANGED <<rppVars, call, faults>>
  /\ Returns(t, q)
  /\ IF mission \in {"idle", "completed", "aborted", "error"}
     THEN mission' = "idle" /\ loaded' = FALSE /\ stash' = FALSE
     ELSE UNCHANGED <<mission, loaded, stash>>

Body(t, q) == \/ t \in Stops  /\ StopBody(t, q)
              \/ t \in Aborts /\ AbortBody(t, q)
              \/ t \in Clears /\ ClearBody(t, q)

LifecycleCall(t) ==
  /\ \/ Enters(t) /\ Body(t, <<t>>)
     \/ Queues(t) /\ UNCHANGED <<mission, loaded, stash, rppVars, call, faults>>
     \/ Resumes(t) /\ Body(t, queue)
  /\ UNCHANGED <<joystickVars, prior, unhealthy, fcuVars, localVars, inputs>>

-----------------------------------------------------------------------------
(* Emergency stop, of an operator or of the safety loop.                    *)

SupervisedRunning == {"running"}                   \* variant: the entry leg is forgotten
Supervised        == {"running", "entry"}

EstopBegins(e) ==
  /\ pc[e] = "idle"
  /\ e = Safety => mission \in Supervised /\ unhealthy
  /\ gateway' = IF gateway = "drive" THEN "neutral" ELSE gateway
  /\ watch' = FALSE
  /\ lease' = NoLease
  /\ owner' = Cleared(owner)
  /\ StopPath
  /\ Await(e, "estop_mode", "MANUAL")
  /\ UNCHANGED <<age, missionVars, queue, unhealthy, fcuVars, localVars, faults, inputs>>

EstopSwitched(e) ==
  /\ Replied(e, "estop_mode")
  /\ Await(e, "estop_disarm", "DISARM")
  /\ UNCHANGED <<joystickVars, missionVars, queue, rppVars, unhealthy, fcuVars, localVars,
                 faults, inputs>>

EstopRecords(e) == mission' = "aborted" /\ End(e)

EstopDisarmed(e) ==
  /\ Replied(e, "estop_disarm") /\ Hangup(e)
  /\ IF queue = <<>>
     THEN EstopRecords(e) /\ UNCHANGED queue
     ELSE Goto(e, "waiting") /\ queue' = Append(queue, e) /\ UNCHANGED mission
  /\ UNCHANGED <<joystickVars, loaded, stash, prior, rppVars, unhealthy, fcuVars, localVars,
                 faults, inputs>>

EstopResumes(e) ==
  /\ Resumes(e)
  /\ EstopRecords(e) /\ queue' = Tail(queue)
  /\ UNCHANGED <<joystickVars, loaded, stash, prior, rppVars, unhealthy, fcuVars, call,
                 localVars, faults, inputs>>

-----------------------------------------------------------------------------
(* Loading a path, and what the telemetry loop does with a settled DONE.    *)

LoadAllowedUnlessDriving == MissionState \ {"running", "entry"}     \* variant
LoadAllowed == {"idle", "completed", "aborted", "error"}

(* OffboardController.load_path *)
PathLoaded(state) ==
  /\ loaded' = TRUE /\ stash' = FALSE
  /\ mission' = IF state \in {"completed", "aborted", "error"} THEN "idle" ELSE state
  /\ settled' = FALSE
  /\ UNCHANGED <<path, rpp, posed>>

LoadBegins(l) ==
  /\ pc[l] = "idle"
  /\ \A k \in Loads : ~InFlight(k)
  /\ mission \in LoadAllowed
  /\ prior' = [prior EXCEPT ![l] = mission]
  /\ mission' = "loading"
  /\ Goto(l, "loading")
  /\ UNCHANGED <<joystickVars, loaded, stash, queue, rppVars, unhealthy, fcuVars, call,
                 localVars, faults, inputs>>

LoadEnds(l) ==
  /\ pc[l] = "loading"
  /\ \/ PathLoaded(prior[l]) /\ UNCHANGED faults
     \/ SpendFault /\ mission' = prior[l] /\ UNCHANGED <<loaded, stash, rppVars>>
  /\ Goto(l, "done")
  /\ UNCHANGED <<joystickVars, prior, queue, unhealthy, fcuVars, call, localVars, inputs>>

LoadDirectly(l) ==
  /\ pc[l] = "idle"
  /\ PathLoaded(mission)
  /\ Goto(l, "done")
  /\ UNCHANGED <<joystickVars, prior, queue, unhealthy, fcuVars, call, localVars, faults, inputs>>

(* advance_entry_to_marking; without a stash it goes on to mark_completed   *)
(* in the same pass of the loop.                                            *)
EntryDone ==
  /\ pc[Telemetry] = "idle" /\ mission = "entry" /\ settled
  /\ IF stash
     THEN /\ path' = "mark" /\ rpp' = "tracking" /\ settled' = FALSE /\ UNCHANGED posed
          /\ stash' = FALSE /\ mission' = "running"
          /\ UNCHANGED pc
     ELSE mission' = "completed" /\ Goto(Telemetry, "emitting") /\ UNCHANGED <<rppVars, stash>>
  /\ UNCHANGED <<joystickVars, loaded, prior, queue, unhealthy, fcuVars, call, localVars,
                 faults, inputs>>

MarkCompleted ==
  /\ pc[Telemetry] = "idle" /\ mission = "running" /\ settled
  /\ mission' = "completed"
  /\ Goto(Telemetry, "emitting")
  /\ UNCHANGED <<joystickVars, loaded, stash, prior, queue, rppVars, unhealthy, fcuVars, call,
                 localVars, faults, inputs>>

DisarmOnComplete ==
  /\ \/ pc[Telemetry] = "emitting" /\ Await(Telemetry, "disarming", "DISARM")
     \/ Replied(Telemetry, "disarming") /\ Goto(Telemetry, "idle") /\ Hangup(Telemetry)
  /\ UNCHANGED <<joystickVars, missionVars, queue, rppVars, unhealthy, fcuVars, localVars,
                 faults, inputs>>

-----------------------------------------------------------------------------
(* External: the FCU, RPP, the pose and the health of all three.            *)

Effect(req) ==
  /\ armed' = CASE req = "ARM" -> TRUE [] req = "DISARM" -> FALSE [] OTHER -> armed
  /\ mode'  = IF req \in {"MANUAL", "OFFBOARD"} THEN req ELSE mode

Answer(t, result) == call' = [call EXCEPT ![t] = result]

Serve(t) ==
  /\ call[t] \in Request
  /\ \/ Effect(call[t]) /\ Answer(t, "ok") /\ UNCHANGED <<late, faults>>
     \/ /\ SpendFault /\ UNCHANGED <<armed, mode>>
        /\ \/ Answer(t, "failed") /\ late' = late                      \* refused
           \/ Answer(t, "failed") /\ late' = late \cup {call[t]}       \* timed out
           \/ call[t] # "DISARM" /\ Answer(t, "ok") /\ late' = late    \* accepted, not done
  /\ UNCHANGED <<joystickVars, missionVars, queue, rppVars, unhealthy, pc, localVars, inputs>>

ServeLate ==
  /\ \E req \in late : Effect(req) /\ late' = late \ {req}
  /\ UNCHANGED <<joystickVars, missionVars, queue, rppVars, unhealthy, pc, call, localVars,
                 faults, inputs>>

(* RPP finishes the stop path where it stands, and a path it drives only    *)
(* when the FCU follows it; a DONE that lasts settles.                      *)
RppReports ==
  /\ \/ /\ path # "none" /\ rpp = "tracking"
        /\ path = "stop" \/ (armed /\ mode = "OFFBOARD")
        /\ rpp' = "done" /\ UNCHANGED settled
     \/ rpp = "done" /\ ~settled /\ settled' = TRUE /\ UNCHANGED rpp
  /\ UNCHANGED <<path, posed, joystickVars, missionVars, queue, unhealthy, fcuVars, pc, call,
                 localVars, faults, inputs>>

PoseArrives ==
  /\ posed' = TRUE
  /\ UNCHANGED <<path, rpp, settled, joystickVars, missionVars, queue, unhealthy, fcuVars, pc,
                 call, localVars, faults, inputs>>

HealthChanges ==
  /\ SpendInput
  /\ unhealthy' = ~unhealthy
  /\ UNCHANGED <<joystickVars, missionVars, queue, rppVars, fcuVars, pc, call, localVars, faults>>

-----------------------------------------------------------------------------
\* The server has started, and nobody has asked for anything yet.
Fresh ==
  /\ owner = "idle" /\ lease = NoLease /\ watch = FALSE /\ age = 0 /\ gateway = "off"
  /\ mission = "idle" /\ loaded \in BOOLEAN /\ stash = FALSE
  /\ prior = [l \in Loads |-> "idle"]
  /\ queue = <<>>
  /\ path = "none" /\ rpp = "idle" /\ settled = FALSE
  /\ unhealthy \in BOOLEAN /\ posed \in BOOLEAN
  /\ armed \in BOOLEAN /\ mode \in {"MANUAL", "HOLD"} /\ late = {}
  /\ call = [t \in Tasks |-> "none"]
  /\ armedByUs = {} /\ twoPhase = {} /\ victim = [r \in Releasers |-> None]
  /\ inputs = MaxInputs

Init == Fresh /\ pc = [t \in Tasks |-> "idle"] /\ faults = MaxFaults

AcquireStep(a) ==
  \/ Claim(a) \/ BarrierPassed(a) \/ ManualReplied(a) \/ ManualConfirmed(a)
  \/ ArmReplied(a) \/ ArmConfirmed(a) \/ UndoArmReplied(a)

ClearingStep(t) == Flush(t) \/ ClearLocal(t)

StartStep(s) ==
  \/ Start(s) \/ StartResumes(s) \/ StartArmed(s) \/ StartStreams(s)
  \/ StartSwitched(s) \/ StartUndone(s)

LifecycleStep(t) ==
  \/ LifecycleCall(t) \/ StopSettles(t) \/ AbortSwitched(t) \/ AbortDisarmed(t)

EstopStep(e) ==
  \/ EstopBegins(e) \/ EstopSwitched(e) \/ EstopDisarmed(e) \/ EstopResumes(e)

TelemetryStep == EntryDone \/ MarkCompleted \/ DisarmOnComplete

Next ==
  \/ \E a \in Acquires : AcquireStep(a)
  \/ \E t \in Acquires \cup Releasers : ClearingStep(t)
  \/ \E c \in Clients, deadman \in BOOLEAN : HandleCommand(c, deadman)
  \/ \E r \in Releases, c \in Clients : ReleaseRequested(r, c)
  \/ LeaseTimeout \/ WatchdogPass \/ Silence
  \/ \E s \in Starts : StartStep(s)
  \/ \E t \in Stops \cup Aborts \cup Clears : LifecycleStep(t)
  \/ \E e \in Emergency : EstopStep(e)
  \/ \E l \in Loads : LoadBegins(l) \/ LoadEnds(l)
  \/ \E l \in DirectLoads : LoadDirectly(l)
  \/ TelemetryStep
  \/ \E t \in Tasks : Serve(t)
  \/ ServeLate \/ RppReports \/ PoseArrives \/ HealthChanges

Spec == Init /\ [][Next]_vars

(* Every task the event loop has started is run again (the lock is first    *)
(* come, first served), a service call ends by its reply or its timeout,    *)
(* and the loops and the clock go on.                                       *)
Runs(t) ==
  /\ InFlight(t)
  /\ \/ t \in Acquires /\ AcquireStep(t)
     \/ t \in Acquires \cup Releasers /\ ClearingStep(t)
     \/ t \in Starts /\ StartStep(t)
     \/ t \in Stops \cup Aborts \cup Clears /\ LifecycleStep(t)
     \/ t \in Emergency /\ EstopStep(t)
     \/ t \in Loads /\ LoadEnds(t)

Fairness ==
  /\ \A t \in Tasks : WF_vars(Runs(t)) /\ WF_vars(Serve(t))
  /\ WF_vars(TelemetryStep)
  /\ WF_vars(LeaseTimeout) /\ WF_vars(WatchdogPass) /\ WF_vars(Silence)
  /\ WF_vars(EstopBegins(Safety))

-----------------------------------------------------------------------------
(* Properties.                                                              *)

PcType == \A k \in DOMAIN Class : \A t \in Class[k] : pc[t] \in Places[k]

Calling == {"to_manual", "to_arm", "undo_arm", "arming", "switching", "undo_start",
            "abort_mode", "abort_disarm", "estop_mode", "estop_disarm", "disarming"}

(* Every variable has its type, and a task has a service call outstanding   *)
(* exactly while it awaits one.                                             *)
TypeOK ==
  /\ owner \in ControlOwner /\ mission \in MissionState
  /\ lease \in [state : {"inactive", "acquiring", "active", "held", "releasing"},
                sid : Clients \cup {None}, claim : Acquires \cup {None}]
  /\ watch \in BOOLEAN /\ age \in 0..2 /\ gateway \in {"off", "neutral", "drive"}
  /\ loaded \in BOOLEAN /\ stash \in BOOLEAN /\ prior \in [Loads -> LoadAllowed]
  /\ queue \in Seq(Lifecycle)
  /\ path \in {"none", "stop", "entry", "mark"} /\ rpp \in {"idle", "tracking", "done"}
  /\ settled \in BOOLEAN /\ posed \in BOOLEAN /\ unhealthy \in BOOLEAN
  /\ armed \in BOOLEAN /\ mode \in {"MANUAL", "HOLD", "OFFBOARD"} /\ late \subseteq Request
  /\ pc \in [Tasks -> Place] /\ PcType
  /\ call \in [Tasks -> Request \cup {"none", "ok", "failed"}]
  /\ \A t \in Tasks : call[t] = "none" <=> pc[t] \notin Calling
  /\ armedByUs \subseteq Acquires /\ twoPhase \subseteq Starts
  /\ victim \in [Releasers -> Acquires \cup {None}]
  /\ faults \in 0..MaxFaults /\ inputs \in 0..MaxInputs

(* "MISSION and JOYSTICK ownership are never simultaneous": while the       *)
(* joystick owns control no mission arms or drives.                         *)
SingleOwner ==
  JoystickOwned(owner) => mission \notin {"arming", "switching_offboard", "entry", "running"}

(* The anti-stranding property of the arbiter: ownership always has someone *)
(* who will give it up, a start or a joystick request in flight or the      *)
(* watchdog of an active lease.                                             *)
NeverStranded ==
  /\ owner = "mission" => \E s \in Starts : InFlight(s)
  /\ JoystickOwned(owner) =>
       (Leased /\ watch) \/ \E t \in Acquires \cup Releasers : InFlight(t)

(* An active lease is watched, and the arbiter knows of it: commands never  *)
(* reach the gateway on a lease that nothing would revoke.                  *)
LeaseIsWatched == Leased => watch /\ JoystickOwned(owner)

(* Whoever holds control, somebody is there to take it away.                *)
OwnershipLives == NeverStranded /\ LeaseIsWatched

(* A transitional mission state is the work of the call that holds the      *)
(* lifecycle lock: none is left behind when the call has returned, and no   *)
(* two calls are ever inside the lock.                                      *)
Inside ==
  [arming |-> {"arming"}, switching_offboard |-> {"grace", "switching"},
   stopping |-> {"settling"}, disarming |-> {"abort_disarm"}]

TransitionHoldsLock ==
  /\ mission \in DOMAIN Inside => queue # <<>> /\ pc[Head(queue)] \in Inside[mission]
  /\ \A t \in Lifecycle :
       pc[t] \in {"arming", "grace", "switching", "undo_start", "settling", "abort_mode", "abort_disarm"}
         => queue # <<>> /\ Head(queue) = t

(* While the FCU follows a path that is not finished, the mission state     *)
(* says so, or the call that ends it is on its way to the FCU.              *)
DrivingIsTracked ==
  armed /\ mode = "OFFBOARD" /\ path \in {"entry", "mark"} /\ rpp = "tracking"
    => mission \in MissionActive \/ \E t \in Tasks : call[t] \in {"DISARM", "MANUAL"}

(* A release and a failed acquire clear the lease they were about, not one  *)
(* that somebody won after them: only the winner of a claim, or a release   *)
(* of it, ends it.                                                          *)
ClearsOnlyItsOwn ==
  /\ \A r \in Releasers : pc[r] = "flushed" => lease.claim \in {victim[r], None}
  /\ \A a \in Acquires : pc[a] = "flushed" => lease.claim \in {a, None}

(* Every lifecycle call that was accepted returns. *)
LifecycleCallsReturn == \A t \in Lifecycle : InFlight(t) ~> ~InFlight(t)

(* A lease whose client falls silent is revoked. *)
SilentLeaseRevoked == Leased ~> ~Leased

(* The safety loop stops a mission whose controller or FCU stays unhealthy. *)
UnhealthyMissionStopped ==
  (mission \in {"running", "entry"} /\ unhealthy)
    ~> (mission \notin {"running", "entry"} \/ ~unhealthy)

=============================================================================
