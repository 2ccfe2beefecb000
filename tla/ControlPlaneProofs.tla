-------------------------- MODULE ControlPlaneProofs --------------------------
(***************************************************************************)
(* What the control plane guarantees for every set of requests, however    *)
(* many faults the FCU has and however often the clients speak: its types, *)
(* the first-come-first-served lock, the state that names the call inside  *)
(* it, and that whoever owns control will lose it again.  Then what has to *)
(* happen before two own it, and when the mission state cannot lose track  *)
(* of a rover that drives.                                                 *)
(***************************************************************************)
EXTENDS ControlPlane, SequenceTheorems, TLAPS

(* A lease that is being acquired or used names the acquire it came from.   *)
ClaimNamed == lease.state \in {"acquiring", "active", "held"} => lease.claim \in Acquires

Holding == {"arming", "grace", "switching", "undo_start", "settling", "abort_mode", "abort_disarm"}
Lined   == Holding \cup {"waiting"}

(* The lock and those who wait for it: everyone inside or waiting stands in *)
(* the line once, and only its head may be inside.                          *)
LockLine ==
  /\ \A i, j \in 1..Len(queue) : queue[i] = queue[j] => i = j
  /\ \A t \in Lifecycle : pc[t] \in Lined => \E i \in 1..Len(queue) : queue[i] = t
  /\ \A i \in 1..Len(queue) : pc[queue[i]] \in IF i = 1 THEN Lined ELSE {"waiting"}

(* The mission state says which call is inside the lock, when one of the    *)
(* transitional states is up.                                               *)
HeadNamed == mission \in DOMAIN Inside => queue # <<>> /\ pc[Head(queue)] \in Inside[mission]

TasksOK ==
  /\ pc \in [Tasks -> Place] /\ PcType
  /\ call \in [Tasks -> Request \cup {"none", "ok", "failed"}]
  /\ \A t \in Tasks : call[t] = "none" <=> pc[t] \notin Calling

StateOK ==
  /\ owner \in ControlOwner /\ mission \in MissionState
  /\ lease \in [state : {"inactive", "acquiring", "active", "held", "releasing"},
                sid : Clients \cup {None}, claim : Acquires \cup {None}]
  /\ watch \in BOOLEAN /\ age \in 0..2 /\ gateway \in {"off", "neutral", "drive"}
  /\ loaded \in BOOLEAN /\ stash \in BOOLEAN /\ prior \in [Loads -> LoadAllowed]
  /\ queue \in Seq(Lifecycle)
  /\ path \in {"none", "stop", "entry", "mark"} /\ rpp \in {"idle", "tracking", "done"}
  /\ settled \in BOOLEAN /\ posed \in BOOLEAN /\ unhealthy \in BOOLEAN
  /\ armed \in BOOLEAN /\ mode \in {"MANUAL", "HOLD", "OFFBOARD"} /\ late \subseteq Request
  /\ armedByUs \subseteq Acquires /\ twoPhase \subseteq Starts
  /\ victim \in [Releasers -> Acquires \cup {None}]
  /\ faults \in 0..MaxFaults /\ inputs \in 0..MaxInputs

Lease == ClaimNamed /\ OwnershipLives
Line  == LockLine /\ HeadNamed
IInv  == StateOK /\ TasksOK /\ Lease /\ Line

-----------------------------------------------------------------------------
(* Tasks and where they may be.                                             *)

Fits(t, l) == l \in Place /\ \A k \in DOMAIN Class : t \in Class[k] => l \in Places[k]

LEMMA KindsApart == \A j, k \in DOMAIN Class : j # k => Class[j] \cap Class[k] = {}
  BY PlaneAssumption

LEMMA PlacesPlace == \A k \in DOMAIN Places : Places[k] \subseteq Place
  BY DEF Place

LEMMA AcquireFits == \A t \in Acquires, l \in Places.acquire : Fits(t, l)
  BY KindsApart, PlacesPlace DEF Fits, Class, Places

LEMMA ReleaseFits == \A t \in Releasers, l \in Places.release : Fits(t, l)
  BY KindsApart, PlacesPlace DEF Fits, Class, Places

LEMMA LoadFits == \A t \in Loads, l \in Places.load : Fits(t, l)
  BY KindsApart, PlacesPlace DEF Fits, Class, Places

LEMMA DirectFits == \A t \in DirectLoads, l \in Places.direct : Fits(t, l)
  BY KindsApart, PlacesPlace DEF Fits, Class, Places

LEMMA StartFits == \A t \in Starts, l \in Places.start : Fits(t, l)
  BY KindsApart, PlacesPlace DEF Fits, Class, Places

LEMMA StopFits == \A t \in Stops, l \in Places.stop : Fits(t, l)
  BY KindsApart, PlacesPlace DEF Fits, Class, Places

LEMMA AbortFits == \A t \in Aborts, l \in Places.abort : Fits(t, l)
  BY KindsApart, PlacesPlace DEF Fits, Class, Places

LEMMA ClearFits == \A t \in Clears, l \in Places.clear : Fits(t, l)
  BY KindsApart, PlacesPlace DEF Fits, Class, Places

LEMMA EstopFits == \A t \in Emergency, l \in Places.estop : Fits(t, l)
  BY KindsApart, PlacesPlace DEF Fits, Class, Places

LEMMA TelemetryFits == \A l \in Places.telemetry : Fits(Telemetry, l)
  BY KindsApart, PlacesPlace DEF Fits, Class, Places

(* A task that goes on without a service call outstanding. *)
LEMMA Moves ==
  ASSUME NEW t \in Tasks, NEW l, TasksOK, Fits(t, l), Goto(t, l),
         l \notin Calling,
         (UNCHANGED call /\ pc[t] \notin Calling) \/ Hangup(t)
  PROVE  TasksOK'
  <1>1. pc' \in [Tasks -> Place] /\ pc' = [pc EXCEPT ![t] = l]
    BY DEF TasksOK, Goto, Fits
  <1>2. PcType'
    BY <1>1 DEF TasksOK, PcType, Fits, Goto
  <1>3. /\ call' \in [Tasks -> Request \cup {"none", "ok", "failed"}]
        /\ \A u \in Tasks : call'[u] = "none" <=> pc'[u] \notin Calling
    BY <1>1 DEF TasksOK, Hangup
  <1>4. QED
    BY <1>1, <1>2, <1>3 DEF TasksOK

(* A task that begins a service call. *)
LEMMA Calls ==
  ASSUME NEW t \in Tasks, NEW l \in Calling, NEW req \in Request, TasksOK, Fits(t, l),
         Await(t, l, req)
  PROVE  TasksOK'
  <1>1. pc' \in [Tasks -> Place] /\ pc' = [pc EXCEPT ![t] = l]
    BY DEF TasksOK, Await, Goto, Fits
  <1>2. PcType'
    BY <1>1 DEF TasksOK, PcType, Fits
  <1>3. /\ call' \in [Tasks -> Request \cup {"none", "ok", "failed"}]
        /\ \A u \in Tasks : call'[u] = "none" <=> pc'[u] \notin Calling
    BY <1>1 DEF TasksOK, Await, Request
  <1>4. QED
    BY <1>1, <1>2, <1>3 DEF TasksOK

(* A task that ends, or a pass of the safety loop that does. *)
LEMMA Ends ==
  ASSUME NEW t \in Tasks, TasksOK, Fits(t, "idle"), Fits(t, "done"), End(t),
         (UNCHANGED call /\ pc[t] \notin Calling) \/ Hangup(t)
  PROVE  TasksOK'
  <1>1. CASE t = Safety
    BY <1>1, Moves DEF End, Calling
  <1>2. CASE t # Safety
    BY <1>2, Moves DEF End, Calling
  <1>3. QED
    BY <1>1, <1>2

-----------------------------------------------------------------------------
(* Every action keeps the types: the tasks first.                           *)

LEMMA AcquireTasks ==
  ASSUME TasksOK, NEW a \in Acquires, AcquireStep(a) PROVE TasksOK'
  <1>1. a \in Tasks
    BY DEF Tasks
  <1> USE <1>1, AcquireFits DEF Places, Idling, Calling, Request
  <1>2. ASSUME FailOpen(a) PROVE TasksOK'
    <2>1. CASE Await(a, "undo_arm", "DISARM")
      BY <2>1, Calls
    <2>2. CASE Goto(a, "flushing") /\ Hangup(a)
      BY <2>2, Moves
    <2>3. QED
      BY <1>2, <2>1, <2>2 DEF FailOpen
  <1>3. ASSUME Grant(a) PROVE TasksOK'
    BY <1>2, <1>3, Moves DEF Grant
  <1>4. CASE Claim(a)
    BY <1>4, Moves DEF Claim
  <1>5. CASE BarrierPassed(a)
    BY <1>5, Calls DEF BarrierPassed
  <1>6. CASE ManualReplied(a)
    BY <1>2, <1>6, Moves DEF ManualReplied
  <1>7. CASE ManualConfirmed(a)
    BY <1>2, <1>3, <1>7, Calls DEF ManualConfirmed
  <1>8. CASE ArmReplied(a)
    BY <1>2, <1>8, Moves DEF ArmReplied
  <1>9. CASE ArmConfirmed(a)
    BY <1>2, <1>3, <1>9 DEF ArmConfirmed
  <1>10. CASE UndoArmReplied(a)
    BY <1>10, Moves DEF UndoArmReplied
  <1>11. QED
    BY <1>4, <1>5, <1>6, <1>7, <1>8, <1>9, <1>10 DEF AcquireStep

LEMMA ClearingTasks ==
  ASSUME TasksOK, NEW t \in Acquires \cup Releasers, ClearingStep(t) PROVE TasksOK'
  <1>1. t \in Tasks
    BY DEF Tasks
  <1>2. Fits(t, "flushed") /\ Fits(t, "done")
    BY AcquireFits, ReleaseFits DEF Places, Idling
  <1>3. QED
    BY <1>1, <1>2, Moves DEF ClearingStep, Flush, ClearLocal, Calling

LEMMA ReleaseTasks ==
  ASSUME TasksOK, NEW r \in Releasers, BeginRelease(r), UNCHANGED call PROVE TasksOK'
  BY Moves, ReleaseFits DEF Tasks, BeginRelease, Places, Calling

LEMMA StartTasks ==
  ASSUME TasksOK, NEW s \in Starts, StartStep(s) PROVE TasksOK'
  <1>1. s \in Tasks
    BY DEF Tasks, Lifecycle
  <1> USE <1>1, StartFits DEF Places, Idling, Calling, Request
  <1>2. ASSUME NEW q, NEW own, StartBody(s, q, own), pc[s] \in {"idle", "waiting"}
        PROVE  TasksOK'
    <2>1. CASE End(s) /\ UNCHANGED call
      BY <1>2, <2>1, Ends
    <2>2. CASE Await(s, "arming", "ARM")
      BY <2>2, Calls
    <2>3. QED
      BY <1>2, <2>1, <2>2 DEF StartBody, StartReturns
  <1>3. CASE Start(s)
    <2>1. CASE Enters(s) /\ StartBody(s, <<s>>, "mission")
      BY <1>2, <2>1 DEF Enters
    <2>2. CASE Queues(s) /\ UNCHANGED call
      BY <2>2, Moves DEF Queues
    <2>3. QED
      BY <1>3, <2>1, <2>2 DEF Start
  <1>4. CASE StartResumes(s)
    BY <1>2, <1>4 DEF StartResumes, Resumes
  <1>5. CASE StartArmed(s)
    BY <1>5, Moves, Ends DEF StartArmed, StartReturns
  <1>6. CASE StartStreams(s)
    BY <1>6, Calls DEF StartStreams
  <1>7. CASE StartSwitched(s)
    BY <1>7, Calls, Ends DEF StartSwitched, StartReturns
  <1>8. CASE StartUndone(s)
    BY <1>8, Ends DEF StartUndone, StartReturns
  <1>9. QED
    BY <1>3, <1>4, <1>5, <1>6, <1>7, <1>8 DEF StartStep

LEMMA LifecycleTasks ==
  ASSUME TasksOK, NEW t \in Stops \cup Aborts \cup Clears, LifecycleStep(t) PROVE TasksOK'
  <1>1. t \in Tasks
    BY DEF Tasks, Lifecycle
  <1>2. Fits(t, "idle") /\ Fits(t, "done") /\ Fits(t, "waiting")
    BY StopFits, AbortFits, ClearFits DEF Places, Idling
  <1>3. t \in Stops => Fits(t, "settling")
    BY StopFits DEF Places
  <1>4. t \in Aborts => Fits(t, "abort_mode") /\ Fits(t, "abort_disarm")
    BY AbortFits DEF Places
  <1> USE <1>1, <1>2 DEF Calling, Request
  <1>5. ASSUME NEW q, Body(t, q), pc[t] \in {"idle", "waiting"} PROVE TasksOK'
    <2>1. CASE t \in Stops /\ StopBody(t, q)
      BY <1>3, <1>5, <2>1, Moves, Ends DEF StopBody, Returns
    <2>2. CASE t \in Aborts /\ AbortBody(t, q)
      BY <1>4, <1>5, <2>2, Calls, Ends DEF AbortBody, Returns
    <2>3. CASE t \in Clears /\ ClearBody(t, q)
      BY <1>5, <2>3, Ends DEF ClearBody, Returns
    <2>4. QED
      BY <1>5, <2>1, <2>2, <2>3 DEF Body
  <1>6. CASE LifecycleCall(t)
    <2>1. CASE Enters(t) /\ Body(t, <<t>>)
      BY <1>5, <2>1 DEF Enters
    <2>2. CASE Queues(t) /\ UNCHANGED call
      BY <2>2, Moves DEF Queues
    <2>3. CASE Resumes(t) /\ Body(t, queue)
      BY <1>5, <2>3 DEF Resumes
    <2>4. QED
      BY <1>6, <2>1, <2>2, <2>3 DEF LifecycleCall
  <1>7. CASE StopSettles(t)
    BY <1>7, Ends DEF StopSettles, Returns
  <1>8. CASE AbortSwitched(t)
    <2>1. t \in Aborts
      BY <1>8, KindsApart DEF AbortSwitched, Replied, TasksOK, PcType, Class, Places, Idling
    <2>2. QED
      BY <1>4, <1>8, <2>1, Calls DEF AbortSwitched
  <1>9. CASE AbortDisarmed(t)
    BY <1>9, Ends DEF AbortDisarmed, Returns
  <1>10. QED
    BY <1>6, <1>7, <1>8, <1>9 DEF LifecycleStep

LEMMA EstopTasks ==
  ASSUME TasksOK, NEW e \in Emergency, EstopStep(e) PROVE TasksOK'
  <1>1. e \in Tasks
    BY DEF Tasks, Lifecycle
  <1> USE <1>1, EstopFits DEF Places, Idling, Calling, Request
  <1>2. CASE EstopBegins(e)
    BY <1>2, Calls DEF EstopBegins
  <1>3. CASE EstopSwitched(e)
    BY <1>3, Calls DEF EstopSwitched
  <1>4. CASE EstopDisarmed(e)
    BY <1>4, Moves, Ends DEF EstopDisarmed, EstopRecords
  <1>5. CASE EstopResumes(e)
    BY <1>5, Ends DEF EstopResumes, EstopRecords, Resumes
  <1>6. QED
    BY <1>2, <1>3, <1>4, <1>5 DEF EstopStep

LEMMA LoadTasks ==
  ASSUME TasksOK,
         \/ \E l \in Loads : LoadBegins(l) \/ LoadEnds(l)
         \/ \E l \in DirectLoads : LoadDirectly(l)
  PROVE  TasksOK'
  <1> USE LoadFits, DirectFits DEF Places, Idling, Calling, Tasks
  <1>1. ASSUME NEW l \in Loads, LoadBegins(l) PROVE TasksOK'
    BY <1>1, Moves DEF LoadBegins
  <1>2. ASSUME NEW l \in Loads, LoadEnds(l) PROVE TasksOK'
    BY <1>2, Moves DEF LoadEnds
  <1>3. ASSUME NEW l \in DirectLoads, LoadDirectly(l) PROVE TasksOK'
    BY <1>3, Moves DEF LoadDirectly
  <1>4. QED
    BY <1>1, <1>2, <1>3

LEMMA TelemetryTasks == ASSUME TasksOK, TelemetryStep PROVE TasksOK'
  <1>1. Telemetry \in Tasks
    BY DEF Tasks
  <1> USE <1>1, TelemetryFits DEF Places, Calling, Request
  <1>2. CASE EntryDone
    <2>1. CASE UNCHANGED <<pc, call>>
      BY <2>1 DEF TasksOK, PcType
    <2>2. CASE Goto(Telemetry, "emitting") /\ UNCHANGED call
      BY <1>2, <2>2, Moves DEF EntryDone
    <2>3. QED
      BY <1>2, <2>1, <2>2 DEF EntryDone
  <1>3. CASE MarkCompleted
    BY <1>3, Moves DEF MarkCompleted
  <1>4. CASE DisarmOnComplete
    BY <1>4, Moves, Calls DEF DisarmOnComplete
  <1>5. QED
    BY <1>2, <1>3, <1>4 DEF TelemetryStep

LEMMA ServeTasks == ASSUME TasksOK, NEW t \in Tasks, Serve(t) PROVE TasksOK'
  <1>1. UNCHANGED pc /\ \E result \in {"ok", "failed"} : Answer(t, result)
    BY DEF Serve
  <1>2. PICK result \in {"ok", "failed"} : call' = [call EXCEPT ![t] = result]
    BY <1>1 DEF Answer
  <1>3. call[t] # "none" /\ result # "none"
    BY DEF Serve, Request
  <1>4. QED
    BY <1>1, <1>2, <1>3 DEF TasksOK, PcType

-----------------------------------------------------------------------------
(* Every action keeps the types: the rest of the state.                     *)

LEMMA Faults == ASSUME StateOK, SpendFault PROVE faults' \in 0..MaxFaults
  BY PlaneAssumption DEF StateOK, SpendFault

LEMMA Inputs == ASSUME StateOK, SpendInput PROVE inputs' \in 0..MaxInputs
  BY PlaneAssumption DEF StateOK, SpendInput

LEMMA AcquireState ==
  ASSUME StateOK, NEW a \in Acquires, AcquireStep(a) PROVE StateOK'
  <1> USE DEF StateOK, ControlOwner, joystickVars, missionVars, rppVars, fcuVars, localVars
  <1>1. a[1] \in Clients
    BY DEF Acquires
  <1>2. ASSUME FailOpen(a) PROVE UNCHANGED <<owner, lease, watch, age>>
    BY <1>2 DEF FailOpen
  <1>3. ASSUME Grant(a)
        PROVE  /\ owner' \in ControlOwner /\ watch' \in BOOLEAN /\ age' \in 0..2
               /\ lease' \in [state : {"inactive", "acquiring", "active", "held", "releasing"},
                             sid : Clients \cup {None}, claim : Acquires \cup {None}]
    <2>1. CASE StillWanted(a) /\ lease' = [lease EXCEPT !.state = "active"]
               /\ owner' = "joystick_active" /\ watch' = TRUE /\ age' = 0
      BY <2>1
    <2>2. CASE FailOpen(a)
      BY <1>2, <2>2
    <2>3. QED
      BY <1>3, <2>1, <2>2 DEF Grant
  <1>4. CASE Claim(a)
    <2>1. lease' \in [state : {"inactive", "acquiring", "active", "held", "releasing"},
                      sid : Clients \cup {None}, claim : Acquires \cup {None}]
      BY <1>1, <1>4 DEF Claim
    <2>2. faults' \in 0..MaxFaults
      BY <1>4, Faults DEF Claim
    <2>3. QED
      BY <1>4, <2>1, <2>2 DEF Claim
  <1>5. CASE BarrierPassed(a)
    BY <1>5 DEF BarrierPassed
  <1>6. CASE ManualReplied(a)
    BY <1>2, <1>6 DEF ManualReplied
  <1>7. CASE ManualConfirmed(a)
    BY <1>2, <1>3, <1>7 DEF ManualConfirmed
  <1>8. CASE ArmReplied(a)
    BY <1>2, <1>8 DEF ArmReplied
  <1>9. CASE ArmConfirmed(a)
    BY <1>2, <1>3, <1>9 DEF ArmConfirmed
  <1>10. CASE UndoArmReplied(a)
    BY <1>10 DEF UndoArmReplied
  <1>11. QED
    BY <1>4, <1>5, <1>6, <1>7, <1>8, <1>9, <1>10 DEF AcquireStep

LEMMA JoystickState ==
  ASSUME StateOK,
         \/ \E t \in Acquires \cup Releasers : ClearingStep(t)
         \/ \E c \in Clients, deadman \in BOOLEAN : HandleCommand(c, deadman)
         \/ \E r \in Releases, c \in Clients : ReleaseRequested(r, c)
         \/ LeaseTimeout \/ WatchdogPass \/ Silence
  PROVE  StateOK'
  <1> USE DEF StateOK, ControlOwner, joystickVars, missionVars, rppVars, fcuVars, localVars
  <1>1. ASSUME NEW t \in Acquires \cup Releasers, ClearingStep(t) PROVE StateOK'
    BY <1>1 DEF ClearingStep, Flush, ClearLocal, NoLease, Cleared
  <1>2. ASSUME NEW c \in Clients, NEW deadman \in BOOLEAN, HandleCommand(c, deadman)
        PROVE  StateOK'
    <2>1. lease' \in [state : {"inactive", "acquiring", "active", "held", "releasing"},
                      sid : Clients \cup {None}, claim : Acquires \cup {None}]
      BY <1>2 DEF HandleCommand
    <2>2. QED
      BY <1>2, <2>1, Inputs DEF HandleCommand, MarkHeld
  <1>3. ASSUME NEW r, BeginRelease(r), inputs' \in 0..MaxInputs PROVE StateOK'
    <2>1. lease' \in [state : {"inactive", "acquiring", "active", "held", "releasing"},
                      sid : Clients \cup {None}, claim : Acquires \cup {None}]
      BY <1>3 DEF BeginRelease
    <2>2. victim' \in [Releasers -> Acquires \cup {None}]
      BY <1>3 DEF BeginRelease
    <2>3. owner' \in ControlOwner /\ watch' \in BOOLEAN
      BY <1>3 DEF BeginRelease, MarkReleasing
    <2>4. QED
      BY <1>3, <2>1, <2>2, <2>3 DEF BeginRelease
  <1>4. ASSUME NEW r \in Releases, NEW c \in Clients, ReleaseRequested(r, c) PROVE StateOK'
    BY <1>3, <1>4, Inputs DEF ReleaseRequested
  <1>5. CASE LeaseTimeout
    BY <1>3, <1>5 DEF LeaseTimeout
  <1>6. CASE WatchdogPass
    <2>1. watch' \in BOOLEAN /\ gateway' \in {"off", "neutral", "drive"}
      BY <1>6 DEF WatchdogPass
    <2>2. QED
      BY <1>6, <2>1 DEF WatchdogPass
  <1>7. CASE Silence
    BY <1>7 DEF Silence
  <1>8. QED
    BY <1>1, <1>2, <1>4, <1>5, <1>6, <1>7

LEMMA QueueOK ==
  ASSUME NEW q \in Seq(Lifecycle), NEW t \in Lifecycle
  PROVE  /\ <<t>> \in Seq(Lifecycle) /\ Tail(<<t>>) = <<>>
         /\ Append(q, t) \in Seq(Lifecycle)
         /\ q # <<>> => Tail(q) \in Seq(Lifecycle)
  OBVIOUS

LEMMA StartState ==
  ASSUME StateOK, NEW s \in Starts, StartStep(s), pc[s] \notin Idling => queue # <<>>
  PROVE  StateOK'
  <1> USE DEF StateOK, ControlOwner, MissionState, joystickVars, missionVars, rppVars, fcuVars,
              localVars
  <1>1. s \in Lifecycle
    BY DEF Lifecycle
  <1>2. ASSUME NEW q \in Seq(Lifecycle), q # <<>>, NEW own \in ControlOwner, StartReturns(s, q, own)
        PROVE  queue' \in Seq(Lifecycle) /\ owner' \in ControlOwner
    BY <1>1, <1>2, QueueOK DEF StartReturns, Relinquish
  <1>3. ASSUME NEW q \in Seq(Lifecycle), q # <<>>, NEW own \in ControlOwner, StartBody(s, q, own),
               UNCHANGED <<lease, watch, age, gateway, loaded, prior, unhealthy, fcuVars,
                           armedByUs, victim, inputs>>
        PROVE  StateOK'
    <2>1. queue' \in Seq(Lifecycle) /\ owner' \in ControlOwner
      BY <1>2, <1>3 DEF StartBody
    <2>2. /\ mission' \in MissionState /\ stash' \in BOOLEAN /\ twoPhase' \subseteq Starts
          /\ path' \in {"none", "stop", "entry", "mark"} /\ rpp' \in {"idle", "tracking", "done"}
          /\ settled' \in BOOLEAN /\ posed' \in BOOLEAN
      BY <1>3 DEF StartBody
    <2>3. faults' \in 0..MaxFaults
      BY <1>3, Faults DEF StartBody
    <2>4. QED
      BY <1>3, <2>1, <2>2, <2>3
  <1>4. CASE Start(s)
    <2>1. CASE Enters(s) /\ StartBody(s, <<s>>, "mission")
      BY <1>1, <1>3, <1>4, <2>1, QueueOK DEF Start
    <2>2. CASE Queues(s) /\ owner' = "mission" /\ UNCHANGED <<mission, stash, rppVars, call, twoPhase, faults>>
      BY <1>1, <1>4, <2>2, QueueOK DEF Start, Queues
    <2>3. QED
      BY <1>4, <2>1, <2>2 DEF Start
  <1>5. CASE StartResumes(s)
    BY <1>3, <1>5 DEF StartResumes, Resumes, Idling
  <1>6. CASE StartArmed(s)
    BY <1>2, <1>6 DEF StartArmed, Replied, Idling
  <1>7. CASE StartStreams(s)
    BY <1>7, Faults DEF StartStreams
  <1>8. CASE StartSwitched(s)
    BY <1>2, <1>8 DEF StartSwitched, Replied, Idling
  <1>9. CASE StartUndone(s)
    BY <1>2, <1>9 DEF StartUndone, Replied, Idling
  <1>10. QED
    BY <1>4, <1>5, <1>6, <1>7, <1>8, <1>9 DEF StartStep

LEMMA LifecycleState ==
  ASSUME StateOK, NEW t \in Stops \cup Aborts \cup Clears, LifecycleStep(t),
         pc[t] \notin Idling => queue # <<>>
  PROVE  StateOK'
  <1> USE DEF StateOK, MissionState, joystickVars, missionVars, rppVars, fcuVars, localVars
  <1>1. t \in Lifecycle
    BY DEF Lifecycle
  <1>2. ASSUME NEW q \in Seq(Lifecycle), q # <<>>, Returns(t, q) PROVE queue' \in Seq(Lifecycle)
    BY <1>1, <1>2, QueueOK DEF Returns
  <1>3. ASSUME NEW q \in Seq(Lifecycle), q # <<>>, Body(t, q),
               UNCHANGED <<joystickVars, prior, unhealthy, fcuVars, localVars, inputs>>
        PROVE  StateOK'
    <2>1. queue' \in Seq(Lifecycle)
      BY <1>2, <1>3 DEF Body, StopBody, AbortBody, ClearBody
    <2>2. mission' \in MissionState /\ loaded' \in BOOLEAN /\ stash' \in BOOLEAN
      BY <1>3 DEF Body, StopBody, AbortBody, ClearBody
    <2>3. /\ path' \in {"none", "stop", "entry", "mark"} /\ rpp' \in {"idle", "tracking", "done"}
          /\ settled' \in BOOLEAN /\ posed' \in BOOLEAN
      BY <1>3 DEF Body, StopBody, AbortBody, ClearBody, StopPath, StopPublished, NoPose
    <2>4. UNCHANGED faults
      BY <1>3 DEF Body, StopBody, AbortBody, ClearBody
    <2>5. QED
      BY <1>3, <2>1, <2>2, <2>3, <2>4
  <1>4. CASE LifecycleCall(t)
    <2>1. CASE Enters(t) /\ Body(t, <<t>>)
      BY <1>1, <1>3, <1>4, <2>1, QueueOK DEF LifecycleCall
    <2>2. CASE Queues(t) /\ UNCHANGED <<mission, loaded, stash, rppVars, call, faults>>
      BY <1>1, <1>4, <2>2, QueueOK DEF LifecycleCall, Queues
    <2>3. CASE Resumes(t) /\ Body(t, queue)
      BY <1>3, <1>4, <2>3 DEF LifecycleCall, Resumes, Idling
    <2>4. QED
      BY <1>4, <2>1, <2>2, <2>3 DEF LifecycleCall
  <1>5. CASE StopSettles(t)
    BY <1>2, <1>5 DEF StopSettles, Idling
  <1>6. CASE AbortSwitched(t)
    BY <1>6 DEF AbortSwitched
  <1>7. CASE AbortDisarmed(t)
    BY <1>2, <1>7 DEF AbortDisarmed, Replied, Idling
  <1>8. QED
    BY <1>4, <1>5, <1>6, <1>7 DEF LifecycleStep

LEMMA EstopState ==
  ASSUME StateOK, NEW e \in Emergency, EstopStep(e), pc[e] = "waiting" => queue # <<>>
  PROVE  StateOK'
  <1> USE DEF StateOK, MissionState, ControlOwner, joystickVars, missionVars, rppVars, fcuVars,
              localVars
  <1>1. e \in Lifecycle
    BY DEF Lifecycle
  <1>2. CASE EstopBegins(e)
    <2>1. /\ path' \in {"none", "stop", "entry", "mark"} /\ rpp' \in {"idle", "tracking", "done"}
          /\ settled' \in BOOLEAN /\ posed' \in BOOLEAN
      BY <1>2 DEF EstopBegins, StopPath, StopPublished, NoPose
    <2>2. /\ owner' \in ControlOwner /\ watch' \in BOOLEAN /\ gateway' \in {"off", "neutral", "drive"}
          /\ lease' \in [state : {"inactive", "acquiring", "active", "held", "releasing"},
                        sid : Clients \cup {None}, claim : Acquires \cup {None}]
      BY <1>2 DEF EstopBegins, Cleared, NoLease
    <2>3. QED
      BY <1>2, <2>1, <2>2 DEF EstopBegins
  <1>3. CASE EstopSwitched(e)
    BY <1>3 DEF EstopSwitched
  <1>4. CASE EstopDisarmed(e)
    <2>1. CASE queue = <<>>
      BY <1>4, <2>1 DEF EstopDisarmed, EstopRecords
    <2>2. CASE queue # <<>>
      <3>1. queue' \in Seq(Lifecycle) /\ UNCHANGED mission
        BY <1>1, <1>4, <2>2, QueueOK DEF EstopDisarmed
      <3>2. QED
        BY <1>4, <3>1 DEF EstopDisarmed
    <2>3. QED
      BY <2>1, <2>2
  <1>5. CASE EstopResumes(e)
    BY <1>1, <1>5, QueueOK DEF EstopResumes, EstopRecords, Resumes
  <1>6. QED
    BY <1>2, <1>3, <1>4, <1>5 DEF EstopStep

LEMMA LoadState ==
  ASSUME StateOK,
         \/ \E l \in Loads : LoadBegins(l) \/ LoadEnds(l)
         \/ \E l \in DirectLoads : LoadDirectly(l)
         \/ TelemetryStep
  PROVE  StateOK'
  <1> USE DEF StateOK, MissionState, LoadAllowed, joystickVars, missionVars, rppVars, fcuVars,
              localVars
  <1>1. ASSUME NEW l \in Loads, LoadBegins(l) PROVE StateOK'
    BY <1>1 DEF LoadBegins
  <1>2. ASSUME NEW l \in Loads, LoadEnds(l) PROVE StateOK'
    <2>1. mission' \in MissionState /\ loaded' \in BOOLEAN /\ stash' \in BOOLEAN
      BY <1>2 DEF LoadEnds, PathLoaded
    <2>2. /\ path' \in {"none", "stop", "entry", "mark"} /\ rpp' \in {"idle", "tracking", "done"}
          /\ settled' \in BOOLEAN /\ posed' \in BOOLEAN
      BY <1>2 DEF LoadEnds, PathLoaded
    <2>3. QED
      BY <1>2, <2>1, <2>2, Faults DEF LoadEnds
  <1>3. ASSUME NEW l \in DirectLoads, LoadDirectly(l) PROVE StateOK'
    <2>1. /\ mission' \in MissionState /\ loaded' \in BOOLEAN /\ stash' \in BOOLEAN
          /\ settled' \in BOOLEAN /\ UNCHANGED <<path, rpp, posed>>
      BY <1>3 DEF LoadDirectly, PathLoaded
    <2>2. QED
      BY <1>3, <2>1 DEF LoadDirectly
  <1>4. CASE TelemetryStep
    <2>1. /\ path' \in {"none", "stop", "entry", "mark"} /\ rpp' \in {"idle", "tracking", "done"}
          /\ stash' \in BOOLEAN /\ settled' \in BOOLEAN /\ posed' \in BOOLEAN
      BY <1>4 DEF TelemetryStep, EntryDone, MarkCompleted, DisarmOnComplete
    <2>2. QED
      BY <1>4, <2>1 DEF TelemetryStep, EntryDone, MarkCompleted, DisarmOnComplete
  <1>5. QED
    BY <1>1, <1>2, <1>3, <1>4

LEMMA OutsideState ==
  ASSUME StateOK,
         \/ \E t \in Tasks : Serve(t)
         \/ ServeLate \/ RppReports \/ PoseArrives \/ HealthChanges
  PROVE  StateOK'
  <1> USE DEF StateOK, joystickVars, missionVars, rppVars, fcuVars, localVars
  <1>1. ASSUME NEW req \in Request, Effect(req)
        PROVE  armed' \in BOOLEAN /\ mode' \in {"MANUAL", "HOLD", "OFFBOARD"}
    BY <1>1 DEF Effect, Request
  <1>2. ASSUME NEW t \in Tasks, Serve(t) PROVE StateOK'
    <2>1. late' \subseteq Request /\ faults' \in 0..MaxFaults
      BY <1>2, Faults DEF Serve
    <2>2. armed' \in BOOLEAN /\ mode' \in {"MANUAL", "HOLD", "OFFBOARD"}
      BY <1>1, <1>2 DEF Serve
    <2>3. QED
      BY <1>2, <2>1, <2>2 DEF Serve
  <1>3. CASE ServeLate
    BY <1>1, <1>3 DEF ServeLate
  <1>4. CASE RppReports
    <2>1. rpp' \in {"idle", "tracking", "done"} /\ settled' \in BOOLEAN
      BY <1>4 DEF RppReports
    <2>2. QED
      BY <1>4, <2>1 DEF RppReports
  <1>5. CASE PoseArrives
    BY <1>5 DEF PoseArrives
  <1>6. CASE HealthChanges
    BY <1>6, Inputs DEF HealthChanges
  <1>7. QED
    BY <1>2, <1>3, <1>4, <1>5, <1>6

-----------------------------------------------------------------------------
(* The line at the lifecycle lock: how it changes.                          *)

Others(t) == \A u \in Lifecycle \ {t} : pc'[u] = pc[u]

LEMMA Transitional ==
  /\ DOMAIN Inside = {"arming", "switching_offboard", "stopping", "disarming"}
  /\ \A state \in DOMAIN Inside : Inside[state] \subseteq Holding
  BY DEF Inside, Holding

LEMMA FirstIsHead ==
  ASSUME NEW q \in Seq(Lifecycle)
  PROVE  q # <<>> => 1 \in 1..Len(q) /\ Head(q) = q[1] /\ Head(q) \in Lifecycle
  OBVIOUS

(* Who is inside the lock is at the head of the line. *)
LEMMA HolderIsHead ==
  ASSUME queue \in Seq(Lifecycle), LockLine, NEW t \in Lifecycle, pc[t] \in Holding
  PROVE  queue # <<>> /\ Head(queue) = t
  <1>1. PICK i \in 1..Len(queue) : queue[i] = t
    BY DEF LockLine, Lined
  <1>2. i = 1
    BY <1>1 DEF LockLine, Holding
  <1>3. QED
    BY <1>1, <1>2, FirstIsHead

LEMMA WaiterInLine ==
  ASSUME queue \in Seq(Lifecycle), LockLine, NEW t \in Lifecycle, pc[t] = "waiting"
  PROVE  queue # <<>>
  BY DEF LockLine, Lined

(* Before the head of the line has begun, no transitional state is up. *)
LEMMA NobodyInside ==
  ASSUME queue \in Seq(Lifecycle), Line, NEW t \in Lifecycle, pc[t] \notin Holding,
         queue = <<>> \/ Head(queue) = t
  PROVE  mission \notin DOMAIN Inside
  BY Transitional DEF Line, HeadNamed

LEMMA LineKept ==
  ASSUME queue \in Seq(Lifecycle), Line, UNCHANGED queue,
         \A t \in Lifecycle : pc'[t] = pc[t] \/ (pc[t] \notin Lined /\ pc'[t] \notin Lined),
         mission' = mission \/ mission' \notin DOMAIN Inside
  PROVE  Line'
  <1>1. \A i \in 1..Len(queue) : queue[i] \in Lifecycle /\ pc[queue[i]] \in Lined
    BY DEF Line, LockLine, Lined
  <1>2. \A i \in 1..Len(queue) : pc'[queue[i]] = pc[queue[i]]
    BY <1>1
  <1>3. LockLine'
    BY <1>2 DEF Line, LockLine
  <1>4. HeadNamed'
    BY <1>2, FirstIsHead DEF Line, HeadNamed, Inside
  <1>5. QED
    BY <1>3, <1>4 DEF Line

LEMMA LineJoined ==
  ASSUME queue \in Seq(Lifecycle), Line, NEW t \in Lifecycle, pc[t] \notin Lined, Others(t),
         queue # <<>>, queue' = Append(queue, t), pc'[t] = "waiting", UNCHANGED mission
  PROVE  Line'
  <1>1. /\ Len(queue') = Len(queue) + 1 /\ queue'[Len(queue')] = t
        /\ \A i \in 1..Len(queue) : queue'[i] = queue[i]
        /\ Len(queue) \in Nat /\ Len(queue) > 0
    OBVIOUS
  <1>2. \A i \in 1..Len(queue) : queue[i] \in Lifecycle \ {t}
    BY DEF Line, LockLine, Lined
  <1>3. LockLine'
    <2>1. \A i, j \in 1..Len(queue') : queue'[i] = queue'[j] => i = j
      BY <1>1, <1>2 DEF Line, LockLine
    <2>2. \A u \in Lifecycle : pc'[u] \in Lined => \E i \in 1..Len(queue') : queue'[i] = u
      BY <1>1 DEF Line, LockLine, Others
    <2>3. \A i \in 1..Len(queue') : pc'[queue'[i]] \in IF i = 1 THEN Lined ELSE {"waiting"}
      BY <1>1, <1>2 DEF Line, LockLine, Others
    <2>4. QED
      BY <2>1, <2>2, <2>3 DEF LockLine
  <1>4. HeadNamed'
    <2>1. queue' # <<>> /\ Head(queue') = Head(queue) /\ Head(queue) \in Lifecycle \ {t}
      BY <1>1, <1>2, FirstIsHead
    <2>2. QED
      BY <2>1 DEF Line, HeadNamed, Others
  <1>5. QED
    BY <1>3, <1>4 DEF Line

LEMMA LineEntered ==
  ASSUME Line, NEW t \in Lifecycle, pc[t] \notin Lined, Others(t),
         queue = <<>>, queue' = <<t>>, pc'[t] \in Lined,
         mission' \in DOMAIN Inside => pc'[t] \in Inside[mission']
  PROVE  Line'
  BY DEF Line, LockLine, HeadNamed, Others

LEMMA LineHeadMoves ==
  ASSUME queue \in Seq(Lifecycle), Line, NEW t \in Lifecycle, Others(t),
         queue # <<>>, Head(queue) = t, UNCHANGED queue, pc'[t] \in Lined,
         mission' \in DOMAIN Inside => pc'[t] \in Inside[mission']
  PROVE  Line'
  <1>1. \A i \in 1..Len(queue) : queue[i] \in Lifecycle /\ (i # 1 => queue[i] # t)
    BY FirstIsHead DEF Line, LockLine
  <1>2. LockLine'
    <2>1. \A u \in Lifecycle : pc'[u] \in Lined => \E i \in 1..Len(queue') : queue'[i] = u
      BY FirstIsHead DEF Line, LockLine, Others
    <2>2. \A i \in 1..Len(queue') : pc'[queue'[i]] \in IF i = 1 THEN Lined ELSE {"waiting"}
      BY <1>1, FirstIsHead DEF Line, LockLine, Others
    <2>3. QED
      BY <2>1, <2>2 DEF Line, LockLine
  <1>3. HeadNamed'
    BY DEF HeadNamed, Inside
  <1>4. QED
    BY <1>2, <1>3 DEF Line

LEMMA LineLeft ==
  ASSUME queue \in Seq(Lifecycle), Line, NEW t \in Lifecycle, Others(t),
         queue # <<>>, Head(queue) = t, queue' = Tail(queue), pc'[t] \notin Lined,
         mission' \notin DOMAIN Inside
  PROVE  Line'
  <1>1. /\ Len(queue) \in Nat /\ Len(queue') = Len(queue) - 1
        /\ \A i \in 1..Len(queue') : i + 1 \in 1..Len(queue) /\ queue'[i] = queue[i + 1]
    OBVIOUS
  <1>2. \A i \in 1..Len(queue) : queue[i] \in Lifecycle /\ (i # 1 => queue[i] # t)
    BY FirstIsHead DEF Line, LockLine
  <1>3. LockLine'
    <2>1. \A i, j \in 1..Len(queue') : queue'[i] = queue'[j] => i = j
      BY <1>1 DEF Line, LockLine
    <2>2. ASSUME NEW u \in Lifecycle, pc'[u] \in Lined
          PROVE  \E i \in 1..Len(queue') : queue'[i] = u
      <3>1. u # t /\ pc[u] \in Lined
        BY <2>2 DEF Others
      <3>2. PICK i \in 1..Len(queue) : queue[i] = u
        BY <3>1 DEF Line, LockLine
      <3>3. i # 1
        BY <3>1, <3>2, FirstIsHead
      <3>4. i - 1 \in 1..Len(queue') /\ queue'[i - 1] = u
        BY <1>1, <3>2, <3>3
      <3>5. QED
        BY <3>4
    <2>3. \A i \in 1..Len(queue') : pc'[queue'[i]] = "waiting"
      BY <1>1, <1>2 DEF Line, LockLine, Others
    <2>4. QED
      BY <2>1, <2>2, <2>3 DEF LockLine, Lined
  <1>4. QED
    BY <1>3 DEF Line, HeadNamed

-----------------------------------------------------------------------------
(* The line at the lifecycle lock: every action keeps it.                   *)

LEMMA Went ==
  ASSUME TasksOK, NEW t \in Tasks, NEW l, Goto(t, l) PROVE pc'[t] = l /\ Others(t)
  BY DEF TasksOK, Goto, Others, Tasks

LEMMA WentEnd ==
  ASSUME TasksOK, NEW t \in Tasks, End(t) PROVE pc'[t] \in Idling /\ Others(t)
  BY Went DEF End, Idling

LEMMA OutOfLine ==
  /\ \A t \in Acquires \cup Releasers \cup Loads \cup DirectLoads \cup {Telemetry} :
       t \in Tasks \ Lifecycle
  /\ Lifecycle \subseteq Tasks
  <1> USE KindsApart DEF Class, Lifecycle, Tasks
  <1>1. \A t \in Acquires : t \in Tasks \ Lifecycle
    OBVIOUS
  <1>2. \A t \in Releasers : t \in Tasks \ Lifecycle
    OBVIOUS
  <1>3. \A t \in Loads : t \in Tasks \ Lifecycle
    OBVIOUS
  <1>4. \A t \in DirectLoads : t \in Tasks \ Lifecycle
    OBVIOUS
  <1>5. Telemetry \in Tasks \ Lifecycle
    OBVIOUS
  <1>6. QED
    BY <1>1, <1>2, <1>3, <1>4, <1>5

(* Where nothing of the line moves. *)
Aside == UNCHANGED <<queue, mission>> /\ \A u \in Lifecycle : pc'[u] = pc[u]

LEMMA WentAside ==
  ASSUME TasksOK, NEW t \in Tasks \ Lifecycle, NEW l, Goto(t, l)
  PROVE  \A u \in Lifecycle : pc'[u] = pc[u]
  BY Went DEF Others

LEMMA AcquireAside ==
  ASSUME TasksOK, NEW a \in Acquires, AcquireStep(a) PROVE Aside
  <1>1. a \in Tasks \ Lifecycle
    BY OutOfLine
  <1>2. ASSUME FailOpen(a) PROVE \A u \in Lifecycle : pc'[u] = pc[u]
    BY <1>1, <1>2, WentAside DEF FailOpen, Await
  <1>3. ASSUME Grant(a) PROVE \A u \in Lifecycle : pc'[u] = pc[u]
    BY <1>1, <1>2, <1>3, WentAside DEF Grant
  <1> USE <1>1, WentAside DEF Aside, missionVars
  <1>4. CASE Claim(a)
    BY <1>4 DEF Claim
  <1>5. CASE BarrierPassed(a)
    BY <1>5 DEF BarrierPassed, Await
  <1>6. CASE ManualReplied(a)
    BY <1>2, <1>6 DEF ManualReplied
  <1>7. CASE ManualConfirmed(a)
    BY <1>2, <1>3, <1>7 DEF ManualConfirmed, Await
  <1>8. CASE ArmReplied(a)
    BY <1>2, <1>8 DEF ArmReplied
  <1>9. CASE ArmConfirmed(a)
    BY <1>2, <1>3, <1>9 DEF ArmConfirmed
  <1>10. CASE UndoArmReplied(a)
    BY <1>10 DEF UndoArmReplied
  <1>11. QED
    BY <1>4, <1>5, <1>6, <1>7, <1>8, <1>9, <1>10 DEF AcquireStep

LEMMA JoystickAside ==
  ASSUME TasksOK, ClaimNamed,
         \/ \E t \in Acquires \cup Releasers : ClearingStep(t)
         \/ \E c \in Clients, deadman \in BOOLEAN : HandleCommand(c, deadman)
         \/ \E r \in Releases, c \in Clients : ReleaseRequested(r, c)
         \/ LeaseTimeout \/ WatchdogPass \/ Silence
  PROVE  Aside
  <1> USE WentAside DEF Aside, missionVars
  <1>1. ASSUME NEW t \in Acquires \cup Releasers, ClearingStep(t) PROVE Aside
    BY <1>1, OutOfLine DEF ClearingStep, Flush, ClearLocal
  <1>2. ASSUME NEW c \in Clients, NEW deadman \in BOOLEAN, HandleCommand(c, deadman) PROVE Aside
    BY <1>2 DEF HandleCommand
  <1>3. ASSUME NEW r \in Releasers, BeginRelease(r) PROVE Aside
    BY <1>3, OutOfLine DEF BeginRelease
  <1>4. ASSUME NEW r \in Releases, NEW c \in Clients, ReleaseRequested(r, c) PROVE Aside
    BY <1>3, <1>4 DEF ReleaseRequested, Releasers
  <1>5. CASE LeaseTimeout
    BY <1>3, <1>5 DEF LeaseTimeout, Releasers, ClaimNamed, Leased
  <1>6. CASE WatchdogPass \/ Silence
    BY <1>6 DEF WatchdogPass, Silence
  <1>7. QED
    BY <1>1, <1>2, <1>4, <1>5, <1>6

LEMMA StartLine ==
  ASSUME TasksOK, queue \in Seq(Lifecycle), Line, NEW s \in Starts, StartStep(s) PROVE Line'
  <1>1. s \in Lifecycle /\ s \in Tasks
    BY OutOfLine DEF Lifecycle
  <1> USE <1>1, Went, WentEnd DEF Idling, Holding, Lined, Await
  <1>2. ASSUME queue # <<>>, Head(queue) = s, NEW own, StartReturns(s, queue, own),
               mission' \notin DOMAIN Inside
        PROVE  Line'
    BY <1>2, LineLeft DEF StartReturns
  <1>3. CASE Start(s)
    <2>1. CASE Enters(s) /\ StartBody(s, <<s>>, "mission")
      <3>1. mission \notin DOMAIN Inside
        BY <2>1, NobodyInside DEF Enters
      <3>2. CASE StartReturns(s, <<s>>, "mission") /\ (mission' = mission \/ mission' = "error")
        <4>1. UNCHANGED queue
          BY <2>1, <3>2 DEF StartReturns, Enters
        <4>2. \A t \in Lifecycle : pc'[t] = pc[t] \/ (pc[t] \notin Lined /\ pc'[t] \notin Lined)
          BY <2>1, <3>2 DEF StartReturns, Enters, Others
        <4>3. QED
          BY <3>1, <3>2, <4>1, <4>2, LineKept, Transitional
      <3>3. CASE Await(s, "arming", "ARM") /\ queue' = <<s>> /\ mission' = "arming"
        BY <2>1, <3>3, LineEntered DEF Enters, Inside
      <3>4. QED
        BY <2>1, <3>2, <3>3 DEF StartBody
    <2>2. CASE Queues(s) /\ UNCHANGED mission
      BY <2>2, LineJoined DEF Queues
    <2>3. QED
      BY <1>3, <2>1, <2>2 DEF Start
  <1>4. CASE StartResumes(s)
    <2>1. queue # <<>> /\ Head(queue) = s /\ mission \notin DOMAIN Inside
      BY <1>4, WaiterInLine, NobodyInside DEF StartResumes, Resumes, Line
    <2>2. CASE StartReturns(s, queue, owner) /\ (mission' = mission \/ mission' = "error")
      BY <1>2, <2>1, <2>2, Transitional
    <2>3. CASE Await(s, "arming", "ARM") /\ queue' = queue /\ mission' = "arming"
      BY <2>1, <2>3, LineHeadMoves DEF Inside
    <2>4. QED
      BY <1>4, <2>2, <2>3 DEF StartResumes, StartBody
  <1>5. ASSUME pc[s] \in {"arming", "grace", "switching", "undo_start"}
        PROVE  queue # <<>> /\ Head(queue) = s
    BY <1>5, HolderIsHead DEF Line
  <1>6. CASE StartArmed(s)
    <2>1. queue # <<>> /\ Head(queue) = s
      BY <1>5, <1>6 DEF StartArmed, Replied
    <2>2. CASE Goto(s, "grace") /\ mission' = "switching_offboard" /\ UNCHANGED queue
      BY <2>1, <2>2, LineHeadMoves DEF Inside
    <2>3. CASE mission' = "error" /\ StartReturns(s, queue, owner)
      BY <1>2, <2>1, <2>3, Transitional
    <2>4. QED
      BY <1>6, <2>2, <2>3 DEF StartArmed
  <1>7. CASE StartStreams(s)
    <2>1. queue # <<>> /\ Head(queue) = s /\ UNCHANGED queue
      BY <1>5, <1>7 DEF StartStreams
    <2>2. mission \in DOMAIN Inside => mission = "switching_offboard"
      BY <1>7, <2>1 DEF StartStreams, Line, HeadNamed, Inside
    <2>3. CASE Goto(s, "undo_start") /\ mission' = "error"
      BY <2>1, <2>3, LineHeadMoves, Transitional
    <2>4. CASE Goto(s, "switching") /\ UNCHANGED mission
      BY <2>1, <2>2, <2>4, LineHeadMoves DEF Inside
    <2>5. QED
      BY <1>7, <2>3, <2>4 DEF StartStreams
  <1>8. CASE StartSwitched(s)
    <2>1. queue # <<>> /\ Head(queue) = s
      BY <1>5, <1>8 DEF StartSwitched, Replied
    <2>2. CASE mission' \in {"entry", "running"} /\ StartReturns(s, queue, owner)
      BY <1>2, <2>1, <2>2, Transitional
    <2>3. CASE mission' = "error" /\ Goto(s, "undo_start") /\ UNCHANGED queue
      BY <2>1, <2>3, LineHeadMoves, Transitional
    <2>4. QED
      BY <1>8, <2>2, <2>3 DEF StartSwitched
  <1>9. CASE StartUndone(s)
    <2>1. queue # <<>> /\ Head(queue) = s /\ UNCHANGED mission
      BY <1>5, <1>9 DEF StartUndone, Replied, missionVars
    <2>2. mission \notin DOMAIN Inside
      BY <1>9, <2>1 DEF StartUndone, Replied, Line, HeadNamed, Inside
    <2>3. QED
      BY <1>2, <1>9, <2>1, <2>2 DEF StartUndone
  <1>10. QED
    BY <1>3, <1>4, <1>6, <1>7, <1>8, <1>9 DEF StartStep

LEMMA LifecycleLine ==
  ASSUME TasksOK, queue \in Seq(Lifecycle), Line, NEW t \in Stops \cup Aborts \cup Clears,
         LifecycleStep(t)
  PROVE  Line'
  <1>1. t \in Lifecycle /\ t \in Tasks
    BY OutOfLine DEF Lifecycle
  <1> USE <1>1, Went, WentEnd DEF Idling, Holding, Lined, Await
  <1>2. ASSUME queue # <<>>, Head(queue) = t, Returns(t, queue), mission' \notin DOMAIN Inside
        PROVE  Line'
    BY <1>2, LineLeft DEF Returns
  <1>3. ASSUME pc[t] \in {"settling", "abort_mode", "abort_disarm"}
        PROVE  queue # <<>> /\ Head(queue) = t
    BY <1>3, HolderIsHead DEF Line
  <1>4. ASSUME NEW q, Body(t, q), mission \notin DOMAIN Inside
        PROVE  \/ Returns(t, q) /\ mission' \notin DOMAIN Inside
               \/ Goto(t, "settling") /\ queue' = q /\ mission' = "stopping"
               \/ Goto(t, "abort_mode") /\ queue' = q /\ mission' \notin DOMAIN Inside
    <2>1. CASE StopBody(t, q)
      BY <1>4, <2>1, Transitional DEF StopBody
    <2>2. CASE AbortBody(t, q)
      BY <1>4, <2>2 DEF AbortBody
    <2>3. CASE ClearBody(t, q)
      BY <1>4, <2>3, Transitional DEF ClearBody
    <2>4. QED
      BY <1>4, <2>1, <2>2, <2>3 DEF Body
  <1>5. CASE LifecycleCall(t)
    <2>1. CASE Enters(t) /\ Body(t, <<t>>)
      <3>1. mission \notin DOMAIN Inside /\ queue = <<>> /\ pc[t] = "idle"
        BY <2>1, NobodyInside DEF Enters
      <3>2. CASE Returns(t, <<t>>) /\ mission' \notin DOMAIN Inside
        <4>1. UNCHANGED queue
          BY <3>1, <3>2 DEF Returns
        <4>2. \A u \in Lifecycle : pc'[u] = pc[u] \/ (pc[u] \notin Lined /\ pc'[u] \notin Lined)
          BY <3>1, <3>2 DEF Returns, Others
        <4>3. QED
          BY <3>2, <4>1, <4>2, LineKept
      <3>3. CASE Goto(t, "settling") /\ queue' = <<t>> /\ mission' = "stopping"
        BY <3>1, <3>3, LineEntered DEF Inside
      <3>4. CASE Goto(t, "abort_mode") /\ queue' = <<t>> /\ mission' \notin DOMAIN Inside
        BY <3>1, <3>4, LineEntered
      <3>5. QED
        BY <1>4, <2>1, <3>1, <3>2, <3>3, <3>4
    <2>2. CASE Queues(t) /\ UNCHANGED mission
      BY <2>2, LineJoined DEF Queues
    <2>3. CASE Resumes(t) /\ Body(t, queue)
      <3>1. queue # <<>> /\ Head(queue) = t /\ mission \notin DOMAIN Inside
        BY <2>3, WaiterInLine, NobodyInside DEF Resumes, Line
      <3>2. CASE Goto(t, "settling") /\ UNCHANGED queue /\ mission' = "stopping"
        BY <3>1, <3>2, LineHeadMoves DEF Inside
      <3>3. CASE Goto(t, "abort_mode") /\ UNCHANGED queue /\ mission' \notin DOMAIN Inside
        BY <3>1, <3>3, LineHeadMoves
      <3>4. QED
        BY <1>2, <1>4, <2>3, <3>1, <3>2, <3>3
    <2>4. QED
      BY <1>5, <2>1, <2>2, <2>3 DEF LifecycleCall
  <1>6. CASE StopSettles(t)
    BY <1>2, <1>3, <1>6, Transitional DEF StopSettles
  <1>7. CASE AbortSwitched(t)
    <2>1. queue # <<>> /\ Head(queue) = t /\ UNCHANGED queue
      BY <1>3, <1>7 DEF AbortSwitched, Replied
    <2>2. QED
      BY <1>7, <2>1, LineHeadMoves DEF AbortSwitched, Inside
  <1>8. CASE AbortDisarmed(t)
    BY <1>2, <1>3, <1>8, Transitional DEF AbortDisarmed, Replied
  <1>9. QED
    BY <1>5, <1>6, <1>7, <1>8 DEF LifecycleStep

LEMMA EstopLine ==
  ASSUME TasksOK, queue \in Seq(Lifecycle), Line, NEW e \in Emergency, EstopStep(e)
  PROVE  Line'
  <1>1. e \in Lifecycle /\ e \in Tasks
    BY OutOfLine DEF Lifecycle
  <1> USE <1>1, Went, WentEnd DEF Idling, Holding, Lined, Await
  <1>2. ASSUME pc[e] \notin Lined, pc'[e] \notin Lined, Others(e), UNCHANGED queue,
               mission' = mission \/ mission' \notin DOMAIN Inside
        PROVE  Line'
    <2>1. \A t \in Lifecycle : pc'[t] = pc[t] \/ (pc[t] \notin Lined /\ pc'[t] \notin Lined)
      BY <1>2 DEF Others
    <2>2. QED
      BY <1>2, <2>1, LineKept
  <1>3. CASE EstopBegins(e)
    BY <1>2, <1>3 DEF EstopBegins, missionVars
  <1>4. CASE EstopSwitched(e)
    BY <1>2, <1>4 DEF EstopSwitched, Replied, missionVars
  <1>5. CASE EstopDisarmed(e)
    <2>1. CASE queue = <<>>
      BY <1>2, <1>5, <2>1, Transitional DEF EstopDisarmed, EstopRecords, Replied
    <2>2. CASE queue # <<>>
      BY <1>5, <2>2, LineJoined DEF EstopDisarmed, Replied
    <2>3. QED
      BY <2>1, <2>2
  <1>6. CASE EstopResumes(e)
    <2>1. queue # <<>> /\ Head(queue) = e
      BY <1>6, WaiterInLine DEF EstopResumes, Resumes, Line
    <2>2. QED
      BY <1>6, <2>1, LineLeft, Transitional DEF EstopResumes, EstopRecords
  <1>7. QED
    BY <1>3, <1>4, <1>5, <1>6 DEF EstopStep

LEMMA OtherLine ==
  ASSUME TasksOK, StateOK, Line,
         \/ \E l \in Loads : LoadBegins(l) \/ LoadEnds(l)
         \/ \E l \in DirectLoads : LoadDirectly(l)
         \/ TelemetryStep
  PROVE  Line'
  <1> USE OutOfLine, Transitional, WentAside
  <1>1. ASSUME UNCHANGED queue, \A u \in Lifecycle : pc'[u] = pc[u],
               mission' = mission \/ mission' \notin DOMAIN Inside
        PROVE  Line'
    BY <1>1, LineKept DEF StateOK
  <1>2. ASSUME NEW l \in Loads, LoadBegins(l) PROVE Line'
    BY <1>1, <1>2 DEF LoadBegins
  <1>3. ASSUME NEW l \in Loads, LoadEnds(l) PROVE Line'
    <2>1. mission' \notin DOMAIN Inside
      BY <1>3 DEF LoadEnds, PathLoaded, StateOK, LoadAllowed
    <2>2. QED
      BY <1>1, <1>3, <2>1 DEF LoadEnds
  <1>4. ASSUME NEW l \in DirectLoads, LoadDirectly(l) PROVE Line'
    BY <1>1, <1>4 DEF LoadDirectly, PathLoaded
  <1>5. CASE TelemetryStep
    <2>1. CASE EntryDone
      BY <1>1, <2>1 DEF EntryDone
    <2>2. CASE MarkCompleted
      BY <1>1, <2>2 DEF MarkCompleted
    <2>3. CASE DisarmOnComplete
      BY <1>1, <2>3 DEF DisarmOnComplete, Await, missionVars
    <2>4. QED
      BY <1>5, <2>1, <2>2, <2>3 DEF TelemetryStep
  <1>6. QED
    BY <1>2, <1>3, <1>4, <1>5

-----------------------------------------------------------------------------
(* The lease: every action keeps somebody who will give control up.         *)

LEMMA WentOn ==
  ASSUME TasksOK, NEW t \in Tasks, NEW l, l \notin Idling, Goto(t, l)
  PROVE  InFlight(t)' /\ \A u \in Tasks : InFlight(u) => InFlight(u)'
  BY DEF TasksOK, Goto, InFlight

LEMMA Elsewhere ==
  ASSUME TasksOK, NEW t \in Tasks, NEW l, Goto(t, l)
  PROVE  \A u \in Tasks \ {t} : InFlight(u) => InFlight(u)'
  BY DEF TasksOK, Goto, InFlight

LEMMA Kinds ==
  /\ Acquires \subseteq Tasks /\ Releasers \subseteq Tasks /\ Starts \subseteq Tasks
  /\ \A t \in Acquires \cup Releasers : t \notin Starts
  /\ \A t \in Stops \cup Aborts \cup Clears \cup Emergency \cup Loads \cup DirectLoads \cup {Telemetry} :
       t \in Tasks /\ t \notin Acquires \cup Releasers \cup Starts
  <1>1. \A t \in Acquires \cup Releasers : t \notin Starts
    BY KindsApart DEF Class
  <1>2. \A t \in Stops \cup Aborts \cup Clears \cup Emergency :
          t \notin Acquires \cup Releasers \cup Starts
    BY KindsApart DEF Class
  <1>3. \A t \in Loads \cup DirectLoads \cup {Telemetry} :
          t \notin Acquires \cup Releasers \cup Starts
    BY KindsApart DEF Class
  <1>4. QED
    BY <1>1, <1>2, <1>3 DEF Tasks, Lifecycle

(* Nobody who could give control up has ended. *)
LEMMA LeaseKept ==
  ASSUME Lease, UNCHANGED <<owner, lease, watch>>,
         \A u \in Acquires \cup Releasers \cup Starts : InFlight(u) => InFlight(u)'
  PROVE  Lease'
  BY DEF Lease, ClaimNamed, OwnershipLives, NeverStranded, LeaseIsWatched, Leased

LEMMA AcquireLease ==
  ASSUME TasksOK, Lease, NEW a \in Acquires, AcquireStep(a) PROVE Lease'
  <1> USE Kinds DEF Idling
  <1>1. ASSUME NEW l, l \notin Idling, Goto(a, l), UNCHANGED <<owner, lease, watch>> PROVE Lease'
    BY <1>1, WentOn, LeaseKept
  <1>2. ASSUME FailOpen(a) PROVE Lease'
    BY <1>1, <1>2 DEF FailOpen, Await
  <1>3. ASSUME Grant(a) PROVE Lease'
    <2>1. CASE StillWanted(a) /\ lease' = [lease EXCEPT !.state = "active"]
               /\ owner' = "joystick_active" /\ watch' = TRUE
      <3>1. Leased' /\ watch' /\ JoystickOwned(owner') /\ owner' # "mission"
        BY <2>1 DEF Leased, StillWanted, JoystickOwned
      <3>2. ClaimNamed'
        BY <2>1 DEF Lease, ClaimNamed, StillWanted
      <3>3. QED
        BY <3>1, <3>2 DEF Lease, OwnershipLives, NeverStranded, LeaseIsWatched
    <2>2. QED
      BY <1>2, <1>3, <2>1 DEF Grant
  <1>4. CASE Claim(a)
    <2>1. InFlight(a)' /\ owner' = "joystick_acquiring" /\ lease'.state = "acquiring" /\ lease'.claim = a
      BY <1>4, WentOn DEF Claim
    <2>2. QED
      BY <2>1 DEF Lease, ClaimNamed, OwnershipLives, NeverStranded, LeaseIsWatched, Leased
  <1>5. CASE BarrierPassed(a)
    BY <1>1, <1>5 DEF BarrierPassed, Await, joystickVars
  <1>6. CASE ManualReplied(a)
    BY <1>1, <1>2, <1>6 DEF ManualReplied, joystickVars
  <1>7. CASE ManualConfirmed(a)
    BY <1>1, <1>2, <1>3, <1>7 DEF ManualConfirmed, Await
  <1>8. CASE ArmReplied(a)
    BY <1>1, <1>2, <1>8 DEF ArmReplied, joystickVars
  <1>9. CASE ArmConfirmed(a)
    BY <1>2, <1>3, <1>9 DEF ArmConfirmed
  <1>10. CASE UndoArmReplied(a)
    BY <1>1, <1>10 DEF UndoArmReplied, joystickVars
  <1>11. QED
    BY <1>4, <1>5, <1>6, <1>7, <1>8, <1>9, <1>10 DEF AcquireStep

LEMMA NoLeaseLives == ASSUME owner' = "idle", lease' = NoLease PROVE Lease'
  BY DEF Lease, NoLease, ClaimNamed, OwnershipLives, NeverStranded, LeaseIsWatched, Leased,
         JoystickOwned

LEMMA JoystickLease ==
  ASSUME TasksOK, StateOK, Lease,
         \/ \E t \in Acquires \cup Releasers : ClearingStep(t)
         \/ \E c \in Clients, deadman \in BOOLEAN : HandleCommand(c, deadman)
         \/ \E r \in Releases, c \in Clients : ReleaseRequested(r, c)
         \/ LeaseTimeout \/ WatchdogPass \/ Silence
  PROVE  Lease'
  <1> USE Kinds DEF Idling
  <1>1. ASSUME NEW t \in Acquires \cup Releasers, ClearingStep(t) PROVE Lease'
    <2>1. CASE Flush(t)
      BY <2>1, WentOn, LeaseKept DEF Flush
    <2>2. CASE ClearLocal(t)
      BY <2>2, NoLeaseLives DEF ClearLocal, Cleared
    <2>3. QED
      BY <1>1, <2>1, <2>2 DEF ClearingStep
  <1>2. ASSUME NEW c \in Clients, NEW deadman \in BOOLEAN, HandleCommand(c, deadman) PROVE Lease'
    <2>1. Leased /\ watch /\ JoystickOwned(owner)
      BY <1>2 DEF HandleCommand, MayCommand, Lease, OwnershipLives, LeaseIsWatched
    <2>2. lease'.state \in {"active", "held"} /\ lease'.claim = lease.claim
      BY <1>2 DEF HandleCommand, StateOK
    <2>3. JoystickOwned(owner') /\ watch' /\ owner' # "mission"
      BY <1>2, <2>1 DEF HandleCommand, MarkHeld, JoystickOwned
    <2>4. ClaimNamed'
      BY <2>1, <2>2 DEF Lease, ClaimNamed, Leased
    <2>5. QED
      BY <2>2, <2>3, <2>4 DEF Lease, OwnershipLives, NeverStranded, LeaseIsWatched, Leased
  <1>3. ASSUME NEW r \in Releasers, BeginRelease(r) PROVE Lease'
    <2>1. InFlight(r)' /\ \A u \in Tasks : InFlight(u) => InFlight(u)'
      BY <1>3, WentOn DEF BeginRelease
    <2>2. lease'.state = "releasing"
      BY <1>3 DEF BeginRelease, StateOK
    <2>3. owner' = "mission" => owner = "mission"
      BY <1>3 DEF BeginRelease, MarkReleasing
    <2>4. QED
      BY <2>1, <2>2, <2>3 DEF Lease, ClaimNamed, OwnershipLives, NeverStranded, LeaseIsWatched, Leased
  <1>4. ASSUME NEW r \in Releases, NEW c \in Clients, ReleaseRequested(r, c) PROVE Lease'
    BY <1>3, <1>4 DEF ReleaseRequested, Releasers
  <1>5. CASE LeaseTimeout
    BY <1>3, <1>5 DEF LeaseTimeout, Releasers, Lease, ClaimNamed, Leased
  <1>6. CASE WatchdogPass
    BY <1>6 DEF WatchdogPass, Lease, ClaimNamed, OwnershipLives, NeverStranded, LeaseIsWatched,
                Leased, InFlight
  <1>7. CASE Silence
    BY <1>7, LeaseKept DEF Silence, InFlight
  <1>8. QED
    BY <1>1, <1>2, <1>4, <1>5, <1>6, <1>7

LEMMA StartLease ==
  ASSUME TasksOK, Lease, NEW s \in Starts, StartStep(s) PROVE Lease'
  <1> USE Kinds DEF Idling
  <1>1. \A u \in Acquires \cup Releasers : InFlight(u) => InFlight(u)'
    <2>1. PICK l : Goto(s, l)
      BY DEF StartStep, Start, Queues, StartBody, StartReturns, StartResumes, StartArmed,
             StartStreams, StartSwitched, StartUndone, End, Await
    <2>2. QED
      BY <2>1, Elsewhere
  <1>2. ASSUME NEW q, UNCHANGED <<lease, watch>>,
               StartReturns(s, q, owner) \/ (StartReturns(s, q, "mission") /\ ~JoystickOwned(owner))
        PROVE  Lease'
    BY <1>1, <1>2 DEF StartReturns, Relinquish, Lease, ClaimNamed, OwnershipLives, NeverStranded,
                      LeaseIsWatched, Leased, JoystickOwned
  <1>3. ASSUME NEW l, l \notin Idling, Goto(s, l), UNCHANGED <<lease, watch>>,
               owner' = owner \/ (owner' = "mission" /\ ~JoystickOwned(owner))
        PROVE  Lease'
    <2>1. InFlight(s)'
      BY <1>3, WentOn
    <2>2. QED
      BY <1>1, <1>3, <2>1 DEF Lease, ClaimNamed, OwnershipLives, NeverStranded, LeaseIsWatched,
                              Leased, JoystickOwned
  <1>4. ASSUME NEW q, UNCHANGED <<lease, watch>>,
               StartBody(s, q, owner) \/ (StartBody(s, q, "mission") /\ ~JoystickOwned(owner))
        PROVE  Lease'
    BY <1>2, <1>3, <1>4 DEF StartBody, Await
  <1>5. CASE Start(s)
    BY <1>3, <1>4, <1>5 DEF Start, Queues, MayClaimMission
  <1>6. CASE StartResumes(s)
    BY <1>4, <1>6 DEF StartResumes
  <1>7. CASE StartArmed(s)
    BY <1>2, <1>3, <1>7 DEF StartArmed
  <1>8. CASE StartStreams(s)
    BY <1>3, <1>8 DEF StartStreams, Await, joystickVars
  <1>9. CASE StartSwitched(s)
    BY <1>2, <1>3, <1>9 DEF StartSwitched, Await
  <1>10. CASE StartUndone(s)
    BY <1>2, <1>10 DEF StartUndone
  <1>11. QED
    BY <1>5, <1>6, <1>7, <1>8, <1>9, <1>10 DEF StartStep

LEMMA EstopLease ==
  ASSUME TasksOK, Lease, NEW e \in Emergency, EstopStep(e) PROVE Lease'
  <1>1. ASSUME NEW l, Goto(e, l), UNCHANGED joystickVars PROVE Lease'
    BY <1>1, Kinds, Elsewhere, LeaseKept DEF joystickVars
  <1>2. CASE EstopBegins(e)
    BY <1>2, NoLeaseLives DEF EstopBegins, Cleared
  <1>3. CASE EstopSwitched(e)
    BY <1>1, <1>3 DEF EstopSwitched, Await
  <1>4. CASE EstopDisarmed(e)
    BY <1>1, <1>4 DEF EstopDisarmed, EstopRecords, End
  <1>5. CASE EstopResumes(e)
    BY <1>1, <1>5 DEF EstopResumes, EstopRecords, End
  <1>6. QED
    BY <1>2, <1>3, <1>4, <1>5 DEF EstopStep

LEMMA LifecycleLease ==
  ASSUME TasksOK, Lease, NEW t \in Stops \cup Aborts \cup Clears, LifecycleStep(t) PROVE Lease'
  <1>1. PICK l : Goto(t, l)
    BY DEF LifecycleStep, LifecycleCall, Queues, Body, StopBody, AbortBody, ClearBody, Returns,
           StopSettles, AbortSwitched, AbortDisarmed, End, Await
  <1>2. UNCHANGED joystickVars
    BY DEF LifecycleStep, LifecycleCall, StopSettles, AbortSwitched, AbortDisarmed
  <1>3. QED
    BY <1>1, <1>2, Kinds, Elsewhere, LeaseKept DEF joystickVars

LEMMA OtherLease ==
  ASSUME TasksOK, Lease,
         \/ \E l \in Loads : LoadBegins(l) \/ LoadEnds(l)
         \/ \E l \in DirectLoads : LoadDirectly(l)
         \/ TelemetryStep
  PROVE  Lease'
  <1>1. UNCHANGED joystickVars
    BY DEF LoadBegins, LoadEnds, LoadDirectly, TelemetryStep, EntryDone, MarkCompleted,
           DisarmOnComplete
  <1>2. UNCHANGED pc \/ \E t \in Loads \cup DirectLoads \cup {Telemetry}, l \in Place : Goto(t, l)
    <2>1. {"loading", "done", "emitting", "disarming", "idle"} \subseteq Place
      BY PlacesPlace DEF Places, Idling
    <2>2. QED
      BY <2>1 DEF LoadBegins, LoadEnds, LoadDirectly, TelemetryStep, EntryDone, MarkCompleted,
                  DisarmOnComplete, Await
  <1>3. CASE UNCHANGED pc
    BY <1>1, <1>3, LeaseKept DEF joystickVars, InFlight
  <1>4. ASSUME NEW t \in Loads \cup DirectLoads \cup {Telemetry}, NEW l, Goto(t, l) PROVE Lease'
    BY <1>1, <1>4, Kinds, Elsewhere, LeaseKept DEF joystickVars
  <1>5. QED
    BY <1>2, <1>3, <1>4

-----------------------------------------------------------------------------
(* The inductive invariant.                                                 *)

LEMMA InitIInv == Init => IInv
  <1> SUFFICES ASSUME Init PROVE IInv
    OBVIOUS
  <1> USE DEF Init, Fresh
  <1>1. StateOK
    <2>1. /\ lease \in [state : {"inactive", "acquiring", "active", "held", "releasing"},
                       sid : Clients \cup {None}, claim : Acquires \cup {None}]
          /\ prior \in [Loads -> LoadAllowed] /\ victim \in [Releasers -> Acquires \cup {None}]
          /\ queue \in Seq(Lifecycle)
      BY DEF NoLease, LoadAllowed
    <2>2. watch \in BOOLEAN /\ stash \in BOOLEAN /\ settled \in BOOLEAN
      OBVIOUS
    <2>3. age \in 0..2 /\ faults \in 0..MaxFaults /\ inputs \in 0..MaxInputs
      BY PlaneAssumption
    <2>4. QED
      BY <2>1, <2>2, <2>3 DEF StateOK, ControlOwner, MissionState
  <1>2. TasksOK
    <2>1. \A k \in DOMAIN Class : "idle" \in Places[k]
      BY DEF Class, Places, Idling
    <2>2. \A k \in DOMAIN Class : Class[k] \subseteq Tasks
      BY DEF Class, Tasks, Lifecycle
    <2>3. "idle" \in Place
      BY PlacesPlace DEF Places, Idling
    <2>4. PcType
      BY <2>1, <2>2 DEF PcType
    <2>5. QED
      BY <2>3, <2>4 DEF TasksOK, Calling
  <1>3. Lease
    BY DEF Lease, ClaimNamed, OwnershipLives, NeverStranded, LeaseIsWatched, Leased, NoLease,
           JoystickOwned
  <1>4. Line
    BY DEF Line, LockLine, HeadNamed, Lined, Holding, Lifecycle, Tasks, Inside
  <1>5. QED
    BY <1>1, <1>2, <1>3, <1>4 DEF IInv

(* What the world does, and steps that change nothing the lock or the lease *)
(* depend on.                                                               *)
LEMMA OutsideStep ==
  ASSUME IInv,
         \/ \E t \in Tasks : Serve(t)
         \/ ServeLate \/ RppReports \/ PoseArrives \/ HealthChanges
         \/ UNCHANGED vars
  PROVE  IInv'
  <1>1. UNCHANGED <<owner, lease, watch, queue, mission, pc>>
    BY DEF Serve, ServeLate, RppReports, PoseArrives, HealthChanges, vars, joystickVars, missionVars
  <1>2. StateOK'
    <2>1. CASE UNCHANGED vars
      BY <2>1 DEF IInv, StateOK, vars, joystickVars, missionVars, rppVars, fcuVars, localVars
    <2>2. QED
      BY <2>1, OutsideState DEF IInv
  <1>3. TasksOK'
    <2>1. CASE UNCHANGED call
      BY <1>1, <2>1 DEF IInv, TasksOK, PcType
    <2>2. QED
      BY <2>1, ServeTasks DEF IInv, ServeLate, RppReports, PoseArrives, HealthChanges, vars
  <1>4. Lease' /\ Line'
    <2>1. Lease'
      BY <1>1, LeaseKept DEF IInv, InFlight
    <2>2. Line'
      BY <1>1, LineKept DEF IInv, StateOK
    <2>3. QED
      BY <2>1, <2>2
  <1>5. QED
    BY <1>2, <1>3, <1>4 DEF IInv

LEMMA AsideKeepsLine == ASSUME StateOK, Line, Aside PROVE Line'
  BY LineKept DEF StateOK, Aside

LEMMA StepIInv == IInv /\ [Next]_vars => IInv'
  <1> SUFFICES ASSUME IInv, [Next]_vars PROVE IInv'
    OBVIOUS
  <1>1. StateOK /\ TasksOK /\ Lease /\ Line /\ ClaimNamed /\ queue \in Seq(Lifecycle)
    BY DEF IInv, Lease, StateOK
  <1>2. ASSUME NEW a \in Acquires, AcquireStep(a) PROVE IInv'
    BY <1>1, <1>2, AcquireState, AcquireTasks, AcquireLease, AcquireAside, AsideKeepsLine DEF IInv
  <1>3. ASSUME \/ \E t \in Acquires \cup Releasers : ClearingStep(t)
               \/ \E c \in Clients, deadman \in BOOLEAN : HandleCommand(c, deadman)
               \/ \E r \in Releases, c \in Clients : ReleaseRequested(r, c)
               \/ LeaseTimeout \/ WatchdogPass \/ Silence
        PROVE  IInv'
    <2>1. TasksOK'
      <3>1. CASE \E t \in Acquires \cup Releasers : ClearingStep(t)
        BY <1>1, <3>1, ClearingTasks
      <3>2. CASE \E r \in Releases, c \in Clients : ReleaseRequested(r, c)
        BY <1>1, <3>2, ReleaseTasks DEF ReleaseRequested, BeginRelease, Releasers
      <3>3. CASE LeaseTimeout
        BY <1>1, <3>3, ReleaseTasks DEF LeaseTimeout, BeginRelease, Releasers, ClaimNamed, Leased
      <3>4. CASE UNCHANGED <<pc, call>>
        BY <1>1, <3>4 DEF TasksOK, PcType
      <3>5. QED
        BY <1>3, <3>1, <3>2, <3>3, <3>4 DEF HandleCommand, WatchdogPass, Silence
    <2>2. QED
      BY <1>1, <1>3, <2>1, JoystickState, JoystickLease, JoystickAside, AsideKeepsLine DEF IInv
  <1>4. ASSUME NEW s \in Starts, StartStep(s) PROVE IInv'
    <2>1. pc[s] \notin Idling => queue # <<>>
      <3>1. s \in Lifecycle /\ pc[s] \in Places.start
        BY <1>1 DEF Lifecycle, TasksOK, PcType, Class
      <3>2. QED
        BY <1>1, <3>1, HolderIsHead, WaiterInLine DEF Line, Places, Holding
    <2>2. QED
      BY <1>1, <1>4, <2>1, StartState, StartTasks, StartLease, StartLine DEF IInv
  <1>5. ASSUME NEW t \in Stops \cup Aborts \cup Clears, LifecycleStep(t) PROVE IInv'
    <2>1. pc[t] \notin Idling => queue # <<>>
      <3>1. t \in Lifecycle /\ pc[t] \in Places.stop \cup Places.abort \cup Places.clear
        BY <1>1 DEF Lifecycle, TasksOK, PcType, Class
      <3>2. QED
        BY <1>1, <3>1, HolderIsHead, WaiterInLine DEF Line, Places, Holding
    <2>2. QED
      BY <1>1, <1>5, <2>1, LifecycleState, LifecycleTasks, LifecycleLease, LifecycleLine DEF IInv
  <1>6. ASSUME NEW e \in Emergency, EstopStep(e) PROVE IInv'
    <2>1. pc[e] = "waiting" => queue # <<>>
      BY <1>1, WaiterInLine DEF Line, Lifecycle
    <2>2. QED
      BY <1>1, <1>6, <2>1, EstopState, EstopTasks, EstopLease, EstopLine DEF IInv
  <1>7. ASSUME \/ \E l \in Loads : LoadBegins(l) \/ LoadEnds(l)
               \/ \E l \in DirectLoads : LoadDirectly(l)
               \/ TelemetryStep
        PROVE  IInv'
    <2>1. TasksOK'
      BY <1>1, <1>7, LoadTasks, TelemetryTasks
    <2>2. QED
      BY <1>1, <1>7, <2>1, LoadState, OtherLease, OtherLine DEF IInv
  <1>8. ASSUME \/ \E t \in Tasks : Serve(t)
               \/ ServeLate \/ RppReports \/ PoseArrives \/ HealthChanges
               \/ UNCHANGED vars
        PROVE  IInv'
    BY <1>8, OutsideStep
  <1>9. QED
    BY <1>2, <1>3, <1>4, <1>5, <1>6, <1>7, <1>8 DEF Next

-----------------------------------------------------------------------------
(* The theorems.                                                            *)

LEMMA Invariance == Spec => []IInv
  <1>1. QED
    BY InitIInv, StepIInv, PTL DEF Spec

LEMMA IInvLock == IInv => TransitionHoldsLock
  <1> SUFFICES ASSUME IInv PROVE TransitionHoldsLock
    OBVIOUS
  <1>1. \A t \in Lifecycle : pc[t] \in Holding => queue # <<>> /\ Head(queue) = t
    BY HolderIsHead DEF IInv, StateOK, Line
  <1>2. QED
    BY <1>1 DEF IInv, Line, HeadNamed, TransitionHoldsLock, Holding

(* Every variable of the control plane keeps its type, a task of each kind  *)
(* awaits only where its handler does, and it has a service call of the FCU *)
(* outstanding exactly while it awaits one.                                 *)
THEOREM PlaneTypes == Spec => []TypeOK
  <1>1. IInv => TypeOK
    BY DEF IInv, StateOK, TasksOK, TypeOK
  <1>2. QED
    BY <1>1, Invariance, PTL

(* The lifecycle lock is first come, first served and excludes: whoever is  *)
(* inside or waits stands in its line once, and only the head is inside     *)
(* (offboard_controller.py, the bodies under _lifecycle_lock).              *)
THEOREM LockIsALine == Spec => []LockLine
  <1>1. IInv => LockLine
    BY DEF IInv, Line
  <1>2. QED
    BY <1>1, Invariance, PTL

(* A transitional mission state is the work of the call inside the lock:    *)
(* however calls fail, time out or overtake each other, none is left behind *)
(* when the call has returned.                                              *)
THEOREM TransitionsHoldTheLock == Spec => []TransitionHoldsLock
  BY Invariance, IInvLock, PTL

(* Whoever holds control, somebody is in flight who will give it up, and an *)
(* active lease is watched: for every number of clients, requests and       *)
(* faults, control is never stranded.                                       *)
THEOREM OwnershipNeverStranded == Spec => []OwnershipLives
  <1>1. IInv => OwnershipLives
    BY DEF IInv, Lease
  <1>2. QED
    BY <1>1, Invariance, PTL

-----------------------------------------------------------------------------
(* Two owners.  SingleOwner does not hold of the code for every instance    *)
(* (control_two_starts); what follows says when it does.  A start claims    *)
(* control when it is accepted and gives it up when it returns.  The step   *)
(* below ends the claim while a start is still on its way.                  *)
TakenFromAStart == owner = "mission" /\ owner' # "mission" /\ \E s \in Starts : InFlight(s)'

ClaimStands     == \A s \in Starts : InFlight(s) => owner = "mission"
AcquiringIsOurs == lease.state = "acquiring" => JoystickOwned(owner)
Apart           == ClaimStands /\ SingleOwner

Driven == {"arming", "switching_offboard", "entry", "running"}

LEMMA DrivenActive == Driven \subseteq MissionActive /\ Driven \cap LoadAllowed = {}
  BY DEF Driven, MissionActive, LoadAllowed

LEMMA OursInvariant == Spec => []AcquiringIsOurs
  <1>1. Init => AcquiringIsOurs
    BY DEF Init, Fresh, AcquiringIsOurs, NoLease
  <1>2. IInv /\ AcquiringIsOurs /\ [Next]_vars => AcquiringIsOurs'
    <2> SUFFICES ASSUME IInv, AcquiringIsOurs, [Next]_vars PROVE AcquiringIsOurs'
      OBVIOUS
    <2>1. StateOK
      BY DEF IInv
    <2>2. CASE UNCHANGED <<owner, lease>>
      BY <2>2 DEF AcquiringIsOurs
    <2>3. CASE lease'.state # "acquiring" \/ JoystickOwned(owner')
      BY <2>3 DEF AcquiringIsOurs
    <2>4. ASSUME NEW a \in Acquires, AcquireStep(a) PROVE AcquiringIsOurs'
      BY <2>2, <2>3, <2>4
         DEF AcquireStep, Claim, BarrierPassed, ManualReplied, ManualConfirmed, ArmReplied,
             ArmConfirmed, UndoArmReplied, FailOpen, Grant, StateOK, JoystickOwned, joystickVars
    <2>5. ASSUME NEW t \in Acquires \cup Releasers, ClearingStep(t) PROVE AcquiringIsOurs'
      BY <2>2, <2>3, <2>5 DEF ClearingStep, Flush, ClearLocal, NoLease
    <2>6. ASSUME NEW c \in Clients, NEW deadman \in BOOLEAN, HandleCommand(c, deadman)
          PROVE  AcquiringIsOurs'
      BY <2>1, <2>3, <2>6 DEF HandleCommand, StateOK
    <2>7. ASSUME NEW r, BeginRelease(r) PROVE AcquiringIsOurs'
      BY <2>1, <2>3, <2>7 DEF BeginRelease, StateOK
    <2>8. ASSUME NEW s \in Starts, StartStep(s) PROVE AcquiringIsOurs'
      <3>1. UNCHANGED lease
        BY <2>8 DEF StartStep, Start, StartResumes, StartArmed, StartStreams, StartSwitched, StartUndone,
               joystickVars
      <3>2. JoystickOwned(owner) => owner' = owner
        BY <2>8 DEF StartStep, Start, StartResumes, StartArmed, StartStreams, StartSwitched, StartUndone,
               StartBody, StartReturns, Relinquish, MayClaimMission, joystickVars
      <3>3. QED
        BY <3>1, <3>2 DEF AcquiringIsOurs
    <2>9. ASSUME NEW e \in Emergency, EstopStep(e) PROVE AcquiringIsOurs'
      BY <2>2, <2>3, <2>9 DEF EstopStep, EstopBegins, EstopSwitched, EstopDisarmed, EstopResumes,
             NoLease, joystickVars
    <2>10. ASSUME NEW t \in Stops \cup Aborts \cup Clears, LifecycleStep(t) PROVE AcquiringIsOurs'
      BY <2>2, <2>10 DEF LifecycleStep, LifecycleCall, StopSettles, AbortSwitched, AbortDisarmed,
             joystickVars
    <2>11. CASE \/ \E l \in Loads : LoadBegins(l) \/ LoadEnds(l)
                \/ \E l \in DirectLoads : LoadDirectly(l)
                \/ TelemetryStep \/ WatchdogPass \/ Silence
                \/ \E t \in Tasks : Serve(t)
                \/ ServeLate \/ RppReports \/ PoseArrives \/ HealthChanges
                \/ UNCHANGED vars
      BY <2>2, <2>11 DEF LoadBegins, LoadEnds, LoadDirectly, TelemetryStep, EntryDone, MarkCompleted,
             DisarmOnComplete, WatchdogPass, Silence, Serve, ServeLate, RppReports, PoseArrives,
             HealthChanges, vars, joystickVars
    <2>12. QED
      BY <2>4, <2>5, <2>6, <2>7, <2>8, <2>9, <2>10, <2>11 DEF Next, ReleaseRequested, LeaseTimeout
  <1>3. QED
    BY <1>1, <1>2, Invariance, PTL DEF Spec

(* Nothing but a start's own return ends its claim. *)
LEMMA StillApart ==
  ASSUME Apart, ~TakenFromAStart,
         \A s \in Starts : InFlight(s)' => InFlight(s),
         JoystickOwned(owner') => JoystickOwned(owner) \/ mission' \notin Driven,
         mission' \in Driven => mission \in Driven
  PROVE  Apart'
  BY DEF Apart, ClaimStands, SingleOwner, TakenFromAStart, Driven, JoystickOwned

(* The steps of a task that is no start move no start. *)
LEMMA StartsStay ==
  ASSUME TasksOK, NEW t \in Tasks, t \notin Starts, NEW l, Goto(t, l)
  PROVE  \A s \in Starts : InFlight(s)' => InFlight(s)
  BY Kinds DEF TasksOK, Goto, InFlight

LEMMA AcquireApart ==
  ASSUME TasksOK, StateOK, AcquiringIsOurs, Apart, ~TakenFromAStart, NEW a \in Acquires, AcquireStep(a)
  PROVE  Apart'
  <1> USE Kinds
  <1>1. ASSUME NEW l, Goto(a, l), UNCHANGED <<owner, lease, mission>> PROVE Apart'
    BY <1>1, StartsStay, StillApart
  <1>2. ASSUME FailOpen(a), UNCHANGED mission PROVE Apart'
    BY <1>1, <1>2 DEF FailOpen, Await
  <1>3. ASSUME Grant(a), UNCHANGED mission PROVE Apart'
    <2>1. CASE StillWanted(a) /\ lease' = [lease EXCEPT !.state = "active"]
               /\ owner' = "joystick_active" /\ Goto(a, "done")
      <3>1. JoystickOwned(owner) /\ lease'.state # "acquiring"
        BY <2>1 DEF AcquiringIsOurs, StillWanted, StateOK
      <3>2. QED
        BY <1>3, <2>1, <3>1, StartsStay, StillApart
    <2>2. QED
      BY <1>2, <1>3, <2>1 DEF Grant
  <1>4. CASE Claim(a)
    <2>1. /\ mission \notin Driven /\ mission' = mission
          /\ owner' = "joystick_acquiring"
      BY <1>4, DrivenActive DEF Claim, MayAcquire, missionVars
    <2>2. PICK l : Goto(a, l)
      BY <1>4 DEF Claim
    <2>3. QED
      BY <2>1, <2>2, StartsStay, StillApart DEF JoystickOwned
  <1>5. CASE BarrierPassed(a)
    BY <1>1, <1>5 DEF BarrierPassed, Await, joystickVars, missionVars
  <1>6. CASE ManualReplied(a)
    BY <1>1, <1>2, <1>6 DEF ManualReplied, joystickVars, missionVars
  <1>7. CASE ManualConfirmed(a)
    BY <1>1, <1>2, <1>3, <1>7 DEF ManualConfirmed, Await, missionVars
  <1>8. CASE ArmReplied(a)
    BY <1>1, <1>2, <1>8 DEF ArmReplied, joystickVars, missionVars
  <1>9. CASE ArmConfirmed(a)
    BY <1>2, <1>3, <1>9 DEF ArmConfirmed, missionVars
  <1>10. CASE UndoArmReplied(a)
    BY <1>1, <1>10 DEF UndoArmReplied, joystickVars, missionVars
  <1>11. QED
    BY <1>4, <1>5, <1>6, <1>7, <1>8, <1>9, <1>10 DEF AcquireStep

LEMMA JoystickApart ==
  ASSUME TasksOK, StateOK, Lease, AcquiringIsOurs, Apart, ~TakenFromAStart,
         \/ \E t \in Acquires \cup Releasers : ClearingStep(t)
         \/ \E c \in Clients, deadman \in BOOLEAN : HandleCommand(c, deadman)
         \/ \E r \in Releases, c \in Clients : ReleaseRequested(r, c)
         \/ LeaseTimeout \/ WatchdogPass \/ Silence
  PROVE  Apart'
  <1> USE Kinds
  <1>1. UNCHANGED mission
    BY DEF ClearingStep, Flush, ClearLocal, HandleCommand, ReleaseRequested, LeaseTimeout,
           BeginRelease, WatchdogPass, Silence, missionVars
  <1>2. ASSUME NEW t \in Acquires \cup Releasers, ClearingStep(t) PROVE Apart'
    <2>1. CASE Flush(t)
      BY <1>1, <2>1, StartsStay, StillApart DEF Flush
    <2>2. CASE ClearLocal(t)
      BY <1>1, <2>2, StartsStay, StillApart DEF ClearLocal, Cleared, NoLease, JoystickOwned
    <2>3. QED
      BY <1>2, <2>1, <2>2 DEF ClearingStep
  <1>3. ASSUME NEW c \in Clients, NEW deadman \in BOOLEAN, HandleCommand(c, deadman) PROVE Apart'
    <2>1. JoystickOwned(owner)
      BY <1>3 DEF HandleCommand, MayCommand, Lease, OwnershipLives, LeaseIsWatched
    <2>2. lease'.state # "acquiring" /\ UNCHANGED pc
      BY <1>3 DEF HandleCommand, StateOK
    <2>3. QED
      BY <1>1, <2>1, <2>2, StillApart DEF InFlight
  <1>4. ASSUME NEW r \in Releasers, BeginRelease(r) PROVE Apart'
    <2>1. lease'.state = "releasing" /\ (JoystickOwned(owner') => JoystickOwned(owner))
      BY <1>4 DEF BeginRelease, StateOK, MarkReleasing
    <2>2. QED
      BY <1>1, <1>4, <2>1, StartsStay, StillApart DEF BeginRelease
  <1>5. ASSUME NEW r \in Releases, NEW c \in Clients, ReleaseRequested(r, c) PROVE Apart'
    BY <1>4, <1>5 DEF ReleaseRequested, Releasers
  <1>6. CASE LeaseTimeout
    BY <1>4, <1>6 DEF LeaseTimeout, Releasers, Lease, ClaimNamed, Leased
  <1>7. CASE WatchdogPass \/ Silence
    BY <1>1, <1>7, StillApart DEF WatchdogPass, Silence, InFlight
  <1>8. QED
    BY <1>2, <1>3, <1>5, <1>6, <1>7

LEMMA StartApart ==
  ASSUME TasksOK, StateOK, AcquiringIsOurs, Apart, ~TakenFromAStart, NEW s \in Starts, StartStep(s)
  PROVE  Apart'
  <1> USE Kinds DEF Idling
  <1>1. \A t \in Starts \ {s} : InFlight(t)' => InFlight(t)
    <2>1. PICK l : Goto(s, l)
      BY DEF StartStep, Start, Queues, StartBody, StartReturns, StartResumes, StartArmed,
             StartStreams, StartSwitched, StartUndone, End, Await
    <2>2. QED
      BY <2>1 DEF TasksOK, Goto, InFlight
  <1>2. UNCHANGED lease
    BY DEF StartStep, Start, StartResumes, StartArmed, StartStreams, StartSwitched, StartUndone,
           joystickVars
  <1>3. InFlight(s) => owner = "mission"
    BY DEF Apart, ClaimStands
  <1>4. ASSUME owner' = "mission", InFlight(s)' \/ ~InFlight(s)',
               ~JoystickOwned(owner)
        PROVE  Apart'
    BY <1>1, <1>2, <1>4 DEF Apart, ClaimStands, SingleOwner, JoystickOwned
  <1>5. ASSUME NEW q, NEW own, own = "mission" /\ ~JoystickOwned(owner),
               StartReturns(s, q, own)
        PROVE  Apart'
    <2>1. owner' = "idle" /\ ~InFlight(s)'
      BY <1>5, WentEnd DEF StartReturns, Relinquish, JoystickOwned, InFlight
    <2>2. owner = "mission" => \A t \in Starts : ~InFlight(t)'
      BY <2>1 DEF TakenFromAStart
    <2>3. owner # "mission" => \A t \in Starts : ~InFlight(t)'
      BY <1>1, <2>1 DEF Apart, ClaimStands
    <2>4. QED
      BY <2>1, <2>2, <2>3 DEF Apart, ClaimStands, SingleOwner, JoystickOwned
  <1>6. ASSUME NEW q, StartBody(s, q, "mission"), ~JoystickOwned(owner) PROVE Apart'
    BY <1>4, <1>5, <1>6 DEF StartBody
  <1>7. CASE Start(s)
    BY <1>4, <1>6, <1>7 DEF Start, MayClaimMission
  <1>8. pc[s] \notin Idling => owner = "mission" /\ ~JoystickOwned(owner)
    BY <1>3 DEF InFlight, JoystickOwned
  <1>9. CASE StartResumes(s)
    BY <1>6, <1>8, <1>9 DEF StartResumes, Resumes
  <1>10. CASE StartArmed(s)
    BY <1>4, <1>5, <1>8, <1>10 DEF StartArmed, Replied
  <1>11. CASE StartStreams(s)
    BY <1>4, <1>8, <1>11 DEF StartStreams, joystickVars
  <1>12. CASE StartSwitched(s)
    BY <1>4, <1>5, <1>8, <1>12 DEF StartSwitched, Replied
  <1>13. CASE StartUndone(s)
    BY <1>5, <1>8, <1>13 DEF StartUndone, Replied
  <1>14. QED
    BY <1>7, <1>9, <1>10, <1>11, <1>12, <1>13 DEF StartStep

LEMMA EstopApart ==
  ASSUME TasksOK, StateOK, AcquiringIsOurs, Apart, ~TakenFromAStart, NEW e \in Emergency, EstopStep(e)
  PROVE  Apart'
  <1> USE Kinds
  <1>1. PICK l : Goto(e, l)
    BY DEF EstopStep, EstopBegins, EstopSwitched, EstopDisarmed, EstopResumes, EstopRecords, End, Await
  <1>2. mission' = mission \/ mission' = "aborted"
    BY DEF EstopStep, EstopBegins, EstopSwitched, EstopDisarmed, EstopResumes, EstopRecords, missionVars
  <1>3. \/ owner' = "idle" /\ lease' = NoLease
        \/ UNCHANGED <<owner, lease>>
    BY DEF EstopStep, EstopBegins, EstopSwitched, EstopDisarmed, EstopResumes, Cleared, joystickVars
  <1>4. QED
    BY <1>1, <1>2, <1>3, StartsStay, StillApart
       DEF JoystickOwned, Driven

LEMMA LifecycleApart ==
  ASSUME TasksOK, StateOK, AcquiringIsOurs, Apart, ~TakenFromAStart,
         NEW t \in Stops \cup Aborts \cup Clears, LifecycleStep(t)
  PROVE  Apart'
  <1> USE Kinds
  <1>1. PICK l : Goto(t, l)
    BY DEF LifecycleStep, LifecycleCall, Queues, Body, StopBody, AbortBody, ClearBody, Returns,
           StopSettles, AbortSwitched, AbortDisarmed, End, Await
  <1>2. UNCHANGED <<owner, lease>>
    BY DEF LifecycleStep, LifecycleCall, StopSettles, AbortSwitched, AbortDisarmed, joystickVars
  <1>3. mission' = mission \/ mission' \in {"stopping", "error", "idle", "disarming", "aborted"}
    BY DEF LifecycleStep, LifecycleCall, Body, StopBody, AbortBody, ClearBody,
           StopSettles, AbortSwitched, AbortDisarmed
  <1>4. QED
    BY <1>1, <1>2, <1>3, StartsStay, StillApart DEF Driven

LEMMA OtherApart ==
  ASSUME TasksOK, StateOK, AcquiringIsOurs, Apart, ~TakenFromAStart,
         \/ \E l \in Loads : LoadBegins(l) \/ LoadEnds(l)
         \/ \E l \in DirectLoads : LoadDirectly(l)
         \/ TelemetryStep
         \/ \E t \in Tasks : Serve(t)
         \/ ServeLate \/ RppReports \/ PoseArrives \/ HealthChanges
         \/ UNCHANGED vars
  PROVE  Apart'
  <1> USE Kinds
  <1>1. UNCHANGED <<owner, lease>>
    BY DEF LoadBegins, LoadEnds, LoadDirectly, TelemetryStep, EntryDone, MarkCompleted,
           DisarmOnComplete, Serve, ServeLate, RppReports, PoseArrives, HealthChanges, vars, joystickVars
  <1>2. mission' \in Driven => mission \in Driven
    <2>1. CASE \E l \in Loads : LoadEnds(l)
      <3>1. PICK l \in Loads : LoadEnds(l)
        BY <2>1
      <3>2. prior[l] \in LoadAllowed
        BY DEF StateOK
      <3>3. mission' \in LoadAllowed
        BY <3>1, <3>2 DEF LoadEnds, PathLoaded, LoadAllowed
      <3>4. QED
        BY <3>3, DrivenActive
    <2>2. CASE ~\E l \in Loads : LoadEnds(l)
      BY <2>2 DEF LoadBegins, LoadDirectly, PathLoaded, TelemetryStep, EntryDone, MarkCompleted,
                  DisarmOnComplete, Serve, ServeLate, RppReports, PoseArrives, HealthChanges, vars,
                  missionVars, Driven
    <2>3. QED
      BY <2>1, <2>2
  <1>3. UNCHANGED pc \/ \E t \in Loads \cup DirectLoads \cup {Telemetry}, l \in Place : Goto(t, l)
    <2>1. {"loading", "done", "emitting", "disarming", "idle"} \subseteq Place
      BY PlacesPlace DEF Places, Idling
    <2>2. QED
      BY <2>1 DEF LoadBegins, LoadEnds, LoadDirectly, TelemetryStep, EntryDone, MarkCompleted,
                  DisarmOnComplete, Await, Serve, ServeLate, RppReports, PoseArrives, HealthChanges, vars
  <1>4. \A s \in Starts : InFlight(s)' => InFlight(s)
    BY <1>3, StartsStay DEF InFlight
  <1>5. QED
    BY <1>1, <1>2, <1>4, StillApart

LEMMA StepApart ==
  IInv /\ AcquiringIsOurs /\ Apart /\ [Next]_vars /\ [~TakenFromAStart]_vars => Apart'
  <1> SUFFICES ASSUME IInv, AcquiringIsOurs, Apart, [Next]_vars, [~TakenFromAStart]_vars PROVE Apart'
    OBVIOUS
  <1>1. StateOK /\ TasksOK /\ Lease
    BY DEF IInv
  <1>2. ~TakenFromAStart
    BY DEF TakenFromAStart, vars, joystickVars
  <1>3. QED
    BY <1>1, <1>2, AcquireApart, JoystickApart, StartApart, EstopApart, LifecycleApart, OtherApart
       DEF Next

LEMMA InitApart == Init => Apart
  <1> SUFFICES ASSUME Init PROVE Apart
    OBVIOUS
  <1>1. \A s \in Starts : ~InFlight(s)
    BY Kinds DEF Init, InFlight, Idling
  <1>2. lease.state = "inactive" /\ mission = "idle"
    BY DEF Init, Fresh, NoLease
  <1>3. QED
    BY <1>1, <1>2 DEF Apart, ClaimStands, SingleOwner

(* What can take control from a start: an emergency stop, the end of a      *)
(* joystick release or of a failed acquire, and the return of another start *)
(* that claimed control with it.                                            *)
Takeover ==
  \/ \E e \in Emergency : EstopBegins(e)
  \/ \E t \in Acquires \cup Releasers : ClearLocal(t)
  \/ \E s, t \in Starts : s # t /\ StartStep(s) /\ ~InFlight(s)' /\ InFlight(t)'

(* In code terms, TakenFromAStart is one of three things: the two clears of *)
(* the arbiter that ask nobody (emergency.py, joystick_controller.py) or a  *)
(* second start that relinquishes the claim it shares                       *)
(* (offboard_controller.py, start_async).                                   *)
THEOREM OnlyTakeovers == Spec => [][TakenFromAStart => Takeover]_vars
  <1>1. IInv /\ AcquiringIsOurs /\ [Next]_vars => [TakenFromAStart => Takeover]_vars
    <2> SUFFICES ASSUME IInv, AcquiringIsOurs, Next, TakenFromAStart PROVE Takeover
      BY DEF Takeover
    <2>1. StateOK /\ TasksOK /\ Lease /\ ~JoystickOwned(owner) /\ lease.state # "acquiring" /\ ~Leased
      BY DEF IInv, TakenFromAStart, JoystickOwned, AcquiringIsOurs, Lease, OwnershipLives, LeaseIsWatched
    <2>2. owner = "mission" /\ owner' # owner
      BY DEF TakenFromAStart
    <2>3. ASSUME NEW a \in Acquires, AcquireStep(a) PROVE FALSE
      BY <2>1, <2>2, <2>3
         DEF AcquireStep, Claim, MayAcquire, BarrierPassed, ManualReplied, ManualConfirmed, ArmReplied,
             ArmConfirmed, UndoArmReplied, FailOpen, Grant, StillWanted, joystickVars
    <2>4. ASSUME NEW t \in Acquires \cup Releasers, ClearingStep(t) PROVE Takeover
      BY <2>2, <2>4 DEF ClearingStep, Flush, Takeover
    <2>5. ASSUME NEW c \in Clients, NEW deadman \in BOOLEAN, HandleCommand(c, deadman) PROVE FALSE
      BY <2>1, <2>5 DEF HandleCommand, MayCommand
    <2>6. ASSUME NEW r, BeginRelease(r) PROVE FALSE
      BY <2>1, <2>2, <2>6 DEF BeginRelease, MarkReleasing
    <2>7. ASSUME NEW s \in Starts, StartStep(s) PROVE Takeover
      <3>1. PICK t \in Starts : InFlight(t)'
        BY DEF TakenFromAStart
      <3>2. CASE InFlight(s)'
        <4>1. owner' \in {owner, "mission"}
          <5>1. \A q, own : StartReturns(s, q, own) => ~InFlight(s)'
            BY <2>1, Kinds, WentEnd DEF StartReturns, InFlight
          <5>2. QED
            BY <2>7, <3>2, <5>1 DEF StartStep, Start, StartBody, StartResumes, StartArmed, StartStreams,
                   StartSwitched, StartUndone, joystickVars
        <4>2. QED
          BY <2>2, <4>1
      <3>3. CASE ~InFlight(s)'
        BY <2>7, <3>1, <3>3 DEF Takeover
      <3>4. QED
        BY <3>2, <3>3
    <2>8. ASSUME NEW e \in Emergency, EstopStep(e) PROVE Takeover
      BY <2>2, <2>8 DEF EstopStep, EstopSwitched, EstopDisarmed, EstopResumes, joystickVars, Takeover
    <2>9. ASSUME NEW t \in Stops \cup Aborts \cup Clears, LifecycleStep(t) PROVE FALSE
      BY <2>2, <2>9 DEF LifecycleStep, LifecycleCall, StopSettles, AbortSwitched, AbortDisarmed,
             joystickVars
    <2>10. CASE \/ \E l \in Loads : LoadBegins(l) \/ LoadEnds(l)
                \/ \E l \in DirectLoads : LoadDirectly(l)
                \/ TelemetryStep \/ WatchdogPass \/ Silence
                \/ \E t \in Tasks : Serve(t)
                \/ ServeLate \/ RppReports \/ PoseArrives \/ HealthChanges
      BY <2>2, <2>10 DEF LoadBegins, LoadEnds, LoadDirectly, TelemetryStep, EntryDone, MarkCompleted,
             DisarmOnComplete, WatchdogPass, Silence, Serve, ServeLate, RppReports, PoseArrives,
             HealthChanges, joystickVars
    <2>11. QED
      BY <2>3, <2>4, <2>5, <2>6, <2>7, <2>8, <2>9, <2>10 DEF Next, ReleaseRequested, LeaseTimeout
  <1>2. QED
    BY <1>1, Invariance, OursInvariant, PTL DEF Spec

(* Mission and joystick are never in control together, for any clients,     *)
(* requests and faults, as long as no start loses its claim on the way: the *)
(* three takeovers above are the only ways to two owners, and               *)
(* control_two_starts shows one of them.  The claims of the arbiter and the *)
(* mission-active test of an acquire carry the rest                         *)
(* (control_arbiter.py, acquire_joystick and claim_mission).                *)
THEOREM OneOwnerUnlessTaken == Spec /\ [][~TakenFromAStart]_vars => []SingleOwner
  <1>1. Apart => SingleOwner
    BY DEF Apart
  <1>2. QED
    BY <1>1, InitApart, StepApart, Invariance, OursInvariant, PTL DEF Spec

-----------------------------------------------------------------------------
(* Tracking.  DrivingIsTracked fails with an emergency stop, a load, a      *)
(* request of the FCU that fails or a stop without a pose                   *)
(* (control_estop_start, and the traces of the README).  What follows shows *)
(* that nothing else is needed: starts, stops, aborts, clears, unguarded    *)
(* loads, completions and changes of health never lose track of the rover.  *)
Undisturbed ==
  /\ posed /\ faults = MaxFaults
  /\ \A t \in Acquires \cup Loads \cup Emergency : ~InFlight(t)

Asked ==
  [arming |-> "ARM", switching |-> "OFFBOARD", undo_start |-> "DISARM", abort_mode |-> "MANUAL",
   abort_disarm |-> "DISARM", disarming |-> "DISARM"]

(* A settled DONE is about the path that RPP has. *)
SettledIsDone == settled /\ path \in {"entry", "mark"} => rpp = "done"

(* Whoever awaits the FCU has asked for what his place says, or has it. *)
AsksItsOwn ==
  late = {} /\ \A t \in Tasks : pc[t] \in Calling => pc[t] \in DOMAIN Asked /\ call[t] \in {Asked[pc[t]], "ok"}

(* A disarm under the lock stays in force until its call returns. *)
Disarmed == \A t \in Lifecycle : pc[t] \in {"abort_disarm", "undo_start"} /\ call[t] = "ok" => ~armed

(* Who is inside the lock finds the mission state as he left it. *)
AsLeft ==
  /\ \A s \in Starts : /\ pc[s] = "arming" => mission = "arming"
                       /\ pc[s] \in {"grace", "switching"} => mission = "switching_offboard"
  /\ \A t \in Stops : pc[t] = "settling" => mission = "stopping" /\ path = "stop"

Tracked == SettledIsDone /\ AsksItsOwn /\ Disarmed /\ AsLeft /\ DrivingIsTracked

(* Two calls are never both inside the lock. *)
LEMMA OneInside ==
  ASSUME IInv, NEW t \in Lifecycle, NEW u \in Lifecycle, pc[t] \in Holding, pc[u] \in Holding
  PROVE  t = u
  BY HolderIsHead DEF IInv, StateOK, Line

(* A step of one task that ends no service call outstanding. *)
LEMMA OthersAsk ==
  ASSUME TasksOK, NEW t \in Tasks, NEW l, Goto(t, l)
  PROVE  pc'[t] = l /\ \A u \in Tasks \ {t} : pc'[u] = pc[u]
  BY DEF TasksOK, Goto

LEMMA OthersCall ==
  ASSUME TasksOK, NEW t \in Tasks, NEW req, call' = [call EXCEPT ![t] = req]
  PROVE  call'[t] = req /\ \A u \in Tasks \ {t} : call'[u] = call[u]
  BY DEF TasksOK

(* What the steps of tasks keep.  A task that moves without a service call. *)
LEMMA AskMoved ==
  ASSUME TasksOK, AsksItsOwn, NEW t \in Tasks, NEW l, Goto(t, l), l \notin Calling,
         UNCHANGED late, UNCHANGED call \/ Hangup(t)
  PROVE  AsksItsOwn'
  <1>1. \A u \in Tasks \ {t} : pc'[u] = pc[u] /\ call'[u] = call[u]
    BY OthersAsk, OthersCall DEF Hangup
  <1>2. pc'[t] = l
    BY OthersAsk
  <1>3. QED
    BY <1>1, <1>2 DEF AsksItsOwn

LEMMA AskCalled ==
  ASSUME TasksOK, AsksItsOwn, NEW t \in Tasks, NEW l \in DOMAIN Asked, Await(t, l, Asked[l]),
         UNCHANGED late
  PROVE  AsksItsOwn'
  <1>1. \A u \in Tasks \ {t} : pc'[u] = pc[u] /\ call'[u] = call[u]
    BY OthersAsk, OthersCall DEF Await
  <1>2. pc'[t] = l /\ call'[t] = Asked[l]
    BY OthersAsk, OthersCall DEF Await
  <1>3. QED
    BY <1>1, <1>2 DEF AsksItsOwn
(* Where a task awaits the lock or the FCU says of what kind it is. *)
LEMMA PlaceTellsKind ==
  ASSUME TasksOK, NEW t \in Tasks
  PROVE  /\ pc[t] \in {"arming", "grace", "switching", "undo_start"} => t \in Starts
         /\ pc[t] \in {"abort_mode", "abort_disarm"} => t \in Aborts
         /\ pc[t] = "disarming" => t = Telemetry
         /\ pc[t] = "settling" => t \in Stops
  <1>1. \A k \in DOMAIN Class : t \in Class[k] => pc[t] \in Places[k]
    BY DEF TasksOK, PcType
  <1>2. \E k \in DOMAIN Class : t \in Class[k]
    BY DEF Tasks, Lifecycle, Class
  <1>3. PICK k \in DOMAIN Class : t \in Class[k] /\ pc[t] \in Places[k]
    BY <1>1, <1>2
  <1>4. QED
    BY <1>3 DEF Class, Places, Idling

LEMMA NobodyElse ==
  ASSUME IInv, NEW t \in Lifecycle,
         queue = <<>> \/ Head(queue) = t \/ pc[t] \in Holding
  PROVE  \A u \in Lifecycle \ {t} : pc[u] \notin Holding
  BY HolderIsHead DEF IInv, StateOK, Line

(* A step of the call inside the lock. *)
LEMMA HeadTracked ==
  ASSUME IInv, Tracked, NEW t \in Lifecycle, NEW l, Goto(t, l), UNCHANGED fcuVars,
         \A u \in Lifecycle \ {t} : pc[u] \notin Holding,
         AsksItsOwn', SettledIsDone', DrivingIsTracked',
         l \in {"abort_disarm", "undo_start"} => call'[t] # "ok",
         l = "arming" => mission' = "arming",
         l \in {"grace", "switching"} => mission' = "switching_offboard",
         l = "settling" => mission' = "stopping" /\ path' = "stop"
  PROVE  Tracked'
  <1>1. pc'[t] = l /\ \A u \in Lifecycle \ {t} : pc'[u] = pc[u]
    BY OthersAsk DEF IInv, Tasks
  <1>2. Disarmed'
    BY <1>1 DEF Disarmed, Holding
  <1>3. AsLeft'
    BY <1>1 DEF AsLeft, Holding, Lifecycle
  <1>4. QED
    BY <1>2, <1>3 DEF Tracked

LEMMA StartTracked ==
  ASSUME IInv, Tracked, Undisturbed, NEW s \in Starts, StartStep(s)
  PROVE  Tracked'
  <1>1. /\ s \in Tasks /\ s \in Lifecycle /\ TasksOK /\ StateOK /\ AsksItsOwn
        /\ SettledIsDone /\ DrivingIsTracked
    BY DEF IInv, Tracked, Tasks, Lifecycle
  <1>2. call[s] # "failed"
    BY <1>1 DEF AsksItsOwn, TasksOK, Asked, Calling
  <1>3. ASSUME NEW q, NEW own, StartReturns(s, q, own), UNCHANGED <<rppVars, fcuVars>>,
               UNCHANGED call \/ Hangup(s), \A u \in Lifecycle \ {s} : pc[u] \notin Holding,
               DrivingIsTracked'
        PROVE  Tracked'
    <2>1. PICK l \in Idling : Goto(s, l)
      BY <1>3 DEF StartReturns, End, Idling
    <2>2. l \notin Calling /\ l \notin Holding
      BY DEF Idling, Calling, Holding
    <2>3. AsksItsOwn'
      BY <1>1, <1>3, <2>1, <2>2, AskMoved DEF fcuVars
    <2>4. SettledIsDone'
      BY <1>1, <1>3 DEF SettledIsDone, rppVars
    <2>5. QED
      BY <1>1, <1>3, <2>1, <2>2, <2>3, <2>4, HeadTracked DEF Holding
  <1>4. ASSUME NEW q, NEW own, StartBody(s, q, own), UNCHANGED fcuVars,
               \A u \in Lifecycle \ {s} : pc[u] \notin Holding
        PROVE  Tracked'
    <2>1. CASE /\ mission \in MissionActive /\ StartReturns(s, q, own)
               /\ UNCHANGED <<mission, stash, rppVars, call, twoPhase, faults>>
      BY <1>1, <1>3, <1>4, <2>1 DEF DrivingIsTracked, rppVars, fcuVars
    <2>2. CASE /\ mission \notin MissionActive /\ mission' = "error" /\ StartReturns(s, q, own)
               /\ UNCHANGED <<stash, rppVars, call, twoPhase>>
      BY <1>1, <1>3, <1>4, <2>2 DEF DrivingIsTracked, rppVars, fcuVars
    <2>3. CASE mission' = "arming" /\ settled' = FALSE /\ Await(s, "arming", "ARM")
      <3>1. AsksItsOwn'
        BY <1>1, <1>4, <2>3, AskCalled DEF Asked, fcuVars
      <3>2. SettledIsDone' /\ DrivingIsTracked'
        BY <2>3 DEF SettledIsDone, DrivingIsTracked, MissionActive
      <3>3. Goto(s, "arming")
        BY <2>3 DEF Await
      <3>4. QED
        BY <1>1, <1>4, <2>3, <3>1, <3>2, <3>3, HeadTracked
    <2>4. QED
      BY <1>4, <2>1, <2>2, <2>3 DEF StartBody
  <1>5. CASE Start(s)
    <2>1. CASE Enters(s) /\ StartBody(s, <<s>>, "mission")
      BY <1>1, <1>4, <1>5, <2>1, NobodyElse DEF Start, Enters
    <2>2. CASE Queues(s) /\ UNCHANGED <<mission, stash, rppVars, call, twoPhase, faults>>
      <3>1. Goto(s, "waiting") /\ UNCHANGED fcuVars
        BY <1>5, <2>2 DEF Start, Queues
      <3>2. AsksItsOwn' /\ pc'[s] = "waiting" /\ \A u \in Tasks \ {s} : pc'[u] = pc[u]
        BY <1>1, <2>2, <3>1, AskMoved, OthersAsk DEF Calling, fcuVars
      <3>3. Disarmed' /\ AsLeft'
        BY <2>2, <3>1, <3>2 DEF Disarmed, AsLeft, Tracked, fcuVars, rppVars, Lifecycle, Tasks
      <3>4. SettledIsDone' /\ DrivingIsTracked'
        BY <1>1, <2>2, <3>1 DEF SettledIsDone, DrivingIsTracked, fcuVars, rppVars
      <3>5. QED
        BY <3>2, <3>3, <3>4 DEF Tracked
    <2>3. QED
      BY <1>5, <2>1, <2>2 DEF Start
  <1>6. CASE StartResumes(s)
    BY <1>1, <1>4, <1>6, NobodyElse DEF StartResumes, Resumes
  <1>7. CASE StartArmed(s)
    <2>1. call[s] = "ok" /\ pc[s] \in Holding
      BY <1>2, <1>7 DEF StartArmed, Replied, Holding
    <2>2. /\ mission' = "switching_offboard" /\ Goto(s, "grace") /\ Hangup(s)
          /\ UNCHANGED <<rppVars, fcuVars>>
      BY <1>7, <2>1 DEF StartArmed
    <2>3. AsksItsOwn'
      BY <1>1, <2>2, AskMoved DEF Calling, fcuVars
    <2>4. SettledIsDone' /\ DrivingIsTracked'
      BY <1>1, <2>2 DEF SettledIsDone, DrivingIsTracked, MissionActive, rppVars
    <2>5. QED
      BY <1>1, <2>1, <2>2, <2>3, <2>4, NobodyElse, HeadTracked
  <1>8. CASE StartStreams(s)
    <2>1. pc[s] \in Holding /\ mission = "switching_offboard" /\ UNCHANGED <<rppVars, fcuVars>>
      BY <1>8 DEF StartStreams, Holding, Tracked, AsLeft
    <2>2. SettledIsDone'
      BY <1>1, <2>1 DEF SettledIsDone, rppVars
    <2>3. CASE Await(s, "undo_start", "DISARM")
      <3>1. AsksItsOwn' /\ call'[s] = "DISARM" /\ Goto(s, "undo_start")
        BY <1>1, <2>1, <2>3, AskCalled, OthersCall DEF Asked, Await, fcuVars
      <3>2. DrivingIsTracked'
        BY <1>1, <3>1 DEF DrivingIsTracked
      <3>3. QED
        BY <1>1, <2>1, <2>2, <3>1, <3>2, NobodyElse, HeadTracked
    <2>4. CASE Await(s, "switching", "OFFBOARD") /\ UNCHANGED mission
      <3>1. AsksItsOwn' /\ Goto(s, "switching")
        BY <1>1, <2>1, <2>4, AskCalled DEF Asked, Await, fcuVars
      <3>2. DrivingIsTracked'
        BY <2>1, <2>4 DEF DrivingIsTracked, MissionActive
      <3>3. QED
        BY <1>1, <2>1, <2>2, <2>4, <3>1, <3>2, NobodyElse, HeadTracked
    <2>5. QED
      BY <1>8, <2>3, <2>4 DEF StartStreams
  <1>9. CASE StartSwitched(s)
    <2>1. call[s] = "ok" /\ pc[s] \in Holding
      BY <1>2, <1>9 DEF StartSwitched, Replied, Holding
    <2>2. /\ mission' \in {"entry", "running"} /\ StartReturns(s, queue, owner) /\ Hangup(s)
          /\ UNCHANGED <<rppVars, fcuVars>>
      BY <1>9, <2>1 DEF StartSwitched
    <2>3. DrivingIsTracked'
      BY <2>2 DEF DrivingIsTracked, MissionActive
    <2>4. QED
      BY <1>1, <1>3, <2>1, <2>2, <2>3, NobodyElse
  <1>10. CASE StartUndone(s)
    <2>1. call[s] = "ok" /\ pc[s] = "undo_start" /\ pc[s] \in Holding
      BY <1>2, <1>10 DEF StartUndone, Replied, Holding
    <2>2. StartReturns(s, queue, owner) /\ Hangup(s) /\ UNCHANGED <<rppVars, fcuVars>>
      BY <1>10 DEF StartUndone
    <2>3. DrivingIsTracked'
      BY <1>1, <2>1, <2>2 DEF Tracked, Disarmed, DrivingIsTracked, fcuVars
    <2>4. QED
      BY <1>1, <1>3, <2>1, <2>2, <2>3, NobodyElse
  <1>11. QED
    BY <1>5, <1>6, <1>7, <1>8, <1>9, <1>10 DEF StartStep

LEMMA LifecycleTracked ==
  ASSUME IInv, Tracked, Undisturbed, NEW t \in Stops \cup Aborts \cup Clears, LifecycleStep(t)
  PROVE  Tracked'
  <1>1. /\ t \in Tasks /\ t \in Lifecycle /\ TasksOK /\ StateOK /\ AsksItsOwn
        /\ SettledIsDone /\ DrivingIsTracked
    BY DEF IInv, Tracked, Tasks, Lifecycle
  <1>2. call[t] # "failed"
    BY <1>1 DEF AsksItsOwn, TasksOK, Asked, Calling
  <1>3. ASSUME NEW q, Returns(t, q), UNCHANGED fcuVars, UNCHANGED call \/ Hangup(t),
               \A u \in Lifecycle \ {t} : pc[u] \notin Holding,
               SettledIsDone', DrivingIsTracked'
        PROVE  Tracked'
    <2>1. PICK l \in Idling : Goto(t, l)
      BY <1>3 DEF Returns, End, Idling
    <2>2. l \notin Calling /\ l \notin Holding
      BY DEF Idling, Calling, Holding
    <2>3. AsksItsOwn'
      BY <1>1, <1>3, <2>1, <2>2, AskMoved DEF fcuVars
    <2>4. QED
      BY <1>1, <1>3, <2>1, <2>2, <2>3, HeadTracked DEF Holding
  <1>4. StopPath => path' = "stop"
    BY DEF StopPath, StopPublished, NoPose, Undisturbed
  <1>5. ASSUME NEW q, Body(t, q), UNCHANGED fcuVars,
               \A u \in Lifecycle \ {t} : pc[u] \notin Holding
        PROVE  Tracked'
    <2>1. CASE StopBody(t, q)
      <3>1. CASE StopPublished /\ mission' = "stopping" /\ Goto(t, "settling") /\ UNCHANGED call
        <4>1. path' = "stop"
          BY <3>1 DEF StopPublished
        <4>2. AsksItsOwn'
          BY <1>1, <1>5, <3>1, AskMoved DEF Calling, fcuVars
        <4>3. SettledIsDone' /\ DrivingIsTracked'
          BY <4>1 DEF SettledIsDone, DrivingIsTracked
        <4>4. QED
          BY <1>1, <1>5, <3>1, <4>1, <4>2, <4>3, HeadTracked
      <3>2. CASE Returns(t, q) /\ UNCHANGED <<call, mission, rppVars>>
        BY <1>1, <1>3, <1>5, <3>2 DEF SettledIsDone, DrivingIsTracked, fcuVars, rppVars
      <3>3. QED
        BY <2>1, <3>1, <3>2 DEF StopBody, NoPose, Undisturbed
    <2>2. CASE AbortBody(t, q)
      <3>1. CASE Returns(t, q) /\ UNCHANGED <<mission, rppVars, call>>
        BY <1>1, <1>3, <1>5, <3>1 DEF SettledIsDone, DrivingIsTracked, fcuVars, rppVars
      <3>2. CASE StopPath /\ Await(t, "abort_mode", "MANUAL")
        <4>1. AsksItsOwn' /\ Goto(t, "abort_mode")
          BY <1>1, <1>5, <3>2, AskCalled DEF Asked, Await, fcuVars
        <4>2. SettledIsDone' /\ DrivingIsTracked'
          BY <1>4, <3>2 DEF SettledIsDone, DrivingIsTracked
        <4>3. QED
          BY <1>1, <1>5, <4>1, <4>2, HeadTracked
      <3>3. QED
        BY <2>2, <3>1, <3>2 DEF AbortBody
    <2>3. CASE ClearBody(t, q)
      <3>1. Returns(t, q) /\ UNCHANGED <<rppVars, call>>
        BY <2>3 DEF ClearBody
      <3>2. mission' = mission \/ mission \notin MissionActive
        BY <2>3 DEF ClearBody, MissionActive
      <3>3. SettledIsDone' /\ DrivingIsTracked'
        BY <1>1, <1>5, <3>1, <3>2 DEF SettledIsDone, DrivingIsTracked, fcuVars, rppVars
      <3>4. QED
        BY <1>3, <1>5, <3>1, <3>3
    <2>4. QED
      BY <1>5, <2>1, <2>2, <2>3 DEF Body
  <1>6. CASE LifecycleCall(t)
    <2>1. UNCHANGED fcuVars
      BY <1>6 DEF LifecycleCall
    <2>2. CASE Enters(t) /\ Body(t, <<t>>)
      BY <1>1, <1>5, <2>1, <2>2, NobodyElse DEF Enters
    <2>3. CASE Queues(t) /\ UNCHANGED <<mission, loaded, stash, rppVars, call, faults>>
      <3>1. Goto(t, "waiting")
        BY <2>3 DEF Queues
      <3>2. AsksItsOwn' /\ pc'[t] = "waiting" /\ \A u \in Tasks \ {t} : pc'[u] = pc[u]
        BY <1>1, <2>1, <2>3, <3>1, AskMoved, OthersAsk DEF Calling, fcuVars
      <3>3. Disarmed' /\ AsLeft'
        BY <2>1, <2>3, <3>2 DEF Disarmed, AsLeft, Tracked, fcuVars, rppVars, Lifecycle, Tasks
      <3>4. SettledIsDone' /\ DrivingIsTracked'
        BY <1>1, <2>1, <2>3 DEF SettledIsDone, DrivingIsTracked, fcuVars, rppVars
      <3>5. QED
        BY <3>2, <3>3, <3>4 DEF Tracked
    <2>4. CASE Resumes(t) /\ Body(t, queue)
      BY <1>1, <1>5, <2>1, <2>4, NobodyElse DEF Resumes
    <2>5. QED
      BY <1>6, <2>2, <2>3, <2>4 DEF LifecycleCall
  <1>7. CASE StopSettles(t)
    <2>1. pc[t] = "settling" /\ pc[t] \in Holding /\ t \in Stops
      BY <1>1, <1>7, PlaceTellsKind DEF StopSettles, Holding
    <2>2. path' = "stop" /\ Returns(t, queue) /\ UNCHANGED <<call, fcuVars>>
      BY <1>7, <2>1 DEF StopSettles, Tracked, AsLeft, rppVars
    <2>3. SettledIsDone' /\ DrivingIsTracked'
      BY <2>2 DEF SettledIsDone, DrivingIsTracked
    <2>4. QED
      BY <1>1, <1>3, <2>1, <2>2, <2>3, NobodyElse
  <1>8. CASE AbortSwitched(t)
    <2>1. pc[t] \in Holding /\ UNCHANGED <<rppVars, fcuVars>>
      BY <1>8 DEF AbortSwitched, Replied, Holding
    <2>2. mission' = "disarming" /\ Await(t, "abort_disarm", "DISARM")
      BY <1>8 DEF AbortSwitched
    <2>3. AsksItsOwn' /\ call'[t] = "DISARM" /\ Goto(t, "abort_disarm")
      BY <1>1, <2>1, <2>2, AskCalled, OthersCall DEF Asked, Await, fcuVars
    <2>4. SettledIsDone' /\ DrivingIsTracked'
      BY <1>1, <2>1, <2>2 DEF SettledIsDone, DrivingIsTracked, MissionActive, rppVars
    <2>5. QED
      BY <1>1, <2>1, <2>3, <2>4, NobodyElse, HeadTracked
  <1>9. CASE AbortDisarmed(t)
    <2>1. call[t] = "ok" /\ pc[t] = "abort_disarm" /\ pc[t] \in Holding
      BY <1>2, <1>9 DEF AbortDisarmed, Replied, Holding
    <2>2. Returns(t, queue) /\ Hangup(t) /\ UNCHANGED <<rppVars, fcuVars>>
      BY <1>9 DEF AbortDisarmed
    <2>3. SettledIsDone' /\ DrivingIsTracked'
      BY <1>1, <2>1, <2>2 DEF Tracked, Disarmed, SettledIsDone, DrivingIsTracked, fcuVars, rppVars
    <2>4. QED
      BY <1>1, <1>3, <2>1, <2>2, <2>3, NobodyElse
  <1>10. QED
    BY <1>6, <1>7, <1>8, <1>9 DEF LifecycleStep

(* What a step keeps that touches neither the FCU nor a lifecycle call. *)
LEMMA AsideTracked ==
  ASSUME Tracked, UNCHANGED fcuVars, \A u \in Lifecycle : pc'[u] = pc[u] /\ call'[u] = call[u],
         AsksItsOwn', SettledIsDone', DrivingIsTracked',
         UNCHANGED path \/ mission \in {"entry", "running"},
         UNCHANGED mission \/ mission \notin {"arming", "switching_offboard", "stopping"}
  PROVE  Tracked'
  BY DEF Tracked, Disarmed, AsLeft, fcuVars, Lifecycle

LEMMA TelemetryTracked ==
  ASSUME IInv, Tracked, TelemetryStep PROVE Tracked'
  <1>1. /\ TasksOK /\ AsksItsOwn /\ SettledIsDone /\ DrivingIsTracked /\ Telemetry \in Tasks \ Lifecycle
    BY OutOfLine DEF IInv, Tracked
  <1>2. CASE EntryDone
    <2>1. UNCHANGED <<call, fcuVars>> /\ mission = "entry"
      BY <1>2 DEF EntryDone
    <2>2. AsksItsOwn' /\ \A u \in Lifecycle : pc'[u] = pc[u]
      <3>1. CASE UNCHANGED pc
        BY <1>1, <2>1, <3>1 DEF AsksItsOwn, fcuVars
      <3>2. CASE Goto(Telemetry, "emitting")
        BY <1>1, <2>1, <3>2, AskMoved, OthersAsk DEF Calling, fcuVars, Tasks
      <3>3. QED
        BY <1>2, <3>1, <3>2 DEF EntryDone
    <2>3. SettledIsDone' /\ DrivingIsTracked'
      BY <1>1, <1>2 DEF EntryDone, SettledIsDone, DrivingIsTracked, MissionActive, rppVars, fcuVars
    <2>4. QED
      BY <2>1, <2>2, <2>3, AsideTracked
  <1>3. CASE MarkCompleted
    <2>1. UNCHANGED <<call, fcuVars, rppVars>> /\ mission = "running" /\ Goto(Telemetry, "emitting")
      BY <1>3 DEF MarkCompleted
    <2>2. AsksItsOwn' /\ \A u \in Lifecycle : pc'[u] = pc[u]
      BY <1>1, <2>1, AskMoved, OthersAsk DEF Calling, fcuVars, Tasks
    <2>3. SettledIsDone' /\ DrivingIsTracked'
      BY <1>1, <1>3 DEF MarkCompleted, SettledIsDone, DrivingIsTracked, rppVars, fcuVars
    <2>4. QED
      BY <2>1, <2>2, <2>3, AsideTracked DEF rppVars
  <1>4. CASE DisarmOnComplete
    <2>1. UNCHANGED <<mission, rppVars, fcuVars>>
      BY <1>4 DEF DisarmOnComplete, missionVars
    <2>2. CASE Await(Telemetry, "disarming", "DISARM") /\ pc[Telemetry] = "emitting"
      <3>1. /\ AsksItsOwn'
            /\ \A u \in Tasks \ {Telemetry} : pc'[u] = pc[u] /\ call'[u] = call[u]
        BY <1>1, <2>1, <2>2, AskCalled, OthersAsk, OthersCall DEF Asked, Await, fcuVars
      <3>2. call'[Telemetry] = "DISARM"
        BY <1>1, <2>2, OthersCall DEF Await
      <3>3. SettledIsDone' /\ DrivingIsTracked'
        BY <1>1, <2>1, <3>2 DEF SettledIsDone, DrivingIsTracked, rppVars
      <3>4. QED
        BY <1>1, <2>1, <3>1, <3>3, AsideTracked DEF rppVars, Tasks
    <2>3. CASE Replied(Telemetry, "disarming") /\ Goto(Telemetry, "idle") /\ Hangup(Telemetry)
      <3>1. /\ AsksItsOwn'
            /\ \A u \in Tasks \ {Telemetry} : pc'[u] = pc[u] /\ call'[u] = call[u]
        BY <1>1, <2>1, <2>3, AskMoved, OthersAsk, OthersCall DEF Calling, Hangup, fcuVars
      <3>2. call[Telemetry] \notin {"DISARM", "MANUAL"}
        BY <2>3 DEF Replied
      <3>3. SettledIsDone' /\ DrivingIsTracked'
        BY <1>1, <2>1, <3>1, <3>2 DEF SettledIsDone, DrivingIsTracked, rppVars, fcuVars
      <3>4. QED
        BY <1>1, <2>1, <3>1, <3>3, AsideTracked DEF rppVars, Tasks
    <2>4. QED
      BY <1>4, <2>2, <2>3 DEF DisarmOnComplete
  <1>5. QED
    BY <1>2, <1>3, <1>4 DEF TelemetryStep

LEMMA NoFault == ASSUME StateOK, Undisturbed, Undisturbed' PROVE ~SpendFault
  BY PlaneAssumption DEF Undisturbed, SpendFault, StateOK

LEMMA ServeTracked ==
  ASSUME IInv, Tracked, Undisturbed, Undisturbed', NEW t \in Tasks, Serve(t) PROVE Tracked'
  <1>1. /\ StateOK /\ TasksOK /\ AsksItsOwn /\ ~SpendFault
    BY NoFault DEF IInv, Tracked
  <1>2. /\ pc[t] \in Calling /\ pc[t] \in DOMAIN Asked /\ call[t] = Asked[pc[t]]
    BY <1>1 DEF Serve, TasksOK, AsksItsOwn, Request
  <1>3. /\ Effect(call[t]) /\ Answer(t, "ok") /\ UNCHANGED late
        /\ UNCHANGED <<pc, mission, path, rpp, settled>>
    BY <1>1 DEF Serve, missionVars, rppVars
  <1>4. call'[t] = "ok" /\ \A u \in Tasks \ {t} : call'[u] = call[u]
    BY <1>1, <1>3, OthersCall DEF Answer
  <1>5. AsksItsOwn' /\ SettledIsDone' /\ AsLeft'
    BY <1>1, <1>2, <1>3, <1>4 DEF Tracked, AsksItsOwn, SettledIsDone, AsLeft
  <1>6. CASE pc[t] \in {"undo_start", "abort_disarm", "disarming"}
    <2>1. armed' = FALSE
      BY <1>2, <1>3, <1>6 DEF Effect, Asked
    <2>2. QED
      BY <1>5, <2>1 DEF Tracked, Disarmed, DrivingIsTracked
  <1>7. CASE pc[t] = "abort_mode"
    <2>1. armed' = armed /\ mode' = "MANUAL"
      BY <1>2, <1>3, <1>7 DEF Effect, Asked
    <2>2. Disarmed'
      BY <1>3, <1>4, <1>7, <2>1 DEF Tracked, Disarmed, Lifecycle, Tasks
    <2>3. QED
      BY <1>5, <2>1, <2>2 DEF Tracked, DrivingIsTracked
  <1>8. CASE pc[t] \in {"arming", "switching"}
    <2>1. t \in Starts /\ t \in Lifecycle /\ pc[t] \in Holding
      BY <1>1, <1>8, PlaceTellsKind DEF Lifecycle, Holding
    <2>2. mission' \in {"arming", "switching_offboard"}
      BY <1>3, <1>8, <2>1 DEF Tracked, AsLeft
    <2>3. \A u \in Lifecycle : pc[u] \in Holding => u = t
      BY <2>1, OneInside
    <2>4. Disarmed'
      BY <1>3, <1>8, <2>3 DEF Disarmed, Holding
    <2>5. QED
      BY <1>5, <2>2, <2>4 DEF Tracked, DrivingIsTracked, MissionActive
  <1>9. QED
    BY <1>2, <1>6, <1>7, <1>8 DEF Asked

LEMMA OtherTracked ==
  ASSUME IInv, Tracked, Undisturbed, Undisturbed',
         \/ \E t \in Acquires \cup Releasers : ClearingStep(t)
         \/ \E c \in Clients, deadman \in BOOLEAN : HandleCommand(c, deadman)
         \/ \E r \in Releasers : BeginRelease(r)
         \/ WatchdogPass \/ Silence
         \/ \E l \in DirectLoads : LoadDirectly(l)
         \/ ServeLate \/ RppReports \/ PoseArrives \/ HealthChanges
         \/ UNCHANGED vars
  PROVE  Tracked'
  <1>1. TasksOK /\ AsksItsOwn /\ SettledIsDone /\ DrivingIsTracked /\ late = {}
    BY DEF IInv, Tracked, AsksItsOwn
  <1>2. UNCHANGED call
    BY <1>1 DEF ClearingStep, Flush, ClearLocal, HandleCommand, BeginRelease, WatchdogPass, Silence,
       LoadDirectly, ServeLate, RppReports, PoseArrives, HealthChanges, vars
  <1>3. UNCHANGED fcuVars
    BY <1>1 DEF ClearingStep, Flush, ClearLocal, HandleCommand, BeginRelease, WatchdogPass, Silence,
       LoadDirectly, ServeLate, RppReports, PoseArrives, HealthChanges, vars
  <1>4. UNCHANGED pc \/ \E t \in Tasks \ Lifecycle, l \in {"flushing", "flushed", "done"} : Goto(t, l)
    BY OutOfLine DEF ClearingStep, Flush, ClearLocal, HandleCommand, BeginRelease, WatchdogPass, Silence,
       LoadDirectly, ServeLate, RppReports, PoseArrives, HealthChanges, vars
  <1>5. AsksItsOwn' /\ \A u \in Lifecycle : pc'[u] = pc[u]
    <2>1. CASE UNCHANGED pc
      BY <1>1, <1>2, <1>3, <2>1 DEF AsksItsOwn, fcuVars
    <2>2. ASSUME NEW t \in Tasks \ Lifecycle, NEW l \in {"flushing", "flushed", "done"}, Goto(t, l)
          PROVE  AsksItsOwn' /\ \A u \in Lifecycle : pc'[u] = pc[u]
      BY <1>1, <1>2, <1>3, <2>2, AskMoved, OthersAsk DEF Calling, fcuVars, Tasks
    <2>3. QED
      BY <1>4, <2>1, <2>2
  <1>6. UNCHANGED path /\ (rpp' = rpp \/ rpp' = "done")
    BY DEF ClearingStep, Flush, ClearLocal, HandleCommand, BeginRelease, WatchdogPass, Silence,
       LoadDirectly, PathLoaded, ServeLate, RppReports, PoseArrives, HealthChanges, vars, rppVars
  <1>7. settled' => settled \/ rpp' = "done"
    BY DEF ClearingStep, Flush, ClearLocal, HandleCommand, BeginRelease, WatchdogPass, Silence,
       LoadDirectly, PathLoaded, ServeLate, RppReports, PoseArrives, HealthChanges, vars, rppVars
  <1>8. mission' = mission \/ mission \in {"completed", "aborted", "error"}
    BY DEF ClearingStep, Flush, ClearLocal, HandleCommand, BeginRelease, WatchdogPass, Silence,
       LoadDirectly, PathLoaded, ServeLate, RppReports, PoseArrives, HealthChanges, vars, missionVars
  <1>9. SettledIsDone' /\ DrivingIsTracked'
    BY <1>1, <1>2, <1>3, <1>6, <1>7, <1>8 DEF SettledIsDone, DrivingIsTracked, MissionActive, fcuVars
  <1>10. QED
    BY <1>2, <1>3, <1>5, <1>6, <1>8, <1>9, AsideTracked

(* With nobody of theirs in flight, acquires, loads and emergency stops do  *)
(* not step, unless to begin.                                               *)
LEMMA NoneBegins ==
  ASSUME TasksOK, Undisturbed, Undisturbed'
  PROVE  /\ \A a \in Acquires : ~AcquireStep(a)
         /\ \A l \in Loads : ~LoadBegins(l) /\ ~LoadEnds(l)
         /\ \A e \in Emergency : ~EstopStep(e)
  <1> USE DEF InFlight, Idling, Undisturbed
  <1>1. ASSUME NEW t \in Acquires \cup Loads \cup Emergency PROVE t \in Tasks /\ pc[t] \in {"idle", "done"} /\ pc'[t] \in {"idle", "done"}
    BY <1>1 DEF Tasks, Lifecycle
  <1>2. ASSUME NEW t \in Acquires \cup Loads \cup Emergency, NEW l, Goto(t, l)
        PROVE  l \in {"idle", "done"}
    BY <1>1, <1>2, OthersAsk
  <1>3. ASSUME NEW a \in Acquires, AcquireStep(a) PROVE FALSE
    BY <1>1, <1>2, <1>3 DEF AcquireStep, Claim, BarrierPassed, ManualReplied, ManualConfirmed, ArmReplied,
       ArmConfirmed, UndoArmReplied, Replied
  <1>4. ASSUME NEW l \in Loads, LoadBegins(l) \/ LoadEnds(l) PROVE FALSE
    BY <1>1, <1>2, <1>4 DEF LoadBegins, LoadEnds
  <1>5. ASSUME NEW e \in Emergency, EstopStep(e) PROVE FALSE
    BY <1>1, <1>2, <1>5 DEF EstopStep, EstopBegins, EstopSwitched, EstopDisarmed, EstopResumes, Await,
       Replied, Resumes
  <1>6. QED
    BY <1>3, <1>4, <1>5

LEMMA StepTracked == IInv /\ Tracked /\ Undisturbed /\ Undisturbed' /\ [Next]_vars => Tracked'
  <1> SUFFICES ASSUME IInv, Tracked, Undisturbed, Undisturbed', [Next]_vars PROVE Tracked'
    OBVIOUS
  <1>1. TasksOK /\ ClaimNamed
    BY DEF IInv, Lease
  <1>2. LeaseTimeout => \E r \in Releasers : BeginRelease(r)
    BY <1>1 DEF LeaseTimeout, Releasers, ClaimNamed, Leased
  <1>3. ASSUME NEW r \in Releases, NEW c \in Clients, ReleaseRequested(r, c)
        PROVE  \E u \in Releasers : BeginRelease(u)
    BY <1>3 DEF ReleaseRequested, Releasers
  <1>4. QED
    BY <1>1, <1>2, <1>3, NoneBegins, StartTracked, LifecycleTracked, TelemetryTracked, ServeTracked,
       OtherTracked DEF Next

LEMMA InitTracked == Init => Tracked
  <1> SUFFICES ASSUME Init PROVE Tracked
    OBVIOUS
  <1>1. late = {} /\ path = "none" /\ \A t \in Tasks : pc[t] = "idle"
    BY DEF Init, Fresh
  <1>2. Lifecycle \subseteq Tasks
    BY OutOfLine
  <1>3. QED
    BY <1>1, <1>2 DEF Tracked, SettledIsDone, AsksItsOwn, Disarmed, AsLeft, DrivingIsTracked, Calling,
       Lifecycle

(* As long as the FCU does what it is asked, the server has had a pose and  *)
(* no acquire, guarded load or emergency stop is under way, the mission     *)
(* state never loses track of a rover that follows a path: however many     *)
(* starts, stops, aborts, clears and unguarded loads overlap, and with the  *)
(* completions of the telemetry loop in between                             *)
(* (offboard_controller.py under _lifecycle_lock).                          *)
THEOREM LifecycleKeepsTrack == Spec /\ []Undisturbed => []DrivingIsTracked
  <1>1. Tracked => DrivingIsTracked
    BY DEF Tracked
  <1>2. QED
    BY <1>1, InitTracked, StepTracked, Invariance, PTL DEF Spec
===============================================================================
