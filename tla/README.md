# Verification of PX4_DXP

PX4_DXP is the runtime of a road-marking rover: ROS 2 nodes on a Jetson that
follow a path and drive a spray valve, and a FastAPI server through which an
operator loads, starts, stops and overrides missions. This directory holds TLA+
models of the parts of it that are concurrent or must survive failures, TLC
configurations that check them on small instances, and TLAPS proofs.

Contents: [the system](#1-the-system), [modules](#2-modules-and-how-they-map-to-the-code),
[runs](#3-runs), [fairness](#4-fairness), [proofs](#5-proofs),
[disagreements found](#6-where-the-code-and-its-comments-disagree),
[what is not modelled](#7-what-is-not-modelled), [plan](#8-plan).

Paths below are relative to the repository's root (`PROJECT.json` prefixes them
with `src/`, so the ROS nodes are in `src/src/`).

## 1. The system

### Spray

| Part | State | Operations | Hard because |
|---|---|---|---|
| `src/spray_fsm.py` `SpraySafetyStateMachine` | one of seven states, command sequence number, pending stamp, retry attempt and deadline, disabled flag, the previous enable and safety inputs | `tick`, `on_ack`, `note_event_reset` | acknowledgements are asynchronous, may be lost, refused, late; safety and enable edges cut in anywhere |
| `src/spray_controller_node.py` `SprayControllerNode` | last FCU state, last automatic decision, debounce, manual override with deadline, service readiness | subscriptions, three timers (watchdog 50 Hz, reassertion, service probe), service replies, `shutdown_off` | an ON re-assertion outside the machine; the process may be killed with requests in flight; fail-safes versus override |
| `src/spray_modes.py`, `src/mission_progress.py`, `src/progress_classifier.py` | point meter, dash meter, mission phase | step functions of pose and milestone events | the point meter and RPP hand each other the rover by sequence numbers |
| `/mavros/cmd/command` and the valve (external) | requests in order, the valve | executes, refuses, loses | |

The node talks to RPP (`/path`, `/rpp/*` topics, `point_done` and `advance`
messages), to MAVROS (state, command service), and is configured by the server.
It is correct when what it reports about the valve is true, when a fail-safe
closes the valve whatever was lost, and when a mark that may be painted is.

### Motion

| Part | State | Operations | Hard because |
|---|---|---|---|
| `src/rpp_controller_node.py` | mission split into runs, current run, tracking state, holds, handshake sequence numbers | `/path` callback, 50 Hz control loop, handshake callbacks | run advance, precise stop and hold wait for another process, with time limits |
| `src/twist_to_setpoint_node.py` | last velocity and its age | streams setpoints, zero when stale | freshness |
| `src/mission_runner_node.py`, `src/path_publisher_node.py` | a bring-up sequence | pre-stream, OFFBOARD, arm, wait for DONE, disarm | retries |
| `rpp_start.sh` | child processes, restart counts | respawn with backoff, fatal exits, shutdown | signals |
| `px4_start_service.sh` | two shells, a flag file, MAVROS | launch, probe, respawn, cleanup under systemd | processes killed halfway, a stop that cuts a cleanup short |

### Server control plane

| Part | State | Operations | Hard because |
|---|---|---|---|
| `server/control_arbiter.py` | the owner of motion | claim by a start, claim by an acquire, mark, clear | the lock covers the claim only |
| `server/joystick_controller.py` | lease: state, holder, session, last command | acquire, command, release, watchdog, emergency neutralize | an acquire is eight awaits long; a release, another client, an e-stop or a mission start falls between any two |
| `server/manual_control_gateway.py` | last frame, active flag, receive time | neutral barrier, commands, stale timeout, sender thread | two threads |
| `server/offboard_controller.py` | mission state, resident path, entry stash | start, stop, abort, clear, load, completion, entry advance, disarm on completion | one lifecycle lock, held across service calls of seconds, and several writers that do not take it |
| `server/emergency.py` | none | stop-path, MANUAL, disarm, ABORTED | must not wait for the lock, so it interleaves with everything |
| `server/mission_loading.py` | load lock, prior state | load in a thread | restores a state it read before |
| `server/main.py` | grace timers | safety watchdog loop, telemetry loop | act on the mission without the lock |
| `server/rpp_status.py` | since when RPP is DONE | update, reset, is_done | stale DONE |
| `server/ros_node.py` | cached telemetry, service clients | arm, set_mode with timeouts, latched `/path` | a call that timed out may be carried out later |
| `server/bridge_health.py` | link frozen or not, recovery budget | stops the mission, restarts the bridge | cooldowns, budgets, a link that flaps |
| `server/origin_health.py`, `server/mission_placement.py`, the origin request of `ros_node.py` | the EKF origin held, its request budget | verdict, invalidation, request, placement | three processes hold a copy of an origin that dies with the FCU |
| `server/path_manager.py`, `server/routes/path.py` | uploaded and staged files | stage, preview, load, expiry, spray modes | a mission passes through staging, the resident path and two latched topics before it is painted |
| `server/routes/*`, `server/sockets/events.py` | none | requests | which of them ask the arbiter and the mission state |
| `server/rtk_manager.py`, `server/auth.py`, `server/beacon.py` | subprocess; sessions; none | start, stop, monitor; login | |

It is correct when one owner moves the rover at a time, when ownership and
leases are never stranded, when the mission state says what the rover is doing,
when every request returns, and when loss of health stops the rover.

### Path engine

| Part | State | Operations | Hard because |
|---|---|---|---|
| `path_engine/engine.py` `_plan_from_segments` | the strokes of one drawing, from one step to the next | drop twins, sample, group, cut at corners, order, extend, link, merge, close | a dozen steps each drop, double, reverse or append points, and flags and indices must follow |
| `path_engine/optimizers/*`, `path_engine/planners/*` | none | chains, nearest neighbour, 2-opt, or-opt; run-ups and run-outs | metadata that indexes points must be turned with them |
| parsers, arcs, fillets, alignment | none | DXF, CSV | numerical |

It is correct when the merged path paints what was drawn, all of it and nothing
else, and when the points it marks must-hit are those of the drawing.

### RTCM bridges, tools

`ntrip_rtcm_node.py` and `lora_rtcm_node.py` relay correction bytes.
`tools/` is offline analysis.

## 2. Modules and how they map to the code

| Module | What it is |
|---|---|
| `SpraySafetyFsm` | `spray_fsm.py` as operators on a record of its fields |
| `SprayActuator` | the spray node's callbacks around it, the command service, the valve, the life of the process |
| `SprayIndication` | abstract: what the reported state promises about the valve |
| `SprayActuatorProofs` | lemmas about the machine, theorems about the valve |
| `SprayPromiseProofs` | the refinement of `SprayIndication`, and the discipline of the commands |
| `MCSprayActuator` | instances for TLC |
| `ControlArbiter` | `control_arbiter.py` as operators on the owner |
| `ControlPlane` | joystick, lifecycle, emergency stop, loads and loops as tasks that interleave at every await |
| `ControlPlaneProofs` | theorems about the lock, the ownership, two owners and tracking |
| `MCControlPlane`, `MCControlStories` | instances for TLC; the two stories of `control_stories` |
| `PointHandshake` | RPP's holds at the points of a path and the spray node's point meter, with the topics between them |
| `PointHandshakeProofs` | theorems |
| `SprayLine` | where the spray node paints a line: projection, boundaries, leads, gates, the dash |
| `SprayLineProofs` | a theorem about its types and the dash |
| `MCPointHandshake` | instances of both for TLC |
| `PathConditioning` | what RPP makes of a received path, as operators |
| `PathIntake`, `MCPathIntake` | RPP's path callback as a component; the paths it is given |
| `RppMotion`, `MCRppMotion` | RPP's control tick as a state machine; the missions it is given |
| `RppMotionProofs` | theorems about it |
| `PathPlanning`, `MCPathPlanning` | the planner of the path engine, step by step; the drawings it is given |
| `SetpointStreamer` | `twist_to_setpoint_node.py` |
| `NodeSupervisor` | `rpp_start.sh` |
| `BridgeLauncher` | `px4_start_service.sh` under systemd |
| `BridgeHealth` | `bridge_health.py` |
| `ManualControlGateway` | `manual_control_gateway.py`, with its sender thread |
| `RtkManager` | `rtk_manager.py` and its requests |
| `ServiceProofs` | theorems about the last six |
| `SurveyedOrigin` | the copies of the EKF origin, their health, requests and invalidation, and missions placed through them |
| `MissionCommit` | a mission from the staging directory over the start to the spray node's mode |
| `MissionProofs` | theorems about the last two |
| `MCServices`, `MCLiveness` | the modules of the last three blocks for TLC, one subject at a time |

A definition that stands just before another and is called a *variant* or a
*mutant* in its comment is not used by the model: it is a plausible mistake in
the operator after it, kept to show which property notices it.

### SpraySafetyFsm and SprayActuator

The machine is a pure object in the code, and a pure operator here: `Tick`,
`OnAck` and `NoteEventReset` return the new fields and at most one command. The
absolute deadlines are kept as time left. One callback of the node may call the
machine several times; `DriveFsmTick` and `DispatchCommand` chain those calls
within one action, as the single-threaded executor does.

* A request carries the sequence number its reply will have; `seq = 0` is a
  request no reply of which matters (a re-assertion, or a request of a process
  that has died).
* `Execute` and `Misserve` are the command service: it serves in order, and may
  refuse, lose the request, lose the reply, or execute and report failure.
* `Kill`, `Restart`, `Shutdown` and `FlushExpires` are the life of the process.
  A restart forgets everything but `link`: those requests are still on their way.
* With no service a command fails inside its own dispatch (`FailNow`, twice, as
  the follow-up OFF of a failed ON fails too).
* `gates` and `mark` stand for the automatic gates other than armed and OFFBOARD,
  and for the nozzle being over a MARK; they change freely.
* An exception out of a callback (`raised`) ends the executor; `main` then runs
  `shutdown_off` and the supervisor respawns the node.

### ControlArbiter and ControlPlane

asyncio runs a task until it awaits; what runs between two awaits is one action.
`pc[t]` says at which await a task is, `call[t]` the service call it awaits.

* A client's request is a task that runs once; a further request of the same
  kind is another task of the instance. The two loops run for ever.
* The lifecycle lock is first come, first served; taking a free lock does not
  yield, so the first part of a call runs in the action that takes it (`Enters`).
* The arbiter's own lock is never held across an await and needs no state.
* `Serve` is the FCU: it carries a request out, refuses it, lets it time out
  (the request joins `late` and may be carried out later, `ServeLate`), or accepts
  it and does not do it (so that the confirmation loops of an acquire expire).
  A disarm that is accepted is done.
* `RppReports`: RPP finishes a stop-path anywhere, and a path only while the
  rover is armed in OFFBOARD. A DONE that lasts is `settled`.
* `unhealthy` stands for any of the four conditions of the safety loop, held
  longer than its grace. `posed` is `pose_received`, which never falls back.
* A start chooses freely whether it needs an entry leg. Placement, the FCU link
  and the auto origin are one nondeterministic refusal.
* Arming on acquire and disarming on completion are on, the defaults.
* `Class` says which requests are of which kind and `Places` where a coroutine of
  that kind can await. That no request is of two kinds (`PlaneAssumption`) is how
  the server makes them: one coroutine per request.

Assumption of `ControlPlane`: RPP reports the new path within the setpoint grace of a start, so a
start leaves `settled` FALSE (the start itself does not reset the monitor).

### PointHandshake

RPP holds the rover at each must-hit point until the spray node reports that it
has dwelt there; the spray node's meter dwells at its current point when RPP
announces a confirmed stop there. Each action is one control tick or callback of
one node, under `point_hold_enabled`, `point_handshake_enabled` and
`consume_rpp_progress`.

* `hold` is RPP's active key and what its dwell has seen so far; `doneIn`, `tapIn`
  are the cached `/spray/point_done` and `/point/advance`. A receive count
  compared with its value at the start of the wait is one bit, `tapIn.new`.
* `Arm`, `HoldLost` and `DwellTick` are the outcomes of `_point_hold_tick` with the
  progress the same tick publishes (`Publish`; AT_POINT is sent on the edge).
* `meter` is the `PointMeter`; `Update` is what one call of its `update` can make
  of it, the loop inside it included. `Gate` is `_point_handshake_gate`, with its
  fallback on `/rpp/progress`.
* `/rpp/milestone` and `/spray/point_done` are reliable and volatile: in order, and
  lost when the reader restarts. `/rpp/progress` is best effort. Of `/point/advance`
  only the last tap matters.
* Time is not counted: settle, dwell, arrival timeout, hold maximum and the valve's
  closing may each end at any later tick. What holds holds for all their settings.
* `valve` is the actuator of `SprayActuator` in three words: OFF confirmed, on, on
  its way to off. `wired` says whether `/spray/active` reaches the node.
* `Slips`, `Misses` and the restarts are faults. The rover moves only when not held.

Assumptions: the path is one run, so RPP's rank and the meter's index agree (the
docstring of `_point_handshake_gate` says so); one mission per behaviour; the
dwell takes longer than a tick; the automatic gates pass; spray stays enabled;
`manual_wait_timeout_s` is 0 and `point_hold_max_s` and `point_arrival_timeout_s` are
positive, as by default.

### SprayLine

The distance-aware tick of the spray node in its continuous and dash modes. The
legs of a path lie along the axes of an integer grid, so the projection, its
window and the direction gate are computed and not assumed. A tick of the
watchdog timer is the unit of time; the rover stands or moves one cell in it.

* `setup` is the way the node finds boundaries: its own geometry (`own`), RPP's
  reports with a fallback on age (`reported`, `consume_rpp_progress`), the
  direction gate on (`directed`), or the dash of a dash session (`dash`).
* `Tick` is `_distance_aware_tick` with the gates in the order of the code:
  `block` for the returns before the GPS gate, then the GPS hold, the tracking latch,
  the cross-track latch with its minimum off time, the end of the path.
* `Disturb` loses the pose, disarms, refuses, drops the fix or displaces the pose;
  `MaxDisturbances` of them happen in a behaviour.
* `ReportAt` is RPP's side: `_compute_continuous_progress` on its current run.
* `wants` is what the tick hands to the debounce, the override and the machine of
  `SprayActuator`.

Assumptions: the overspray margins are 0, as by default; the nozzle offset is 0;
the cross-track limit is the parameter and not a mission's own.

### PathConditioning and PathIntake

`_path_cb` with its helpers: split at spray flags, absorb short connectors, split
at hard corners, fuse collinear pieces, choose a profile, thin out, drop what has
no length. The grid makes the bend of two legs an exact sign of cross and dot
products. `PathIntake` makes the callback a component (which path is in force,
into which runs), so that its properties compare a path with its runs.

### RppMotion

`_control_loop_impl` at the level of its decisions: the gates at the top, the
alignment at the start of a run, the stop before a run boundary, the precise stop at
the last endpoint, the stop before DONE and the corners inside a segment run.

* `control` is what the code stores; `world` is what callbacks last told it, free to
  change between ticks; the history variables say since when the rover has been
  at rest, which no code variable does.
* `Applied`, `NoCorner` are `_apply_run` and `_reset_corner_pivot_state`, whose
  completeness `EndsAreEarned` depends on.
* How fast the rover drives and along which arc is left to the moves of the world.

### PathPlanning

`_plan_from_segments` with one action per step, in the order of the code: `Twins`,
`Densify`, `Group`, `Unfuse`, `Reorder`, `Improve`, `Ordered`, `Extend`, `Merge`.

* A stroke is its points, whether it is a mark, whether it is a curve (then its
  tangents are those of its ends), and `keep`, the indices of its source points.
  `stale` is history: the stroke was turned round and `keep` was not.
* A point is a pair of integers in units of 5 cm, so every tolerance of a
  centimetre is equality. Legs run along the axes.
* The optimizer's cost is floating point: nearest neighbour is modelled as it is,
  and each improving move of 2-opt or or-opt is any move (`SliceReversed`,
  `Relocated`), at most `MaxMoves` of them. What holds does so for every order.
* `options` are those of the request that matter to the steps: whether to group, to
  optimise, to extend, to close the loop, and how the strokes are named.

Two kinds of plan are excepted from `PlanKeepsDrawing` because the code does not
paint the drawing in them (`Unlinked`, `ClosedFromMark`, section 6).

### SetpointStreamer, NodeSupervisor, BridgeLauncher, BridgeHealth, ManualControlGateway

Each of them counts time in its own period and leaves the other side (RPP and PX4,
the nodes, systemd and MAVROS, the link, the FCU) to do anything.

* `SetpointStreamer`: the executor may stall for `ExecutorStall` periods; ages count
  from the callback, so a message may be older than it looks.
* `NodeSupervisor`: one shell; a critical restart blocks the loop, an auxiliary one is
  scheduled; `SIGTERM` is taken when the sleep at hand ends.
* `BridgeLauncher`: the main shell and the watchdog shell as two processes with a flag
  file between; `SystemdTerm` twice, then `SystemdKill`, as `KillMode=mixed` does.
* `BridgeHealth`: poll, grace, cooldown, sliding window of restarts, and a recovery
  whose three awaits have time limits.
* `ManualControlGateway`: a region under the lock is one action, the sending after it
  another; `Workers` are the threads of `asyncio.to_thread`.

### RtkManager

One child process under one asyncio lock, a watcher task per child. Requests of
every kind overlap with each other and with the child's death.

### SurveyedOrigin

Positions are abstracted to the EKF session they were measured in, because what
can be wrong is a transform built from two sessions. The FCU reboots, its EKF starts
over without a reboot, MAVROS restarts with nothing latched or with the answer of
the FCU, the server restarts; messages are lost. `Health` is
`evaluate_origin_health`, `RequestTick` the request with its budget.

### MissionCommit

The steps of an operator's mission: staged, previewed, loaded (or expired and
refused), started by a request that names the mission the client verified, entered
by an entry leg if it is far, painted in its mode. `wirePath` and `wireMode` are the
latched topics, taken by the spray node in any order and again after a respawn.
A start's awaits inside the lifecycle lock are those of `ControlPlane`; here the
lock is one variable. `unvouched` excuses the modes an operator set, a publication
that failed, and a load over a drive that a restarted server does not know of.

## 3. Runs

| Run | Instance | Shows |
|---|---|---|
| `spray` | ack timeout 1, backoff 1 to 2, at most 2 requests in flight, 1 fault, 3 input changes | `OffConfirmedMeansClosed`, `SprayingMeansOpen`, the refinement `IndicationSpec`, `CommandDiscipline`, `DisarmedEventuallyClosed`, `MarkEventuallyPainted`, `OverridesEnd` |
| `control_stories` | one story or the other: 2 clients, a release, a start, a load, 1 fault; 2 starts, stop, abort, clear, direct load, no fault. In both safety e-stop and 1 input | `SingleOwner`, `OwnershipLives`, `TransitionHoldsLock`; `DrivenIsTracked` |
| `control_live` | one story or the other: 1 client, 1 start, operator's and safety e-stop, no fault; 2 starts with faults | `LifecycleCallsReturn`, `SilentLeaseRevoked`, `UnhealthyMissionStopped` |
| `point_handshake` | 2 points, both modes, 1 fault; and 4 paths of lines in 4 setups, 1 disturbance | `DwellIsAnnounced`, `ReleaseIsProven`, `OperatorReleases`, `MissionEnds`, `MeterFinishes`; `LineHolds` |
| `services` | one subject at a time: gateway, supervisor, launcher, bridge recovery, streamer, path intake, RPP's tick, staged missions, the planner | `BoundedRunaway`, `DeactivationHolds`, `SupervisionHolds`, `LaunchHolds`, `RecoveryBounded`, `SilenceStops`, `IntakeKeepsDrawing`, `EndsAreEarned`, `StopsAreSeen`, `CommitHolds`, `PlanKeepsDrawing`, `SourceStaysMustHit` |
| `liveness` | one subject at a time: RPP's tick, the RTK manager, the origin | `MissionEnds`, `OneChild`, `RtkAnswers`, `OriginHolds` |
| `spray_backoff_overflow`, `control_two_starts`, `control_stale_clear`, `control_estop_start`, `point_unpainted`, `plan_turned` | the smallest instance each needs | counterexamples, see section 6 |

Each run also has the type invariant of its modules. A property whose name ends in
`Holds` is a conjunction; its parts are named and commented in the module:

* `SupervisionHolds`: a critical node is back within a bound or systemd has taken
  over; an auxiliary node that crash-loops does not count against the critical ones;
  a stop ends within its grace with every node down.
* `LaunchHolds`: READY is never said for the flag of a run before; two MAVROS never
  share the serial port; MAVROS is never gone for longer than the watchdog takes to
  start it again, or the main shell to notice a dead watchdog (`IdleBound`).
* `LineHolds`: paint is asked for only near a MARK; no MARK has a gap once the gates
  have been open as long as their latches last; a rover at the end of its path
  does not paint; the dash toggles on the grid of the first mark.
* `IntakeKeepsDrawing`: the runs join without a gap, paint exactly what was drawn,
  end at hard corners, and keep the vertices that must be hit.
* `CommitHolds`: the mode in force is the mission's own; a meter measures along the
  path the node holds; a clear stays a clear; a verified start publishes what was
  verified and an expired mission is not loaded.
* `PlanKeepsDrawing`: read the way RPP and the spray node read it, the flag of a point
  being that of the leg that leaves it, the merged path paints every stretch of the
  drawing once and nothing else. `SourceStaysMustHit`: must-hit are the points of the
  drawing, as long as no uneven stroke was turned round.
* `OriginHolds`: a surveyed mission is driven in the frame it was placed in; the
  server comes to hold the origin of the live session.

Bounds. `MaxFaults` and `MaxInputs` are budgets that faulty steps and changes of
the environment spend; `MaxLink` and `MaxSuppressed` bound the requests in flight
and the commands issued without a service. One fault is enough for each single
failure at every point; the proofs of section 5 cover any number for the safety
properties of the spray actuator, the handshake and the gateway. Three inputs of
the spray node are a disarm, a re-arm and one change more. Two clients and a
release give the smallest overlap of three joystick requests; two starts the
smallest queue on the lock with a stop or an abort behind. In the joystick's story
the constraint `FaultsOrLoads` explores a fault or the load but not both in one
behaviour; without it the run also passes, in four times the time. For
`OwnershipLives` and `TransitionHoldsLock` the bounds no longer matter: they are
proved for all of them.

The driving story is bounded on purpose: with an operator's e-stop, a failed
service call or a thread-borne load `DrivingIsTracked` fails in the code (section 6;
`control_estop_start` is the first of the three). What the story adds is that
without them it holds in every interleaving of starts, stops, aborts, clears,
loads and a safety stop. In the same way `SingleOwner` is checked with one start,
and fails with two.

`control_live` begins in one of two stories too (`LiveInit`): whoever has no part in
one has returned before it begins. Together they reach every action; the emergency
stop beside a queue of starts is the joystick's story of `control_stories`.

Two points are the smallest path on which a report, an announcement or a tap can
be of the wrong point, and one fault puts the nodes out of step (a missed point, a
restart, a slip in the dwell, a repeated tap). TLC also finishes without error with
three points, and with two faults; both take ten times as long and are not kept.

The four paths of lines are a line between two transits, a corner with its run-out,
a square that closes on its start, and a line that is driven back along: a boundary
inside a leg, at a corner, at the end and in two places at once. Lengths are
compressed: a cell is about the trip level, the window is 1 back and 2 ahead, the
reacquire distance 2, and the delays of the valve are one tick. One disturbance
reaches each latch from each place; a second one only starts it again.

The gateway has one worker thread beside the loop and the sender: two threads that
change the frame while a third has copied it. The supervisor has two critical nodes
and an auxiliary one, so a blocking restart meets a death in each class; three
deaths in a window of four periods are its fatal rule. The bridge has a budget of
2 recoveries in a window of 12 polls with a cooldown of 2, so the budget, the
cooldown and the slide of the window each decide somewhere. Durations of the
launcher differ pairwise where their order matters. The streamer's age limits are 0 and 1 periods, the
smallest that differ; larger ones are covered by the theorem `SilenceStopsAlways`.
The drawings of the planner are seven (`MCPathPlanning` names them): each reaches a
step that no other reaches, a twin, a chain that branches, a corner to cut, a short
line without extension, an extension that another stroke blocks, a crossing, two
curves that are no twins though their ends are, travels given by the client. One
improving move reaches a turned and a moved stroke; a second only repeats it.
`RppMotion` has three missions
(a closed run entered around a corner; soft and hard vertices in segment runs; runs
of no length with a straight transition), a dwell of 2 ticks so that it can be
broken, and a maximum hold of 2. The intake has every path of four legs out of
eight, with every contiguous painted part. Staging has two missions, a dash and
surveyed one and a point one, and a raw path; one starter, whose request still
overlaps loads, clears and modes; one respawn, of either process; the two
artifacts expire together. `MissionState` is collapsed to `rest` for IDLE,
COMPLETED, ABORTED and ERROR, which no guard of that path tells apart. The RTK
manager has three requests, the smallest number with a start that waits behind a
stop while a child dies, and three children. The origin has two sessions with
different origins, two tries and one restart of MAVROS or of the server.

The control, point, services and liveness runs switch deadlock checking off: every
request of an instance runs once, so a behaviour that has used them all may stop,
and a mission that has ended may stay so. Only `spray` never stops.

## 4. Fairness

* Spray: the executor spins (`WatchdogTick`), replies that have arrived are
  delivered, the probe timer runs, the service serves its queue, time passes, the
  flush window ends, a raised executor runs its shutdown, and the supervisor
  respawns a node that died (`rpp_start.sh` restarts every node that exits). Faults
  need no fairness and are finitely many; inputs are never forced.
* Control plane: weak fairness of each task that has started (the event loop
  runs every ready task), of each service call (`_call_async` gives up after its
  timeout), of the telemetry loop, the joystick watchdog, the clock, and the
  safety loop. Nothing forces a client to send, a new request to come, RPP to
  finish or health to change. The lock needs strong fairness of nothing: its
  queue is part of the state.
* Point handshake: weak fairness of RPP's ticks (its control loop is a timer) and
  of its callbacks for taps, of the rover driving on when not held, and of an
  operator who sees WAIT_OPERATOR and taps. A timer that runs ends, because a tick
  that changes nothing is not a step of fairness. Nothing obliges the spray node to
  do anything: `MissionEnds` holds with it dead. `MeterFinishes` assumes, in its own
  premise (`SprayFairness`), that the spray node ticks and its valve closes.
* RPP's tick: `MissionEnds` of `RppMotion` is about a rover that from some moment on
  does as it is told (`obeys`), with its gates open and its samples fresh. The only
  fair step is a tick of such a rover (`ObeyedTick`); nothing makes it obey. Before
  that moment anything may have happened to it.
* RTK manager: the event loop runs every ready request (`Serve`) and the watcher of a
  child that died (`WatchEnds`). Children need not die, nor obey TERM.
* Origin: an FCU that is down boots and gets a fix; it and MAVROS publish their
  topics for ever (weak fairness of state, global position and the latched origin on
  its way; strong fairness of a pose that meets a fresh global position, since both
  come at tens of Hz against an age limit of seconds); the request timer fires every
  ten seconds (strong fairness, as its guard on the connection comes and goes).
  `OriginReturns` has its premise in the formula: the state topic stops falling
  silent.
* No fairness is assumed of the lines of `SprayLine`, of the services, of the
  missions in staging and of the planner: what is shown of them is safety, with bounds on time instead
  of eventualities (`BoundedRunaway`, `SilenceStops`, `LaunchedAgain`, `BackInTime`).

## 5. Proofs

`SprayActuatorProofs` proves for every value of the constants, hence for any
number of faults, restarts and input changes:

* `TypeCorrect`: `Spec => []TypeOK`. Besides types, `TypeOK` says that the
  machine is in a pending state exactly when its acknowledgement timeout runs.
* `OffIsClosed`: `Spec => []OffConfirmedMeansClosed`.
* `SprayingIsOpen`: `Spec => []SprayingMeansOpen`.
* `CurrentCommandDecides`: `Spec => []CurrentDecides`.

Assumptions: `FsmAssumption` and `ActuatorAssumption` (positive timeouts, natural
bounds), evaluated by every spray run. The argument: neither
`OffConfirmedMeansClosed` nor `SprayingMeansOpen` is inductive, because both are
established by a reply and say something about the valve and the line. The
strengthening is their conjunction with `CurrentDecides`: in a pending state the
command with the current number is followed by nothing of the other kind, and a
successful reply with the current number is in the replies only if the valve has
settled at the commanded position. A reply of an older command has a smaller
number and `OnAck` ignores it; a new command takes a fresh number. The ON
re-assertion has no number but is sent only while the machine wants ON, and the
next OFF goes behind it in the line. The module states once what each
operation of the machine does to its record (type, sequence number, which states
it can reach, which command it returns), lifts that to
`DispatchCommand` and `DriveFsmTick` and then takes one step per action of `Next`.

`PointHandshakeProofs` proves for every number of points and faults, from
`HandshakeAssumption` (at least one point, a natural bound):

* `TypeCorrect`: `Spec => []TypeOK`;
* `DwellIsAlwaysAnnounced`: with a positive settle time, `Spec => []DwellIsAnnounced`;
* `ReleaseIsAlwaysProven`: `Spec => []ReleaseIsProven`;
* `OperatorAlwaysReleases`: `Spec => []OperatorReleases`.

The three are about what a node does with a message, and none is inductive by
itself: the message may be in flight, or cached, when the world has moved on. The
strengthening says of every message in flight and of every cached copy that it was
true when it was sent (`Told`, `Proven`, `Approved`). The two lemmas that carry the
weight are `UpdateSound` (whatever path the loop of `PointMeter.update` takes, a
dwell begins at the target the gate was asked for, and only a dwell is reported)
and `DwellTickTypes` (a release takes its proof from a report of the held point).

`ServiceProofs` is about the services beside the control plane. For the gateway it
proves, for any set of worker threads and any timeouts that satisfy `GatewayAssumption` (the stale timeout is below the FCU's RC-loss
timeout; a stalled sending is shorter than the flush of a deactivation):

* `GatewayTyped`: `GatewaySpec => []GatewayTypeOK`;
* `NoRunaway`: `GatewaySpec => []BoundedRunaway`;
* `DeactivatedForGood`: `GatewaySpec => []DeactivationHolds`.

`BoundedRunaway` speaks of what the FCU acts on, which is the result of a frame
copied under the lock and sent after it. Its strengthening, `GatewayInvariant`,
bounds the age of the frame, of the sender's copy and of what the FCU last heard
one by the other, and says that a deactivation counts its neutral frames while the
sender can hold at most one copy older than it.

`SprayPromiseProofs` adds, from the same assumptions and the invariant of
`SprayActuatorProofs`:

* `IndicationIsImplemented`: `Spec => IndicationSpec`, the refinement of
  `SprayIndication`: every step of the node, its machine, the command service and
  the life of the process is a step of the abstract indication or leaves it alone;
* `CommandsAreDisciplined`: `Spec => CommandDiscipline`.

Both are about single steps, and a step is a callback that may call the machine
several times. The argument is a relation between the record before and after,
`Lawful`, that is reflexive and transitive and is kept by every operation of the
machine: `Careful` (no certainty is gained, and an ON starts only from a confirmed
OFF) and `Patient` (a machine waiting for its backoff under a command number still
waits, or its backoff was reset and it has commanded at most once since). Every
callback is then a chain of such calls. The one step that is not `Lawful` is the
success of the current command, where certainty is gained, and there the valve is
where the reply says, by `CurrentCommandDecides`.

`ControlPlaneProofs` proves for any sets of requests, faults and inputs, from
`PlaneAssumption` (no request is of two kinds, and `None` is neither a client nor an
acquire):

* `PlaneTypes`: `Spec => []TypeOK`. `TypeOK` says too that a request is only at the
  awaits of its own coroutine, and awaits a service call exactly there;
* `LockIsALine`: the lifecycle lock is held by at most one call, and its queue holds
  each waiting call once;
* `TransitionsHoldTheLock`: `Spec => []TransitionHoldsLock`;
* `OwnershipNeverStranded`: `Spec => []OwnershipLives`.

`TransitionHoldsLock` says of the mission state that a call *somewhere* is inside
the lock; to be inductive it needs which one. `LockLine` relates the queue to the
program counters (everyone inside or waiting stands in line once, and only the head
is inside), and `HeadNamed` says the head is in the coroutine that the transitional
state belongs to. Emergency stops write the mission state without the lock: they
write ABORTED, which is no transition, and the next `HeadNamed` is vacuous.
`OwnershipLives` needs that a lease names the acquire it came from (`ClaimNamed`):
that is what the acquire compares after each await, and what lets a release that
overlaps a second acquire leave that one's lease to be given up by its own call.

Two properties of the control plane are false of the code without a bound
(`control_two_starts`, `control_estop_start`). The theorems about them say exactly
what has to go wrong:

* `OnlyTakeovers`: `Spec => [][TakenFromAStart => Takeover]_vars`. A start claims
  control for the mission when it is accepted and gives it up when it returns.
  `TakenFromAStart` is a step that ends the claim while a start is still on its way;
  the code has three such steps and no fourth: an emergency stop, the clear of the
  arbiter at the end of a release or a failed acquire, and the return of another
  start, which shares the claim.
* `OneOwnerUnlessTaken`: `Spec /\ [][~TakenFromAStart]_vars => []SingleOwner`. Without
  a takeover mission and joystick are never in control together. The invariant is
  that the claim of a start stands as long as it is on its way (`ClaimStands`): then an
  acquire is refused until the mission state says it is active, and after that by
  this state.
* `LifecycleKeepsTrack`: `Spec /\ []Undisturbed => []DrivingIsTracked`. `Undisturbed`
  says that the server has had a pose, that the FCU does what it is asked, and that no
  acquire, guarded load or emergency stop is under way, each of which loses track of the
  rover in some trace of section 6. Nothing else does: however many starts, stops,
  aborts, clears and unguarded loads overlap. The invariant, `Tracked`, says what a call
  inside the lock relies on after an await: the mission state is as it left it
  (`AsLeft`), the reply it awaits is to its own request (`AsksItsOwn`), a disarm
  stays in force until its call returns (`Disarmed`), and a settled DONE is about the
  path that RPP has (`SettledIsDone`), so that the completion of the telemetry loop disarms a
  rover that has arrived. The proof failed first for a stop without a pose, which
  section 6 now lists.

`ServiceProofs` has four more components. What each assumes of its
constants is named in its module (`StreamerAssumption`, `LauncherAssumption`,
`RtkAssumption`, `BridgeAssumption`, `SupervisorAssumption`):

* `SilenceStopsAlways`: `StreamerSpec => []SilenceStops`, for any age limits and any
  executor stall. What RPP last asked for is followed from the queue (`Asked`) over
  the node's cache (`Taken`) to PX4 (`Kept`), with what each may add to its age.
* `LaunchAlwaysHolds`: `LauncherSpec => []LaunchHolds`, for any durations, the main
  shell's wait being longer than the watchdog's. The invariant says
  whose MAVROS it is (`OneOwner`), what the flag vouches for in each step of each
  shell (`FlagIsHonest`), that no step outlives its limit (`InTime`) and how long MAVROS
  can have been gone by then (`Idles`). Its first attempt failed, rightly: the bound
  was the watchdog's alone and held only for the small durations of the run. With
  those of the script (a check of the FCU link of 21 s, a heartbeat of 6 s) a
  watchdog that dies right after touching the flag is noticed only after the main
  shell's check. `IdleBound` is now the longer of the two.
* `OneChildAlways`: `RtkSpec => OneChild`, an invariant and an action property, for any
  number of requests and children. A request that holds the lock is the only one
  between a line that reads the child and the line that writes it (`LockedWork`); a
  watcher writes without the lock, and only over its own child.
* `RecoveryAlwaysBounded`: `BridgeSpec => [](BridgeTypeOK /\ RecoveryBounded)`, for any
  grace, cooldown and budget whose recoveries fit in the window
  (`MaxRecoveries * Cycle <= RecoveryWindow`; the code has 3 recoveries of at most
  79 s in 300 s). What `_recovery_times` holds and when MAVROS was really restarted
  are related one to one (`Matched`), from which the budget and the distance of two
  restarts follow. That a frozen link is given up is the hard part: `Chained` says
  that a link that has been frozen for so long has behind it an unbroken chain of
  recoveries, each no further from the next than a cycle, so the chain is as
  long as the budget before its first recovery leaves the window. Without the assumption
  it would leave the window first and the link would be restarted for ever.
* `SupervisionAlwaysHolds`: `SupervisorSpec => [](SupervisorTypeOK /\ SupervisionHolds)`, for any
  nodes in any order, any set of critical ones, any window, count and back-off.
  `Left` is what the loop may still spend before it has served the node at a position,
  a delay for each critical node on the way; `Served` says that what a node has waited and
  `Left` are together within its bound, and each step either lowers `Left` or lets
  time pass with it. `Recording` compares the list of failures with the deaths of critical
  nodes, those not yet recorded included. This attempt failed first as well: the
  bound of an auxiliary node counted one round of delays and held on the run only because a
  third death is fatal there. With a larger `MAX_FAILS_IN_WINDOW` a node waits through
  a round to be noticed and through another to be served; TLC gives the trace
  with 9 deaths allowed, and `AuxiliaryBound` now counts both.

`RppMotionProofs` proves for any missions, whatever their runs, and any dwell, hold and
settle times (`MotionAssumption`: a mission is a sequence of runs, the times a mission
cannot do without are positive):

* `MotionInvariant`: `MotionSpec => []MotionInv`, the strengthening;
* `EndsAlwaysEarned`: `MotionSpec => []EndsAreEarned`: no run and no path ends that was not
  driven, whatever latches the mission before left behind;
* `StopsAlwaysSeen`: `MotionSpec => StopsAreSeen`, an action property: no pivot, no next run and
  no DONE without a stop, confirmed by a fresh velocity or by the longest hold.

A tick is a chain of gates on one record, each of which may end it, so the
invariant is about what the record says between two ticks: which latch holds
(`LatchHolds`), whether a stop is awaited (`Awaited`), and that the stamps of that stop
tell no more than was seen (`Seen`). The case that costs most is the tick that ends one
run and enters the next, with travel, stamps and latches reset in the same tick.

`MissionProofs` proves for any missions, modes, requests and restarts, from
`CommitAssumption` (the tokens for no mission, a raw path, modes and requests
are different things):

* `CommitAlwaysHolds`: `CommitSpec => CommitHolds`, the invariants (`ModeInForce`,
  `MeterMeasuresPath`, `ClearedStaysClear`) and the action property `VerifiedStart`.

The mode that is painted with is decided by the order in which two latched topics
arrive at the node, which may restart. `Vouched` follows a mission through every
place it waits to be driven from (resident, stashed behind an entry leg, on the
wire, followed by RPP) and says the latched mode agrees with each; only a server
that restarted leaves a path followed with no latched mode, and then the node has
taken it before. `NamedIsResident` and `RefusedIsGone` carry `VerifiedStart`.

From `OriginAssumption` alone, which leaves open where each EKF session has its origin,
it proves the safety half of `OriginHolds`:

* `MissionStaysPlaced`: `OriginSpec => [](OriginTypeOK /\ PlacedInLiveFrame)`.

The server compares its origin with samples, not with the session. The link is
`PoseIsOfSession`: a cached pose of a session that is over is no younger than the
session that runs now, so a sample that still counts as fresh is of this session, once the
session is older than the age limit. Before that `PlacedInLiveFrame` has its exception.

`SprayLineProofs` proves for any paths of at least two integer points, any distances,
delays, limits and jump factor, any errors of the pose and any number of disturbances
(`LineAssumption`), and with no use of the axes along which the instances of TLC run:

* `DashKeepsItsGrid`: `LineSpec => [](LineTypeOK /\ DashOnGrid)`, two parts of `LineHolds`.
  `LineTypeOK` says among other things that every projection lies on the path.

The stations of a path and the flips of the dash meter are recursive functions, and what
they compute is induction over data. The library's induction theorems take an operator
and are out of reach, but `Least` is not: a set of numbers that is not empty has a least one,
by `WFMin` of the well-founded order on the numbers. `StationsExist` takes the
least point to which the running sum cannot be continued and continues it; `FlipsExist`
does the same by what a meter still owes, which every flip lessens, and so says in
passing that the loop of `DashMeter.update` ends. `MeterInv` then carries the grid:
the last toggle lies a whole number of periods, and of an ON a mark more, behind the
anchor (`OnGrid`), and the station has not reached the next one. `DashOnGrid` had to be
corrected for a path without any MARK: its meter has no anchor to have a grid through.

### What is only model-checked

* `SingleOwner` and `DrivingIsTracked` within the bounds of `control_stories`, which let
  some of the disturbances happen that the theorems about them exclude: a fault, a
  release, a safety stop with one start. For all constants they are false (section 6).
* Of `LineHolds` the three parts that compare a place with the path (`PaintsNearMark`,
  `NoGap`, `EndsShut`): they need the legs along axes, and the nearest station of a path
  that may meet itself.
* `IntakeKeepsDrawing`, `PlanKeepsDrawing` and `SourceStaysMustHit`: each is about chains of
  folds over a drawing of any length, an induction per fold.
* Every liveness property: liveness under fairness and ENABLED are out of the
  prover's reach.

## 6. Where the code and its comments disagree

Each is a run whose counterexample TLC prints.

1. `spray_backoff_overflow`. `2**attempt` in `_enter_recovery` is not capped: with
   spray disabled and the command service absent, some twenty seconds of watchdog
   ticks raise `OverflowError`.
2. `control_two_starts`. Two overlapping starts share the mission ownership; the
   first to fail gives it up, an acquire gets in, the second drives.
3. `control_stale_clear`. A cancelled acquire clears another client's lease.
4. `control_estop_start`. A start accepted during an e-stop's awaits drives on,
   recorded as ABORTED.
5. `point_unpainted`. In point mode RPP never asserts `/spray/active`, whose
   fail-closed override holds the valve closed in every dwell, and the point is
   reported as done all the same.
6. `plan_turned`. A stroke that the planner turns round keeps the indices of its
   source points as they were (`_reverse_segment`, `segment_order.py:41`): with points
   at uneven distances a corner of the drawing loses `must_hit` and a sample gains it.

Other states a reader of the code would not expect, which the models reach with
other constants (and no run is kept for them). In `SprayActuator`:

* a disarm that arrives while spray is disabled does not cancel the manual
  override, which resumes ON when spray is enabled and the rover armed again before
  its deadline; the comment at `spray_controller_node.py:1340` says fail-safes clear
  it (`armed /\ ~armed'` with `manual'.active`).

In `PointHandshake`:

* with `SettleZero = TRUE` (`arrival_settle_s = 0`, which the configuration allows and
  the unit tests use) `DwellIsAnnounced` fails without a fault: the loop of
  `PointMeter.update` uses the gate of target i for target i + 1 in the same tick, and
  the next point dwells while the rover is still at this one (`spray_modes.py:353`);
* RPP's `point_hold_max_s` releases a hold while the meter still dwells or waits for
  its OFF, and the rover leaves with the valve open, where the class comment says
  that a retrying OFF can never let the mission move off a still-spraying dot
  (`spray_modes.py:257`);
* an operator who waits longer than `point_arrival_timeout_s` at a point makes the
  meter skip the next one, for which it has been counting since it turned to it;
* after a restart of the spray node its meter is at the first point and none of the
  remaining points is painted until its watchdog has skipped it to where the rover is.

In `ControlPlane`:

* `DrivingIsTracked` also fails with `Loads = {l1}`, `Aborts = {b1}` and a start
  instead of the e-stop: a load in its thread writes back the state from before
  the abort and the start, IDLE while driving (`mission_loading.py:139`);
* and with two starts, a stop and one fault: after a stop the rover stays armed in
  OFFBOARD, and a start whose arm request fails leaves the path it has already
  published being driven in state ERROR (`offboard_controller.py:525-538`);
* and with `posed = FALSE` throughout, a start and a stop: a stop without a pose
  publishes no stop-path, leaves ERROR, and the rover drives on
  (`offboard_controller.py:623-636`);
* with one start and `DirectLoads = {d1}`, `mission = "entry" /\ ~stash`: an
  unguarded load loses the marking path of an entry leg
  (`offboard_controller.py:289`);
* with two starts, the completion's disarm is outstanding while the second start
  switches to OFFBOARD (`offboard_controller.py:818`);
* with one acquire and one request that times out, the failed open leaves the
  rover armed (`joystick_controller.py:182`);
* with one start and an operator's e-stop, RPP settles DONE on the stop-path while
  the e-stop awaits the FCU on the entry leg, and the telemetry loop publishes the
  marking path in its place (`offboard_controller.py:850`).

The modules written from the remaining code were checked to hold what section 3
says. Places where a comment or docstring promises something else than the code
does, met on the way and noted in the models where they matter:

Mission and paths:

* `ros_node.py:838` says the session configuration is published on every mission
  load; `/mission/load`, a start by name and the socket's load publish none, so the
  spray mode stays that of the mission before (`LoadRaw`).
* `routes/mission.py:80` compares the mission a client verified with the resident one
  before the start waits for the lock; a load meanwhile replaces it (`displaced`).
* `routes/mission.py:185` speaks of a now-empty path; a clear publishes no path.
* `routes/path.py:404` and `:2670` speak of the same age limit as the loader's; the
  load route checks no age and loads an expired artifact that is not pruned yet.
* `routes/path.py:1561` says a path is published where `load_path` publishes none.
* After a restart the server's mission state is IDLE whatever the rover does, and the
  guard of a load lets the mode of another mission in (`unvouched`).
* `ros_node.py:697-700`: the origin's request budget is re-armed by any origin that is
  received, a stale one from MAVROS's latch included.

Planner:

* `optimize_order=False` with the extensions off, the saved entity order of
  `path_manager.py:1289-1293`, inserts no travel between strokes that do not touch, and
  the leg from one to the next is painted. `PlanKeepsDrawing` excepts it (`Unlinked`).
* `close_loop` on a path that ends with a mark appends a point whose leg has the
  mark's flag; `engine.py:1340-1345` says the closing leg is driven with the spray
  off. `PlanKeepsDrawing` excepts it (`ClosedFromMark`).
* Closing a shape without declared control points declares its closing vertex as the
  only one.

RPP:

* `_split_run_at_corners` finds the corners of a thinned run by position
  (`:2193-2203`): on a path that passes a place twice, a corner is looked up at the
  wrong visit. `TurnsAreBoundaries` excepts it.
* `_absorb_short_connectors` moves a vertex marked must-hit onto the virtual corner
  (`:1284-1285`). `MustHitSurvives` excepts it.
* A corner's state stays latched when the rover leaves the radius again (`:4416`).
* The stop of `:5679-5680` is called continuous; STALE, RTK_WAIT and JUMP_SKIP ticks in
  between do not restart the dwell, and the cap for stale velocities counts from the
  entry (`:5702-5712`).
* A soft vertex missed by more than 5 cm leaves the segment index where it is.
* A run of one point is DONE without a stop (`:4228-4247`).
* `px4_start_service.sh:24-28` promises the watchdog at least one full attempt before
  the wait for the flag ends, which the sum of its own delays may exceed.

Spray node:

* `_gps_gate` is to be called once per tick (`:2121-2147`); the returns before it skip
  the call, and a fix lost and regained meanwhile needs no hold.
* The cross-track latch is cleared when there is no projection, so a lost pose
  bypasses its minimum off time.
* On a closed path the first scan of the whole path ties and takes the last leg; the
  window then keeps the projection there until the rover is beyond the reacquire
  distance. The direction gate, off by default, prevents it, but lets legs of no
  length pass whatever the heading (`:370-399`).
* `_path_cb` does not reset the last report of RPP: one about the path before counts
  until its timeout (`stray` in the model).
* `:1055-1059` says the geometries agree by construction. RPP ends every MARK at the end
  of its run, so it gives no opening lead across a corner; and on a path without
  doubled boundary vertices it takes a segment as painted when both ends are, the
  spray node when its first is.

## 7. What is not modelled

* Geometry and control law: RPP's speed and curvature, the fitting of arcs, entry
  placement. They are numerical and keep no discrete state; their verdicts are inputs.
* The DXF, CSV and waypoint parsers, arcs, fillets, smoothing, alignment and latency
  compensation of the path engine: a batch transformation in floating point. The
  cost by which the optimizer prefers an order: any order is allowed.
* `PointHandshake` keeps three words of the actuator and `SprayLine` none: they are
  composed with `SprayActuator` by what they hand to it (`mark`, `gates`), not in one
  state space.
* The fixed hold timer of RPP without the handshake and the meter's own arrival from
  pose; point missions of several runs.
* The legacy tick of the spray node without distances, flow scaling by speed, mission
  events and status texts.
* Operator arm and set_mode requests and the mission side of `POST
  /api/path/publish`: they act on the FCU or on `/path` without asking the mission
  or the arbiter.
* In the composition of bridge recovery and mission: the recovery cancels a stop that
  takes longer than 3 s, and stops only a RUNNING mission, not an entry leg
  (`bridge_health.py:231`). `BridgeHealth` has the recovery alone.
* A DONE that RPP settles on a stop-path and that is taken for the end of the entry
  leg (`offboard_controller.py:850`): section 6 has the trace, no property covers it.
* Authentication, parameters, telemetry payloads, discovery, RTCM relays, recording,
  offline tools: no part in who moves the rover or whether paint flows.

## 8. Plan

Done: the spray actuator, the point handshake, the gateway, the control plane, the
streamer, the launcher, the supervisor, bridge recovery, the RTK manager, RPP's tick and
the staging of missions, each with proofs, of the control plane also under which
conditions the properties hold that its stories refute; lines and dashes and the origin,
partly proved; RPP's intake and the planner, which TLC checks.

Left, in order:

1. Proofs: the latches of `SprayLine` (`NoGap` on one straight leg); the folds of
   `PathConditioning` and `PathPlanning`, by `Least`.
2. `BridgeHealth` beside `ControlPlane`: the cancelled stop, the entry leg.
3. `SprayLine` and `RppMotion` on one path, with the overspray margins; a reload of a
   point mission with reports in flight.
4. Standalone mission runner and path publisher; bag recorder; RTCM relays with their
   reconnects.
