------------------------------ MODULE MCServices -------------------------------
(* The services beside the control plane, one at a time: `subject` names the *)
(* one whose steps are explored, and the others stay in their initial state. *)
EXTENDS ManualControlGateway, NodeSupervisor, BridgeHealth, BridgeLauncher, SetpointStreamer, MCPathIntake,
        MCRppMotion, MissionCommit, MCPathPlanning

CONSTANTS c1, c2, a1, m1, m2
VARIABLE subject

MCOrder == <<c1, c2, a1>>
MCMode  == [m \in {m1, m2} |-> IF m = m1 THEN "dash" ELSE "point"]

gatewayRest  == <<supervisorVars, bridgeVars, launcherVars, streamerVars, intakeVars, motionVars, commitVars, planVars, subject>>
supervisorRest == <<gatewayVars, bridgeVars, launcherVars, streamerVars, intakeVars, motionVars, commitVars, planVars, subject>>
bridgeRest   == <<gatewayVars, supervisorVars, launcherVars, streamerVars, intakeVars, motionVars, commitVars, planVars, subject>>
launcherRest == <<gatewayVars, supervisorVars, bridgeVars, streamerVars, intakeVars, motionVars, commitVars, planVars, subject>>
streamerRest == <<gatewayVars, supervisorVars, bridgeVars, launcherVars, intakeVars, motionVars, commitVars, planVars, subject>>
intakeRest   == <<gatewayVars, supervisorVars, bridgeVars, launcherVars, streamerVars, motionVars, commitVars, planVars, subject>>
motionRest   == <<gatewayVars, supervisorVars, bridgeVars, launcherVars, streamerVars, intakeVars, commitVars, planVars, subject>>
commitRest   == <<gatewayVars, supervisorVars, bridgeVars, launcherVars, streamerVars, intakeVars, motionVars, planVars, subject>>
planRest     == <<gatewayVars, supervisorVars, bridgeVars, launcherVars, streamerVars, intakeVars, motionVars, commitVars, subject>>
MCVars == <<gatewayVars, gatewayRest>>

(* The inputs that the initial states choose are chosen for the subject only. *)
Chosen(name, S) == IF subject = name THEN S ELSE {CHOOSE x \in S : TRUE}

MCInit ==
  /\ subject \in {"gateway", "supervisor", "bridge", "launcher", "streamer", "path", "motion", "commit", "plan"}
  /\ frozen \in Chosen("bridge", BOOLEAN) /\ autoRecover \in Chosen("bridge", BOOLEAN)
  /\ flag \in Chosen("launcher", BOOLEAN) /\ lastYaw \in Chosen("streamer", Headings)
  /\ drawing \in Chosen("plan", Drawings) /\ options \in Chosen("plan", Options)
  /\ GatewayInit /\ SupervisorInit /\ BridgeInit /\ LauncherInit /\ StreamerInit
  /\ IntakeInit /\ MotionInit /\ CommitInit /\ PlanningInit

MCNext ==
  \/ subject = "gateway" /\ GatewayNext /\ UNCHANGED gatewayRest
  \/ subject = "supervisor" /\ SupervisorNext /\ UNCHANGED supervisorRest
  \/ subject = "bridge" /\ BridgeNext /\ UNCHANGED bridgeRest
  \/ subject = "launcher" /\ LauncherNext /\ UNCHANGED launcherRest
  \/ subject = "streamer" /\ StreamerNext /\ UNCHANGED streamerRest
  \/ subject = "path" /\ IntakeNext /\ UNCHANGED intakeRest
  \/ subject = "motion" /\ MotionNext /\ UNCHANGED motionRest
  \/ subject = "commit" /\ CommitNext /\ UNCHANGED commitRest
  \/ subject = "plan" /\ PlanningNext /\ UNCHANGED planRest

MCSpec == MCInit /\ [][MCNext]_MCVars

(* Each of the services keeps its state well typed.                         *)
ServicesTypeOK ==
  /\ GatewayTypeOK /\ SupervisorTypeOK /\ BridgeTypeOK /\ LauncherTypeOK
  /\ StreamerTypeOK /\ IntakeTypeOK /\ MotionTypeOK /\ PlanningTypeOK
=============================================================================
