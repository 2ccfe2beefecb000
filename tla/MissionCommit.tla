---------------------------- MODULE MissionCommit -----------------------------
(* From a staged mission to the spray node: the staging directory, the load   *)
(* to the controller, the start that names the mission it verified, and the   *)
(* two latched topics that carry its geometry and its spray mode.             *)
(*                                                                            *)
(* The lifecycle lock is held from the publication of the path to the end of *)
(* the start; the awaits inside the lifecycle calls are ControlPlane's.  A    *)
(* mission is its mode and whether it is surveyed, hence entered by an entry  *)
(* leg; Raw is a path that a client loads by its file name.                   *)
EXTENDS Integers

CONSTANTS
  StagedIds,    \* staged mission ids
  Mode,        \* the spray_session mode of each
  Surveyed,    \* those placed by GPS
  Starters,    \* requests to start
  Raw, NoMission,
  MaxRespawns  \* bounds the respawns of the server and of the spray node

Modes == {"continuous", "dash", "point"}

ASSUME CommitAssumption ==
  /\ Mode \in [StagedIds -> Modes] /\ Surveyed \subseteq StagedIds
  /\ Raw \notin StagedIds /\ NoMission \notin StagedIds \cup {Raw} \cup Modes \cup Starters
  /\ MaxRespawns \in Nat

VARIABLES
  shelf,      \* of each staging file: "fresh", "old" or "pruned"
  refused,    \* missions a client was told have expired
  resident,   \* _path_name, and whether it is a staged mission
  phase,      \* MissionState; rest: IDLE, COMPLETED, ABORTED or ERROR
  stash,      \* _entry_marking_pts
  holder,       \* the start that holds the lifecycle holder
  start,      \* of each request: "idle", "waits", "entry", "marking", "disarms"
  named,      \* the mission_id it was checked against
  displaced,  \* another mission was loaded while it waited
  wirePath, wireMode,    \* the samples the server's writers have latched
  pathNew, modeNew,      \* the spray node has not taken them yet
  nodePath, nodeMode,    \* _path_model and _session_mode
  meterOf,    \* the path the dash or point meter was built for
  followed,    \* the path RPP follows
  unvouched,    \* the mode is not the mission's for a reason given where it is set
  cleared,    \* the last word about the mode was a clear
  respawns

stagingVars == <<shelf, refused>>
startVars   == <<holder, start, named>>
wireVars    == <<wirePath, wireMode, pathNew, modeNew>>
nodeVars    == <<nodePath, nodeMode, meterOf>>
ghostVars   == <<unvouched, cleared>>
commitVars  == <<stagingVars, resident, phase, stash, startVars, displaced, wireVars, nodeVars, followed,
                 ghostVars, respawns>>

Nowhere  == [of |-> NoMission, leg |-> "none"]
StopPath == [of |-> NoMission, leg |-> "stop"]
WirePaths == [of : StagedIds \cup {Raw}, leg : {"entry", "marking"}] \cup {Nowhere, StopPath}

CommitInit ==
  /\ shelf = [m \in StagedIds |-> "fresh"] /\ refused = {}
  /\ resident = NoMission /\ phase = "rest" /\ stash = NoMission
  /\ holder = NoMission /\ start = [s \in Starters |-> "idle"]
  /\ named = [s \in Starters |-> NoMission] /\ displaced = {}
  /\ wirePath = Nowhere /\ wireMode = NoMission /\ pathNew = FALSE /\ modeNew = FALSE
  /\ nodePath = Nowhere /\ nodeMode = "continuous" /\ meterOf = Nowhere
  /\ followed = Nowhere /\ unvouched = FALSE /\ cleared = FALSE /\ respawns = 0

-----------------------------------------------------------------------------
\* Staging

\* _prune_staging
Pruned == [m \in StagedIds |-> IF shelf[m] = "old" THEN "pruned" ELSE shelf[m]]

\* _stage_mission of another mission: every artifact has an id of its own.
StageAnother ==
  /\ Pruned # shelf /\ shelf' = Pruned
  /\ UNCHANGED <<refused, resident, phase, stash, startVars, displaced, wireVars, nodeVars, followed,
                 ghostVars, respawns>>

\* The artifacts of the model were staged together and expire together.
Expire ==
  /\ \E m \in StagedIds : shelf[m] = "fresh"
  /\ shelf' = [m \in StagedIds |-> IF shelf[m] = "fresh" THEN "old" ELSE shelf[m]]
  /\ UNCHANGED <<refused, resident, phase, stash, startVars, displaced, wireVars, nodeVars, followed,
                 ghostVars, respawns>>

\* get_staged_mission: an expired artifact is pruned before the refusal.
Preview(m) ==
  /\ shelf[m] = "old"
  /\ shelf' = Pruned /\ refused' = refused \cup {m}
  /\ UNCHANGED <<resident, phase, stash, startVars, displaced, wireVars, nodeVars, followed, ghostVars,
                 respawns>>

-----------------------------------------------------------------------------
\* Loading

\* OffboardController.load_path
LoadPath(p) ==
  /\ resident' = p /\ stash' = NoMission
  /\ displaced' = displaced \cup {s \in Starters : named[s] \notin {p, NoMission}}
  /\ UNCHANGED <<stagingVars, phase, startVars, wirePath, pathNew, nodeVars, followed, respawns>>

PublishMode(mode) == wireMode' = mode /\ modeNew' = TRUE

\* load_mission_to_controller.  The mode goes unvouched when its publication
\* fails, and when the rover drives a path this server does not know of.
LoadToController(m) ==
  /\ phase = "rest" /\ shelf[m] \in {"fresh", "old"}
  /\ LoadPath(m)
  /\ \/ PublishMode(Mode[m]) /\ unvouched' = (followed # Nowhere)
     \/ unvouched' = TRUE /\ UNCHANGED <<wireMode, modeNew>>
  /\ cleared' = FALSE

\* /mission/load and the socket's mission_load: in any state, without a mode.
LoadRaw == LoadPath(Raw) /\ UNCHANGED <<wireMode, modeNew, ghostVars>>

\* set_spray_mode_continuous and set_spray_mode_dash
SetMode(mode) ==
  /\ PublishMode(mode)
  /\ unvouched' = TRUE /\ cleared' = FALSE
  /\ UNCHANGED <<stagingVars, resident, phase, stash, startVars, displaced, wirePath, pathNew, nodeVars,
                 followed, respawns>>

\* clear_mission: the cleared mode goes out in the step that clears.
ClearMission ==
  /\ holder = NoMission /\ phase = "rest"
  /\ resident' = NoMission /\ stash' = NoMission
  /\ \/ PublishMode("continuous") /\ cleared' = TRUE
     \/ cleared' = FALSE /\ UNCHANGED <<wireMode, modeNew>>
  /\ displaced' = displaced \cup {s \in Starters : named[s] # NoMission}
  /\ unvouched' = TRUE
  /\ UNCHANGED <<stagingVars, phase, startVars, wirePath, pathNew, nodeVars, followed, respawns>>

-----------------------------------------------------------------------------
\* Starting

SendPath(p) == wirePath' = p /\ pathNew' = TRUE

\* start_mission: a mission_id is compared with the resident mission at once,
\* and the request waits for the arbiter and the lifecycle holder.
AskStart(s, id) ==
  /\ start[s] = "idle"
  /\ id # NoMission => resident = id
  /\ start' = [start EXCEPT ![s] = "waits"] /\ named' = [named EXCEPT ![s] = id]
  /\ UNCHANGED <<stagingVars, resident, phase, stash, holder, displaced, wireVars, nodeVars, followed, ghostVars,
                 respawns>>

Forget(s) == named' = [named EXCEPT ![s] = NoMission] /\ displaced' = displaced \ {s}

StartRefused(s) ==
  /\ start[s] = "waits" /\ holder = NoMission
  /\ phase # "rest" \/ resident = NoMission
  /\ start' = [start EXCEPT ![s] = "idle"] /\ Forget(s)
  /\ UNCHANGED <<stagingVars, resident, phase, stash, holder, wireVars, nodeVars, followed, ghostVars, respawns>>

\* _start_locked up to its first await; far: not yet at the first point.
StartLocked(s, far) ==
  /\ start[s] = "waits" /\ holder = NoMission /\ phase = "rest" /\ resident # NoMission
  /\ far => resident \in Surveyed
  /\ LET leg == IF far THEN "entry" ELSE "marking"
     IN SendPath([of |-> resident, leg |-> leg]) /\ start' = [start EXCEPT ![s] = leg]
  /\ stash' = IF far THEN resident ELSE NoMission
  /\ phase' = "starting" /\ holder' = s /\ Forget(s)
  /\ UNCHANGED <<stagingVars, resident, wireMode, modeNew, nodeVars, followed, ghostVars, respawns>>

StartDone(s) ==
  /\ start[s] \in {"entry", "marking"}
  /\ phase' = IF start[s] = "entry" THEN "entry" ELSE "running"
  /\ followed' = wirePath
  /\ start' = [start EXCEPT ![s] = "idle"] /\ holder' = NoMission
  /\ UNCHANGED <<stagingVars, resident, stash, named, displaced, wireVars, nodeVars, ghostVars, respawns>>

\* ERROR is set before the disarm is awaited, with the holder still held.
StartFails(s) ==
  /\ start[s] \in {"entry", "marking"}
  /\ phase' = "rest" /\ start' = [start EXCEPT ![s] = "disarms"]
  /\ UNCHANGED <<stagingVars, resident, stash, holder, named, displaced, wireVars, nodeVars, followed,
                 ghostVars, respawns>>

StartUndone(s) ==
  /\ start[s] = "disarms"
  /\ start' = [start EXCEPT ![s] = "idle"] /\ holder' = NoMission /\ followed' = Nowhere
  /\ UNCHANGED <<stagingVars, resident, phase, stash, named, displaced, wireVars, nodeVars, ghostVars,
                 respawns>>

\* stop_async and abort_async
Stop ==
  /\ holder = NoMission /\ phase \in {"entry", "running"}
  /\ SendPath(StopPath) /\ followed' = Nowhere
  /\ phase' = "rest"
  /\ UNCHANGED <<stagingVars, resident, stash, startVars, displaced, wireMode, modeNew, nodeVars,
                 ghostVars, respawns>>

\* advance_entry_to_marking
EntryDone ==
  /\ phase = "entry" /\ followed = Nowhere
  /\ phase' = "running" /\ stash' = NoMission
  /\ IF stash = NoMission
       THEN UNCHANGED <<wirePath, pathNew, followed>>
       ELSE /\ SendPath([of |-> stash, leg |-> "marking"])
            /\ followed' = wirePath'
  /\ UNCHANGED <<stagingVars, resident, startVars, displaced, wireMode, modeNew, nodeVars, ghostVars,
                 respawns>>

\* mark_completed
MarkCompleted ==
  /\ phase = "running" /\ followed = Nowhere /\ phase' = "rest"
  /\ UNCHANGED <<stagingVars, resident, stash, startVars, displaced, wireVars, nodeVars, followed,
                 ghostVars, respawns>>

\* RPP ends the path it follows, whoever still watches.
FollowedOut ==
  /\ followed # Nowhere /\ followed' = Nowhere
  /\ UNCHANGED <<stagingVars, resident, phase, stash, startVars, displaced, wireVars, nodeVars,
                 ghostVars, respawns>>

-----------------------------------------------------------------------------
\* The spray node

Metered(mode) == mode \in {"dash", "point"}

\* As the code would be if a new path left the meters alone.
TakePathKeepsMeter ==
  /\ pathNew /\ pathNew' = FALSE
  /\ nodePath' = wirePath
  /\ UNCHANGED <<stagingVars, resident, phase, stash, startVars, displaced, wirePath, wireMode, modeNew,
                 nodeMode, meterOf, followed, ghostVars, respawns>>

\* _path_cb: the meters are rebuilt for the new geometry.
TakePath ==
  /\ pathNew /\ pathNew' = FALSE
  /\ nodePath' = wirePath
  /\ meterOf' = IF Metered(nodeMode) THEN wirePath ELSE meterOf
  /\ UNCHANGED <<stagingVars, resident, phase, stash, startVars, displaced, wirePath, wireMode, modeNew,
                 nodeMode, followed, ghostVars, respawns>>

\* _session_config_cb
TakeMode ==
  /\ modeNew /\ modeNew' = FALSE
  /\ nodeMode' = wireMode
  /\ meterOf' = IF Metered(wireMode) THEN nodePath ELSE Nowhere
  /\ UNCHANGED <<stagingVars, resident, phase, stash, startVars, displaced, wirePath, wireMode, pathNew,
                 nodePath, followed, ghostVars, respawns>>

\* A new node is continuous until the latched samples reach it, in any order.
NodeRespawns ==
  /\ respawns < MaxRespawns /\ respawns' = respawns + 1
  /\ nodePath' = Nowhere /\ nodeMode' = "continuous" /\ meterOf' = Nowhere
  /\ pathNew' = (wirePath # Nowhere) /\ modeNew' = (wireMode # NoMission)
  /\ UNCHANGED <<stagingVars, resident, phase, stash, startVars, displaced, wirePath, wireMode, followed,
                 ghostVars>>

\* The latched samples die with their writers; the rover drives on.
ServerRespawns ==
  /\ respawns < MaxRespawns /\ respawns' = respawns + 1
  /\ resident' = NoMission /\ phase' = "rest" /\ stash' = NoMission
  /\ holder' = NoMission /\ start' = [s \in Starters |-> "idle"] /\ displaced' = {}
  /\ named' = [s \in Starters |-> NoMission]
  /\ wirePath' = Nowhere /\ wireMode' = NoMission /\ pathNew' = FALSE /\ modeNew' = FALSE
  /\ unvouched' = (unvouched \/ modeNew) /\ cleared' = FALSE
  /\ UNCHANGED <<stagingVars, nodeVars, followed>>

CommitNext ==
  \/ StageAnother \/ Expire
  \/ \E m \in StagedIds : Preview(m) \/ LoadToController(m)
  \/ LoadRaw \/ ClearMission \/ \E mode \in {"continuous", "dash"} : SetMode(mode)
  \/ \E s \in Starters :
        \/ \E id \in StagedIds \cup {NoMission} : AskStart(s, id)
        \/ StartRefused(s) \/ StartDone(s) \/ StartFails(s) \/ StartUndone(s)
        \/ \E far \in BOOLEAN : StartLocked(s, far)
  \/ Stop \/ EntryDone \/ MarkCompleted \/ FollowedOut
  \/ TakePath \/ TakeMode \/ NodeRespawns \/ ServerRespawns

CommitSpec == CommitInit /\ [][CommitNext]_commitVars

-----------------------------------------------------------------------------
\* Properties

CommitTypeOK ==
  /\ shelf \in [StagedIds -> {"fresh", "old", "pruned"}] /\ refused \subseteq StagedIds
  /\ resident \in StagedIds \cup {Raw, NoMission} /\ stash \in StagedIds \cup {NoMission}
  /\ phase \in {"rest", "starting", "entry", "running"}
  /\ holder \in Starters \cup {NoMission} /\ displaced \subseteq Starters
  /\ start \in [Starters -> {"idle", "waits", "entry", "marking", "disarms"}]
  /\ named \in [Starters -> StagedIds \cup {NoMission}]
  /\ {wirePath, nodePath, meterOf, followed} \subseteq WirePaths
  /\ wireMode \in Modes \cup {NoMission} /\ nodeMode \in Modes
  /\ {pathNew, modeNew, unvouched, cleared} \subseteq BOOLEAN /\ respawns \in 0 .. MaxRespawns

(* The mode in force where a staged mission paints is the mission's own,     *)
(* across respawns of either process and in either order of the two topics:  *)
(* unless the operator set another, the publication failed, or the mode was  *)
(* loaded over a drive this server does not know of.                         *)
ModeInForce ==
  LET m == followed.of
  IN m \in StagedIds /\ followed.leg = "marking" /\ nodePath = followed /\ ~modeNew /\ ~unvouched
       => nodeMode = Mode[m]

(* A meter measures along the path the node holds, never along the one before: *)
(* the entry leg of the same mission is a path before.                         *)
MeterMeasuresPath == Metered(nodeMode) => meterOf = nodePath

(* After a clear no restart of the node brings the mode of the cleared       *)
(* mission back.                                                             *)
ClearedStaysClear == cleared /\ ~modeNew => nodeMode = "continuous"

(* A start that names the mission its client verified publishes that mission *)
(* or its successor of a load that came while it waited for the locks; and a *)
(* mission a client was told has expired is never loaded any more.           *)
VerifiedStart ==
  [][/\ \A s \in Starters :
          start[s] = "waits" /\ start'[s] \in {"entry", "marking"} /\ named[s] # NoMission /\ s \notin displaced
             => wirePath'.of = named[s]
     /\ resident' # resident => resident' \notin refused]_commitVars

CommitHolds == [](CommitTypeOK /\ ModeInForce /\ MeterMeasuresPath /\ ClearedStaysClear) /\ VerifiedStart
=============================================================================
