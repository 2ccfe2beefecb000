----------------------------- MODULE MissionProofs -----------------------------
(***************************************************************************)
(* MissionCommit for any staged missions, modes and requests: the mode a   *)
(* staged mission is painted in, and the mission a verified start starts.  *)
(*                                                                         *)
(* A mode is vouched for as long as nobody outside the load set it.  While *)
(* it is, every place a mission waits to be driven from (the resident      *)
(* mission, the stashed marking leg, the path of a start under way, the    *)
(* path RPP follows) agrees with the latched mode; a server that died      *)
(* leaves no such place behind but the path RPP follows, and then the mode *)
(* the node took before is the mission's (Vouched).                        *)
(*                                                                         *)
(* At the end, SurveyedOrigin: a surveyed mission is driven in the frame   *)
(* it was placed in.                                                       *)
(***************************************************************************)
EXTENDS MissionCommit, SurveyedOrigin, TLAPS

(* Who may publish: a start under way holds the lock.                       *)
StartHolds ==
  \A s \in Starters :
    /\ start[s] \in {"entry", "marking", "disarms"} => holder = s
    /\ start[s] \in {"entry", "marking"} => phase = "starting"

(* A sample is there to be taken, and once taken it is the node's mode.     *)
ModeTaken ==
  /\ modeNew => wireMode # NoMission
  /\ wireMode # NoMission /\ ~modeNew => nodeMode = wireMode

(* The mode of a mission that is to be driven is the latched one.           *)
Vouched ==
  ~unvouched =>
    /\ resident \in StagedIds => wireMode = Mode[resident]
    /\ stash \in StagedIds => wireMode = Mode[stash]
    /\ phase = "starting" /\ wirePath.of \in StagedIds => wireMode = Mode[wirePath.of]
    /\ wireMode = NoMission => wirePath.of \notin StagedIds
    /\ followed.of \in StagedIds =>
         \/ wireMode = Mode[followed.of]
         \/ /\ wireMode = NoMission /\ ~modeNew
            /\ nodePath = followed => nodeMode = Mode[followed.of]

ClearedOnWire == cleared => wireMode = "continuous"

(* What a request names is resident until another mission is loaded.        *)
NamedIsResident ==
  \A s \in Starters : named[s] # NoMission /\ s \notin displaced => resident = named[s]

RefusedIsGone == \A m \in refused : shelf[m] = "pruned"

CommitInv ==
  /\ CommitTypeOK
  /\ StartHolds /\ ModeTaken /\ Vouched
  /\ MeterMeasuresPath /\ ClearedOnWire /\ ClearedStaysClear
  /\ NamedIsResident /\ RefusedIsGone

-----------------------------------------------------------------------------
(* Steps of the server, of the rover and of the spray node.                 *)

LEMMA PathsTyped ==
  /\ Nowhere \in WirePaths /\ StopPath \in WirePaths
  /\ Nowhere.of = NoMission /\ StopPath.of = NoMission
  /\ \A m \in StagedIds \cup {Raw}, leg \in {"entry", "marking"} :
        /\ [of |-> m, leg |-> leg] \in WirePaths
        /\ [of |-> m, leg |-> leg].of = m
  BY DEF WirePaths, Nowhere, StopPath

LEMMA StageAnotherKeeps ==
  ASSUME CommitInv, StageAnother
  PROVE  CommitInv'
  <1>1. CommitTypeOK'
    BY CommitAssumption, PathsTyped DEF CommitInv, CommitTypeOK, StageAnother, Pruned, stagingVars, startVars, wireVars, nodeVars, ghostVars
  <1>2. RefusedIsGone'
    BY CommitAssumption DEF CommitInv, RefusedIsGone, CommitTypeOK, StageAnother, Pruned, stagingVars, startVars, wireVars, nodeVars, ghostVars
  <1>3. StartHolds' /\ ModeTaken' /\ Vouched' /\ MeterMeasuresPath' /\ ClearedOnWire' /\ ClearedStaysClear' /\ NamedIsResident'
    BY DEF CommitInv, StartHolds, ModeTaken, Vouched, MeterMeasuresPath, ClearedOnWire, ClearedStaysClear, NamedIsResident, Metered, StageAnother, Pruned, stagingVars, startVars, wireVars, nodeVars, ghostVars
  <1> QED
    BY <1>1, <1>2, <1>3 DEF CommitInv

LEMMA ExpireKeeps ==
  ASSUME CommitInv, Expire
  PROVE  CommitInv'
  <1>1. CommitTypeOK'
    BY CommitAssumption, PathsTyped DEF CommitInv, CommitTypeOK, Expire, stagingVars, startVars, wireVars, nodeVars, ghostVars
  <1>2. RefusedIsGone'
    BY CommitAssumption DEF CommitInv, RefusedIsGone, CommitTypeOK, Expire, stagingVars, startVars, wireVars, nodeVars, ghostVars
  <1>3. StartHolds' /\ ModeTaken' /\ Vouched' /\ MeterMeasuresPath' /\ ClearedOnWire' /\ ClearedStaysClear' /\ NamedIsResident'
    BY DEF CommitInv, StartHolds, ModeTaken, Vouched, MeterMeasuresPath, ClearedOnWire, ClearedStaysClear, NamedIsResident, Metered, Expire, stagingVars, startVars, wireVars, nodeVars, ghostVars
  <1> QED
    BY <1>1, <1>2, <1>3 DEF CommitInv

LEMMA PreviewKeeps ==
  ASSUME CommitInv, NEW m \in StagedIds, Preview(m)
  PROVE  CommitInv'
  <1>1. CommitTypeOK'
    BY CommitAssumption, PathsTyped DEF CommitInv, CommitTypeOK, Preview, Pruned, stagingVars, startVars, wireVars, nodeVars, ghostVars
  <1>2. RefusedIsGone'
    BY CommitAssumption DEF CommitInv, RefusedIsGone, CommitTypeOK, Preview, Pruned, stagingVars, startVars, wireVars, nodeVars, ghostVars
  <1>3. StartHolds' /\ ModeTaken' /\ Vouched' /\ MeterMeasuresPath' /\ ClearedOnWire' /\ ClearedStaysClear' /\ NamedIsResident'
    BY DEF CommitInv, StartHolds, ModeTaken, Vouched, MeterMeasuresPath, ClearedOnWire, ClearedStaysClear, NamedIsResident, Metered, Preview, Pruned, stagingVars, startVars, wireVars, nodeVars, ghostVars
  <1> QED
    BY <1>1, <1>2, <1>3 DEF CommitInv

LEMMA LoadToControllerKeeps ==
  ASSUME CommitInv, NEW m \in StagedIds, LoadToController(m)
  PROVE  CommitInv'
  <1>1. CommitTypeOK'
    <2>1. /\ shelf' \in [StagedIds -> {"fresh", "old", "pruned"}] /\ refused' \subseteq StagedIds
          /\ resident' \in StagedIds \cup {Raw, NoMission} /\ stash' \in StagedIds \cup {NoMission}
          /\ phase' \in {"rest", "starting", "entry", "running"}
          /\ holder' \in Starters \cup {NoMission} /\ displaced' \subseteq Starters
      BY CommitAssumption DEF CommitInv, CommitTypeOK, LoadToController, LoadPath, PublishMode, stagingVars, startVars, wireVars, nodeVars, ghostVars
    <2>2. /\ start' \in [Starters -> {"idle", "waits", "entry", "marking", "disarms"}]
          /\ named' \in [Starters -> StagedIds \cup {NoMission}]
      BY DEF CommitInv, CommitTypeOK, LoadToController, LoadPath, PublishMode, stagingVars, startVars, wireVars, nodeVars, ghostVars
    <2>3. {wirePath', nodePath', meterOf', followed'} \subseteq WirePaths
      BY CommitAssumption, PathsTyped DEF CommitInv, CommitTypeOK, LoadToController, LoadPath, PublishMode, stagingVars, startVars, wireVars, nodeVars, ghostVars
    <2>4. wireMode' \in Modes \cup {NoMission} /\ nodeMode' \in Modes
      BY CommitAssumption DEF CommitInv, CommitTypeOK, LoadToController, LoadPath, PublishMode, stagingVars, startVars, wireVars, nodeVars, ghostVars
    <2>5. {pathNew', modeNew', unvouched', cleared'} \subseteq BOOLEAN
      BY DEF CommitInv, CommitTypeOK, LoadToController, LoadPath, PublishMode, stagingVars, startVars, wireVars, nodeVars, ghostVars
    <2>6. respawns' \in 0 .. MaxRespawns
      BY CommitAssumption DEF CommitInv, CommitTypeOK, LoadToController, LoadPath, PublishMode, stagingVars, startVars, wireVars, nodeVars, ghostVars
    <2> QED
      BY <2>1, <2>2, <2>3, <2>4, <2>5, <2>6 DEF CommitTypeOK
  <1>2. ModeTaken'
    BY CommitAssumption DEF CommitInv, ModeTaken, CommitTypeOK, LoadToController, LoadPath, PublishMode, stagingVars, startVars, wireVars, nodeVars, ghostVars
  <1>3. Vouched'
    <2>1. CASE unvouched' = TRUE
      BY <2>1 DEF Vouched
    <2>2. CASE /\ wireMode' = Mode[m] /\ modeNew' = TRUE
               /\ unvouched' = (followed # Nowhere)
      <3>1. resident' = m /\ stash' = NoMission /\ phase = "rest" /\ UNCHANGED <<phase, followed>>
        BY DEF LoadToController, LoadPath
      <3>2. Mode[m] \in Modes /\ NoMission \notin StagedIds \cup Modes
        BY CommitAssumption
      <3>3. ~unvouched' => followed.of \notin StagedIds
        BY <2>2, <3>2, PathsTyped
      <3> QED
        BY <2>2, <3>1, <3>2, <3>3 DEF Vouched
    <2> QED
      BY <2>1, <2>2 DEF LoadToController, PublishMode
  <1>4. ClearedOnWire'
    BY DEF CommitInv, ClearedOnWire, LoadToController, LoadPath, PublishMode, stagingVars, startVars, wireVars, nodeVars, ghostVars
  <1>5. ClearedStaysClear'
    BY DEF CommitInv, ClearedStaysClear, ClearedOnWire, LoadToController, LoadPath, PublishMode, stagingVars, startVars, wireVars, nodeVars, ghostVars
  <1>6. NamedIsResident'
    BY CommitAssumption DEF CommitInv, NamedIsResident, CommitTypeOK, LoadToController, LoadPath, PublishMode, stagingVars, startVars, wireVars, nodeVars, ghostVars
  <1>7. StartHolds' /\ MeterMeasuresPath' /\ RefusedIsGone'
    BY DEF CommitInv, StartHolds, MeterMeasuresPath, RefusedIsGone, Metered, LoadToController, LoadPath, PublishMode, stagingVars, startVars, wireVars, nodeVars, ghostVars
  <1> QED
    BY <1>1, <1>2, <1>3, <1>4, <1>5, <1>6, <1>7 DEF CommitInv

LEMMA LoadRawKeeps ==
  ASSUME CommitInv, LoadRaw
  PROVE  CommitInv'
  <1>1. CommitTypeOK'
    BY CommitAssumption, PathsTyped DEF CommitInv, CommitTypeOK, LoadRaw, LoadPath, stagingVars, startVars, wireVars, nodeVars, ghostVars
  <1>2. Vouched'
    BY CommitAssumption, PathsTyped DEF CommitInv, Vouched, CommitTypeOK, LoadRaw, LoadPath, stagingVars, startVars, wireVars, nodeVars, ghostVars
  <1>3. NamedIsResident'
    BY CommitAssumption DEF CommitInv, NamedIsResident, CommitTypeOK, LoadRaw, LoadPath, stagingVars, startVars, wireVars, nodeVars, ghostVars
  <1>4. StartHolds' /\ ModeTaken' /\ MeterMeasuresPath' /\ ClearedOnWire' /\ ClearedStaysClear' /\ RefusedIsGone'
    BY DEF CommitInv, StartHolds, ModeTaken, MeterMeasuresPath, ClearedOnWire, ClearedStaysClear, RefusedIsGone, Metered, LoadRaw, LoadPath, stagingVars, startVars, wireVars, nodeVars, ghostVars
  <1> QED
    BY <1>1, <1>2, <1>3, <1>4 DEF CommitInv

LEMMA SetModeKeeps ==
  ASSUME CommitInv, NEW mode \in Modes, SetMode(mode)
  PROVE  CommitInv'
  <1>1. CommitTypeOK'
    BY CommitAssumption, PathsTyped DEF CommitInv, CommitTypeOK, SetMode, PublishMode, stagingVars, startVars, wireVars, nodeVars, ghostVars
  <1>2. ModeTaken'
    BY CommitAssumption DEF CommitInv, ModeTaken, CommitTypeOK, SetMode, PublishMode, stagingVars, startVars, wireVars, nodeVars, ghostVars
  <1>3. Vouched'
    BY CommitAssumption, PathsTyped DEF CommitInv, Vouched, CommitTypeOK, SetMode, PublishMode, stagingVars, startVars, wireVars, nodeVars, ghostVars
  <1>4. ClearedOnWire'
    BY DEF CommitInv, ClearedOnWire, SetMode, PublishMode, stagingVars, startVars, wireVars, nodeVars, ghostVars
  <1>5. ClearedStaysClear'
    BY DEF CommitInv, ClearedStaysClear, ClearedOnWire, SetMode, PublishMode, stagingVars, startVars, wireVars, nodeVars, ghostVars
  <1>6. StartHolds' /\ MeterMeasuresPath' /\ NamedIsResident' /\ RefusedIsGone'
    BY DEF CommitInv, StartHolds, MeterMeasuresPath, NamedIsResident, RefusedIsGone, Metered, SetMode, PublishMode, stagingVars, startVars, wireVars, nodeVars, ghostVars
  <1> QED
    BY <1>1, <1>2, <1>3, <1>4, <1>5, <1>6 DEF CommitInv

LEMMA ClearMissionKeeps ==
  ASSUME CommitInv, ClearMission
  PROVE  CommitInv'
  <1>1. CommitTypeOK'
    <2>1. /\ shelf' \in [StagedIds -> {"fresh", "old", "pruned"}] /\ refused' \subseteq StagedIds
          /\ resident' \in StagedIds \cup {Raw, NoMission} /\ stash' \in StagedIds \cup {NoMission}
          /\ phase' \in {"rest", "starting", "entry", "running"}
          /\ holder' \in Starters \cup {NoMission} /\ displaced' \subseteq Starters
      BY CommitAssumption DEF CommitInv, CommitTypeOK, ClearMission, PublishMode, stagingVars, startVars, wireVars, nodeVars, ghostVars
    <2>2. /\ start' \in [Starters -> {"idle", "waits", "entry", "marking", "disarms"}]
          /\ named' \in [Starters -> StagedIds \cup {NoMission}]
      BY DEF CommitInv, CommitTypeOK, ClearMission, PublishMode, stagingVars, startVars, wireVars, nodeVars, ghostVars
    <2>3. {wirePath', nodePath', meterOf', followed'} \subseteq WirePaths
      BY CommitAssumption, PathsTyped DEF CommitInv, CommitTypeOK, ClearMission, PublishMode, stagingVars, startVars, wireVars, nodeVars, ghostVars
    <2>4. wireMode' \in Modes \cup {NoMission} /\ nodeMode' \in Modes
      BY CommitAssumption DEF CommitInv, CommitTypeOK, ClearMission, PublishMode, stagingVars, startVars, wireVars, nodeVars, ghostVars, Modes
    <2>5. {pathNew', modeNew', unvouched', cleared'} \subseteq BOOLEAN
      BY DEF CommitInv, CommitTypeOK, ClearMission, PublishMode, stagingVars, startVars, wireVars, nodeVars, ghostVars
    <2>6. respawns' \in 0 .. MaxRespawns
      BY CommitAssumption DEF CommitInv, CommitTypeOK, ClearMission, PublishMode, stagingVars, startVars, wireVars, nodeVars, ghostVars
    <2> QED
      BY <2>1, <2>2, <2>3, <2>4, <2>5, <2>6 DEF CommitTypeOK
  <1>2. ModeTaken'
    <2>1. "continuous" # NoMission
      BY CommitAssumption DEF Modes
    <2> QED
      BY <2>1 DEF CommitInv, ModeTaken, ClearMission, PublishMode, nodeVars
  <1>3. Vouched'
    BY CommitAssumption, PathsTyped DEF CommitInv, Vouched, CommitTypeOK, ClearMission, PublishMode, stagingVars, startVars, wireVars, nodeVars, ghostVars
  <1>4. ClearedOnWire'
    BY DEF CommitInv, ClearedOnWire, ClearMission, PublishMode, stagingVars, startVars, wireVars, nodeVars, ghostVars
  <1>5. ClearedStaysClear'
    BY DEF CommitInv, ClearedStaysClear, ClearedOnWire, ClearMission, PublishMode, stagingVars, startVars, wireVars, nodeVars, ghostVars
  <1>6. NamedIsResident'
    BY CommitAssumption DEF CommitInv, NamedIsResident, CommitTypeOK, ClearMission, PublishMode, stagingVars, startVars, wireVars, nodeVars, ghostVars
  <1>7. StartHolds' /\ MeterMeasuresPath' /\ RefusedIsGone'
    BY DEF CommitInv, StartHolds, MeterMeasuresPath, RefusedIsGone, Metered, ClearMission, PublishMode, stagingVars, startVars, wireVars, nodeVars, ghostVars
  <1> QED
    BY <1>1, <1>2, <1>3, <1>4, <1>5, <1>6, <1>7 DEF CommitInv

LEMMA AskStartKeeps ==
  ASSUME CommitInv, NEW s \in Starters, NEW id \in StagedIds \cup {NoMission}, AskStart(s, id)
  PROVE  CommitInv'
  <1>1. CommitTypeOK'
    BY CommitAssumption, PathsTyped DEF CommitInv, CommitTypeOK, AskStart, stagingVars, startVars, wireVars, nodeVars, ghostVars
  <1>2. StartHolds'
    BY CommitAssumption DEF CommitInv, StartHolds, CommitTypeOK, AskStart, stagingVars, startVars, wireVars, nodeVars, ghostVars
  <1>3. NamedIsResident'
    BY CommitAssumption DEF CommitInv, NamedIsResident, CommitTypeOK, AskStart, stagingVars, startVars, wireVars, nodeVars, ghostVars
  <1>4. ModeTaken' /\ Vouched' /\ MeterMeasuresPath' /\ ClearedOnWire' /\ ClearedStaysClear' /\ RefusedIsGone'
    BY DEF CommitInv, ModeTaken, Vouched, MeterMeasuresPath, ClearedOnWire, ClearedStaysClear, RefusedIsGone, Metered, AskStart, stagingVars, startVars, wireVars, nodeVars, ghostVars
  <1> QED
    BY <1>1, <1>2, <1>3, <1>4 DEF CommitInv

LEMMA StartRefusedKeeps ==
  ASSUME CommitInv, NEW s \in Starters, StartRefused(s)
  PROVE  CommitInv'
  <1>1. CommitTypeOK'
    BY CommitAssumption, PathsTyped DEF CommitInv, CommitTypeOK, StartRefused, Forget, stagingVars, startVars, wireVars, nodeVars, ghostVars
  <1>2. StartHolds'
    BY CommitAssumption DEF CommitInv, StartHolds, CommitTypeOK, StartRefused, Forget, stagingVars, startVars, wireVars, nodeVars, ghostVars
  <1>3. NamedIsResident'
    BY CommitAssumption DEF CommitInv, NamedIsResident, CommitTypeOK, StartRefused, Forget, stagingVars, startVars, wireVars, nodeVars, ghostVars
  <1>4. ModeTaken' /\ Vouched' /\ MeterMeasuresPath' /\ ClearedOnWire' /\ ClearedStaysClear' /\ RefusedIsGone'
    BY DEF CommitInv, ModeTaken, Vouched, MeterMeasuresPath, ClearedOnWire, ClearedStaysClear, RefusedIsGone, Metered, StartRefused, Forget, stagingVars, startVars, wireVars, nodeVars, ghostVars
  <1> QED
    BY <1>1, <1>2, <1>3, <1>4 DEF CommitInv

LEMMA StartLockedKeeps ==
  ASSUME CommitInv, NEW s \in Starters, NEW far \in BOOLEAN, StartLocked(s, far)
  PROVE  CommitInv'
  <1>1. CommitTypeOK'
    <2>1. /\ shelf' \in [StagedIds -> {"fresh", "old", "pruned"}] /\ refused' \subseteq StagedIds
          /\ resident' \in StagedIds \cup {Raw, NoMission} /\ stash' \in StagedIds \cup {NoMission}
          /\ phase' \in {"rest", "starting", "entry", "running"}
          /\ holder' \in Starters \cup {NoMission} /\ displaced' \subseteq Starters
      BY CommitAssumption DEF CommitInv, CommitTypeOK, StartLocked, Forget, SendPath, stagingVars, startVars, wireVars, nodeVars, ghostVars
    <2>2. /\ start' \in [Starters -> {"idle", "waits", "entry", "marking", "disarms"}]
          /\ named' \in [Starters -> StagedIds \cup {NoMission}]
      BY DEF CommitInv, CommitTypeOK, StartLocked, Forget, SendPath, stagingVars, startVars, wireVars, nodeVars, ghostVars
    <2>3. {wirePath', nodePath', meterOf', followed'} \subseteq WirePaths
      <3>1. PICK leg \in {"entry", "marking"} : wirePath' = [of |-> resident, leg |-> leg]
        BY DEF StartLocked, SendPath
      <3>2. wirePath' \in WirePaths
        BY <3>1, PathsTyped DEF CommitInv, CommitTypeOK, StartLocked
      <3> QED
        BY <3>2 DEF CommitInv, CommitTypeOK, StartLocked, nodeVars
    <2>4. wireMode' \in Modes \cup {NoMission} /\ nodeMode' \in Modes
      BY CommitAssumption DEF CommitInv, CommitTypeOK, StartLocked, Forget, SendPath, stagingVars, startVars, wireVars, nodeVars, ghostVars
    <2>5. {pathNew', modeNew', unvouched', cleared'} \subseteq BOOLEAN
      BY DEF CommitInv, CommitTypeOK, StartLocked, Forget, SendPath, stagingVars, startVars, wireVars, nodeVars, ghostVars
    <2>6. respawns' \in 0 .. MaxRespawns
      BY CommitAssumption DEF CommitInv, CommitTypeOK, StartLocked, Forget, SendPath, stagingVars, startVars, wireVars, nodeVars, ghostVars
    <2> QED
      BY <2>1, <2>2, <2>3, <2>4, <2>5, <2>6 DEF CommitTypeOK
  <1>2. StartHolds'
    BY CommitAssumption DEF CommitInv, StartHolds, CommitTypeOK, StartLocked, Forget, SendPath, stagingVars, startVars, wireVars, nodeVars, ghostVars
  <1>3. Vouched'
    BY CommitAssumption, PathsTyped DEF CommitInv, Vouched, CommitTypeOK, StartLocked, Forget, SendPath, stagingVars, startVars, wireVars, nodeVars, ghostVars
  <1>4. NamedIsResident'
    BY CommitAssumption DEF CommitInv, NamedIsResident, CommitTypeOK, StartLocked, Forget, SendPath, stagingVars, startVars, wireVars, nodeVars, ghostVars
  <1>5. ModeTaken' /\ MeterMeasuresPath' /\ ClearedOnWire' /\ ClearedStaysClear' /\ RefusedIsGone'
    BY DEF CommitInv, ModeTaken, MeterMeasuresPath, ClearedOnWire, ClearedStaysClear, RefusedIsGone, Metered, StartLocked, Forget, SendPath, stagingVars, startVars, wireVars, nodeVars, ghostVars
  <1> QED
    BY <1>1, <1>2, <1>3, <1>4, <1>5 DEF CommitInv

LEMMA StartDoneKeeps ==
  ASSUME CommitInv, NEW s \in Starters, StartDone(s)
  PROVE  CommitInv'
  <1>1. CommitTypeOK'
    BY CommitAssumption, PathsTyped DEF CommitInv, CommitTypeOK, StartDone, stagingVars, startVars, wireVars, nodeVars, ghostVars
  <1>2. StartHolds'
    BY CommitAssumption DEF CommitInv, StartHolds, CommitTypeOK, StartDone, stagingVars, startVars, wireVars, nodeVars, ghostVars
  <1>3. Vouched'
    <2>1. /\ phase = "starting" /\ phase' \in {"entry", "running"} /\ followed' = wirePath
          /\ UNCHANGED <<resident, stash, wirePath, wireMode, modeNew, unvouched, nodePath, nodeMode>>
      BY DEF CommitInv, StartHolds, StartDone, wireVars, nodeVars, ghostVars
    <2> QED
      BY <2>1 DEF CommitInv, Vouched
  <1>4. ModeTaken' /\ MeterMeasuresPath' /\ ClearedOnWire' /\ ClearedStaysClear' /\ NamedIsResident' /\ RefusedIsGone'
    BY DEF CommitInv, ModeTaken, MeterMeasuresPath, ClearedOnWire, ClearedStaysClear, NamedIsResident, RefusedIsGone, Metered, StartDone, stagingVars, startVars, wireVars, nodeVars, ghostVars
  <1> QED
    BY <1>1, <1>2, <1>3, <1>4 DEF CommitInv

LEMMA StartFailsKeeps ==
  ASSUME CommitInv, NEW s \in Starters, StartFails(s)
  PROVE  CommitInv'
  <1>1. CommitTypeOK'
    BY CommitAssumption, PathsTyped DEF CommitInv, CommitTypeOK, StartFails, stagingVars, startVars, wireVars, nodeVars, ghostVars
  <1>2. StartHolds'
    BY CommitAssumption DEF CommitInv, StartHolds, CommitTypeOK, StartFails, stagingVars, startVars, wireVars, nodeVars, ghostVars
  <1>3. Vouched'
    BY CommitAssumption, PathsTyped DEF CommitInv, Vouched, CommitTypeOK, StartFails, stagingVars, startVars, wireVars, nodeVars, ghostVars
  <1>4. ModeTaken' /\ MeterMeasuresPath' /\ ClearedOnWire' /\ ClearedStaysClear' /\ NamedIsResident' /\ RefusedIsGone'
    BY DEF CommitInv, ModeTaken, MeterMeasuresPath, ClearedOnWire, ClearedStaysClear, NamedIsResident, RefusedIsGone, Metered, StartFails, stagingVars, startVars, wireVars, nodeVars, ghostVars
  <1> QED
    BY <1>1, <1>2, <1>3, <1>4 DEF CommitInv

LEMMA StartUndoneKeeps ==
  ASSUME CommitInv, NEW s \in Starters, StartUndone(s)
  PROVE  CommitInv'
  <1>1. CommitTypeOK'
    BY CommitAssumption, PathsTyped DEF CommitInv, CommitTypeOK, StartUndone, stagingVars, startVars, wireVars, nodeVars, ghostVars
  <1>2. StartHolds'
    BY CommitAssumption DEF CommitInv, StartHolds, CommitTypeOK, StartUndone, stagingVars, startVars, wireVars, nodeVars, ghostVars
  <1>3. Vouched'
    BY CommitAssumption, PathsTyped DEF CommitInv, Vouched, CommitTypeOK, StartUndone, stagingVars, startVars, wireVars, nodeVars, ghostVars
  <1>4. ModeTaken' /\ MeterMeasuresPath' /\ ClearedOnWire' /\ ClearedStaysClear' /\ NamedIsResident' /\ RefusedIsGone'
    BY DEF CommitInv, ModeTaken, MeterMeasuresPath, ClearedOnWire, ClearedStaysClear, NamedIsResident, RefusedIsGone, Metered, StartUndone, stagingVars, startVars, wireVars, nodeVars, ghostVars
  <1> QED
    BY <1>1, <1>2, <1>3, <1>4 DEF CommitInv

LEMMA StopKeeps ==
  ASSUME CommitInv, Stop
  PROVE  CommitInv'
  <1>1. CommitTypeOK'
    BY CommitAssumption, PathsTyped DEF CommitInv, CommitTypeOK, Stop, SendPath, stagingVars, startVars, wireVars, nodeVars, ghostVars
  <1>2. StartHolds'
    BY CommitAssumption DEF CommitInv, StartHolds, CommitTypeOK, Stop, SendPath, stagingVars, startVars, wireVars, nodeVars, ghostVars
  <1>3. Vouched'
    BY CommitAssumption, PathsTyped DEF CommitInv, Vouched, CommitTypeOK, Stop, SendPath, stagingVars, startVars, wireVars, nodeVars, ghostVars
  <1>4. ModeTaken' /\ MeterMeasuresPath' /\ ClearedOnWire' /\ ClearedStaysClear' /\ NamedIsResident' /\ RefusedIsGone'
    BY DEF CommitInv, ModeTaken, MeterMeasuresPath, ClearedOnWire, ClearedStaysClear, NamedIsResident, RefusedIsGone, Metered, Stop, SendPath, stagingVars, startVars, wireVars, nodeVars, ghostVars
  <1> QED
    BY <1>1, <1>2, <1>3, <1>4 DEF CommitInv

LEMMA EntryDoneKeeps ==
  ASSUME CommitInv, EntryDone
  PROVE  CommitInv'
  <1>1. CommitTypeOK'
    <2>1. /\ shelf' \in [StagedIds -> {"fresh", "old", "pruned"}] /\ refused' \subseteq StagedIds
          /\ resident' \in StagedIds \cup {Raw, NoMission} /\ stash' \in StagedIds \cup {NoMission}
          /\ phase' \in {"rest", "starting", "entry", "running"}
          /\ holder' \in Starters \cup {NoMission} /\ displaced' \subseteq Starters
      BY CommitAssumption DEF CommitInv, CommitTypeOK, EntryDone, SendPath, stagingVars, startVars, wireVars, nodeVars, ghostVars
    <2>2. /\ start' \in [Starters -> {"idle", "waits", "entry", "marking", "disarms"}]
          /\ named' \in [Starters -> StagedIds \cup {NoMission}]
      BY DEF CommitInv, CommitTypeOK, EntryDone, SendPath, stagingVars, startVars, wireVars, nodeVars, ghostVars
    <2>3. {wirePath', nodePath', meterOf', followed'} \subseteq WirePaths
      <3>1. \/ wirePath' = wirePath /\ followed' = followed
            \/ /\ stash \in StagedIds /\ wirePath' = [of |-> stash, leg |-> "marking"]
               /\ followed' = wirePath'
        BY DEF CommitInv, CommitTypeOK, EntryDone, SendPath
      <3>2. wirePath' \in WirePaths /\ followed' \in WirePaths
        <4>1. \A m \in StagedIds : [of |-> m, leg |-> "marking"] \in WirePaths
          BY DEF WirePaths
        <4>2. wirePath \in WirePaths /\ followed \in WirePaths
          BY DEF CommitInv, CommitTypeOK
        <4> QED
          BY <3>1, <4>1, <4>2
      <3> QED
        BY <3>2 DEF CommitInv, CommitTypeOK, EntryDone, nodeVars
    <2>4. wireMode' \in Modes \cup {NoMission} /\ nodeMode' \in Modes
      BY CommitAssumption DEF CommitInv, CommitTypeOK, EntryDone, SendPath, stagingVars, startVars, wireVars, nodeVars, ghostVars
    <2>5. {pathNew', modeNew', unvouched', cleared'} \subseteq BOOLEAN
      BY DEF CommitInv, CommitTypeOK, EntryDone, SendPath, stagingVars, startVars, wireVars, nodeVars, ghostVars
    <2>6. respawns' \in 0 .. MaxRespawns
      BY CommitAssumption DEF CommitInv, CommitTypeOK, EntryDone, SendPath, stagingVars, startVars, wireVars, nodeVars, ghostVars
    <2> QED
      BY <2>1, <2>2, <2>3, <2>4, <2>5, <2>6 DEF CommitTypeOK
  <1>2. StartHolds'
    BY CommitAssumption DEF CommitInv, StartHolds, CommitTypeOK, EntryDone, SendPath, stagingVars, startVars, wireVars, nodeVars, ghostVars
  <1>3. Vouched'
    BY CommitAssumption, PathsTyped DEF CommitInv, Vouched, CommitTypeOK, EntryDone, SendPath, stagingVars, startVars, wireVars, nodeVars, ghostVars
  <1>4. ModeTaken' /\ MeterMeasuresPath' /\ ClearedOnWire' /\ ClearedStaysClear' /\ NamedIsResident' /\ RefusedIsGone'
    BY DEF CommitInv, ModeTaken, MeterMeasuresPath, ClearedOnWire, ClearedStaysClear, NamedIsResident, RefusedIsGone, Metered, EntryDone, SendPath, stagingVars, startVars, wireVars, nodeVars, ghostVars
  <1> QED
    BY <1>1, <1>2, <1>3, <1>4 DEF CommitInv

LEMMA MarkCompletedKeeps ==
  ASSUME CommitInv, MarkCompleted
  PROVE  CommitInv'
  <1>1. CommitTypeOK'
    BY CommitAssumption, PathsTyped DEF CommitInv, CommitTypeOK, MarkCompleted, stagingVars, startVars, wireVars, nodeVars, ghostVars
  <1>2. StartHolds'
    BY CommitAssumption DEF CommitInv, StartHolds, CommitTypeOK, MarkCompleted, stagingVars, startVars, wireVars, nodeVars, ghostVars
  <1>3. Vouched'
    BY CommitAssumption, PathsTyped DEF CommitInv, Vouched, CommitTypeOK, MarkCompleted, stagingVars, startVars, wireVars, nodeVars, ghostVars
  <1>4. ModeTaken' /\ MeterMeasuresPath' /\ ClearedOnWire' /\ ClearedStaysClear' /\ NamedIsResident' /\ RefusedIsGone'
    BY DEF CommitInv, ModeTaken, MeterMeasuresPath, ClearedOnWire, ClearedStaysClear, NamedIsResident, RefusedIsGone, Metered, MarkCompleted, stagingVars, startVars, wireVars, nodeVars, ghostVars
  <1> QED
    BY <1>1, <1>2, <1>3, <1>4 DEF CommitInv

LEMMA FollowedOutKeeps ==
  ASSUME CommitInv, FollowedOut
  PROVE  CommitInv'
  <1>1. CommitTypeOK'
    BY CommitAssumption, PathsTyped DEF CommitInv, CommitTypeOK, FollowedOut, stagingVars, startVars, wireVars, nodeVars, ghostVars
  <1>2. Vouched'
    BY CommitAssumption, PathsTyped DEF CommitInv, Vouched, CommitTypeOK, FollowedOut, stagingVars, startVars, wireVars, nodeVars, ghostVars
  <1>3. StartHolds' /\ ModeTaken' /\ MeterMeasuresPath' /\ ClearedOnWire' /\ ClearedStaysClear' /\ NamedIsResident' /\ RefusedIsGone'
    BY DEF CommitInv, StartHolds, ModeTaken, MeterMeasuresPath, ClearedOnWire, ClearedStaysClear, NamedIsResident, RefusedIsGone, Metered, FollowedOut, stagingVars, startVars, wireVars, nodeVars, ghostVars
  <1> QED
    BY <1>1, <1>2, <1>3 DEF CommitInv

LEMMA TakePathKeeps ==
  ASSUME CommitInv, TakePath
  PROVE  CommitInv'
  <1>1. CommitTypeOK'
    BY ZenonT(30), CommitAssumption, PathsTyped DEF CommitInv, CommitTypeOK, TakePath, stagingVars, startVars, wireVars, nodeVars, ghostVars
  <1>2. Vouched'
    BY CommitAssumption, PathsTyped DEF CommitInv, Vouched, CommitTypeOK, TakePath, stagingVars, startVars, wireVars, nodeVars, ghostVars
  <1>3. MeterMeasuresPath'
    BY DEF CommitInv, MeterMeasuresPath, Metered, TakePath, stagingVars, startVars, wireVars, nodeVars, ghostVars
  <1>4. StartHolds' /\ ModeTaken' /\ ClearedOnWire' /\ ClearedStaysClear' /\ NamedIsResident' /\ RefusedIsGone'
    BY DEF CommitInv, StartHolds, ModeTaken, ClearedOnWire, ClearedStaysClear, NamedIsResident, RefusedIsGone, TakePath, stagingVars, startVars, wireVars, nodeVars, ghostVars
  <1> QED
    BY <1>1, <1>2, <1>3, <1>4 DEF CommitInv

LEMMA TakeModeKeeps ==
  ASSUME CommitInv, TakeMode
  PROVE  CommitInv'
  <1>1. CommitTypeOK'
    <2>1. /\ shelf' \in [StagedIds -> {"fresh", "old", "pruned"}] /\ refused' \subseteq StagedIds
          /\ resident' \in StagedIds \cup {Raw, NoMission} /\ stash' \in StagedIds \cup {NoMission}
          /\ phase' \in {"rest", "starting", "entry", "running"}
          /\ holder' \in Starters \cup {NoMission} /\ displaced' \subseteq Starters
      BY CommitAssumption DEF CommitInv, CommitTypeOK, TakeMode, stagingVars, startVars, wireVars, nodeVars, ghostVars
    <2>2. /\ start' \in [Starters -> {"idle", "waits", "entry", "marking", "disarms"}]
          /\ named' \in [Starters -> StagedIds \cup {NoMission}]
      BY DEF CommitInv, CommitTypeOK, TakeMode, stagingVars, startVars, wireVars, nodeVars, ghostVars
    <2>3. {wirePath', nodePath', meterOf', followed'} \subseteq WirePaths
      BY CommitAssumption, PathsTyped DEF CommitInv, CommitTypeOK, TakeMode, stagingVars, startVars, wireVars, nodeVars, ghostVars
    <2>4. wireMode' \in Modes \cup {NoMission} /\ nodeMode' \in Modes
      BY DEF CommitInv, CommitTypeOK, ModeTaken, TakeMode
    <2>5. {pathNew', modeNew', unvouched', cleared'} \subseteq BOOLEAN
      BY DEF CommitInv, CommitTypeOK, TakeMode, stagingVars, startVars, wireVars, nodeVars, ghostVars
    <2>6. respawns' \in 0 .. MaxRespawns
      BY CommitAssumption DEF CommitInv, CommitTypeOK, TakeMode, stagingVars, startVars, wireVars, nodeVars, ghostVars
    <2> QED
      BY <2>1, <2>2, <2>3, <2>4, <2>5, <2>6 DEF CommitTypeOK
  <1>2. ModeTaken'
    BY CommitAssumption DEF CommitInv, ModeTaken, CommitTypeOK, TakeMode, stagingVars, startVars, wireVars, nodeVars, ghostVars
  <1>3. Vouched'
    BY CommitAssumption, PathsTyped DEF CommitInv, Vouched, CommitTypeOK, TakeMode, stagingVars, startVars, wireVars, nodeVars, ghostVars
  <1>4. MeterMeasuresPath'
    BY DEF CommitInv, MeterMeasuresPath, Metered, TakeMode, stagingVars, startVars, wireVars, nodeVars, ghostVars
  <1>5. ClearedStaysClear'
    BY DEF CommitInv, ClearedStaysClear, ClearedOnWire, TakeMode, stagingVars, startVars, wireVars, nodeVars, ghostVars
  <1>6. StartHolds' /\ ClearedOnWire' /\ NamedIsResident' /\ RefusedIsGone'
    BY DEF CommitInv, StartHolds, ClearedOnWire, NamedIsResident, RefusedIsGone, TakeMode, stagingVars, startVars, wireVars, nodeVars, ghostVars
  <1> QED
    BY <1>1, <1>2, <1>3, <1>4, <1>5, <1>6 DEF CommitInv

LEMMA NodeRespawnsKeeps ==
  ASSUME CommitInv, NodeRespawns
  PROVE  CommitInv'
  <1>1. CommitTypeOK'
    <2>1. /\ shelf' \in [StagedIds -> {"fresh", "old", "pruned"}] /\ refused' \subseteq StagedIds
          /\ resident' \in StagedIds \cup {Raw, NoMission} /\ stash' \in StagedIds \cup {NoMission}
          /\ phase' \in {"rest", "starting", "entry", "running"}
          /\ holder' \in Starters \cup {NoMission} /\ displaced' \subseteq Starters
      BY CommitAssumption DEF CommitInv, CommitTypeOK, NodeRespawns, stagingVars, startVars, wireVars, nodeVars, ghostVars
    <2>2. /\ start' \in [Starters -> {"idle", "waits", "entry", "marking", "disarms"}]
          /\ named' \in [Starters -> StagedIds \cup {NoMission}]
      BY DEF CommitInv, CommitTypeOK, NodeRespawns, stagingVars, startVars, wireVars, nodeVars, ghostVars
    <2>3. {wirePath', nodePath', meterOf', followed'} \subseteq WirePaths
      BY CommitAssumption, PathsTyped DEF CommitInv, CommitTypeOK, NodeRespawns, stagingVars, startVars, wireVars, nodeVars, ghostVars
    <2>4. wireMode' \in Modes \cup {NoMission} /\ nodeMode' \in Modes
      BY CommitAssumption DEF CommitInv, CommitTypeOK, NodeRespawns, stagingVars, startVars, wireVars, nodeVars, ghostVars, Modes
    <2>5. {pathNew', modeNew', unvouched', cleared'} \subseteq BOOLEAN
      BY DEF CommitInv, CommitTypeOK, NodeRespawns, stagingVars, startVars, wireVars, nodeVars, ghostVars
    <2>6. respawns' \in 0 .. MaxRespawns
      BY CommitAssumption DEF CommitInv, CommitTypeOK, NodeRespawns, stagingVars, startVars, wireVars, nodeVars, ghostVars
    <2> QED
      BY <2>1, <2>2, <2>3, <2>4, <2>5, <2>6 DEF CommitTypeOK
  <1>2. ModeTaken'
    BY CommitAssumption DEF CommitInv, ModeTaken, CommitTypeOK, NodeRespawns, stagingVars, startVars, wireVars, nodeVars, ghostVars
  <1>3. Vouched'
    BY CommitAssumption, PathsTyped DEF CommitInv, Vouched, CommitTypeOK, NodeRespawns, stagingVars, startVars, wireVars, nodeVars, ghostVars
  <1>4. MeterMeasuresPath'
    BY DEF CommitInv, MeterMeasuresPath, Metered, NodeRespawns, stagingVars, startVars, wireVars, nodeVars, ghostVars
  <1>5. ClearedStaysClear'
    BY DEF CommitInv, ClearedStaysClear, ClearedOnWire, NodeRespawns, stagingVars, startVars, wireVars, nodeVars, ghostVars
  <1>6. StartHolds' /\ ClearedOnWire' /\ NamedIsResident' /\ RefusedIsGone'
    BY DEF CommitInv, StartHolds, ClearedOnWire, NamedIsResident, RefusedIsGone, NodeRespawns, stagingVars, startVars, wireVars, nodeVars, ghostVars
  <1> QED
    BY <1>1, <1>2, <1>3, <1>4, <1>5, <1>6 DEF CommitInv

LEMMA ServerRespawnsKeeps ==
  ASSUME CommitInv, ServerRespawns
  PROVE  CommitInv'
  <1>1. CommitTypeOK'
    <2>1. /\ shelf' \in [StagedIds -> {"fresh", "old", "pruned"}] /\ refused' \subseteq StagedIds
          /\ resident' \in StagedIds \cup {Raw, NoMission} /\ stash' \in StagedIds \cup {NoMission}
          /\ phase' \in {"rest", "starting", "entry", "running"}
          /\ holder' \in Starters \cup {NoMission} /\ displaced' \subseteq Starters
      BY CommitAssumption DEF CommitInv, CommitTypeOK, ServerRespawns, stagingVars, startVars, wireVars, nodeVars, ghostVars
    <2>2. /\ start' \in [Starters -> {"idle", "waits", "entry", "marking", "disarms"}]
          /\ named' \in [Starters -> StagedIds \cup {NoMission}]
      BY DEF CommitInv, CommitTypeOK, ServerRespawns, stagingVars, startVars, wireVars, nodeVars, ghostVars
    <2>3. {wirePath', nodePath', meterOf', followed'} \subseteq WirePaths
      BY CommitAssumption, PathsTyped DEF CommitInv, CommitTypeOK, ServerRespawns, stagingVars, startVars, wireVars, nodeVars, ghostVars
    <2>4. wireMode' \in Modes \cup {NoMission} /\ nodeMode' \in Modes
      BY CommitAssumption DEF CommitInv, CommitTypeOK, ServerRespawns, stagingVars, startVars, wireVars, nodeVars, ghostVars
    <2>5. {pathNew', modeNew', unvouched', cleared'} \subseteq BOOLEAN
      BY DEF CommitInv, CommitTypeOK, ServerRespawns, stagingVars, startVars, wireVars, nodeVars, ghostVars
    <2>6. respawns' \in 0 .. MaxRespawns
      BY CommitAssumption DEF CommitInv, CommitTypeOK, ServerRespawns, stagingVars, startVars, wireVars, nodeVars, ghostVars
    <2> QED
      BY <2>1, <2>2, <2>3, <2>4, <2>5, <2>6 DEF CommitTypeOK
  <1>2. StartHolds'
    BY CommitAssumption DEF CommitInv, StartHolds, CommitTypeOK, ServerRespawns, stagingVars, startVars, wireVars, nodeVars, ghostVars
  <1>3. ModeTaken'
    BY CommitAssumption DEF CommitInv, ModeTaken, CommitTypeOK, ServerRespawns, stagingVars, startVars, wireVars, nodeVars, ghostVars
  <1>4. Vouched'
    <2>1. /\ resident' = NoMission /\ stash' = NoMission /\ phase' = "rest"
          /\ wirePath' = Nowhere /\ wireMode' = NoMission /\ modeNew' = FALSE
          /\ unvouched' = (unvouched \/ modeNew)
          /\ UNCHANGED <<followed, nodePath, nodeMode>>
      BY DEF ServerRespawns, nodeVars
    <2>2. NoMission \notin StagedIds /\ Nowhere.of = NoMission
      BY CommitAssumption, PathsTyped
    <2>3. \A m \in StagedIds : Mode[m] \in Modes /\ Mode[m] # NoMission
      BY CommitAssumption
    <2>4. ASSUME ~unvouched, ~modeNew, followed.of \in StagedIds, nodePath = followed
          PROVE  nodeMode = Mode[followed.of]
      BY <2>3, <2>4 DEF CommitInv, Vouched, ModeTaken
    <2> QED
      BY <2>1, <2>2, <2>4 DEF Vouched
  <1>5. ClearedOnWire'
    BY DEF CommitInv, ClearedOnWire, ServerRespawns, stagingVars, startVars, wireVars, nodeVars, ghostVars
  <1>6. ClearedStaysClear'
    BY DEF CommitInv, ClearedStaysClear, ClearedOnWire, ServerRespawns, stagingVars, startVars, wireVars, nodeVars, ghostVars
  <1>7. NamedIsResident'
    BY CommitAssumption DEF CommitInv, NamedIsResident, CommitTypeOK, ServerRespawns, stagingVars, startVars, wireVars, nodeVars, ghostVars
  <1>8. MeterMeasuresPath' /\ RefusedIsGone'
    BY DEF CommitInv, MeterMeasuresPath, RefusedIsGone, Metered, ServerRespawns, stagingVars, startVars, wireVars, nodeVars, ghostVars
  <1> QED
    BY <1>1, <1>2, <1>3, <1>4, <1>5, <1>6, <1>7, <1>8 DEF CommitInv

LEMMA CommitStarts == CommitInit => CommitInv
  <1> SUFFICES ASSUME CommitInit PROVE CommitInv
    OBVIOUS
  <1>1. CommitTypeOK
    <2>1. 0 \in 0 .. MaxRespawns /\ "continuous" \in Modes
      BY CommitAssumption DEF Modes
    <2> QED
      BY <2>1, PathsTyped DEF CommitInit, CommitTypeOK
  <1>2. Vouched /\ ModeTaken
    BY CommitAssumption, PathsTyped DEF CommitInit, Vouched, ModeTaken
  <1>3. StartHolds /\ MeterMeasuresPath /\ NamedIsResident
    BY DEF CommitInit, StartHolds, MeterMeasuresPath, Metered, NamedIsResident
  <1>4. ClearedOnWire /\ ClearedStaysClear /\ RefusedIsGone
    BY DEF CommitInit, ClearedOnWire, ClearedStaysClear, RefusedIsGone
  <1> QED
    BY <1>1, <1>2, <1>3, <1>4 DEF CommitInv

LEMMA CommitKeeps ==
  ASSUME CommitInv, [CommitNext]_commitVars
  PROVE  CommitInv'
  <1>1. CASE StageAnother \/ Expire \/ \E m \in StagedIds : Preview(m) \/ LoadToController(m)
    BY <1>1, StageAnotherKeeps, ExpireKeeps, PreviewKeeps, LoadToControllerKeeps
  <1>2. CASE LoadRaw \/ ClearMission
    BY <1>2, LoadRawKeeps, ClearMissionKeeps
  <1>3. CASE \E mode \in {"continuous", "dash"} : SetMode(mode)
    BY <1>3, SetModeKeeps DEF Modes
  <1>4. CASE \E s \in Starters, id \in StagedIds \cup {NoMission} : AskStart(s, id)
    BY <1>4, AskStartKeeps
  <1>5. CASE \E s \in Starters : StartRefused(s) \/ StartDone(s) \/ StartFails(s) \/ StartUndone(s)
    BY <1>5, StartRefusedKeeps, StartDoneKeeps, StartFailsKeeps, StartUndoneKeeps
  <1>6. CASE \E s \in Starters, far \in BOOLEAN : StartLocked(s, far)
    BY <1>6, StartLockedKeeps
  <1>7. CASE Stop \/ EntryDone \/ MarkCompleted \/ FollowedOut
    BY <1>7, StopKeeps, EntryDoneKeeps, MarkCompletedKeeps, FollowedOutKeeps
  <1>8. CASE TakePath \/ TakeMode \/ NodeRespawns \/ ServerRespawns
    BY <1>8, TakePathKeeps, TakeModeKeeps, NodeRespawnsKeeps, ServerRespawnsKeeps
  <1>9. CASE UNCHANGED commitVars
    BY <1>9 DEF CommitInv, CommitTypeOK, StartHolds, ModeTaken, Vouched, MeterMeasuresPath, Metered,
                ClearedOnWire, ClearedStaysClear, NamedIsResident, RefusedIsGone, commitVars,
                stagingVars, startVars, wireVars, nodeVars, ghostVars
  <1> QED
    BY <1>1, <1>2, <1>3, <1>4, <1>5, <1>6, <1>7, <1>8, <1>9 DEF CommitNext

-----------------------------------------------------------------------------
(* The properties.                                                          *)

LEMMA CommitSafe ==
  CommitInv => CommitTypeOK /\ ModeInForce /\ MeterMeasuresPath /\ ClearedStaysClear
  <1> SUFFICES ASSUME CommitInv PROVE ModeInForce
    BY DEF CommitInv
  <1>1. \A m \in StagedIds : Mode[m] # NoMission
    BY CommitAssumption
  <1> QED
    BY <1>1 DEF CommitInv, ModeInForce, Vouched, ModeTaken

(* Only the start itself publishes a path for a request that waits.         *)
LEMMA StartPublishes ==
  ASSUME CommitInv, [CommitNext]_commitVars, NEW s \in Starters,
         start[s] = "waits", start'[s] \in {"entry", "marking"},
         named[s] # NoMission, s \notin displaced
  PROVE  wirePath'.of = named[s]
  <1>1. start \in [Starters -> {"idle", "waits", "entry", "marking", "disarms"}]
    BY DEF CommitInv, CommitTypeOK
  <1>2. start' # start
    OBVIOUS
  <1>3. PICK t \in Starters :
          \/ \E id \in StagedIds \cup {NoMission} : AskStart(t, id)
          \/ StartRefused(t) \/ StartDone(t) \/ StartFails(t) \/ StartUndone(t)
          \/ \E far \in BOOLEAN : StartLocked(t, far)
    <2>1. start' = [t \in Starters |-> "idle"] => start'[s] = "idle"
      OBVIOUS
    <2> QED
      BY <1>2, <2>1
      DEF CommitNext, StageAnother, Expire, Preview, LoadToController, LoadRaw, LoadPath, ClearMission,
          SetMode, Stop, EntryDone, MarkCompleted, FollowedOut, TakePath, TakeMode, NodeRespawns,
          ServerRespawns, startVars, commitVars
  <1>4. \E far \in BOOLEAN : StartLocked(s, far)
    BY <1>1, <1>3 DEF AskStart, StartRefused, StartDone, StartFails, StartUndone, StartLocked
  <1>5. wirePath'.of = resident
    BY <1>4 DEF StartLocked, SendPath
  <1> QED
    BY <1>5 DEF CommitInv, NamedIsResident

(* No step makes a mission resident that a client was told has expired.     *)
LEMMA LoadsAreFresh ==
  ASSUME CommitInv, [CommitNext]_commitVars, resident' # resident
  PROVE  resident' \notin refused
  <1>1. \/ \E m \in StagedIds : LoadToController(m)
        \/ LoadRaw \/ ClearMission \/ ServerRespawns
    BY DEF CommitNext, StageAnother, Expire, Preview, SetMode, AskStart, StartRefused, StartLocked,
           StartDone, StartFails, StartUndone, Stop, EntryDone, MarkCompleted, FollowedOut, TakePath,
           TakeMode, NodeRespawns, commitVars
  <1>2. refused \subseteq StagedIds /\ NoMission \notin StagedIds /\ Raw \notin StagedIds
    BY CommitAssumption DEF CommitInv, CommitTypeOK
  <1>3. CASE \E m \in StagedIds : LoadToController(m)
    BY <1>3 DEF LoadToController, LoadPath, CommitInv, RefusedIsGone
  <1>4. CASE LoadRaw \/ ClearMission \/ ServerRespawns
    BY <1>2, <1>4 DEF LoadRaw, LoadPath, ClearMission, ServerRespawns
  <1> QED
    BY <1>1, <1>3, <1>4

(* A staged mission is painted in its own mode, with a meter built for the  *)
(* path the node holds; a cleared mission's mode never comes back; a start  *)
(* starts the mission its client verified; a mission a client was told has  *)
(* expired is never loaded: through respawns of either process, any order   *)
(* of the two latched topics and any number of starts that wait.            *)
THEOREM CommitAlwaysHolds == CommitSpec => CommitHolds
  <1>1. CommitInv /\ [CommitNext]_commitVars =>
          (/\ \A s \in Starters :
                start[s] = "waits" /\ start'[s] \in {"entry", "marking"} /\ named[s] # NoMission
                  /\ s \notin displaced => wirePath'.of = named[s]
           /\ resident' # resident => resident' \notin refused)
    BY StartPublishes, LoadsAreFresh
  <1> QED
    BY <1>1, CommitSafe, CommitStarts, CommitKeeps, PTL DEF CommitSpec, CommitHolds, VerifiedStart

-----------------------------------------------------------------------------
(* Surveyed missions, for any sessions with their origins anywhere and any  *)
(* age limits.                                                              *)

(* A pose of a session that is over is no younger than the session that     *)
(* runs now.                                                                *)
PoseIsOfSession == poseFrame = session \/ sinceReset <= poseAge

OriginIInv == OriginTypeOK /\ PoseIsOfSession /\ PlacedInLiveFrame

LEMMA OriginSizes ==
  /\ 1 \in Sessions /\ FreshAge \in Nat /\ LinkGap \in Nat
  /\ Tries \in Nat /\ 0 < Tries /\ Never \in Nat /\ Never = LinkGap + 2
  /\ MaxRestarts \in Nat
  BY OriginAssumption DEF Sessions, Never

(* Ages and counts stop at one past their limit. *)
LEMMA OlderBounds ==
  ASSUME NEW limit \in Int, 0 <= limit + 1, NEW age \in 0..limit + 1
  PROVE  Older(age, limit) \in 0..limit + 1
  BY DEF Older

LEMMA OriginInitial == OriginInit => OriginIInv
  <1> SUFFICES ASSUME OriginInit PROVE OriginIInv
    OBVIOUS
  <1> USE OriginSizes DEF OriginInit
  <1>1. OriginTypeOK
    <2>1. FreshAge + 1 \in 0..FreshAge + 1 /\ Never \in 0..Never /\ 0 \in 0..Tries
      OBVIOUS
    <2>2. 0 \in 0..MaxRestarts
      OBVIOUS
    <2>3. QED
      BY <2>1, <2>2 DEF OriginTypeOK
  <1>2. PoseIsOfSession /\ PlacedInLiveFrame
    BY DEF PoseIsOfSession, PlacedInLiveFrame
  <1>3. QED
    BY <1>1, <1>2 DEF OriginIInv

(* What the FCU and MAVROS do: a session that is over takes its drive with  *)
(* it, or excuses it.                                                       *)
LEMMA SessionStep ==
  ASSUME OriginIInv, Reboot \/ EkfReset \/ FcuBoots \/ SetsOrigin \/ MavrosRestarts
  PROVE  OriginIInv'
  <1> USE OriginSizes DEF OriginIInv, fcuVars, cacheVars, sampleVars, driveVars
  <1>1. CASE Reboot
    <2>1. /\ session' \in Sessions /\ sinceReset' = 0 /\ driving' = FALSE
          /\ ref' = FALSE /\ fcuUp' = FALSE
          /\ UNCHANGED <<cacheVars, connected, stateAge, sampleVars, loaded, placed, restarts,
                         latched, mail, excused>>
      BY <1>1 DEF Reboot, NewSession
    <2>2. {ref', fcuUp', connected', loaded', driving', excused'} \subseteq BOOLEAN
      BY <2>1 DEF OriginTypeOK
    <2>3. OriginTypeOK'
      BY <2>1, <2>2 DEF OriginTypeOK, Sessions, Never
    <2>4. PoseIsOfSession' /\ PlacedInLiveFrame'
      BY <2>1 DEF PoseIsOfSession, PlacedInLiveFrame, OriginTypeOK
    <2>5. QED
      BY <2>3, <2>4
  <1>2. CASE EkfReset
    <2>1. /\ session' \in Sessions /\ sinceReset' = 0 /\ excused' = TRUE
          /\ (latched' = session' /\ mail' = session') \/ UNCHANGED <<latched, mail>>
          /\ UNCHANGED <<cacheVars, connected, stateAge, sampleVars, loaded, placed, restarts,
                         ref, fcuUp, driving>>
      BY <1>2 DEF EkfReset, NewSession
    <2>2. OriginTypeOK'
      BY <2>1 DEF OriginTypeOK, Sessions, Never
    <2>3. PoseIsOfSession' /\ PlacedInLiveFrame'
      BY <2>1 DEF PoseIsOfSession, PlacedInLiveFrame, OriginTypeOK
    <2>4. QED
      BY <2>2, <2>3
  <1>3. CASE FcuBoots
    BY <1>3 DEF FcuBoots, OriginTypeOK, Sessions, Never, PoseIsOfSession, PlacedInLiveFrame
  <1>4. CASE SetsOrigin
    BY <1>4 DEF SetsOrigin, Announce, OriginTypeOK, Sessions, Never, PoseIsOfSession, PlacedInLiveFrame
  <1>5. CASE MavrosRestarts
    <2>1. /\ latched' \in Sessions \cup {0} /\ mail' = mail /\ restarts' = restarts + 1
          /\ restarts < MaxRestarts
          /\ UNCHANGED <<fcuVars, cacheVars, connected, stateAge, sampleVars, driveVars>>
      BY <1>5 DEF MavrosRestarts, OriginTypeOK
    <2>2. restarts' \in 0..MaxRestarts
      BY <2>1 DEF OriginTypeOK
    <2>3. QED
      BY <2>1, <2>2 DEF OriginTypeOK, Sessions, Never, PoseIsOfSession, PlacedInLiveFrame
  <1>6. QED
    BY <1>1, <1>2, <1>3, <1>4, <1>5

(* What the server hears: a pose that it hears is of the session that runs. *)
LEMMA HearingStep ==
  ASSUME OriginIInv, (\E link \in BOOLEAN : HearsState(link)) \/ HearsPose \/ HearsGlobal \/ HearsOrigin
  PROVE  OriginIInv'
  <1> USE OriginSizes DEF OriginIInv, fcuVars, cacheVars, sampleVars, driveVars
  <1>1. ASSUME NEW link \in BOOLEAN, HearsState(link) PROVE OriginIInv'
    <2>1. /\ connected' = link /\ stateAge' = 0
          /\ (held' = 0 /\ tries' = 0 /\ unheard' = 0) \/ UNCHANGED cacheVars
          /\ UNCHANGED <<fcuVars, latched, mail, sampleVars, driveVars, restarts>>
      BY <1>1 DEF HearsState, Invalidate
    <2>2. QED
      BY <2>1 DEF OriginTypeOK, Sessions, Never, PoseIsOfSession, PlacedInLiveFrame
  <1>2. CASE HearsPose
    BY <1>2 DEF HearsPose, OriginTypeOK, Sessions, Never, PoseIsOfSession, PlacedInLiveFrame
  <1>3. CASE HearsGlobal
    BY <1>3 DEF HearsGlobal, OriginTypeOK, Sessions, Never, PoseIsOfSession, PlacedInLiveFrame
  <1>4. CASE HearsOrigin
    BY <1>4 DEF HearsOrigin, OriginTypeOK, Sessions, Never, PoseIsOfSession, PlacedInLiveFrame
  <1>5. QED
    BY <1>1, <1>2, <1>3, <1>4

LEMMA RequestStep == OriginIInv /\ RequestTick => OriginIInv'
  <1> SUFFICES ASSUME OriginIInv, RequestTick PROVE OriginIInv'
    OBVIOUS
  <1> USE OriginSizes DEF OriginIInv, fcuVars, sampleVars, driveVars
  <1>1. UNCHANGED <<fcuVars, held, connected, stateAge, sampleVars, driveVars, restarts>>
    BY DEF RequestTick
  <1>2. tries' \in 0..Tries
    <2>1. tries \in 0..Tries /\ 0 \in 0..Tries
      BY DEF OriginTypeOK
    <2>2. tries' = 0 \/ (tries < Tries /\ tries' = tries + 1)
      BY DEF RequestTick
    <2>3. QED
      BY <2>1, <2>2
  <1>3. unheard' \in 0..Tries
    <2>1. unheard \in 0..Tries /\ 0 \in 0..Tries
      BY DEF OriginTypeOK
    <2>2. unheard' \in {0, unheard, Older(unheard, Tries - 1)}
      BY DEF RequestTick
    <2>3. Older(unheard, Tries - 1) \in 0..Tries
      BY <2>1 DEF Older
    <2>4. QED
      BY <2>1, <2>2, <2>3
  <1>4. {latched', mail'} \subseteq Sessions \cup {0}
    BY DEF RequestTick, Announce, OriginTypeOK
  <1>5. QED
    BY <1>1, <1>2, <1>3, <1>4 DEF OriginTypeOK, Sessions, Never, PoseIsOfSession, PlacedInLiveFrame

(* What the server does with a mission.  It is here that a placement        *)
(* through an origin that agrees with fresh samples becomes one that agrees *)
(* with the session: a fresh pose is of the session that runs, once that    *)
(* has run for as long as a sample stays fresh.                             *)
LEMMA MissionStep ==
  ASSUME OriginIInv, ServerRestarts \/ LoadSurveyed \/ StartSurveyed \/ MissionOver
  PROVE  OriginIInv'
  <1> USE OriginSizes DEF OriginIInv, fcuVars, cacheVars, sampleVars, driveVars
  <1>1. CASE ServerRestarts
    <2>1. /\ held' = 0 /\ tries' = 0 /\ unheard' = 0 /\ mail' = latched /\ connected' = FALSE
          /\ stateAge' = Never /\ poseAge' = FreshAge + 1 /\ globalAge' = FreshAge + 1
          /\ loaded' = FALSE /\ restarts < MaxRestarts /\ restarts' = restarts + 1
          /\ UNCHANGED <<fcuVars, latched, poseFrame, driving, placed, excused>>
      BY <1>1 DEF ServerRestarts, Invalidate
    <2>2. restarts' \in 0..MaxRestarts
      BY <2>1 DEF OriginTypeOK
    <2>3. FreshAge + 1 \in 0..FreshAge + 1 /\ Never \in 0..Never /\ 0 \in 0..Tries
      OBVIOUS
    <2>4. OriginTypeOK'
      BY <2>1, <2>2, <2>3 DEF OriginTypeOK, Sessions, Never
    <2>5. sinceReset' <= poseAge'
      BY <2>1 DEF OriginTypeOK
    <2>6. QED
      BY <2>1, <2>4, <2>5 DEF PoseIsOfSession, PlacedInLiveFrame
  <1>2. CASE LoadSurveyed
    BY <1>2 DEF LoadSurveyed, OriginTypeOK, Sessions, Never, PoseIsOfSession, PlacedInLiveFrame
  <1>3. CASE StartSurveyed
    <2>1. /\ driving' = TRUE /\ placed' = held /\ excused' = (sinceReset <= FreshAge)
          /\ UNCHANGED <<fcuVars, latched, mail, cacheVars, connected, stateAge, sampleVars, loaded,
                         restarts>>
      BY <1>3 DEF StartSurveyed
    <2>2. Simultaneous /\ held # 0 /\ Place[held] = Place[poseFrame]
      BY <1>3 DEF StartSurveyed, Resolves, Health
    <2>3. held \in Sessions /\ excused' \in BOOLEAN
      BY <2>1, <2>2 DEF OriginTypeOK
    <2>4. OriginTypeOK'
      BY <2>1, <2>3 DEF OriginTypeOK, Sessions, Never
    <2>5. ~excused' => poseFrame = session
      <3>1. poseAge \in Nat /\ sinceReset \in Nat /\ poseAge <= FreshAge
        BY <2>2 DEF Simultaneous, OriginTypeOK
      <3>2. sinceReset <= poseAge => sinceReset <= FreshAge
        BY <3>1
      <3>3. QED
        BY <2>1, <3>2 DEF PoseIsOfSession
    <2>6. QED
      BY <2>1, <2>2, <2>4, <2>5 DEF PoseIsOfSession, PlacedInLiveFrame
  <1>4. CASE MissionOver
    BY <1>4 DEF MissionOver, OriginTypeOK, Sessions, Never, PoseIsOfSession, PlacedInLiveFrame
  <1>5. QED
    BY <1>1, <1>2, <1>3, <1>4

LEMMA TimeStep == OriginIInv /\ Elapse => OriginIInv'
  <1> SUFFICES ASSUME OriginIInv, Elapse PROVE OriginIInv'
    OBVIOUS
  <1> USE OriginSizes DEF OriginIInv
  <1>1. /\ poseAge' = Older(poseAge, FreshAge) /\ globalAge' = Older(globalAge, FreshAge)
        /\ stateAge' = IF stateAge = Never THEN Never ELSE Older(stateAge, LinkGap)
        /\ sinceReset' = Older(sinceReset, FreshAge)
        /\ UNCHANGED <<session, ref, fcuUp, latched, mail, cacheVars, connected, poseFrame, driveVars,
                       restarts>>
    BY DEF Elapse
  <1>2. /\ poseAge \in 0..FreshAge + 1 /\ globalAge \in 0..FreshAge + 1
        /\ sinceReset \in 0..FreshAge + 1 /\ stateAge \in 0..Never
    BY DEF OriginTypeOK
  <1>3. {poseAge', globalAge', sinceReset'} \subseteq 0..FreshAge + 1
    BY <1>1, <1>2, OlderBounds
  <1>4. stateAge' \in 0..Never
    BY <1>1, <1>2 DEF Older
  <1>5. OriginTypeOK'
    BY <1>1, <1>3, <1>4 DEF OriginTypeOK, Sessions, Never, cacheVars, driveVars
  <1>6. PoseIsOfSession'
    BY <1>1, <1>2 DEF PoseIsOfSession, Older
  <1>7. PlacedInLiveFrame'
    BY <1>1 DEF PlacedInLiveFrame, driveVars
  <1>8. QED
    BY <1>5, <1>6, <1>7

(* A surveyed mission is driven in the frame it was placed in, wherever the *)
(* sessions of the EKF have their origins and however long a sample counts  *)
(* as fresh (offboard_controller.py, start_async; ros_node.py).             *)
THEOREM MissionStaysPlaced == OriginSpec => [](OriginTypeOK /\ PlacedInLiveFrame)
  <1>1. OriginIInv /\ [OriginNext]_originVars => OriginIInv'
    <2> SUFFICES ASSUME OriginIInv, [OriginNext]_originVars PROVE OriginIInv'
      OBVIOUS
    <2>1. CASE UNCHANGED originVars
      BY <2>1 DEF originVars, fcuVars, cacheVars, sampleVars, driveVars, OriginIInv, OriginTypeOK,
         Sessions, Never, PoseIsOfSession, PlacedInLiveFrame
    <2>2. QED
      BY <2>1, SessionStep, HearingStep, RequestStep, MissionStep, TimeStep DEF OriginNext
  <1>2. OriginIInv => OriginTypeOK /\ PlacedInLiveFrame
    BY DEF OriginIInv
  <1>3. QED
    BY OriginInitial, <1>1, <1>2, PTL DEF OriginSpec

=============================================================================
