---------------------------- MODULE SurveyedOrigin ----------------------------
(* The origin of PX4's local frame as the server holds it, and the surveyed   *)
(* missions placed through it.  Every EKF session has an origin; the server's *)
(* copy outlives the session, MAVROS latches another copy, and the request    *)
(* for a fresh one has a budget.  Positions are abstracted to the session     *)
(* whose frame they are in: a sample of one session measures the held origin  *)
(* right exactly when both sessions have their origin at the same Place.      *)
(* Time advances by Tick, in steps of the age limit of a sample.              *)
EXTENDS Integers

CONSTANTS
  Place,        \* where each session has its origin, to the consistency limit
  FreshAge,     \* POSE_STALE_MS, GLOBAL_POSITION_STALE_MS
  StateTimeout, \* _MAVROS_STATE_TIMEOUT_S
  LinkGap,      \* ORIGIN_LINK_GAP_S
  Tries,        \* ORIGIN_REQUEST_MAX_TRIES
  MaxRestarts   \* bounds the restarts of MAVROS and of the server

ASSUME OriginAssumption ==
  /\ 1 \in DOMAIN Place
  /\ FreshAge \in Nat /\ StateTimeout \in Nat /\ LinkGap \in Nat
  /\ Tries \in Nat \ {0} /\ StateTimeout <= LinkGap /\ MaxRestarts \in Nat

VARIABLES
  session,     \* the EKF session of the FCU
  ref,         \* that session has set its origin
  fcuUp,
  latched,     \* the session of MAVROS's latched gp_origin, 0 for none
  mail,        \* the session of the gp_origin on its way to the server, 0 for none
  held,        \* the session of the server's origin, 0 for none received
  connected,   \* of the last /mavros/state
  stateAge,    \* of that message, Never before the first
  poseFrame,   \* the session of the last local pose
  poseAge, globalAge,
  tries,       \* _origin_req_count
  unheard,     \* requests of this fault episode that no origin followed
  loaded,      \* a surveyed mission is in the controller
  driving, placed,  \* a rover drives, along a path placed through this session
  excused,     \* the frame changed during the drive or just before its start
  sinceReset,  \* time since the session changed
  restarts

fcuVars    == <<session, ref, fcuUp, sinceReset>>
cacheVars  == <<held, tries, unheard>>
sampleVars == <<poseFrame, poseAge, globalAge>>
driveVars  == <<loaded, driving, placed, excused>>
originVars == <<fcuVars, latched, mail, cacheVars, connected, stateAge, sampleVars, driveVars, restarts>>

Sessions == DOMAIN Place
Never    == LinkGap + 2
Older(age, limit) == IF age > limit THEN age ELSE age + 1

OriginInit ==
  /\ session = 1 /\ ref = FALSE /\ fcuUp = TRUE /\ sinceReset = FreshAge + 1
  /\ latched = 0 /\ mail = 0
  /\ held = 0 /\ tries = 0 /\ unheard = 0
  /\ connected = FALSE /\ stateAge = Never
  /\ poseFrame = 1 /\ poseAge = FreshAge + 1 /\ globalAge = FreshAge + 1
  /\ loaded = FALSE /\ driving = FALSE /\ placed = 1 /\ excused = FALSE
  /\ restarts = 0

-----------------------------------------------------------------------------
\* What the server makes of what it has heard

\* get_state: a state message that is too old counts as disconnected.
Connected == connected /\ stateAge <= StateTimeout

\* Both halves of the transform are fresh and were received together.
Simultaneous == poseAge <= FreshAge /\ globalAge <= FreshAge /\ poseAge = globalAge

\* evaluate_origin_health.
Health ==
  IF held = 0 THEN "NO_ORIGIN"
  ELSE IF ~Simultaneous THEN "UNVERIFIABLE"
  ELSE IF Place[held] # Place[poseFrame] THEN "INCONSISTENT" ELSE "OK"

-----------------------------------------------------------------------------
\* The FCU and MAVROS

\* MAVROS receives the origin of the session and publishes it latched.
Announce == latched' = session /\ mail' = session

NewSession ==
  /\ session + 1 \in Sessions
  /\ session' = session + 1 /\ sinceReset' = 0
  /\ UNCHANGED <<cacheVars, connected, stateAge, sampleVars, loaded, placed, restarts>>

\* The FCU reboots, which disarms it.
Reboot ==
  /\ NewSession
  /\ ref' = FALSE /\ fcuUp' = FALSE /\ driving' = FALSE
  /\ UNCHANGED <<latched, mail, excused>>

\* The EKF starts over without a reboot; the message about it may be lost.
EkfReset ==
  /\ fcuUp /\ ref /\ NewSession
  /\ excused' = TRUE
  /\ \/ latched' = session' /\ mail' = session'
     \/ UNCHANGED <<latched, mail>>
  /\ UNCHANGED <<ref, fcuUp, driving>>

FcuBoots ==
  /\ ~fcuUp /\ fcuUp' = TRUE
  /\ UNCHANGED <<session, ref, sinceReset, latched, mail, cacheVars, connected, stateAge, sampleVars,
                 driveVars, restarts>>

\* The first GPS fix of the session sets its origin.
SetsOrigin ==
  /\ fcuUp /\ ~ref /\ ref' = TRUE
  /\ Announce \/ UNCHANGED <<latched, mail>>
  /\ UNCHANGED <<session, fcuUp, sinceReset, cacheVars, connected, stateAge, sampleVars, driveVars,
                 restarts>>

\* A new MAVROS has latched nothing; a new stream makes the FCU send the origin.
MavrosRestarts ==
  /\ restarts < MaxRestarts /\ restarts' = restarts + 1
  /\ mail' = mail
  /\ latched' \in {0} \cup (IF fcuUp /\ ref THEN {session} ELSE {})
  /\ UNCHANGED <<fcuVars, cacheVars, connected, stateAge, sampleVars, driveVars>>

-----------------------------------------------------------------------------
\* The server

\* As the code would be if an invalidation did not re-arm the budget.
InvalidateKeepsBudget == held' = 0 /\ unheard' = 0 /\ UNCHANGED tries

\* _invalidate_ekf_origin.
Invalidate == held' = 0 /\ tries' = 0 /\ unheard' = 0

\* _cb_state; MAVROS may go on reporting a link that is down.
HearsState(link) ==
  /\ fcuUp => link
  /\ connected' = link /\ stateAge' = 0
  /\ IF stateAge # Never /\ ((link /\ ~connected) \/ stateAge > LinkGap)
     THEN Invalidate
     ELSE UNCHANGED cacheVars
  /\ UNCHANGED <<fcuVars, latched, mail, sampleVars, driveVars, restarts>>

HearsPose ==
  /\ fcuUp /\ ref
  /\ poseFrame' = session /\ poseAge' = 0
  /\ UNCHANGED <<fcuVars, latched, mail, cacheVars, connected, stateAge, globalAge, driveVars, restarts>>

HearsGlobal ==
  /\ fcuUp /\ ref
  /\ globalAge' = 0
  /\ UNCHANGED <<fcuVars, latched, mail, cacheVars, connected, stateAge, poseFrame, poseAge, driveVars,
                 restarts>>

HearsOrigin ==
  /\ mail # 0 /\ mail' = 0
  /\ held' = mail /\ tries' = 0 /\ unheard' = 0
  /\ UNCHANGED <<fcuVars, latched, connected, stateAge, sampleVars, driveVars, restarts>>

\* _request_ekf_origin_tick; the request or its answer may be lost.
RequestTick ==
  /\ Connected
  /\ \/ /\ Health = "OK"
        /\ tries' = 0 /\ unheard' = 0
        /\ UNCHANGED <<latched, mail>>
     \/ /\ Health \in {"NO_ORIGIN", "INCONSISTENT"} /\ tries < Tries
        /\ tries' = tries + 1
        /\ \/ fcuUp /\ ref /\ Announce /\ UNCHANGED unheard
           \/ unheard' = Older(unheard, Tries - 1) /\ UNCHANGED <<latched, mail>>
  /\ UNCHANGED <<fcuVars, held, connected, stateAge, sampleVars, driveVars, restarts>>

\* A new server holds no origin and receives what MAVROS has latched.
ServerRestarts ==
  /\ restarts < MaxRestarts /\ restarts' = restarts + 1
  /\ Invalidate
  /\ mail' = latched /\ connected' = FALSE /\ stateAge' = Never
  /\ poseAge' = FreshAge + 1 /\ globalAge' = FreshAge + 1
  /\ loaded' = FALSE
  /\ UNCHANGED <<fcuVars, latched, poseFrame, driving, placed, excused>>

\* load_mission_to_controller: a surveyed mission needs a trusted origin.
LoadSurveyed ==
  /\ ~loaded /\ ~driving /\ Health = "OK"
  /\ loaded' = TRUE
  /\ UNCHANGED <<fcuVars, latched, mail, cacheVars, connected, stateAge, sampleVars, driving, placed,
                 excused, restarts>>

\* resolve_surveyed_points, with ROVER_ORIGIN_REQUIRE_DECLARED: connected,
\* samples that are fresh and simultaneous, and an origin they agree with.
Resolves == Connected /\ Simultaneous /\ Health = "OK"

\* start_async: the path is placed and published, and the rover drives it.
StartSurveyed ==
  /\ loaded /\ ~driving /\ fcuUp /\ Resolves
  /\ driving' = TRUE /\ placed' = held /\ excused' = (sinceReset <= FreshAge)
  /\ UNCHANGED <<fcuVars, latched, mail, cacheVars, connected, stateAge, sampleVars, loaded, restarts>>

MissionOver ==
  /\ driving /\ driving' = FALSE
  /\ UNCHANGED <<fcuVars, latched, mail, cacheVars, connected, stateAge, sampleVars, loaded, placed,
                 excused, restarts>>

Elapse ==
  /\ poseAge' = Older(poseAge, FreshAge) /\ globalAge' = Older(globalAge, FreshAge)
  /\ stateAge' = IF stateAge = Never THEN Never ELSE Older(stateAge, LinkGap)
  /\ sinceReset' = Older(sinceReset, FreshAge)
  /\ UNCHANGED <<session, ref, fcuUp, latched, mail, cacheVars, connected, poseFrame, driveVars, restarts>>

OriginNext ==
  \/ Reboot \/ EkfReset \/ FcuBoots \/ SetsOrigin \/ MavrosRestarts
  \/ \E link \in BOOLEAN : HearsState(link)
  \/ HearsPose \/ HearsGlobal \/ HearsOrigin
  \/ RequestTick \/ ServerRestarts
  \/ LoadSurveyed \/ StartSurveyed \/ MissionOver
  \/ Elapse

OriginSpec == OriginInit /\ [][OriginNext]_originVars

-----------------------------------------------------------------------------
\* Properties

OriginTypeOK ==
  /\ session \in Sessions /\ poseFrame \in Sessions /\ placed \in Sessions
  /\ {latched, mail, held} \subseteq Sessions \cup {0}
  /\ {ref, fcuUp, connected, loaded, driving, excused} \subseteq BOOLEAN
  /\ {poseAge, globalAge, sinceReset} \subseteq 0 .. FreshAge + 1
  /\ stateAge \in 0 .. Never
  /\ {tries, unheard} \subseteq 0 .. Tries
  /\ restarts \in 0 .. MaxRestarts

(* A rover drives a surveyed mission in the frame the mission was placed in, *)
(* whatever MAVROS or the server still hold of a dead EKF session, unless    *)
(* the EKF started over during the drive or so shortly before the start that *)
(* the samples of the old session still counted as fresh.                    *)
PlacedInLiveFrame == driving /\ ~excused => Place[placed] = Place[session]

(* When /mavros/state no longer stops for longer than the gap, the server    *)
(* comes to hold the origin of the session the FCU is in for good, unless    *)
(* all the requests its budget allows in one fault episode went unanswered:  *)
(* no episode eats into the budget of the next.                              *)
Returned == held # 0 /\ Place[held] = Place[session]
OriginReturns == <>[](stateAge <= LinkGap) => <>[](Returned \/ unheard = Tries)

OriginHolds == [](OriginTypeOK /\ PlacedInLiveFrame) /\ OriginReturns
=============================================================================
