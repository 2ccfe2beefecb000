------------------------------ MODULE MCLiveness ------------------------------
(* What the control tick of RPP, the RTK manager and the server's origin must *)
(* eventually do, one of them at a time: `subject` names the one explored.    *)
EXTENDS MCRppMotion, RtkManager, SurveyedOrigin

VARIABLE subject

\* The second session has its origin elsewhere.
MCPlace == <<1, 2>>

motionRest == <<rtkVars, originVars, subject>>
rtkRest    == <<motionVars, originVars, subject>>
originRest == <<motionVars, rtkVars, subject>>
MCVars     == <<motionVars, rtkVars, originVars, subject>>

MCInit ==
  /\ MotionInit /\ RtkInit /\ OriginInit
  /\ subject \in {"motion", "rtk", "origin"}
  /\ subject # "rtk" => \A r \in Requests : asks[r] = "status"

MCNext ==
  \/ subject = "motion" /\ MotionNext /\ UNCHANGED motionRest
  \/ subject = "rtk" /\ RtkNext /\ UNCHANGED rtkRest
  \/ subject = "origin" /\ OriginNext /\ UNCHANGED originRest

(* The fairness of MotionLiveSpec, of RtkFairness and of OriginFairness, of   *)
(* the one explored.                                                          *)
OfOrigin(Act) == subject = "origin" /\ Act /\ UNCHANGED originRest
MCFairness ==
  /\ WF_MCVars(subject = "motion" /\ ObeyedTick /\ UNCHANGED motionRest)
  /\ \A r \in Requests : WF_MCVars(subject = "rtk" /\ Serve(r) /\ UNCHANGED rtkRest)
  /\ \A c \in Children : WF_MCVars(subject = "rtk" /\ WatchEnds(c) /\ UNCHANGED rtkRest)
  /\ WF_MCVars(OfOrigin(FcuBoots)) /\ WF_MCVars(OfOrigin(SetsOrigin))
  /\ WF_MCVars(OfOrigin(fcuUp /\ HearsState(TRUE))) /\ WF_MCVars(OfOrigin(HearsOrigin))
  /\ WF_MCVars(OfOrigin(HearsGlobal)) /\ SF_MCVars(OfOrigin(globalAge = 0 /\ HearsPose))
  /\ SF_MCVars(OfOrigin(RequestTick))

MCSpec == MCInit /\ [][MCNext]_MCVars /\ MCFairness
=============================================================================
