--------------------------- MODULE MCControlStories ---------------------------
(***************************************************************************)
(* ControlPlane in two stories, so that each stays small: the joystick     *)
(* (two clients, a release, one start, a load, a fault) and the driving    *)
(* (two starts, a stop, an abort, a clear, a direct load, no fault).       *)
(***************************************************************************)
EXTENDS MCControlPlane

VARIABLE story

StoryInit == PosedInit /\ story \in {"joystick", "driving"}

\* What goes on in both: the emergency stop, the clock and the vehicle.
Around ==
  \/ \E e \in Emergency : EstopStep(e)
  \/ TelemetryStep
  \/ \E t \in Tasks : Serve(t)
  \/ ServeLate \/ RppReports \/ PoseArrives \/ HealthChanges

Joystick ==
  \/ \E a \in Acquires : AcquireStep(a)
  \/ \E t \in Acquires \cup Releasers : ClearingStep(t)
  \/ \E c \in Clients, deadman \in BOOLEAN : HandleCommand(c, deadman)
  \/ \E r \in Releases, c \in Clients : ReleaseRequested(r, c)
  \/ LeaseTimeout \/ WatchdogPass \/ Silence
  \/ \E s \in Starts : (\A t \in Starts \ {s} : pc[t] = "idle") /\ StartStep(s)
  \/ \E l \in Loads : LoadBegins(l) \/ LoadEnds(l)
  \/ Around

Driving ==
  \/ \E s \in Starts : StartStep(s)
  \/ \E t \in Stops \cup Aborts \cup Clears : LifecycleStep(t)
  \/ \E l \in DirectLoads : LoadDirectly(l)
  \/ Around /\ faults' = faults

StoryNext ==
  /\ UNCHANGED story
  /\ \/ story = "joystick" /\ Joystick
     \/ story = "driving" /\ Driving

StorySpec == StoryInit /\ [][StoryNext]_<<vars, story>>

(* With the FCU answering and no emergency stop of an operator, the rover   *)
(* never drives a path the mission state knows nothing of.                  *)
DrivenIsTracked == story = "driving" => DrivingIsTracked
=============================================================================
