---------------------------- MODULE ControlArbiter ----------------------------
(***************************************************************************)
(* Who may move the rover: server/control_arbiter.py, as operators on the  *)
(* owner.  The arbiter's own lock is never held across an await, so every  *)
(* method is one atomic change of the owner.  A variant with a plausible   *)
(* mistake stands before the operator it is a variant of.                  *)
(***************************************************************************)

ControlOwner ==
  {"idle", "mission", "joystick_acquiring", "joystick_active", "joystick_held", "releasing"}

MissionState ==
  {"idle", "loading", "arming", "switching_offboard", "entry", "running",
   "stopping", "disarming", "completed", "aborted", "error"}

(* Variant: the entry leg, a later addition, is forgotten. *)
MissionActiveNoEntry ==
  {"loading", "arming", "switching_offboard", "running", "stopping", "disarming"}

(* MISSION_ACTIVE_STATES *)
MissionActive ==
  {"loading", "arming", "switching_offboard", "entry", "running", "stopping", "disarming"}

JoystickOwned(o) ==
  o \in {"joystick_acquiring", "joystick_active", "joystick_held", "releasing"}

-----------------------------------------------------------------------------
(* The mission side: the bracket around a start.                            *)

MayClaimMission(o) == ~JoystickOwned(o)

Relinquish(o) == IF JoystickOwned(o) THEN o ELSE "idle"

-----------------------------------------------------------------------------
(* The joystick side.  Clearing and activating are unconditional.           *)

MayAcquire(o, state) == state \notin MissionActive /\ o = "idle"

(* Variant: the state of the lease is stored as the owner. *)
MarkHeldState(o) == IF JoystickOwned(o) THEN "held" ELSE o
MarkHeld(o)      == IF JoystickOwned(o) THEN "joystick_held" ELSE o

MarkReleasing(o) == IF JoystickOwned(o) THEN "releasing" ELSE o

Cleared(o)    == "idle"
=============================================================================
