---------------------------- MODULE SpraySafetyFsm ----------------------------
(***************************************************************************)
(* The spray actuator command state machine, src/src/spray_fsm.py.         *)
(*                                                                         *)
(* SpraySafetyStateMachine is a pure object: every method maps its fields  *)
(* and the caller's inputs to new fields and at most one command.  It is   *)
(* translated method by method, as operators on a record of its fields, so *)
(* that a component that chains several calls in one callback (the spray   *)
(* node does) can compose them within one action.                          *)
(*                                                                         *)
(* Time is counted in units of the caller's clock.  The two absolute       *)
(* deadlines of the code, _pending_since + ack_timeout_s and               *)
(* _recovery_deadline, are kept as the time left to them (ackLeft,         *)
(* retryLeft), which Elapse runs down.                                     *)
(***************************************************************************)
EXTENDS Integers

CONSTANTS
  AckTimeout,     \* ack_timeout_s, in time units
  BackoffBase,    \* backoff_base_s, in time units
  BackoffMax,     \* backoff_max_s, in time units
  FloatExpLimit   \* the least n for which 2**n has no float (1024 in CPython)

ASSUME FsmAssumption ==
  /\ AckTimeout \in Nat \ {0}
  /\ BackoffBase \in Nat \ {0}
  /\ BackoffMax \in Nat /\ BackoffBase <= BackoffMax
  /\ FloatExpLimit \in Nat \ {0}

SprayState == {"OFF_UNCONFIRMED", "OFF_CONFIRMED", "ON_PENDING",
               "ON_CONFIRMED", "OFF_PENDING", "RECOVERY", "DISABLED"}

Pending == {"ON_PENDING", "OFF_PENDING"}

NotPending == -1     \* _pending_since is None

Fsm == [state       : SprayState,
        cmd_seq     : Nat,
        ackLeft     : 0 .. AckTimeout \cup {NotPending},
        disabled    : BOOLEAN,
        attempt     : Nat,
        retryLeft   : 0 .. BackoffMax,
        prevEnabled : BOOLEAN,
        prevSafe    : BOOLEAN]

FsmInit == [state       |-> "OFF_UNCONFIRMED",
            cmd_seq     |-> 0,
            ackLeft     |-> NotPending,
            disabled    |-> FALSE,
            attempt     |-> 0,
            retryLeft   |-> 0,
            prevEnabled |-> TRUE,
            prevSafe    |-> TRUE]

(* The outcome of a call: the new fields, the command to dispatch (it       *)
(* always carries the new cmd_seq), and whether the call raised.            *)
Outcome == [fsm : Fsm, cmd : {"none", "ON", "OFF"}, raised : BOOLEAN]

Quiet(f) == [fsm |-> f, cmd |-> "none", raised |-> FALSE]

Spraying(f)  == f.state = "ON_CONFIRMED"
Commanded(f) == f.state \in {"ON_PENDING", "ON_CONFIRMED"}
OffConfirmed(f) == f.state \in {"OFF_CONFIRMED", "DISABLED"}

-----------------------------------------------------------------------------
(* Helpers that dispatch or schedule a retry.                               *)

DispatchOff(f) ==
  [fsm |-> [f EXCEPT !.state = "OFF_PENDING", !.cmd_seq = @ + 1, !.ackLeft = AckTimeout],
   cmd |-> "OFF", raised |-> FALSE]

(* Mutant: ON is believed as soon as it is sent.                            *)
DispatchOnOptimistic(f) ==
  [fsm |-> [f EXCEPT !.state = "ON_CONFIRMED", !.cmd_seq = @ + 1],
   cmd |-> "ON", raised |-> FALSE]

DispatchOn(f) ==
  [fsm |-> [f EXCEPT !.state = "ON_PENDING", !.cmd_seq = @ + 1, !.ackLeft = AckTimeout],
   cmd |-> "ON", raised |-> FALSE]

(* min(base * 2^attempt, max); past attempt = max the power exceeds max and  *)
(* is not computed.                                                         *)
Backoff(attempt) ==
  LET doubled == BackoffBase * 2 ^ attempt
  IN  IF attempt <= BackoffMax /\ doubled \in 0 .. BackoffMax THEN doubled ELSE BackoffMax

(* The float product is computed before any field is assigned: an attempt   *)
(* count whose power of two does not fit a float raises OverflowError and   *)
(* leaves the fields as they were.                                          *)
EnterRecovery(f) ==
  IF f.attempt >= FloatExpLimit
  THEN [fsm |-> f, cmd |-> "none", raised |-> TRUE]
  ELSE Quiet([f EXCEPT !.state = "RECOVERY", !.retryLeft = Backoff(f.attempt),
                       !.attempt = @ + 1, !.ackLeft = NotPending])

RetryDue(f) == f.retryLeft = 0

-----------------------------------------------------------------------------
(* on_ack and note_event_reset.                                             *)

(* Mutants: a superseded reply is applied; the timeout of a confirmed       *)
(* command keeps running.                                                   *)
OnAckAnySeq(f, seq, success) ==
  CASE f.state = "ON_PENDING" ->
         IF success THEN Quiet([f EXCEPT !.state = "ON_CONFIRMED", !.ackLeft = NotPending])
         ELSE DispatchOff(f)
    [] f.state = "OFF_PENDING" ->
         IF success
         THEN Quiet([f EXCEPT !.state = IF f.disabled THEN "DISABLED" ELSE "OFF_CONFIRMED",
                              !.ackLeft = NotPending, !.attempt = 0, !.retryLeft = 0])
         ELSE EnterRecovery(f)
    [] OTHER -> Quiet(f)

OnAckKeepsStamp(f, seq, success) ==
  IF seq = f.cmd_seq /\ f.state = "OFF_PENDING" /\ success
  THEN Quiet([f EXCEPT !.state = IF f.disabled THEN "DISABLED" ELSE "OFF_CONFIRMED"])
  ELSE OnAckAnySeq(f, seq, success)

OnAck(f, seq, success) ==
  CASE seq # f.cmd_seq -> Quiet(f)
    [] seq = f.cmd_seq /\ f.state = "ON_PENDING" ->
         IF success
         THEN Quiet([f EXCEPT !.state = "ON_CONFIRMED", !.ackLeft = NotPending])
         ELSE DispatchOff(f)
    [] seq = f.cmd_seq /\ f.state = "OFF_PENDING" ->
         IF success
         THEN Quiet([f EXCEPT !.state = IF f.disabled THEN "DISABLED" ELSE "OFF_CONFIRMED",
                              !.ackLeft = NotPending, !.attempt = 0, !.retryLeft = 0])
         ELSE EnterRecovery(f)
    [] OTHER -> Quiet(f)

NoteEventReset(f) ==
  [f EXCEPT !.attempt = 0,
            !.retryLeft = IF f.state = "RECOVERY" THEN 0 ELSE @]

-----------------------------------------------------------------------------
(* tick, in the order the code takes it: the enable edge, the safety edge,  *)
(* the ack timeout, and then one of the three drive tables.                 *)

(* Mutant: re-enabling trusts the OFF of the disabled time.                 *)
EnableEdgeTrusting(f, enabled) ==
  CASE ~enabled /\ f.prevEnabled -> [f EXCEPT !.prevEnabled = FALSE, !.disabled = TRUE]
    [] enabled /\ ~f.prevEnabled -> [f EXCEPT !.prevEnabled = TRUE, !.disabled = FALSE,
                                             !.state = "OFF_CONFIRMED", !.ackLeft = NotPending]
    [] OTHER -> f

EnableEdge(f, enabled) ==
  LET disabling == ~enabled /\ f.prevEnabled
      enabling  == enabled /\ ~f.prevEnabled
  IN  CASE disabling -> [f EXCEPT !.prevEnabled = FALSE, !.disabled = TRUE, !.attempt = 0]
        [] enabling  -> [f EXCEPT !.prevEnabled = TRUE, !.disabled = FALSE,
                                  !.state = "OFF_UNCONFIRMED", !.attempt = 0,
                                  !.retryLeft = 0, !.ackLeft = NotPending]
        [] OTHER     -> f

SafetyEdge(f, safety_ok, enabled) ==
  LET g == [f EXCEPT !.prevSafe = safety_ok]
  IN  IF enabled /\ ~safety_ok /\ f.prevSafe THEN NoteEventReset(g) ELSE g

(* Mutant: a lost acknowledgement is awaited for ever.                      *)
NoPendingTimeout(f) == Quiet(f)

CheckPendingTimeout(f) ==
  CASE f.ackLeft # 0            -> Quiet(f)
    [] f.ackLeft = 0 /\ f.state = "ON_PENDING"  -> DispatchOff(f)
    [] f.ackLeft = 0 /\ f.state = "OFF_PENDING" -> EnterRecovery(f)
    [] OTHER                    -> Quiet([f EXCEPT !.ackLeft = NotPending])

(* Mutant: a failed OFF is not retried while disabled.                      *)
DriveOffDisabledOnce(f) ==
  CASE f.state = "OFF_CONFIRMED" -> Quiet([f EXCEPT !.state = "DISABLED"])
    [] f.state \in {"DISABLED", "OFF_PENDING", "RECOVERY"} -> Quiet(f)
    [] OTHER -> DispatchOff(f)

DriveOffDisabled(f) ==
  CASE f.state = "OFF_CONFIRMED"               -> Quiet([f EXCEPT !.state = "DISABLED"])
    [] f.state \in {"DISABLED", "OFF_PENDING"} -> Quiet(f)
    [] OTHER                                   -> DispatchOff(f)

DriveOffSafety(f) ==
  IF \/ f.state \in {"OFF_CONFIRMED", "DISABLED", "OFF_PENDING"}
     \/ f.state = "RECOVERY" /\ ~RetryDue(f)
  THEN Quiet(f)
  ELSE DispatchOff(f)

(* Mutant: RECOVERY is left only by losing safety.                          *)
NormalTickNoRetry(f, desired) ==
  CASE f.state = "OFF_UNCONFIRMED"          -> DispatchOff(f)
    [] f.state = "OFF_CONFIRMED" /\ desired -> DispatchOn(f)
    [] Commanded(f) /\ ~desired             -> DispatchOff(f)
    [] OTHER                                -> Quiet(f)

NormalTick(f, desired) ==
  CASE f.state = "OFF_UNCONFIRMED"            -> DispatchOff(f)
    [] f.state = "RECOVERY" /\ RetryDue(f)    -> DispatchOff(f)
    [] f.state = "OFF_CONFIRMED" /\ desired   -> DispatchOn(f)
    [] Commanded(f) /\ ~desired               -> DispatchOff(f)
    [] OTHER                                  -> Quiet(f)

Drive(f, desired, safety_ok, enabled) ==
  CASE ~enabled               -> DriveOffDisabled(f)
    [] enabled /\ ~safety_ok  -> DriveOffSafety(f)
    [] OTHER                  -> NormalTick(f, desired)

Tick(f, desired, safety_ok, enabled) ==
  LET AfterTimeout[t \in Outcome] ==
        IF t.raised \/ t.cmd # "none" THEN t ELSE Drive(t.fsm, desired, safety_ok, enabled)
  IN  AfterTimeout[CheckPendingTimeout(
                     SafetyEdge(EnableEdge(f, enabled), safety_ok, enabled))]

-----------------------------------------------------------------------------
(* One unit of the caller's monotonic clock passes.                         *)
Elapse(f) ==
  [f EXCEPT !.ackLeft   = IF @ > 0 THEN @ - 1 ELSE @,
            !.retryLeft = IF @ > 0 THEN @ - 1 ELSE @]

=============================================================================
