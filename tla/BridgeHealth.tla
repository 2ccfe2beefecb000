----------------------------- MODULE BridgeHealth ------------------------------
(***************************************************************************)
(* BridgeHealthManager (server/bridge_health.py): polls the MAVROS link    *)
(* and, when it stays frozen past a grace, stops the mission as best it    *)
(* can and has systemd restart px4-dxp, within a budget of restarts per    *)
(* sliding window and with a cooldown after each.                          *)
(*                                                                         *)
(* Time is counted in polls.  The link is external: it freezes and thaws   *)
(* at any time.  A step that awaits takes up to its own timeout, and no    *)
(* poll happens meanwhile.                                                 *)
(***************************************************************************)
EXTENDS Naturals, Sequences

CONSTANTS
  Grace,            \* BRIDGE_FROZEN_GRACE_S
  Cooldown,         \* BRIDGE_RECOVERY_COOLDOWN_S
  MaxRecoveries,    \* BRIDGE_RECOVERY_MAX
  RecoveryWindow,   \* BRIDGE_RECOVERY_WINDOW_S
  StopTimeout,      \* of stop_async within the recovery
  RestartTimeout    \* of systemctl restart

(* The longest recovery, from the poll that starts it to the next that may. *)
Cycle == StopTimeout + RestartTimeout + Cooldown + Grace

(* What the values of the code satisfy: the budget runs out within the      *)
(* window however slow each recovery is.                                    *)
ASSUME BridgeAssumption ==
  /\ {Grace, Cooldown, MaxRecoveries, StopTimeout, RestartTimeout} \subseteq Nat
  /\ 0 < Grace /\ 0 < Cooldown /\ 0 < MaxRecoveries
  /\ RecoveryWindow \in Nat /\ MaxRecoveries * Cycle <= RecoveryWindow

VARIABLES
  frozen,                  \* what get_bridge_snapshot would say
  autoRecover,             \* _auto_recover, from the configuration
  step,                    \* of the loop: asleep, poll, stopping, restarting
  spent,                   \* time spent in an awaiting step
  health,                  \* _health
  degradedFor,             \* time since _degraded_since, or Never
  cooldown,                \* time to _cooldown_until
  recoveryTimes,           \* _recovery_times, as ages, oldest first
  mission,                 \* the state of the controller: running or not
  frozenFor,               \* history: how long the link has been frozen
  restarts                 \* history: ages of the restarts within the window

bridgeVars == <<frozen, autoRecover, step, spent, health, degradedFor, cooldown,
                recoveryTimes, mission, frozenFor, restarts>>

Never == RecoveryWindow + 2     \* older than anything that is compared

(* By then a frozen link must have been given up. *)
GiveUpBound == MaxRecoveries * Cycle + Grace + 1

Aged(t, bound) == IF t < bound THEN t + 1 ELSE t
AgedAll(times) == [i \in DOMAIN times |-> Aged(times[i], Never)]

(* _within_backoff: what is older than the window is popped off the left.   *)
Within(times, window) ==
  LET popped == CHOOSE n \in 0..Len(times) :
                  /\ \A i \in 1..n : times[i] > window
                  /\ n < Len(times) => times[n + 1] <= window
  IN SubSeq(times, popped + 1, Len(times))

-----------------------------------------------------------------------------
Link ==
  /\ frozen' = ~frozen /\ frozenFor' = 0
  /\ UNCHANGED <<autoRecover, step, spent, health, degradedFor, cooldown, recoveryTimes,
                 mission, restarts>>

StartMission ==
  /\ mission = "idle" /\ mission' = "running"
  /\ UNCHANGED <<frozen, autoRecover, step, spent, health, degradedFor, cooldown,
                 recoveryTimes, frozenFor, restarts>>

(* _tick without a recovery. *)
TickCooling ==
  /\ step = "poll" /\ cooldown > 0
  /\ step' = "asleep"
  /\ UNCHANGED <<frozen, autoRecover, spent, health, degradedFor, cooldown, recoveryTimes,
                 mission, frozenFor, restarts>>

TickHealthy ==
  /\ step = "poll" /\ cooldown = 0 /\ ~frozen
  /\ health' = "HEALTHY" /\ degradedFor' = Never
  /\ step' = "asleep"
  /\ UNCHANGED <<frozen, autoRecover, spent, cooldown, recoveryTimes, mission, frozenFor,
                 restarts>>

FrozenSince == IF degradedFor = Never THEN 0 ELSE degradedFor
FrozenState == IF degradedFor = Never THEN "DEGRADED" ELSE health

(* Frozen, but within the grace, given up, or only observed.                *)
TickFrozen ==
  /\ step = "poll" /\ cooldown = 0 /\ frozen
  /\ \/ FrozenSince < Grace \/ FrozenState \in {"RECOVERING", "FAILED"} \/ ~autoRecover
  /\ degradedFor' = FrozenSince /\ health' = FrozenState
  /\ step' = "asleep"
  /\ UNCHANGED <<frozen, autoRecover, spent, cooldown, recoveryTimes, mission, frozenFor,
                 restarts>>

(* _recover, within its budget. *)
Recover ==
  /\ step = "poll" /\ cooldown = 0 /\ frozen
  /\ FrozenSince >= Grace /\ FrozenState \notin {"RECOVERING", "FAILED"} /\ autoRecover
  /\ LET kept == Within(recoveryTimes, RecoveryWindow) IN
     IF Len(kept) >= MaxRecoveries
     THEN /\ recoveryTimes' = kept
          /\ health' = "FAILED" /\ step' = "asleep"
          /\ UNCHANGED <<spent, restarts>>
     ELSE /\ recoveryTimes' = Append(kept, 0)
          /\ health' = "RECOVERING" /\ spent' = 0
          /\ IF mission = "running"
             THEN step' = "stopping" /\ UNCHANGED restarts
             ELSE step' = "restarting" /\ restarts' = Append(restarts, 0)
  /\ UNCHANGED degradedFor
  /\ UNCHANGED <<frozen, autoRecover, cooldown, mission, frozenFor>>

(* stop_async returned, failed, or was cancelled at its timeout.            *)
StopReturns(stops) ==
  /\ step = "stopping"
  /\ mission' = IF stops THEN "idle" ELSE mission
  /\ step' = "restarting" /\ spent' = 0
  /\ restarts' = Append(restarts, 0)
  /\ UNCHANGED <<frozen, autoRecover, health, degradedFor, cooldown, recoveryTimes, frozenFor>>

(* systemctl returned, failed or timed out: all the same to the manager.    *)
RestartReturnsWith(since) ==
  /\ step = "restarting"
  /\ cooldown' = Cooldown /\ degradedFor' = since
  /\ step' = "asleep" /\ spent' = 0
  /\ UNCHANGED <<frozen, autoRecover, health, recoveryTimes, mission, frozenFor, restarts>>

RestartKeepsSince == RestartReturnsWith(degradedFor)
RestartReturns == RestartReturnsWith(Never)

BridgeElapse ==
  /\ step = "stopping"   => spent < StopTimeout
  /\ step = "restarting" => spent < RestartTimeout
  /\ step # "poll"
  /\ IF step = "asleep" THEN step' = "poll" /\ UNCHANGED spent
                        ELSE spent' = spent + 1 /\ UNCHANGED step
  /\ cooldown' = IF cooldown > 0 THEN cooldown - 1 ELSE 0
  /\ degradedFor' = IF degradedFor = Never THEN Never ELSE Aged(degradedFor, Grace)
  /\ recoveryTimes' = AgedAll(recoveryTimes)
  /\ restarts' = Within(AgedAll(restarts), RecoveryWindow - StopTimeout)
  /\ frozenFor' = IF frozen THEN Aged(frozenFor, GiveUpBound + 1) ELSE 0
  /\ UNCHANGED <<frozen, autoRecover, health, mission>>

BridgeNext ==
  \/ Link \/ StartMission
  \/ TickCooling \/ TickHealthy \/ TickFrozen \/ Recover
  \/ \E stops \in BOOLEAN : StopReturns(stops)
  \/ RestartReturns \/ BridgeElapse

BridgeInit ==
  /\ frozen \in BOOLEAN /\ autoRecover \in BOOLEAN
  /\ step = "asleep" /\ spent = 0
  /\ health = "HEALTHY" /\ degradedFor = Never /\ cooldown = 0
  /\ recoveryTimes = <<>> /\ mission = "idle"
  /\ frozenFor = 0 /\ restarts = <<>>

BridgeSpec == BridgeInit /\ [][BridgeNext]_bridgeVars

-----------------------------------------------------------------------------
BridgeTypeOK ==
  /\ frozen \in BOOLEAN /\ autoRecover \in BOOLEAN
  /\ step \in {"asleep", "poll", "stopping", "restarting"}
  /\ spent \in 0..StopTimeout + RestartTimeout
  /\ health \in {"HEALTHY", "DEGRADED", "RECOVERING", "FAILED"}
  /\ degradedFor \in 0..Grace \cup {Never} /\ cooldown \in 0..Cooldown
  /\ recoveryTimes \in Seq(0..Never)
  /\ health = "HEALTHY" => degradedFor = Never
  /\ mission \in {"idle", "running"}
  /\ frozenFor \in 0..GiveUpBound + 1
  /\ restarts \in Seq(0..Never)

(* Whatever the link does, the window holds no more restarts than the       *)
(* budget; the stop of a mission may delay one, so the window is shorter by *)
(* as much.                                                                 *)
BudgetHolds == Len(restarts) <= MaxRecoveries

(* Two restarts are at least a cooldown and a grace apart: MAVROS has had   *)
(* the time to come back, and was then seen frozen for the grace again.     *)
RestartsApart ==
  \A i \in DOMAIN restarts : \A j \in DOMAIN restarts :
    i < j => restarts[i] - restarts[j] >= Cooldown + Grace

(* A link that stays frozen is given up, not restarted for ever.            *)
GivesUp == autoRecover /\ frozenFor > GiveUpBound => health = "FAILED"

(* What the recovery promises of a link that misbehaves: restarts within a  *)
(* budget, apart from each other, and an end to them.                       *)
RecoveryBounded == BudgetHolds /\ RestartsApart /\ GivesUp
=============================================================================
