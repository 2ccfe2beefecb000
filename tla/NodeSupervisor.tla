---------------------------- MODULE NodeSupervisor -----------------------------
(***************************************************************************)
(* rpp_start.sh: one shell that starts the ROS nodes of the pipeline and   *)
(* restarts the ones that die.  A critical node is restarted after a short *)
(* blocking delay, and too many of its deaths end the shell, which systemd *)
(* then restarts; an auxiliary node is restarted on a schedule of its own. *)
(*                                                                         *)
(* Time is counted in periods of the loop (2 s), which is also the delay   *)
(* of a critical restart and at least the grace of the cleanup; the shell  *)
(* computes in no time.  The nodes are external: they run or die.  A       *)
(* signal waits for the sleep it arrives in, as in bash.                   *)
(***************************************************************************)
EXTENDS Integers, Sequences, FiniteSets

CONSTANTS
  Order,         \* the nodes, in the order of the loop
  Critical,      \* is_critical_node
  FailWindow, MaxFails,      \* FAIL_WINDOW, MAX_FAILS_IN_WINDOW
  BackoffCap, ResetAfter,    \* AUX_BACKOFF_CAP_S, AUX_RESET_AFTER_S
  MaxCount       \* the clamp of AUX_FAIL_COUNT

Nodes     == {Order[i] : i \in 1..Len(Order)}
Auxiliary == Nodes \ Critical

ASSUME SupervisorAssumption ==
  /\ Order \in Seq(Nodes) /\ Order # << >> /\ Critical \subseteq Nodes
  /\ FailWindow \in Nat /\ MaxFails \in Nat \ {0}
  /\ BackoffCap \in Nat \ {0} /\ ResetAfter \in Nat /\ MaxCount \in Nat \ {0}

VARIABLES
  shell,      \* what the shell does: sleep, scan, delay, cleanup, stopped, failed
  turn,       \* position of the node the loop is at
  alive,      \* nodes whose process runs
  upSince,    \* NODE_START_TIME, as an age
  failures,   \* AUX_FAIL_COUNT
  due,        \* AUX_NEXT_RESTART, as the time to go, or Unscheduled
  failAges,   \* FAIL_TIMES, as ages
  signal,     \* a TERM that waits for the end of the sleep
  down,       \* history: how long each node has been dead
  deaths,     \* history: deaths of critical nodes since the shell started
  pending     \* history: how long the TERM has waited

supervisorVars == <<shell, turn, alive, upSince, failures, due, failAges, signal,
                    down, deaths, pending>>

Unscheduled == -1
Capped(t, bound) == IF t < bound THEN t + 1 ELSE t

(* Deaths and ages are not counted further than this. *)
Forever == 2 * Len(Order) + BackoffCap + 2

(* aux_backoff_delay, in periods: 1, 2, 4, ... up to the cap. *)
AuxBackoffDelay(count) == IF 2 ^ (count - 1) > BackoffCap THEN BackoffCap ELSE 2 ^ (count - 1)

(* record_fail: the new death, and of the earlier ones, which are in the    *)
(* order of time, those within the window.                                  *)
Outdated(ages)    == {i \in DOMAIN ages : ages[i] > FailWindow}
Recorded(ages) == Append(SubSeq(ages, Cardinality(Outdated(ages)) + 1, Len(ages)), 0)

Running == shell \in {"sleep", "scan", "delay"}

-----------------------------------------------------------------------------
StartNode(n) ==
  /\ alive' = alive \cup {n}
  /\ upSince' = [upSince EXCEPT ![n] = 0]
  /\ down' = [down EXCEPT ![n] = 0]

(* The next node of the loop, or the sleep of the next round. *)
Advance ==
  IF turn < Len(Order) THEN shell' = "scan" /\ turn' = turn + 1
                       ELSE shell' = "sleep" /\ turn' = 0

Here(n) == shell = "scan" /\ ~signal /\ n = Order[turn]

ScanAlive(n) ==
  /\ Here(n) /\ n \in alive
  /\ Advance
  /\ UNCHANGED <<alive, upSince, failures, due, failAges, signal, down, deaths, pending>>

(* record_fail, then the blocking delay before the restart. *)
ScanCritical(n) ==
  /\ Here(n) /\ n \in Critical \ alive
  /\ failAges' = Recorded(failAges)
  /\ shell' = IF Len(failAges') >= MaxFails THEN "failing" ELSE "delay"
  /\ UNCHANGED <<turn, alive, upSince, failures, due, signal, down, deaths, pending>>

RestartCritical(n) ==
  /\ shell = "restart" /\ ~signal /\ n = Order[turn]
  /\ StartNode(n) /\ Advance
  /\ UNCHANGED <<failures, due, failAges, signal, deaths, pending>>

(* Every death counts against the pipeline. *)
ScheduleRecordsFail(n) ==
  /\ Here(n) /\ n \in Auxiliary \ alive
  /\ due[n] = Unscheduled
  /\ due' = [due EXCEPT ![n] = AuxBackoffDelay(1)]
  /\ failAges' = Recorded(failAges)
  /\ IF Len(failAges') >= MaxFails THEN shell' = "failing" /\ UNCHANGED turn ELSE Advance
  /\ UNCHANGED <<alive, upSince, failures, signal, down, deaths, pending>>

ScheduleAuxiliary(n) ==
  /\ Here(n) /\ n \in Auxiliary \ alive
  /\ due[n] = Unscheduled
  /\ LET count == IF upSince[n] >= ResetAfter THEN 1 ELSE failures[n] + 1
         kept  == IF count > MaxCount THEN MaxCount ELSE count
     IN /\ failures' = [failures EXCEPT ![n] = kept]
        /\ due' = [due EXCEPT ![n] = AuxBackoffDelay(kept)]
  /\ Advance
  /\ UNCHANGED <<alive, upSince, failAges, signal, down, deaths, pending>>

AwaitAuxiliary(n) ==
  /\ Here(n) /\ n \in Auxiliary \ alive
  /\ due[n] > 0
  /\ Advance
  /\ UNCHANGED <<alive, upSince, failures, due, failAges, signal, down, deaths, pending>>

RestartAuxiliary(n) ==
  /\ Here(n) /\ n \in Auxiliary \ alive
  /\ due[n] = 0
  /\ due' = [due EXCEPT ![n] = Unscheduled]
  /\ StartNode(n) /\ Advance
  /\ UNCHANGED <<failures, failAges, signal, deaths, pending>>

Scan(n) ==
  \/ ScanAlive(n) \/ ScanCritical(n) \/ RestartCritical(n)
  \/ ScheduleAuxiliary(n) \/ AwaitAuxiliary(n) \/ RestartAuxiliary(n)

-----------------------------------------------------------------------------
(* The end of the shell: handle_exit on TERM, or on the exit of record_fail. *)

BeginCleanup ==
  /\ \/ signal /\ shell \in {"scan", "restart"}
     \/ shell = "failing"
  /\ shell' = IF signal THEN "cleanup" ELSE "fail_cleanup"
  /\ \E survivors \in SUBSET alive :      \* those that do not honour TERM
       alive' = survivors
  /\ UNCHANGED <<turn, upSince, failures, due, failAges, signal, down, deaths, pending>>

EndCleanup ==
  /\ shell \in {"killing", "fail_killing"}
  /\ shell' = IF shell = "killing" THEN "stopped" ELSE "failed"
  /\ alive' = {}
  /\ UNCHANGED <<turn, upSince, failures, due, failAges, signal, down, deaths, pending>>

(* The signal of systemctl stop; once the cleanup has begun it is ignored. *)
Term ==
  /\ Running /\ ~signal
  /\ signal' = TRUE /\ pending' = 0
  /\ UNCHANGED <<shell, turn, alive, upSince, failures, due, failAges, down, deaths>>

(* systemd restarts a shell that failed; a stopped one is started by hand. *)
Boot ==
  /\ shell \in {"stopped", "failed"}
  /\ shell' = "sleep" /\ turn' = 0
  /\ alive' = Nodes
  /\ upSince' = [n \in Nodes |-> 0] /\ down' = [n \in Nodes |-> 0]
  /\ failures' = [n \in Nodes |-> 0] /\ due' = [n \in Nodes |-> Unscheduled]
  /\ failAges' = <<>> /\ deaths' = 0
  /\ signal' = FALSE /\ pending' = 0

Crash(n) ==
  /\ n \in alive
  /\ alive' = alive \ {n}
  /\ down' = [down EXCEPT ![n] = 0]
  /\ deaths' = IF n \in Critical THEN Capped(deaths, MaxFails) ELSE deaths
  /\ UNCHANGED <<shell, turn, upSince, failures, due, failAges, signal, pending>>

(* A period passes while the shell sleeps. *)
Elapse ==
  /\ shell \in {"sleep", "delay", "cleanup", "fail_cleanup"}
  /\ shell' = CASE shell = "sleep"   -> "scan"
                [] shell = "delay"   -> "restart"
                [] shell = "cleanup" -> "killing"
                [] OTHER             -> "fail_killing"
  /\ turn' = IF shell = "sleep" THEN 1 ELSE turn
  /\ upSince' = [n \in Nodes |-> Capped(upSince[n], ResetAfter)]
  /\ down' = [n \in Nodes |-> IF n \in alive THEN 0 ELSE Capped(down[n], Forever)]
  /\ due' = [n \in Nodes |-> IF due[n] > 0 THEN due[n] - 1 ELSE due[n]]
  /\ failAges' = [i \in DOMAIN failAges |-> Capped(failAges[i], FailWindow + 1)]
  /\ pending' = IF signal THEN Capped(pending, Forever) ELSE 0
  /\ UNCHANGED <<alive, failures, signal, deaths>>

SupervisorNext ==
  \/ \E n \in Nodes : Scan(n) \/ Crash(n)
  \/ BeginCleanup \/ EndCleanup \/ Term \/ Boot \/ Elapse

SupervisorInit ==
  /\ shell = "sleep" /\ turn = 0
  /\ alive = Nodes
  /\ upSince = [n \in Nodes |-> 0] /\ down = [n \in Nodes |-> 0]
  /\ failures = [n \in Nodes |-> 0] /\ due = [n \in Nodes |-> Unscheduled]
  /\ failAges = <<>> /\ deaths = 0
  /\ signal = FALSE /\ pending = 0

SupervisorSpec == SupervisorInit /\ [][SupervisorNext]_supervisorVars

-----------------------------------------------------------------------------
(* Bounds, in periods: a critical node waits for the rest of the round, the *)
(* sleep, the restarts before it in the next round, and its own delay.  An  *)
(* auxiliary one waits as long to be seen, for its back-off, and again for  *)
(* the loop to come round to it.                                            *)
CriticalBound  == Cardinality({i \in DOMAIN Order : Order[i] \in Critical}) + 1
AuxiliaryBound == BackoffCap + 2 * CriticalBound - 1

SupervisorTypeOK ==
  /\ shell \in {"sleep", "scan", "delay", "restart", "failing", "cleanup", "killing",
                "fail_cleanup", "fail_killing", "stopped", "failed"}
  /\ turn \in 0..Len(Order) /\ alive \subseteq Nodes
  /\ upSince \in [Nodes -> 0..ResetAfter] /\ failures \in [Nodes -> 0..MaxCount]
  /\ due \in [Nodes -> Unscheduled..BackoffCap]
  /\ failAges \in Seq(0..FailWindow + 1) /\ Len(failAges) <= MaxFails
  /\ signal \in BOOLEAN /\ down \in [Nodes -> 0..Forever]
  /\ deaths \in 0..MaxFails /\ pending \in 0..Forever

(* While the shell is not shutting down, a dead node is back in time: the   *)
(* back-off of an auxiliary node never holds up a critical one.             *)
BackInTime ==
  Running /\ ~signal => \A n \in Nodes \ alive :
    down[n] <= IF n \in Critical THEN CriticalBound ELSE AuxiliaryBound

(* The pipeline gives up for deaths of critical nodes only.                 *)
AuxiliaryIsolated == shell \in {"failing", "fail_cleanup", "fail_killing", "failed"} => deaths >= MaxFails

(* systemctl stop is over within two periods, with every node down.         *)
ShutdownInTime ==
  /\ pending <= 2
  /\ shell = "stopped" => alive = {}

(* What the supervisor promises of the pipeline: nodes come back, an        *)
(* auxiliary one harms nobody, and a stop is a stop.                        *)
SupervisionHolds == BackInTime /\ AuxiliaryIsolated /\ ShutdownInTime
=============================================================================
