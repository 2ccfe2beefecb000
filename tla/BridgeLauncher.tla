---------------------------- MODULE BridgeLauncher -----------------------------
(***************************************************************************)
(* px4_start_service.sh under px4-dxp.service: the main shell starts a     *)
(* watchdog shell, waits for the flag file the watchdog touches when       *)
(* MAVROS is discovered, and then waits for the watchdog; the watchdog     *)
(* starts MAVROS and starts it again whenever it exits or fails to appear. *)
(*                                                                         *)
(* Time is counted in seconds.  A shell acts on TERM when its foreground   *)
(* command ends, or at once in a wait.  systemd stops the unit with two    *)
(* TERMs to the main shell, from ExecStop and from KillSignal, kills what  *)
(* is left when it is gone (KillMode=mixed), and starts it again           *)
(* (Restart=always).  systemd and MAVROS are external.                     *)
(***************************************************************************)
EXTENDS Naturals

CONSTANTS
  ReadyTimeout,     \* MAVROS_READY_TIMEOUT
  ReadyWait,        \* MAVROS_READY_WAIT
  ProbeTime,        \* the longest check_ros_node
  FreeTime,         \* free_port and the second after it, at most
  ApplyTime,        \* the longest apply_gcs_heartbeat
  ValidateTime,     \* the longest check of the FCU link
  RestartDelay,     \* MAVROS_RESTART_DELAY
  FailDelay,        \* MAVROS_FAIL_DELAY
  TermGrace         \* of terminate_pid

ASSUME LauncherAssumption ==
  /\ {ProbeTime, FreeTime, ApplyTime, ValidateTime, RestartDelay, FailDelay, TermGrace}
       \subseteq Nat \ {0}
  /\ ReadyWait \in Nat \ {0} /\ ReadyTimeout \in Nat /\ ReadyWait < ReadyTimeout

VARIABLES
  main, mainFor,     \* the main shell, and how long it has been in that step
  waited,            \* rounds of the wait for the flag
  mainTerms,         \* TERMs sent to it: 0, 1 from ExecStop, 2 from KillSignal
  flag,              \* MAVROS_READY_FLAG
  dog, dogFor,       \* the watchdog
  dogTerm,           \* a TERM waits for it
  attempt,           \* rounds of the wait for /mavros
  mavros,            \* the process of mavros_pid: none, alive, gone
  orphan,            \* a MAVROS that no shell knows of
  found,             \* history: in this run /mavros was found
  idleFor            \* history: how long there has been no MAVROS

mainVars == <<main, mainFor, waited, mainTerms>>
dogVars  == <<dog, dogFor, dogTerm, attempt>>
launcherVars == <<mainVars, flag, dogVars, mavros, orphan, found, idleFor>>

Longer(x, y) == IF x > y THEN x ELSE y

(* The longest the watchdog goes without a MAVROS before it frees the port:  *)
(* one died between two probes, or while the heartbeat was applied.          *)
Delays == Longer(1 + ProbeTime + FailDelay, ApplyTime + RestartDelay)
DogIdle == Delays + FreeTime

(* A watchdog that dies is noticed by the next round of the main shell, or   *)
(* when the check of the link ends that a flag touched too late has begun.   *)
IdleBound == Longer(DogIdle + 1, ApplyTime + 1 + ValidateTime)

MainTo(s) == main' = s /\ mainFor' = 0
DogTo(s)  == dog' = s /\ dogFor' = 0

(* TERM is taken between two commands; a shell with one pending starts none. *)
DogFree == ~dogTerm

-----------------------------------------------------------------------------
(* systemd starts the unit: the flag of an earlier run is removed before    *)
(* the watchdog exists.                                                     *)
StartUnitWith(ready) ==
  /\ main = "none"
  /\ MainTo("polling") /\ waited' = 0 /\ mainTerms' = 0
  /\ flag' = ready
  /\ DogTo("freeing") /\ dogTerm' = FALSE /\ attempt' = 0
  /\ found' = FALSE /\ idleFor' = 0
  /\ UNCHANGED <<mavros, orphan>>

StartUnitKeepsFlag == StartUnitWith(flag)
StartUnit == StartUnitWith(FALSE)

(* One round of the wait for the flag.                                      *)
MainPoll ==
  /\ main = "polling" /\ mainTerms = 0
  /\ \/ /\ waited = ReadyTimeout
        /\ MainTo("gave up") /\ UNCHANGED <<waited, flag>>
     \/ /\ waited < ReadyTimeout /\ flag
        /\ MainTo("validating") /\ flag' = FALSE /\ UNCHANGED waited
     \/ /\ waited < ReadyTimeout /\ ~flag /\ dog = "none"
        /\ MainTo("gave up") /\ UNCHANGED <<waited, flag>>
     \/ /\ waited < ReadyTimeout /\ ~flag /\ dog # "none"
        /\ MainTo("sleeping") /\ waited' = waited + 1 /\ UNCHANGED flag
  /\ UNCHANGED <<mainTerms, dogVars, mavros, orphan, found, idleFor>>

MainValidated ==
  /\ main = "validating"
  /\ MainTo(IF mainTerms = 0 THEN "attached" ELSE "handling")
  /\ UNCHANGED <<waited, mainTerms, flag, dogVars, mavros, orphan, found, idleFor>>

(* handle_exit: on TERM, on exit 1, or when the wait for the watchdog ends. *)
MainCleanup ==
  /\ \/ main \in {"gave up", "handling"}
     \/ main \in {"polling", "attached"} /\ mainTerms > 0
     \/ main = "attached" /\ dog = "none"
  /\ MainTo("cleanup") /\ flag' = FALSE
  /\ dogTerm' = (dog # "none")
  /\ UNCHANGED <<waited, mainTerms, dog, dogFor, attempt, mavros, orphan, found,
                 idleFor>>

(* terminate_pid of the watchdog: it exits, or is killed after the grace,   *)
(* and its MAVROS is then nobody's.                                         *)
MainExit ==
  /\ main = "cleanup" /\ (dog = "none" \/ mainFor >= TermGrace)
  /\ MainTo("exited")
  /\ DogTo("none") /\ dogTerm' = FALSE
  /\ orphan' = (orphan \/ mavros = "alive")
  /\ mavros' = "none"
  /\ UNCHANGED <<waited, mainTerms, flag, attempt, found, idleFor>>

-----------------------------------------------------------------------------
(* The watchdog.                                                            *)

Launch ==
  /\ dog = "freeing" /\ DogFree
  /\ DogTo("probing") /\ attempt' = 1
  /\ mavros' = "alive"
  /\ UNCHANGED <<mainVars, flag, dogTerm, orphan, found, idleFor>>

ProbeFinds ==
  /\ dog = "probing" /\ DogFree /\ mavros = "alive"
  /\ DogTo("applying") /\ found' = TRUE
  /\ UNCHANGED <<mainVars, flag, dogTerm, attempt, mavros, orphan, idleFor>>

ProbeFails ==
  /\ dog = "probing" /\ DogFree
  /\ DogTo(IF mavros = "gone" THEN "terminating" ELSE "napping")
  /\ UNCHANGED <<mainVars, flag, dogTerm, attempt, mavros, orphan, found, idleFor>>

NextProbe ==
  /\ dog = "napping" /\ dogFor = 1 /\ DogFree
  /\ IF attempt < ReadyWait
     THEN DogTo("probing") /\ attempt' = attempt + 1
     ELSE DogTo("terminating") /\ UNCHANGED attempt
  /\ UNCHANGED <<mainVars, flag, dogTerm, mavros, orphan, found, idleFor>>

TouchFlag ==
  /\ dog = "applying" /\ DogFree
  /\ flag' = TRUE /\ DogTo("waiting")
  /\ UNCHANGED <<mainVars, dogTerm, attempt, mavros, orphan, found, idleFor>>

WaitEnds ==
  /\ dog = "waiting" /\ DogFree /\ mavros = "gone"
  /\ mavros' = "none" /\ DogTo("restart delay")
  /\ UNCHANGED <<mainVars, flag, dogTerm, attempt, orphan, found, idleFor>>

(* terminate_pid of MAVROS, after a failed start or in _wd_cleanup.         *)
Terminated ==
  /\ dog \in {"terminating", "leaving"} /\ (mavros # "alive" \/ dogFor >= TermGrace)
  /\ mavros' = "none"
  /\ DogTo(IF dog = "leaving" \/ dogTerm THEN "none" ELSE "fail delay")
  /\ UNCHANGED <<mainVars, flag, dogTerm, attempt, orphan, found, idleFor>>

DelayEnds ==
  /\ \/ dog = "restart delay" /\ dogFor = RestartDelay
     \/ dog = "fail delay" /\ dogFor = FailDelay
  /\ DogFree
  /\ DogTo("freeing")
  /\ UNCHANGED <<mainVars, flag, dogTerm, attempt, mavros, orphan, found, idleFor>>

(* The trap of the watchdog, when the command at hand ends.                 *)
DogTrapped ==
  /\ dogTerm /\ dog \notin {"none", "terminating", "leaving"}
  /\ DogTo("leaving")
  /\ UNCHANGED <<mainVars, flag, dogTerm, attempt, mavros, orphan, found, idleFor>>

-----------------------------------------------------------------------------
(* External.                                                                *)

MavrosExits ==
  /\ mavros = "alive"
  /\ mavros' = "gone" /\ idleFor' = 0
  /\ UNCHANGED <<mainVars, flag, dogVars, orphan, found>>

(* The kernel kills the watchdog, for memory.                               *)
DogKilled ==
  /\ dog # "none" /\ main # "none"
  /\ DogTo("none") /\ dogTerm' = FALSE
  /\ orphan' = (orphan \/ mavros = "alive") /\ mavros' = "none"
  /\ UNCHANGED <<mainVars, flag, attempt, found, idleFor>>

MainAlive == main \notin {"none", "exited"}

(* The first TERM waits for the main shell, the second kills a cleanup.     *)
SystemdTerm ==
  /\ MainAlive /\ mainTerms < 2
  /\ mainTerms' = mainTerms + 1
  /\ IF mainTerms = 1 /\ main = "cleanup" THEN MainTo("exited") ELSE UNCHANGED <<main, mainFor>>
  /\ UNCHANGED <<waited, flag, dogVars, mavros, orphan, found, idleFor>>

(* The control group is killed once the main shell is gone.                 *)
SystemdKill ==
  /\ main = "exited"
  /\ MainTo("none")
  /\ DogTo("none") /\ dogTerm' = FALSE
  /\ mavros' = "none" /\ orphan' = FALSE
  /\ UNCHANGED <<waited, mainTerms, flag, attempt, found, idleFor>>

LongestStep ==
  [polling |-> 0, sleeping |-> 1, validating |-> ValidateTime, cleanup |-> TermGrace,
   freeing |-> FreeTime, probing |-> ProbeTime, napping |-> 1, applying |-> ApplyTime,
   terminating |-> TermGrace, leaving |-> TermGrace]
Unlimited == {"attached", "waiting", "none"}
LimitOf(s) == CASE s \in DOMAIN LongestStep -> LongestStep[s]
                [] s = "restart delay"      -> RestartDelay
                [] s = "fail delay"         -> FailDelay
                [] s \in Unlimited          -> 1       \* and it does not age
                [] OTHER                    -> 0
Ages(s) == s \notin Unlimited

LauncherElapse ==
  /\ mainFor < LimitOf(main) /\ dogFor < LimitOf(dog)
  /\ ~(main = "attached" /\ (mainTerms > 0 \/ dog = "none"))
  /\ ~(main = "cleanup" /\ dog = "none")
  /\ ~(dog = "waiting" /\ (dogTerm \/ mavros = "gone"))
  /\ ~(dog \in {"terminating", "leaving"} /\ mavros # "alive")
  /\ IF main = "sleeping" THEN MainTo("polling")
     ELSE /\ mainFor' = IF Ages(main) THEN mainFor + 1 ELSE 0
          /\ UNCHANGED main
  /\ dogFor' = IF Ages(dog) THEN dogFor + 1 ELSE 0
  /\ idleFor' = IF mavros = "alive" \/ orphan THEN 0
                ELSE IF idleFor <= IdleBound THEN idleFor + 1 ELSE idleFor
  /\ UNCHANGED <<waited, mainTerms, flag, dog, dogTerm, attempt, mavros, orphan, found>>

LauncherNext ==
  \/ StartUnit \/ MainPoll \/ MainValidated \/ MainCleanup \/ MainExit
  \/ Launch \/ ProbeFinds \/ ProbeFails \/ NextProbe \/ TouchFlag
  \/ WaitEnds \/ Terminated \/ DelayEnds \/ DogTrapped
  \/ MavrosExits \/ DogKilled \/ SystemdTerm \/ SystemdKill \/ LauncherElapse

LauncherInit ==
  /\ main = "none" /\ mainFor = 0 /\ waited = 0 /\ mainTerms = 0
  /\ flag \in BOOLEAN
  /\ dog = "none" /\ dogFor = 0 /\ dogTerm = FALSE /\ attempt = 0
  /\ mavros = "none" /\ orphan = FALSE
  /\ found = FALSE /\ idleFor = 0

LauncherSpec == LauncherInit /\ [][LauncherNext]_launcherVars

-----------------------------------------------------------------------------
LauncherTypeOK ==
  /\ main \in {"none", "polling", "sleeping", "validating", "attached", "gave up",
               "handling", "cleanup", "exited"}
  /\ dog \in {"none", "freeing", "probing", "napping", "applying", "waiting",
              "terminating", "fail delay", "restart delay", "leaving"}
  /\ waited \in 0..ReadyTimeout /\ attempt \in 0..ReadyWait /\ mainTerms \in 0..2
  /\ mainFor \in Nat /\ dogFor \in Nat
  /\ flag \in BOOLEAN /\ dogTerm \in BOOLEAN /\ orphan \in BOOLEAN
  /\ mavros \in {"none", "alive", "gone"}
  /\ found \in BOOLEAN /\ idleFor \in 0..IdleBound + 1

(* The main shell says READY for a MAVROS this run has seen, never for the  *)
(* flag of a run that systemd killed before it cleaned up.                  *)
ReadyIsHonest == main \in {"validating", "attached"} => found

(* Two MAVROS never share the serial port: not after a failed start, nor    *)
(* when the stop of the unit cuts the cleanup short.                        *)
OneMavros == ~(orphan /\ mavros = "alive")

(* Until the unit is stopped or gives up, MAVROS is never gone for longer   *)
(* than the watchdog takes to start it again, nor, when the watchdog is     *)
(* killed, than the main shell takes to notice.                             *)
Serving == main \notin {"none", "cleanup", "exited"}
LaunchedAgain == Serving => idleFor <= IdleBound

(* What the launcher promises across its own deaths, MAVROS's and systemd's. *)
LaunchHolds == ReadyIsHonest /\ OneMavros /\ LaunchedAgain
=============================================================================
