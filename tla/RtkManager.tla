------------------------------ MODULE RtkManager -------------------------------
(***************************************************************************)
(* AsyncRTKManager (server/rtk_manager.py) with the requests that call it  *)
(* (server/routes/rtk.py).  Only one RTK source may feed MAVROS: a start   *)
(* first stops the child there is, under the one asyncio lock, and a task  *)
(* per child waits for its death and clears it, under the same lock.       *)
(*                                                                         *)
(* The children are external processes: they die when they like, obey TERM *)
(* or not, and always die of KILL.  Each request is served once; children  *)
(* are numbered in the order they are spawned.                             *)
(***************************************************************************)
EXTENDS Naturals, FiniteSets

CONSTANTS
  Requests,        \* requests, each a task of the event loop
  Sources,         \* "ntrip" and "lora"
  ChildLimit       \* bound: children ever spawned

Nobody  == "nobody"
Idle    == "idle"

(* The two sources have names of their own, and a request is somebody. *)
ASSUME RtkAssumption ==
  /\ ChildLimit \in Nat
  /\ Nobody \notin Requests
  /\ {"stop", "status", Idle} \cap Sources = {}

Children == 1..ChildLimit
NoChild  == 0
Failed   == ChildLimit + 1
Asks     == {"stop", "status"} \cup Sources

VARIABLES
  asks, at,            \* what each request asks, and where it is
  lock,                \* the request that holds _lock, or Nobody
  spawned,             \* children spawned so far
  live,                \* children whose process runs
  process, mode,       \* _process and _mode
  watcher,             \* children whose _watch_process task has not ended
  answer               \* what each request returned: the child, NoChild, or Failed

rtkVars == <<asks, at, lock, spawned, live, process, mode, watcher, answer>>

-----------------------------------------------------------------------------
Acquire(r) ==
  /\ at[r] = "queued" /\ lock = Nobody
  /\ lock' = r
  /\ at' = [at EXCEPT ![r] = IF asks[r] = "status" THEN "report" ELSE "stop"]
  /\ UNCHANGED <<asks, spawned, live, process, mode, watcher, answer>>

(* _clear_process_locked: the watcher of the child is cancelled.            *)
Clear ==
  /\ process' = NoChild /\ mode' = Idle
  /\ watcher' = watcher \ {process}

(* After the stop: the answer of stop_all, or the spawn of a start.         *)
Then(r) == at' = [at EXCEPT ![r] = IF asks[r] = "stop" THEN "report" ELSE "spawn"]

(* The script of the source is not there: refused before anything stops.    *)
ScriptMissing(r) ==
  /\ at[r] = "stop" /\ asks[r] \in Sources
  /\ answer' = [answer EXCEPT ![r] = Failed]
  /\ at' = [at EXCEPT ![r] = "done"] /\ lock' = Nobody
  /\ UNCHANGED <<asks, spawned, live, process, mode, watcher>>

(* _stop_locked: nothing to stop, or the child is already dead.             *)
StopNothing(r) ==
  /\ at[r] = "stop" /\ process \notin live
  /\ Clear /\ Then(r)
  /\ UNCHANGED <<asks, lock, spawned, live, answer>>

Terminate(r) ==
  /\ at[r] = "stop" /\ process \in live
  /\ at' = [at EXCEPT ![r] = "terminating"]
  /\ UNCHANGED <<asks, lock, spawned, live, process, mode, watcher, answer>>

(* The child obeyed, or died of the KILL after the grace.                   *)
Reaped(r) ==
  /\ at[r] = "terminating"
  /\ live' = live \ {process}
  /\ Clear /\ Then(r)
  /\ UNCHANGED <<asks, lock, spawned, answer>>

(* create_subprocess_exec fails, or the password cannot be written and the  *)
(* child is killed and reaped.                                              *)
SpawnFails(r) ==
  /\ at[r] = "spawn"
  /\ process' = NoChild /\ mode' = Idle
  /\ answer' = [answer EXCEPT ![r] = Failed]
  /\ at' = [at EXCEPT ![r] = "done"] /\ lock' = Nobody
  /\ UNCHANGED <<asks, spawned, live, watcher>>

SpawnUnlocks(r) ==
  /\ at[r] = "spawn" /\ spawned < ChildLimit
  /\ spawned' = spawned + 1 /\ live' = live \cup {spawned'}
  /\ process' = spawned' /\ mode' = asks[r]
  /\ watcher' = watcher \cup {spawned'}
  /\ at' = [at EXCEPT ![r] = "grace"] /\ lock' = Nobody
  /\ UNCHANGED <<asks, answer>>

Spawn(r) ==
  /\ at[r] = "spawn" /\ spawned < ChildLimit
  /\ spawned' = spawned + 1 /\ live' = live \cup {spawned'}
  /\ process' = spawned' /\ mode' = asks[r]
  /\ watcher' = watcher \cup {spawned'}
  /\ at' = [at EXCEPT ![r] = "grace"]
  /\ UNCHANGED <<asks, lock, answer>>

GraceKeepsLock(r) ==
  /\ at[r] = "grace"
  /\ IF process \in live THEN UNCHANGED <<process, mode, watcher>> ELSE Clear
  /\ answer' = [answer EXCEPT ![r] = IF process \in live THEN process ELSE Failed]
  /\ at' = [at EXCEPT ![r] = "done"] /\ lock' = IF process \in live THEN Nobody ELSE r
  /\ UNCHANGED <<asks, spawned, live>>

(* The grace of the start ends, the child having lasted or not.             *)
GraceOver(r) ==
  /\ at[r] = "grace"
  /\ IF process \in live THEN UNCHANGED <<process, mode, watcher>> ELSE Clear
  /\ answer' = [answer EXCEPT ![r] = IF process \in live THEN process ELSE Failed]
  /\ at' = [at EXCEPT ![r] = "done"] /\ lock' = Nobody
  /\ UNCHANGED <<asks, spawned, live>>

(* _status_locked, and before it, in status, the clearing of a dead child.  *)
Report(r) ==
  /\ at[r] = "report"
  /\ IF asks[r] = "status" /\ process # NoChild /\ process \notin live
     THEN Clear ELSE UNCHANGED <<process, mode, watcher>>
  /\ answer' = [answer EXCEPT ![r] = IF process \in live THEN process ELSE NoChild]
  /\ at' = [at EXCEPT ![r] = "done"] /\ lock' = Nobody
  /\ UNCHANGED <<asks, spawned, live>>

(* _watch_process: only the child that is still the current one is cleared. *)
WatchEnds(c) ==
  /\ c \in watcher \ live /\ lock = Nobody
  /\ watcher' = watcher \ {c}
  /\ IF process = c THEN process' = NoChild /\ mode' = Idle ELSE UNCHANGED <<process, mode>>
  /\ UNCHANGED <<asks, at, lock, spawned, live, answer>>

ChildDies(c) ==
  /\ c \in live
  /\ live' = live \ {c}
  /\ UNCHANGED <<asks, at, lock, spawned, process, mode, watcher, answer>>

Serve(r) ==
  \/ Acquire(r) \/ ScriptMissing(r) \/ StopNothing(r) \/ Terminate(r) \/ Reaped(r)
  \/ SpawnFails(r) \/ Spawn(r) \/ GraceOver(r) \/ Report(r)

RtkNext ==
  \/ \E r \in Requests : Serve(r)
  \/ \E c \in Children : WatchEnds(c) \/ ChildDies(c)

RtkInit ==
  /\ asks \in [Requests -> Asks] /\ at = [r \in Requests |-> "queued"]
  /\ lock = Nobody
  /\ spawned = 0 /\ live = {} /\ process = NoChild /\ mode = Idle /\ watcher = {}
  /\ answer = [r \in Requests |-> NoChild]

(* The event loop runs what is ready; a child killed dies.                  *)
RtkFairness ==
  /\ \A r \in Requests : WF_rtkVars(Serve(r))
  /\ \A c \in Children : WF_rtkVars(WatchEnds(c))

RtkSpec == RtkInit /\ [][RtkNext]_rtkVars /\ RtkFairness

-----------------------------------------------------------------------------
RtkTypeOK ==
  /\ asks \in [Requests -> Asks]
  /\ at \in [Requests -> {"queued", "stop", "terminating", "spawn", "grace", "report", "done"}]
  /\ lock \in Requests \cup {Nobody}
  /\ spawned \in 0..ChildLimit /\ live \subseteq 1..spawned
  /\ process \in 0..spawned /\ mode \in Sources \cup {Idle}
  /\ process = NoChild <=> mode = Idle
  /\ watcher \subseteq 1..spawned
  /\ answer \in [Requests -> NoChild..Failed]

(* A child that runs is the one the manager knows: there are never two, and *)
(* the watcher of an earlier child does not make it forget a later one.     *)
NoOrphan == live \subseteq {process}

(* A start that succeeds reports a child of its own source, although other  *)
(* starts and stops came while it waited for the child to last.             *)
StartReportsItsOwn ==
  [][\A r \in Requests :
       asks[r] \in Sources /\ answer'[r] # answer[r] /\ answer'[r] \in Children
         => mode = asks[r] /\ process = answer'[r]]_rtkVars

(* A child that died is forgotten without anybody asking.                   *)
DeadIsForgotten ==
  (process # NoChild /\ process \notin live) ~> (process = NoChild \/ process \in live)

(* Once one request is served, every one of them is answered: the lock comes back.  *)
Answered == lock # Nobody ~> \A r \in Requests : at[r] = "done"

(* There is one child, the one that was asked for, and it is known.         *)
OneChild == [](RtkTypeOK /\ NoOrphan) /\ StartReportsItsOwn

(* Nobody waits for ever, and nothing dead is kept.                         *)
RtkAnswers == DeadIsForgotten /\ Answered
=============================================================================
