------------------------- MODULE ManualControlGateway --------------------------
(***************************************************************************)
(* The joystick gateway (server/manual_control_gateway.py): a thread of    *)
(* its own sends the last frame, or neutral when that frame is inactive or *)
(* stale, once per period, while the event loop and the worker threads of  *)
(* asyncio.to_thread change the frame and send neutral frames themselves.  *)
(*                                                                         *)
(* A region under the lock is one action; sending is another, for the lock *)
(* is released before it.  Time is counted in periods of the sender.  The  *)
(* transport may fail at any send; the FCU is external: it acts on the     *)
(* last frame it heard until its RC-loss timeout.                          *)
(***************************************************************************)
EXTENDS Naturals

CONSTANTS
  Workers,        \* threads of asyncio.to_thread
  Loop,           \* the thread of the event loop
  Stale,          \* _stale_timeout_s
  RcLoss,         \* PX4's RC-loss timeout
  FlushFrames,    \* frames of flush_neutral
  BarrierFrames,  \* periods of wait_neutral_barrier
  MaxStall        \* assumed: periods between the copy of a frame and its sending

Callers == Workers \cup {Loop}
Horizon == Stale + MaxStall + RcLoss + 1    \* ages are not counted further

(* config.py refuses to start unless Stale < RcLoss. *)
ASSUME GatewayAssumption ==
  /\ Loop \notin Workers
  /\ Stale \in Nat /\ RcLoss \in Nat /\ MaxStall \in Nat
  /\ FlushFrames \in Nat /\ BarrierFrames \in Nat
  /\ 0 < BarrierFrames /\ Stale < RcLoss /\ MaxStall < FlushFrames

VARIABLES
  active, last, age,     \* _active, _last_frame, time since _last_receive_mono
  sender, held, stall,   \* the sender thread, the frame it copied, and how long ago
  stopping,              \* _stop_event
  pc, job, slept,        \* the callers: where, in what, frames of it already slept on
  clean,                 \* history: callers that cleared _active, with no command since
  stopped,               \* history: a deactivation returned and no command came since
  since,                 \* history: time since a driving command was accepted
  wire, heard            \* FCU: the last frame that reached it, and how long ago

store   == <<active, last, age>>
thread  == <<sender, held, stall>>
callers == <<pc, job, slept>>
history == <<clean, stopped, since>>
fcu     == <<wire, heard>>
gatewayVars == <<store, thread, stopping, callers, history, fcu>>

Frames == {"neutral", "drive"}
Later(t, bound) == IF t < bound THEN t + 1 ELSE t

(* What the FCU acts on. *)
Demand == IF heard > RcLoss THEN "neutral" ELSE wire

(* A frame is sent, or the transport fails and the FCU hears nothing. *)
Send(frame) ==
  \/ wire' = frame /\ heard' = 0
  \/ UNCHANGED fcu

-----------------------------------------------------------------------------
(* The sender thread: _run.                                                 *)

CopyWhenActive ==
  /\ sender = "due"
  /\ held' = IF active THEN last ELSE "neutral"
  /\ sender' = "holding" /\ stall' = 0
  /\ UNCHANGED <<store, stopping, callers, history, fcu>>

Copy ==
  /\ sender = "due"
  /\ held' = IF active /\ age <= Stale THEN last ELSE "neutral"
  /\ sender' = "holding" /\ stall' = 0
  /\ UNCHANGED <<store, stopping, callers, history, fcu>>

SendHeld ==
  /\ sender = "holding"
  /\ Send(held)
  /\ sender' = IF stopping THEN "exited" ELSE "waiting"
  /\ held' = "neutral" /\ stall' = 0
  /\ UNCHANGED <<store, stopping, callers, history>>

(* The wait of the period ends at once when the stop event is set. *)
Exit ==
  /\ sender \in {"waiting", "due"} /\ stopping
  /\ sender' = "exited"
  /\ UNCHANGED <<store, held, stall, stopping, callers, history, fcu>>

-----------------------------------------------------------------------------
(* The callers.                                                             *)

(* accept_command, on the event loop; without deadman the frame is neutral. *)
AcceptCommand(frame) ==
  /\ pc[Loop] = "idle" /\ ~stopping
  /\ \A w \in Workers : job[w] # "shutdown"
  /\ active' = TRUE /\ last' = frame /\ age' = 0
  /\ clean' = {} /\ stopped' = FALSE
  /\ since' = IF frame = "drive" THEN 0 ELSE since
  /\ UNCHANGED <<thread, stopping, callers, fcu>>

Enter(c, j) ==
  /\ pc[c] = "idle"
  /\ pc' = [pc EXCEPT ![c] = "neutral"]
  /\ job' = [job EXCEPT ![c] = j]
  /\ slept' = [slept EXCEPT ![c] = 0]

(* send_neutral, and activate_neutral, which sets the flag first. *)
BeginNeutral ==
  /\ Enter(Loop, "neutral")
  /\ UNCHANGED <<store, thread, stopping, history, fcu>>

BeginActivate ==
  /\ Enter(Loop, "neutral") /\ ~stopping
  /\ active' = TRUE /\ last' = "neutral" /\ age' = 0
  /\ UNCHANGED <<thread, stopping, history, fcu>>

BeginBarrier(w) ==
  /\ Enter(w, "barrier") /\ ~stopping
  /\ UNCHANGED <<store, thread, stopping, history, fcu>>

DeactivateKeepsFrame(w, j) ==
  /\ Enter(w, j) /\ ~stopping
  /\ \A v \in Workers : job[v] # "shutdown"
  /\ active' = FALSE /\ UNCHANGED <<last, age>>
  /\ clean' = clean \cup {w}
  /\ UNCHANGED <<thread, stopping, stopped, since, fcu>>

(* deactivate_neutral, alone or as the first step of shutdown. *)
BeginDeactivate(w, j) ==
  /\ Enter(w, j) /\ ~stopping
  /\ \A v \in Workers : job[v] # "shutdown"
  /\ active' = FALSE /\ last' = "neutral" /\ age' = 0
  /\ clean' = clean \cup {w}
  /\ UNCHANGED <<thread, stopping, stopped, since, fcu>>

StoreNeutral(c) ==
  /\ pc[c] = "neutral"
  /\ last' = "neutral" /\ age' = 0
  /\ pc' = [pc EXCEPT ![c] = "send"]
  /\ UNCHANGED <<active, thread, stopping, job, slept, history, fcu>>

SendNeutral(c) ==
  /\ pc[c] = "send"
  /\ Send("neutral")
  /\ pc' = [pc EXCEPT ![c] = IF job[c] = "neutral" THEN "idle" ELSE "asleep"]
  /\ UNCHANGED <<store, thread, stopping, job, slept, history>>

OneRound(c) == 1
Rounds(c) == IF job[c] = "barrier" THEN BarrierFrames ELSE FlushFrames

Flushing(c) == c \in clean /\ job[c] \in {"deactivate", "shutdown"}

(* After the sleep of a period: another frame, or the end of the loop. *)
Awake(c) ==
  /\ pc[c] = "awake"
  /\ IF slept[c] < Rounds(c)
     THEN pc' = [pc EXCEPT ![c] = "neutral"] /\ UNCHANGED <<stopping, job, stopped>>
     ELSE /\ IF Flushing(c) THEN stopped' = TRUE ELSE UNCHANGED stopped
          /\ IF job[c] = "shutdown"
             THEN /\ stopping' = TRUE
                  /\ pc' = [pc EXCEPT ![c] = "joining"] /\ UNCHANGED job
             ELSE /\ pc' = [pc EXCEPT ![c] = "idle"]
                  /\ job' = [job EXCEPT ![c] = "none"] /\ UNCHANGED stopping
  /\ UNCHANGED <<store, thread, slept, clean, since, fcu>>

(* The join ends with the thread; then the transport is shut down. *)
Join(w) ==
  /\ pc[w] = "joining" /\ sender = "exited"
  /\ pc' = [pc EXCEPT ![w] = "closed"]
  /\ UNCHANGED <<store, thread, stopping, job, slept, history, fcu>>

-----------------------------------------------------------------------------
(* A period passes.  The sender never misses one, nor keeps a frame longer  *)
(* than MaxStall.                                                           *)
Tick ==
  /\ sender # "due" /\ (sender = "holding" => stall < MaxStall)
  /\ sender' = IF sender = "waiting" /\ ~stopping THEN "due" ELSE sender
  /\ stall' = IF sender = "holding" THEN stall + 1 ELSE stall
  /\ age' = Later(age, Horizon)
  /\ since' = Later(since, Horizon)
  /\ heard' = Later(heard, RcLoss + 1)
  /\ pc' = [c \in Callers |-> IF pc[c] = "asleep" THEN "awake" ELSE pc[c]]
  /\ slept' = [c \in Callers |-> IF pc[c] = "asleep" THEN slept[c] + 1 ELSE slept[c]]
  /\ UNCHANGED <<active, last, held, stopping, job, clean, stopped, wire>>

Sender == Copy \/ SendHeld \/ Exit

GatewayNext ==
  \/ Sender
  \/ \E frame \in Frames : AcceptCommand(frame)
  \/ BeginNeutral \/ BeginActivate
  \/ \E w \in Workers : BeginBarrier(w) \/ Join(w)
  \/ \E w \in Workers, j \in {"deactivate", "shutdown"} : BeginDeactivate(w, j)
  \/ \E c \in Callers : StoreNeutral(c) \/ SendNeutral(c) \/ Awake(c)
  \/ Tick

GatewayInit ==
  /\ active = FALSE /\ last = "neutral" /\ age = Horizon
  /\ sender = "waiting" /\ held = "neutral" /\ stall = 0
  /\ stopping = FALSE
  /\ pc = [c \in Callers |-> "idle"] /\ job = [c \in Callers |-> "none"]
  /\ slept = [c \in Callers |-> 0]
  /\ clean = {} /\ stopped = FALSE
  /\ since = Horizon
  /\ wire = "neutral" /\ heard = 0

GatewaySpec == GatewayInit /\ [][GatewayNext]_gatewayVars

-----------------------------------------------------------------------------
GatewayTypeOK ==
  /\ active \in BOOLEAN /\ last \in Frames /\ age \in 0..Horizon
  /\ active \/ last = "neutral"
  /\ sender \in {"waiting", "due", "holding", "exited"}
  /\ held \in Frames /\ stall \in 0..MaxStall
  /\ stopping \in BOOLEAN
  /\ pc \in [Callers -> {"idle", "neutral", "send", "asleep", "awake", "joining", "closed"}]
  /\ job \in [Callers -> {"none", "neutral", "barrier", "deactivate", "shutdown"}]
  /\ slept \in [Callers -> Nat]
  /\ clean \subseteq Callers /\ stopped \in BOOLEAN
  /\ since \in 0..Horizon
  /\ wire \in Frames /\ heard \in 0..RcLoss + 1

(* Whatever stalls (the event loop, a worker, the transport), the FCU never *)
(* acts on a driving command for longer than the stale timeout, the stall   *)
(* of one sending and the FCU's own timeout together.                       *)
BoundedRunaway == Demand = "drive" => since <= Stale + MaxStall + RcLoss

(* Once deactivate_neutral has returned and until the next command, the     *)
(* sender has no driving frame left that it copied before: the frames of    *)
(* the flush outlast a stalled sending.                                     *)
DeactivationHolds == stopped => held = "neutral"
=============================================================================
