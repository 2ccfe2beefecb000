----------------------------- MODULE ServiceProofs -----------------------------
(***************************************************************************)
(* What the services beside the control plane guarantee for every value of *)
(* their timeouts: the gateway of the joystick, the node that streams the  *)
(* setpoints, the shells that launch MAVROS, the manager of the RTK child, *)
(* the recovery of the bridge and the shell that supervises the nodes.     *)
(***************************************************************************)
EXTENDS ManualControlGateway, SetpointStreamer, BridgeLauncher, RtkManager,
        BridgeHealth, NodeSupervisor, FiniteSetTheorems, SequenceTheorems,
        WellFoundedInduction, TLAPS

-----------------------------------------------------------------------------
(* The gateway, for every number of workers and every setting of the        *)
(* timeouts that config.py accepts.                                         *)

(* A driving frame is as old as the command it came from, at each of the    *)
(* three places it can be: stored, copied by the sender, heard by the FCU.  *)
FrameAges ==
  /\ last = "drive" => since = age
  /\ held = "drive" => sender = "holding" /\ since <= Stale + stall
  /\ wire = "drive" /\ heard <= RcLoss => since <= Stale + MaxStall + heard

(* A driving frame the sender still holds was copied before the flush began. *)
Flushed ==
  /\ clean # {} => last = "neutral"
  /\ \A c \in Callers : Flushing(c) /\ held = "drive" => slept[c] <= stall
  /\ stopped => last = "neutral" /\ held = "neutral"

GatewayIInv == GatewayTypeOK /\ FrameAges /\ Flushed

LEMMA GatewaySizes ==
  /\ Stale \in Nat /\ RcLoss \in Nat /\ MaxStall \in Nat /\ FlushFrames \in Nat
  /\ Horizon \in Nat /\ Stale + MaxStall + RcLoss < Horizon
  /\ MaxStall < FlushFrames
  /\ Loop \in Callers /\ Workers \subseteq Callers
  BY GatewayAssumption DEF Horizon, Callers

LEMMA GatewayInitial == GatewayInit => GatewayIInv
  <1> SUFFICES ASSUME GatewayInit PROVE GatewayIInv
    OBVIOUS
  <1> USE DEF GatewayInit
  <1>1. GatewayTypeOK
    <2>1. age \in 0..Horizon /\ since \in 0..Horizon /\ stall \in 0..MaxStall /\ heard \in 0..RcLoss + 1
      BY GatewaySizes
    <2>2. /\ pc \in [Callers -> {"idle", "neutral", "send", "asleep", "awake", "joining", "closed"}]
          /\ job \in [Callers -> {"none", "neutral", "barrier", "deactivate", "shutdown"}]
          /\ slept \in [Callers -> Nat]
      OBVIOUS
    <2>3. QED
      BY <2>1, <2>2 DEF GatewayTypeOK, Frames
  <1>2. FrameAges /\ Flushed
    BY GatewaySizes DEF FrameAges, Flushed, Flushing
  <1>3. QED
    BY <1>1, <1>2 DEF GatewayIInv

(* Every action keeps the types. *)
LEMMA GatewayTypeStep == GatewayTypeOK /\ [GatewayNext]_gatewayVars => GatewayTypeOK'
  <1> SUFFICES ASSUME GatewayTypeOK, [GatewayNext]_gatewayVars PROVE GatewayTypeOK'
    OBVIOUS
  <1> USE GatewaySizes DEF GatewayTypeOK, Frames
  <1>1. CASE Sender
    <2>1. CASE Copy
      BY <2>1 DEF Copy, store, callers, history, fcu
    <2>2. CASE SendHeld
      BY <2>2 DEF SendHeld, Send, store, callers, history, fcu
    <2>3. CASE Exit
      BY <2>3 DEF Exit, store, callers, history, fcu
    <2>4. QED
      BY <1>1, <2>1, <2>2, <2>3 DEF Sender
  <1>2. ASSUME NEW frame \in Frames, AcceptCommand(frame) PROVE GatewayTypeOK'
    <2>1. active' \in BOOLEAN /\ last' \in Frames /\ age' \in 0..Horizon
      BY <1>2 DEF AcceptCommand
    <2>2. since' \in 0..Horizon
      BY <1>2 DEF AcceptCommand
    <2>3. clean' \subseteq Callers /\ stopped' \in BOOLEAN
      BY <1>2 DEF AcceptCommand
    <2>4. QED
      BY <1>2, <2>1, <2>2, <2>3 DEF AcceptCommand, thread, callers, fcu
  <1>3. CASE BeginNeutral
    BY <1>3 DEF BeginNeutral, Enter, store, thread, history, fcu
  <1>4. CASE BeginActivate
    BY <1>4 DEF BeginActivate, Enter, thread, history, fcu
  <1>5. ASSUME NEW w \in Workers, BeginBarrier(w) PROVE GatewayTypeOK'
    BY <1>5 DEF BeginBarrier, Enter, store, thread, history, fcu
  <1>6. ASSUME NEW w \in Workers, Join(w) PROVE GatewayTypeOK'
    BY <1>6 DEF Join, store, thread, history, fcu
  <1>7. ASSUME NEW w \in Workers, NEW j \in {"deactivate", "shutdown"}, BeginDeactivate(w, j)
        PROVE  GatewayTypeOK'
    <2>1. clean' \subseteq Callers
      BY <1>7 DEF BeginDeactivate
    <2>2. active' = FALSE /\ last' = "neutral" /\ age' = 0
      BY <1>7 DEF BeginDeactivate
    <2>3. /\ pc' \in [Callers -> {"idle", "neutral", "send", "asleep", "awake", "joining", "closed"}]
          /\ job' \in [Callers -> {"none", "neutral", "barrier", "deactivate", "shutdown"}]
          /\ slept' \in [Callers -> Nat]
      <3>1. w \in Callers /\ j \in {"none", "neutral", "barrier", "deactivate", "shutdown"}
        OBVIOUS
      <3>2. QED
        BY <1>7, <3>1 DEF BeginDeactivate, Enter
    <2>4. UNCHANGED <<thread, stopping, stopped, since, fcu>>
      BY <1>7 DEF BeginDeactivate
    <2>5. active' \in BOOLEAN /\ stopped' \in BOOLEAN /\ stopping' \in BOOLEAN
      BY <2>2, <2>4
    <2>6. /\ last' \in Frames /\ age' \in 0..Horizon /\ stall' \in 0..MaxStall
          /\ since' \in 0..Horizon /\ heard' \in 0..RcLoss + 1
      BY <2>2, <2>4 DEF thread, fcu
    <2>7. QED
      BY <2>1, <2>2, <2>3, <2>4, <2>5, <2>6 DEF thread, fcu
  <1>8. ASSUME NEW c \in Callers, StoreNeutral(c) PROVE GatewayTypeOK'
    BY <1>8 DEF StoreNeutral, thread, history, fcu
  <1>9. ASSUME NEW c \in Callers, SendNeutral(c) PROVE GatewayTypeOK'
    BY <1>9 DEF SendNeutral, Send, store, thread, history, fcu
  <1>10. ASSUME NEW c \in Callers, Awake(c) PROVE GatewayTypeOK'
    BY <1>10 DEF Awake, store, thread, fcu
  <1>11. CASE Tick
    BY <1>11 DEF Tick, Later
  <1>12. CASE UNCHANGED gatewayVars
    BY <1>12 DEF gatewayVars, store, thread, callers, history, fcu
  <1>13. QED
    BY <1>1, <1>2, <1>3, <1>4, <1>5, <1>6, <1>7, <1>8, <1>9, <1>10, <1>11, <1>12 DEF GatewayNext

LEMMA FrameAgesStep == GatewayIInv /\ [GatewayNext]_gatewayVars => FrameAges'
  <1> SUFFICES ASSUME GatewayIInv, [GatewayNext]_gatewayVars PROVE FrameAges'
    OBVIOUS
  <1> USE GatewayAssumption DEF GatewayIInv, FrameAges, GatewayTypeOK, Frames, Horizon, Callers
  <1>1. CASE Sender
    BY <1>1 DEF Sender, Copy, SendHeld, Exit, Send, store, callers, history, fcu
  <1>2. CASE \E frame \in Frames : AcceptCommand(frame)
    BY <1>2 DEF AcceptCommand, thread, callers, fcu
  <1>3. CASE BeginNeutral \/ BeginActivate
    BY <1>3 DEF BeginNeutral, BeginActivate, store, thread, history, fcu
  <1>4. CASE \E w \in Workers : BeginBarrier(w) \/ Join(w)
    BY <1>4 DEF BeginBarrier, Join, store, thread, history, fcu
  <1>5. CASE \E w \in Workers, j \in {"deactivate", "shutdown"} : BeginDeactivate(w, j)
    BY <1>5 DEF BeginDeactivate, thread, fcu
  <1>6. ASSUME NEW c \in Callers, StoreNeutral(c) PROVE FrameAges'
    BY <1>6 DEF StoreNeutral, thread, history, fcu
  <1>7. ASSUME NEW c \in Callers, SendNeutral(c) PROVE FrameAges'
    BY <1>7 DEF SendNeutral, Send, store, thread, history, fcu
  <1>8. ASSUME NEW c \in Callers, Awake(c) PROVE FrameAges'
    BY <1>8 DEF Awake, store, thread, fcu
  <1>9. CASE Tick
    BY <1>9 DEF Tick, Later
  <1>10. CASE UNCHANGED gatewayVars
    BY <1>10 DEF gatewayVars, store, thread, callers, history, fcu
  <1>11. QED
    BY <1>1, <1>2, <1>3, <1>4, <1>5, <1>6, <1>7, <1>8, <1>9, <1>10 DEF GatewayNext

LEMMA FlushedStep == GatewayIInv /\ [GatewayNext]_gatewayVars => Flushed'
  <1> SUFFICES ASSUME GatewayIInv, [GatewayNext]_gatewayVars PROVE Flushed'
    OBVIOUS
  <1> USE GatewayAssumption DEF GatewayIInv, Flushed, Flushing, GatewayTypeOK, Frames, Callers
  <1>1. CASE Sender
    <2>1. CASE Copy
      BY <2>1 DEF Copy, store, callers, history
    <2>2. CASE SendHeld
      BY <2>2 DEF SendHeld, store, callers, history
    <2>3. CASE Exit
      BY <2>3 DEF Exit, store, callers, history
    <2>4. QED
      BY <1>1, <2>1, <2>2, <2>3 DEF Sender
  <1>2. CASE \E frame \in Frames : AcceptCommand(frame)
    BY <1>2 DEF AcceptCommand, thread, callers
  <1>3. CASE BeginNeutral \/ BeginActivate
    BY <1>3 DEF BeginNeutral, BeginActivate, Enter, store, thread, history
  <1>4. CASE \E w \in Workers : BeginBarrier(w) \/ Join(w)
    BY <1>4 DEF BeginBarrier, Join, Enter, store, thread, history
  <1>5. CASE \E w \in Workers, j \in {"deactivate", "shutdown"} : BeginDeactivate(w, j)
    BY <1>5 DEF BeginDeactivate, Enter, thread
  <1>6. ASSUME NEW c \in Callers, StoreNeutral(c) PROVE Flushed'
    BY <1>6 DEF StoreNeutral, thread, history
  <1>7. ASSUME NEW c \in Callers, SendNeutral(c) PROVE Flushed'
    BY <1>7 DEF SendNeutral, store, thread, history
  (* The flush of c slept FlushFrames periods: longer than any sending stalls. *)
  <1>8. ASSUME NEW c \in Callers, Awake(c) PROVE Flushed'
    <2>1. Flushing(c) /\ slept[c] >= FlushFrames => last = "neutral" /\ held = "neutral"
      OBVIOUS
    <2>2. CASE slept[c] < Rounds(c)
      BY <1>8, <2>2 DEF Awake, store, thread
    <2>3. CASE ~(slept[c] < Rounds(c))
      <3>1. CASE Flushing(c)
        <4>1. slept[c] >= FlushFrames
          BY <2>3, <3>1 DEF Rounds
        <4>2. last = "neutral" /\ held = "neutral"
          BY <2>1, <3>1, <4>1
        <4>3. last' = "neutral" /\ held' = "neutral" /\ clean' = clean
          BY <1>8, <4>2 DEF Awake, store, thread
        <4>4. QED
          BY <4>3
      <3>2. CASE ~Flushing(c)
        <4>1. stopped' = stopped
          BY <1>8, <2>3, <3>2 DEF Awake
        <4>2. ASSUME NEW d \in Callers, Flushing(d)' PROVE Flushing(d)
          <5>1. job'[d] = job[d] \/ job'[d] = "none"
            BY <1>8, <2>3 DEF Awake
          <5>2. clean' = clean
            BY <1>8 DEF Awake
          <5>3. QED
            BY <4>2, <5>1, <5>2
        <4>3. /\ clean' = clean /\ slept' = slept /\ last' = last /\ held' = held /\ stall' = stall
          BY <1>8 DEF Awake, store, thread
        <4>4. QED
          BY <4>1, <4>2, <4>3
      <3>3. QED
        BY <3>1, <3>2
    <2>4. QED
      BY <2>2, <2>3
  <1>9. CASE Tick
    BY <1>9, GatewayIInv DEF Tick, FrameAges
  <1>10. CASE UNCHANGED gatewayVars
    BY <1>10 DEF gatewayVars, store, thread, callers, history
  <1>11. QED
    BY <1>1, <1>2, <1>3, <1>4, <1>5, <1>6, <1>7, <1>8, <1>9, <1>10 DEF GatewayNext

(* The strengthened invariant of the gateway: types, ages, flushes. *)
THEOREM GatewayInvariant == GatewaySpec => []GatewayIInv
  <1>1. GatewayIInv /\ [GatewayNext]_gatewayVars => GatewayIInv'
    BY GatewayTypeStep, FrameAgesStep, FlushedStep DEF GatewayIInv
  <1>2. QED
    BY GatewayInitial, <1>1, PTL DEF GatewaySpec

(* Type correctness, whatever the timeouts and the number of workers. *)
THEOREM GatewayTyped == GatewaySpec => []GatewayTypeOK
  <1>1. GatewayIInv => GatewayTypeOK
    BY DEF GatewayIInv
  <1>2. QED
    BY GatewayInvariant, <1>1, PTL

(* The innermost safety layer: no stalled thread or broken transport makes  *)
(* the rover act on an old driving command for longer than the sum of the   *)
(* two timeouts and one stalled sending.                                    *)
THEOREM NoRunaway == GatewaySpec => []BoundedRunaway
  <1>1. GatewayIInv => BoundedRunaway
    BY GatewayAssumption DEF GatewayIInv, GatewayTypeOK, FrameAges, BoundedRunaway, Demand, Horizon
  <1>2. QED
    BY GatewayInvariant, <1>1, PTL

(* After deactivate_neutral the sender has nothing left to drive with.      *)
THEOREM DeactivatedForGood == GatewaySpec => []DeactivationHolds
  <1>1. GatewayIInv => DeactivationHolds
    BY DEF GatewayIInv, Flushed, DeactivationHolds
  <1>2. QED
    BY GatewayInvariant, <1>1, PTL

-----------------------------------------------------------------------------
(* The setpoint streamer.  What RPP asked for is at most so old, wherever   *)
(* it is: in the queue (Asked), taken by the node (Taken), or held by PX4   *)
(* (Kept).  A message waits in the queue no longer than the executor        *)
(* stalls, and so does the stream itself.                                   *)

Messages ==
  /\ velocityBox \in Velocities \cup {NonFinite, NoMessage}
  /\ yawRateBox \in YawRates \cup {NonFinite, NoMessage}
  /\ latestVel \in Velocities /\ latestYawRate \in YawRates
  /\ lastYaw \in Headings
  /\ setpoint \in [velocity : Velocities, yaw : Headings, yawRate : YawRates]

Clocks ==
  /\ velAge \in 0..InputMaxAge + 1 /\ yawRateAge \in 0..YawRateMaxAge + 1
  /\ drivenAge \in 0..Ancient /\ turnedAge \in 0..Ancient
  /\ missed \in 0..ExecutorStall

Waited == IF streamed THEN ExecutorStall ELSE missed
Held   == IF streamed THEN 0 ELSE missed + 1

VelAsked == velocityBox \in Headings => drivenAge <= Waited
VelTaken == latestVel \in Headings /\ VelFresh => drivenAge <= velAge + ExecutorStall
VelKept  == setpoint.velocity # Zero => drivenAge <= InputMaxAge + ExecutorStall + Held

TurnAsked == yawRateBox = "turn" => turnedAge <= Waited
TurnTaken == latestYawRate = "turn" /\ RateFresh => turnedAge <= yawRateAge + ExecutorStall
TurnKept  == setpoint.yawRate # Zero => turnedAge <= YawRateMaxAge + ExecutorStall + Held

LatelyAsked == VelAsked /\ VelTaken /\ VelKept /\ TurnAsked /\ TurnTaken /\ TurnKept

StreamerIInv ==
  /\ Messages /\ Clocks /\ streamed \in BOOLEAN
  /\ streamed => missed = 0
  /\ LatelyAsked

LEMMA StreamerInitial == StreamerInit => StreamerIInv
  <1> SUFFICES ASSUME StreamerInit PROVE StreamerIInv
    OBVIOUS
  <1> USE StreamerAssumption DEF StreamerInit
  <1>1. Messages
    BY DEF Messages, Velocities, YawRates
  <1>2. Clocks
    BY DEF Clocks, Ancient
  <1>3. streamed \in BOOLEAN /\ (streamed => missed = 0)
    OBVIOUS
  <1>4. VelAsked /\ TurnAsked
    BY DEF VelAsked, TurnAsked, Zero, NoMessage
  <1>5. VelTaken /\ TurnTaken
    BY DEF VelTaken, TurnTaken, VelFresh, RateFresh
  <1>6. VelKept /\ TurnKept
    BY DEF VelKept, TurnKept
  <1>7. QED
    BY <1>1, <1>2, <1>3, <1>4, <1>5, <1>6 DEF StreamerIInv, LatelyAsked

(* What every step keeps of the types: the ages and the messages apart,     *)
(* since no step computes one from the other.                               *)
LEMMA StreamerTypes ==
  ASSUME Messages, Clocks, streamed \in BOOLEAN, [StreamerNext]_streamerVars
  PROVE  Messages' /\ Clocks' /\ streamed' \in BOOLEAN
  <1> USE StreamerAssumption
  <1>1. ASSUME NEW v \in Velocities \cup {NonFinite}, PublishVelocity(v)
        PROVE  Messages' /\ Clocks' /\ streamed' \in BOOLEAN
    <2>1. Messages' /\ streamed' \in BOOLEAN
      BY <1>1 DEF PublishVelocity, Messages
    <2>2. Clocks'
      BY <1>1 DEF PublishVelocity, Clocks, Ancient
    <2>3. QED
      BY <2>1, <2>2
  <1>2. ASSUME NEW w \in YawRates \cup {NonFinite}, PublishYawRate(w)
        PROVE  Messages' /\ Clocks' /\ streamed' \in BOOLEAN
    <2>1. Messages' /\ streamed' \in BOOLEAN
      BY <1>2 DEF PublishYawRate, Messages
    <2>2. Clocks'
      BY <1>2 DEF PublishYawRate, Clocks, Ancient
    <2>3. QED
      BY <2>1, <2>2
  <1>3. CASE VelCb \/ YawRateCb
    <2>1. Messages' /\ streamed' \in BOOLEAN
      BY <1>3 DEF VelCb, YawRateCb, Messages
    <2>2. Clocks'
      BY <1>3 DEF VelCb, YawRateCb, Clocks
    <2>3. QED
      BY <2>1, <2>2
  <1>4. CASE StreamCb
    <2>1. Messages' /\ streamed' \in BOOLEAN
      BY <1>4 DEF StreamCb, Stream, Messages, Velocities, YawRates
    <2>2. Clocks'
      BY <1>4 DEF StreamCb, Stream, Clocks
    <2>3. QED
      BY <2>1, <2>2
  <1>5. CASE StreamTick
    <2>1. Messages' /\ streamed' \in BOOLEAN
      BY <1>5 DEF StreamTick, Messages
    <2>2. Clocks'
      BY <1>5 DEF StreamTick, Older, Clocks, Ancient
    <2>3. QED
      BY <2>1, <2>2
  <1>6. CASE UNCHANGED streamerVars
    BY <1>6 DEF streamerVars, Messages, Clocks
  <1>7. QED
    BY <1>1, <1>2, <1>3, <1>4, <1>5, <1>6 DEF StreamerNext

LEMMA StreamerStep == StreamerIInv /\ [StreamerNext]_streamerVars => StreamerIInv'
  <1> SUFFICES ASSUME StreamerIInv, [StreamerNext]_streamerVars PROVE StreamerIInv'
    OBVIOUS
  <1> USE StreamerAssumption
  <1>1. Messages /\ Clocks /\ streamed \in BOOLEAN /\ (streamed => missed = 0) /\ LatelyAsked
    BY DEF StreamerIInv
  <1>2. Messages' /\ Clocks' /\ streamed' \in BOOLEAN
    BY <1>1, StreamerTypes
  <1>3. (streamed => missed = 0)'
    BY <1>1 DEF StreamerNext, streamerVars, PublishVelocity, PublishYawRate, VelCb, YawRateCb,
                StreamCb, Stream, StreamTick
  <1>4. Waited <= ExecutorStall
    BY <1>1 DEF Waited, Clocks
  <1>5. ASSUME NEW v \in Velocities \cup {NonFinite}, PublishVelocity(v) PROVE LatelyAsked'
    BY <1>1, <1>5 DEF PublishVelocity, LatelyAsked, VelAsked, VelTaken, VelKept, TurnAsked, TurnTaken,
                      TurnKept, Waited, Held, VelFresh, RateFresh, Clocks, Ancient
  <1>6. ASSUME NEW w \in YawRates \cup {NonFinite}, PublishYawRate(w) PROVE LatelyAsked'
    BY <1>1, <1>6 DEF PublishYawRate, LatelyAsked, VelAsked, VelTaken, VelKept, TurnAsked, TurnTaken,
                      TurnKept, Waited, Held, VelFresh, RateFresh, Clocks, Ancient
  <1>7. ASSUME VelCb PROVE LatelyAsked'
    <2>1. VelAsked' /\ VelKept' /\ TurnAsked' /\ TurnTaken' /\ TurnKept'
      BY <1>1, <1>7 DEF VelCb, LatelyAsked, VelAsked, VelKept, TurnAsked, TurnTaken, TurnKept, Waited,
                        Held, RateFresh, NoMessage
    <2>2. CASE velocityBox = NonFinite
      BY <1>1, <1>7, <2>1, <2>2 DEF VelCb, LatelyAsked, VelTaken, VelFresh
    <2>3. CASE velocityBox # NonFinite
      <3>1. velocityBox \in Headings => drivenAge <= ExecutorStall
        BY <1>1, <1>4 DEF LatelyAsked, VelAsked, Clocks, Waited
      <3>2. VelTaken'
        BY <1>1, <1>7, <2>3, <3>1 DEF VelCb, VelTaken, Clocks
      <3>3. QED
        BY <2>1, <3>2 DEF LatelyAsked
    <2>4. QED
      BY <2>2, <2>3
  <1>8. ASSUME YawRateCb PROVE LatelyAsked'
    <2>1. VelAsked' /\ VelTaken' /\ VelKept' /\ TurnAsked' /\ TurnKept'
      BY <1>1, <1>8 DEF YawRateCb, LatelyAsked, VelAsked, VelTaken, VelKept, TurnAsked, TurnKept, Waited,
                        Held, VelFresh, NoMessage
    <2>2. CASE yawRateBox = NonFinite
      BY <1>1, <1>8, <2>1, <2>2 DEF YawRateCb, LatelyAsked, TurnTaken, RateFresh
    <2>3. CASE yawRateBox # NonFinite
      <3>1. yawRateBox = "turn" => turnedAge <= ExecutorStall
        BY <1>1, <1>4 DEF LatelyAsked, TurnAsked, Clocks, Waited
      <3>2. TurnTaken'
        BY <1>1, <1>8, <2>3, <3>1 DEF YawRateCb, TurnTaken, Clocks
      <3>3. QED
        BY <2>1, <3>2 DEF LatelyAsked
    <2>4. QED
      BY <2>2, <2>3
  <1>9. ASSUME StreamCb PROVE LatelyAsked'
    <2>1. VelAsked' /\ VelTaken' /\ VelKept'
      BY <1>1, <1>9 DEF StreamCb, Stream, LatelyAsked, VelAsked, VelTaken, VelKept, Waited, Held, VelFresh,
                        Clocks, Messages, Velocities, Ancient
    <2>2. TurnAsked' /\ TurnTaken' /\ TurnKept'
      BY <1>1, <1>9 DEF StreamCb, Stream, LatelyAsked, TurnAsked, TurnTaken, TurnKept, Waited, Held,
                        RateFresh, Clocks, Messages, YawRates, Ancient
    <2>3. QED
      BY <2>1, <2>2 DEF LatelyAsked
  <1>10. ASSUME StreamTick PROVE LatelyAsked'
    <2>1. VelAsked' /\ VelTaken' /\ VelKept'
      BY <1>1, <1>10 DEF StreamTick, Older, LatelyAsked, VelAsked, VelTaken, VelKept, Waited, Held,
                         VelFresh, Clocks, Messages, Velocities, Ancient
    <2>2. TurnTaken' /\ TurnKept'
      BY <1>1, <1>10 DEF StreamTick, Older, LatelyAsked, TurnTaken, TurnKept, Held, RateFresh, Clocks,
                         Ancient
    <2>3. ASSUME yawRateBox' = "turn" PROVE ~streamed /\ yawRateBox = "turn"
      BY <1>10, <2>3 DEF StreamTick, NoMessage
    <2>4. TurnAsked'
      BY <1>1, <1>10, <2>3 DEF StreamTick, Older, LatelyAsked, TurnAsked, Waited, Clocks, Ancient
    <2>5. QED
      BY <2>1, <2>2, <2>4 DEF LatelyAsked
  <1>11. ASSUME UNCHANGED streamerVars PROVE LatelyAsked'
    BY <1>1, <1>11 DEF streamerVars, LatelyAsked, VelAsked, VelTaken, VelKept, TurnAsked, TurnTaken,
                       TurnKept, Waited, Held, VelFresh, RateFresh
  <1>12. LatelyAsked'
    BY <1>5, <1>6, <1>7, <1>8, <1>9, <1>10, <1>11 DEF StreamerNext
  <1>13. QED
    BY <1>2, <1>3, <1>12 DEF StreamerIInv

(* PX4 is left with a speed or a turn that RPP no longer asks for, however  *)
(* it went silent, for no longer than the age limit of the input and two    *)
(* stalls of the executor: for every limit, every stall and every set of    *)
(* headings (twist_to_setpoint_node.py, _stream_cb).                        *)
THEOREM SilenceStopsAlways == StreamerSpec => []SilenceStops
  <1>1. StreamerIInv => SilenceStops
    <2> SUFFICES ASSUME Clocks, Held \in Nat, Held <= ExecutorStall + 1, VelKept, TurnKept
                 PROVE  SilenceStops
      BY StreamerAssumption DEF StreamerIInv, LatelyAsked, Clocks, Held
    <2> QED
      BY StreamerAssumption DEF Clocks, VelKept, TurnKept, SilenceStops, Ancient
  <1>2. QED
    BY <1>1, StreamerInitial, StreamerStep, PTL DEF StreamerSpec

-----------------------------------------------------------------------------
(* The launcher.                                                            *)

ShellTypes ==
  /\ main \in {"none", "polling", "sleeping", "validating", "attached", "gave up",
               "handling", "cleanup", "exited"}
  /\ dog \in {"none", "freeing", "probing", "napping", "applying", "waiting",
              "terminating", "fail delay", "restart delay", "leaving"}
  /\ mavros \in {"none", "alive", "gone"}

FlagTypes == flag \in BOOLEAN /\ dogTerm \in BOOLEAN /\ orphan \in BOOLEAN /\ found \in BOOLEAN

CountTypes ==
  /\ waited \in 0..ReadyTimeout /\ attempt \in 0..ReadyWait /\ mainTerms \in 0..2
  /\ mainFor \in Nat /\ dogFor \in Nat /\ idleFor \in 0..IdleBound + 1

(* The flag is touched only when this run has found its MAVROS.             *)
FlagIsHonest ==
  /\ main \in {"polling", "sleeping"} /\ flag => found
  /\ dog = "applying" => found
  /\ ReadyIsHonest

(* A MAVROS is the child of the watchdog or an orphan, never one of each,   *)
(* and the stop of the unit leaves neither.                                 *)
OneOwner ==
  /\ orphan => dog = "none"
  /\ main = "none" => ~orphan /\ dog = "none"
  /\ dog \in {"none", "freeing", "fail delay", "restart delay"} => mavros = "none"
  /\ dog \in {"probing", "napping", "applying", "waiting"} => mavros # "none"
  /\ dogTerm \/ dog = "leaving" => ~Serving

(* No step outlasts its limit.                                              *)
InTime == mainFor <= LimitOf(main) /\ dogFor <= LimitOf(dog)

(* While there is no MAVROS, where the watchdog is says for how long there  *)
(* has been none ...                                                        *)
Absent == mavros # "alive" /\ ~orphan

DogIdles ==
  /\ dog = "freeing" => idleFor <= Delays + dogFor
  /\ dog = "probing" => idleFor <= 1 + dogFor
  /\ dog \in {"napping", "applying"} => idleFor <= dogFor
  /\ dog = "waiting" => idleFor <= ApplyTime
  /\ dog = "terminating" => idleFor <= 1 + ProbeTime
  /\ dog = "fail delay" => idleFor <= 1 + ProbeTime + dogFor
  /\ dog = "restart delay" => idleFor <= ApplyTime + dogFor

(* ... and when the watchdog is dead, where the main shell is.              *)
MainIdles ==
  /\ dog = "none" /\ main = "sleeping" => idleFor <= DogIdle
  /\ flag /\ main = "sleeping" => idleFor <= ApplyTime
  /\ flag /\ main = "polling" => idleFor <= ApplyTime + 1
  /\ main = "validating" => idleFor <= ApplyTime + 1 + mainFor

AliveIdles ==
  /\ idleFor <= DogIdle
  /\ dog = "terminating" /\ dogFor > 0 => idleFor = 0

Idles ==
  Serving => /\ idleFor <= IdleBound
             /\ IF Absent THEN DogIdles /\ MainIdles ELSE AliveIdles

LauncherIInv ==
  /\ ShellTypes /\ FlagTypes /\ CountTypes
  /\ FlagIsHonest /\ OneOwner /\ InTime /\ Idles

(* The constants are numbers, and so are the bounds made of them.           *)
LEMMA Sizes ==
  /\ ProbeTime \in Nat /\ FreeTime \in Nat /\ ApplyTime \in Nat /\ ValidateTime \in Nat
  /\ RestartDelay \in Nat /\ FailDelay \in Nat /\ TermGrace \in Nat \ {0}
  /\ ReadyWait \in Nat \ {0} /\ ReadyTimeout \in Nat
  /\ Delays \in Nat /\ 1 + ProbeTime + FailDelay <= Delays /\ ApplyTime + RestartDelay <= Delays
  /\ DogIdle = Delays + FreeTime /\ DogIdle + 1 <= IdleBound
  /\ IdleBound \in Nat /\ ApplyTime + 1 + ValidateTime <= IdleBound
  <1>1. /\ ProbeTime \in Nat /\ FreeTime \in Nat /\ ApplyTime \in Nat /\ ValidateTime \in Nat
        /\ RestartDelay \in Nat /\ FailDelay \in Nat /\ TermGrace \in Nat \ {0}
        /\ ReadyWait \in Nat \ {0} /\ ReadyTimeout \in Nat
    BY LauncherAssumption
  <1>2. Delays \in Nat /\ 1 + ProbeTime + FailDelay <= Delays /\ ApplyTime + RestartDelay <= Delays
    BY <1>1 DEF Delays, Longer
  <1>3. QED
    BY <1>1, <1>2 DEF DogIdle, IdleBound, Longer

LEMMA Limits ==
  /\ \A s : LimitOf(s) \in Nat
  /\ LimitOf("polling") = 0 /\ LimitOf("gave up") = 0 /\ LimitOf("handling") = 0
  /\ LimitOf("sleeping") = 1 /\ LimitOf("validating") = ValidateTime
  /\ LimitOf("freeing") = FreeTime /\ LimitOf("probing") = ProbeTime
  /\ LimitOf("napping") = 1 /\ LimitOf("applying") = ApplyTime
  /\ LimitOf("restart delay") = RestartDelay /\ LimitOf("fail delay") = FailDelay
  <1>1. /\ LimitOf("polling") = 0 /\ LimitOf("gave up") = 0 /\ LimitOf("handling") = 0
        /\ LimitOf("sleeping") = 1 /\ LimitOf("validating") = ValidateTime
        /\ LimitOf("freeing") = FreeTime /\ LimitOf("probing") = ProbeTime
        /\ LimitOf("napping") = 1 /\ LimitOf("applying") = ApplyTime
        /\ LimitOf("restart delay") = RestartDelay /\ LimitOf("fail delay") = FailDelay
    BY DEF LimitOf, LongestStep, Unlimited
  <1>2. /\ LimitOf("cleanup") = TermGrace /\ LimitOf("terminating") = TermGrace
        /\ LimitOf("leaving") = TermGrace
    BY DEF LimitOf, LongestStep, Unlimited
  <1>3. ASSUME NEW s PROVE LimitOf(s) \in Nat
    <2>1. CASE s \notin DOMAIN LongestStep
      BY <2>1, Sizes DEF LimitOf
    <2>2. CASE s \in DOMAIN LongestStep
      <3>1. s \in {"polling", "sleeping", "validating", "cleanup", "freeing", "probing", "napping",
                   "applying", "terminating", "leaving"}
        BY <2>2 DEF LongestStep
      <3>2. \A t \in {"polling", "sleeping", "validating", "cleanup", "freeing", "probing", "napping",
                      "applying", "terminating", "leaving"} :
              LimitOf(t) \in {0, 1, ValidateTime, FreeTime, ProbeTime, ApplyTime, TermGrace}
        BY <1>1, <1>2, Zenon
      <3>3. QED
        BY <3>1, <3>2, Sizes
    <2>3. QED
      BY <2>1, <2>2
  <1>4. QED
    BY <1>1, <1>3

(* A shell begins a step, stays in one, or grows older within its limit.    *)
LEMMA ShellsMove ==
  ASSUME [LauncherNext]_launcherVars
  PROVE  /\ \/ mainFor' = 0
            \/ main' = main /\ mainFor' = mainFor
            \/ main' = main /\ mainFor < LimitOf(main) /\ mainFor' = mainFor + 1
         /\ \/ dogFor' = 0
            \/ dog' = dog /\ dogFor' = dogFor
            \/ dog' = dog /\ dogFor < LimitOf(dog) /\ dogFor' = dogFor + 1
  <1> USE DEF MainTo, DogTo, mainVars, dogVars
  <1>1. ASSUME StartUnit \/ MainPoll \/ MainValidated \/ MainCleanup \/ MainExit
        PROVE  /\ mainFor' = 0 \/ (main' = main /\ mainFor' = mainFor)
               /\ dogFor' = 0 \/ (dog' = dog /\ dogFor' = dogFor)
    BY <1>1 DEF StartUnit, StartUnitWith, MainPoll, MainValidated, MainCleanup, MainExit
  <1>2. ASSUME Launch \/ ProbeFinds \/ ProbeFails \/ NextProbe \/ TouchFlag \/ WaitEnds
        PROVE  mainFor' = mainFor /\ main' = main /\ dogFor' = 0
    BY <1>2 DEF Launch, ProbeFinds, ProbeFails, NextProbe, TouchFlag, WaitEnds
  <1>3. ASSUME Terminated \/ DelayEnds \/ DogTrapped \/ DogKilled
        PROVE  mainFor' = mainFor /\ main' = main /\ dogFor' = 0
    BY <1>3 DEF Terminated, DelayEnds, DogTrapped, DogKilled
  <1>4. ASSUME MavrosExits \/ SystemdTerm \/ SystemdKill \/ UNCHANGED launcherVars
        PROVE  /\ mainFor' = 0 \/ (main' = main /\ mainFor' = mainFor)
               /\ dogFor' = 0 \/ (dog' = dog /\ dogFor' = dogFor)
    BY <1>4 DEF MavrosExits, SystemdTerm, SystemdKill, launcherVars
  <1>5. CASE LauncherElapse
    BY <1>5 DEF LauncherElapse
  <1>6. QED
    BY <1>1, <1>2, <1>3, <1>4, <1>5 DEF LauncherNext

LEMMA LauncherInitial == LauncherInit => LauncherIInv
  <1> SUFFICES ASSUME LauncherInit PROVE LauncherIInv
    OBVIOUS
  <1> USE DEF LauncherInit
  <1>1. ShellTypes /\ FlagTypes
    BY DEF ShellTypes, FlagTypes
  <1>2. CountTypes
    BY Sizes DEF CountTypes
  <1>3. FlagIsHonest /\ OneOwner
    BY DEF FlagIsHonest, ReadyIsHonest, OneOwner, Serving
  <1>4. InTime
    <2>1. LimitOf(main) \in Nat /\ LimitOf(dog) \in Nat
      BY Limits
    <2>2. QED
      BY <2>1 DEF InTime
  <1>5. Idles
    BY DEF Idles, Serving
  <1>6. QED
    BY <1>1, <1>2, <1>3, <1>4, <1>5 DEF LauncherIInv

LEMMA LauncherTypes ==
  ASSUME ShellTypes, FlagTypes, [LauncherNext]_launcherVars
  PROVE  ShellTypes' /\ FlagTypes'
  <1> USE DEF ShellTypes, FlagTypes, MainTo, DogTo, mainVars, dogVars
  <1>1. ASSUME StartUnit \/ MainPoll \/ MainValidated \/ MainCleanup \/ MainExit
        PROVE  ShellTypes' /\ FlagTypes'
    BY <1>1 DEF StartUnit, StartUnitWith, MainPoll, MainValidated, MainCleanup, MainExit
  <1>2. ASSUME Launch \/ ProbeFinds \/ ProbeFails \/ NextProbe \/ TouchFlag \/ WaitEnds
        PROVE  ShellTypes' /\ FlagTypes'
    BY <1>2 DEF Launch, ProbeFinds, ProbeFails, NextProbe, TouchFlag, WaitEnds
  <1>3. ASSUME Terminated \/ DelayEnds \/ DogTrapped \/ DogKilled
        PROVE  ShellTypes' /\ FlagTypes'
    BY <1>3 DEF Terminated, DelayEnds, DogTrapped, DogKilled
  <1>4. CASE MavrosExits
    BY <1>4 DEF MavrosExits
  <1>5. CASE SystemdTerm
    BY ZenonT(30), <1>5 DEF SystemdTerm
  <1>6. CASE SystemdKill
    BY <1>6 DEF SystemdKill
  <1>7. CASE UNCHANGED launcherVars
    BY <1>7 DEF launcherVars
  <1>8. CASE LauncherElapse
    BY ZenonT(30), <1>8 DEF LauncherElapse
  <1>9. QED
    BY <1>1, <1>2, <1>3, <1>4, <1>5, <1>6, <1>7, <1>8 DEF LauncherNext

LEMMA LauncherCounts ==
  ASSUME CountTypes, [LauncherNext]_launcherVars
  PROVE  CountTypes'
  <1> USE Sizes DEF CountTypes, MainTo, DogTo, mainVars, dogVars
  <1>1. CASE StartUnit
    BY <1>1 DEF StartUnit, StartUnitWith
  <1>2. CASE MainPoll
    <2>1. waited' = waited \/ (waited < ReadyTimeout /\ waited' = waited + 1)
      BY <1>2 DEF MainPoll
    <2>2. mainFor' = 0
      BY <1>2 DEF MainPoll
    <2>3. UNCHANGED <<mainTerms, dogFor, attempt, idleFor>>
      BY <1>2 DEF MainPoll
    <2>4. QED
      BY <2>1, <2>2, <2>3
  <1>3. CASE MainValidated
    BY <1>3 DEF MainValidated
  <1>4. CASE MainCleanup
    BY <1>4 DEF MainCleanup
  <1>5. CASE MainExit
    BY <1>5 DEF MainExit
  <1>6. CASE Launch
    BY <1>6 DEF Launch
  <1>7. CASE ProbeFinds
    BY <1>7 DEF ProbeFinds
  <1>8. CASE ProbeFails
    BY <1>8 DEF ProbeFails
  <1>9. CASE NextProbe
    BY <1>9 DEF NextProbe
  <1>10. CASE TouchFlag
    BY <1>10 DEF TouchFlag
  <1>11. CASE WaitEnds
    BY <1>11 DEF WaitEnds
  <1>12. CASE Terminated
    BY <1>12 DEF Terminated
  <1>13. CASE DelayEnds
    BY <1>13 DEF DelayEnds
  <1>14. CASE DogTrapped
    BY <1>14 DEF DogTrapped
  <1>15. CASE MavrosExits
    BY <1>15 DEF MavrosExits
  <1>16. CASE DogKilled
    BY <1>16 DEF DogKilled
  <1>17. CASE SystemdTerm
    BY <1>17 DEF SystemdTerm, MainAlive
  <1>18. CASE SystemdKill
    BY <1>18 DEF SystemdKill
  <1>19. CASE LauncherElapse
    BY <1>19 DEF LauncherElapse
  <1>20. CASE UNCHANGED launcherVars
    BY <1>20 DEF launcherVars
  <1>21. QED
    BY <1>1, <1>2, <1>3, <1>4, <1>5, <1>6, <1>7, <1>8, <1>9, <1>10, <1>11, <1>12, <1>13,
       <1>14, <1>15, <1>16, <1>17, <1>18, <1>19, <1>20 DEF LauncherNext

(* The flag and the ownership of MAVROS, step by step.                      *)
LEMMA HonestStep ==
  ASSUME ShellTypes, FlagTypes, FlagIsHonest, OneOwner, [LauncherNext]_launcherVars
  PROVE  FlagIsHonest'
  <1> USE DEF ShellTypes, FlagTypes, FlagIsHonest, ReadyIsHonest, OneOwner, MainTo, DogTo,
          mainVars, dogVars
  <1>1. CASE StartUnit
    BY <1>1 DEF StartUnit, StartUnitWith
  <1>2. CASE MainPoll
    <2>1. UNCHANGED <<dog, found>>
      BY <1>2 DEF MainPoll
    <2>2. main = "polling"
      BY <1>2 DEF MainPoll
    <2>3. flag' = FALSE \/ flag' = flag
      BY <1>2 DEF MainPoll
    <2>4. (main \in {"polling", "sleeping"} /\ flag => found)'
      <3>1. CASE flag' = FALSE
        BY <3>1
      <3>2. CASE flag' = flag
        BY <2>1, <2>2, <3>2
      <3>3. QED
        BY <2>3, <3>1, <3>2
    <2>5. (dog = "applying" => found)'
      BY <2>1
    <2>6. ReadyIsHonest'
      <3>1. ASSUME main' \in {"validating", "attached"} PROVE flag
        BY <1>2, <3>1 DEF MainPoll
      <3>2. QED
        BY <2>1, <2>2, <3>1
    <2>7. QED
      BY <2>4, <2>5, <2>6
  <1>3. CASE MainValidated
    BY <1>3 DEF MainValidated
  <1>4. CASE MainCleanup
    BY <1>4 DEF MainCleanup
  <1>5. CASE MainExit
    BY <1>5 DEF MainExit
  <1>6. CASE Launch
    BY <1>6 DEF Launch
  <1>7. CASE ProbeFinds
    BY <1>7 DEF ProbeFinds
  <1>8. CASE ProbeFails
    BY <1>8 DEF ProbeFails
  <1>9. CASE NextProbe
    BY <1>9 DEF NextProbe
  <1>10. CASE TouchFlag
    BY <1>10 DEF TouchFlag
  <1>11. CASE WaitEnds
    BY <1>11 DEF WaitEnds
  <1>12. CASE Terminated
    BY <1>12 DEF Terminated
  <1>13. CASE DelayEnds
    BY <1>13 DEF DelayEnds
  <1>14. CASE DogTrapped
    BY <1>14 DEF DogTrapped
  <1>15. CASE MavrosExits
    BY <1>15 DEF MavrosExits
  <1>16. CASE DogKilled
    BY <1>16 DEF DogKilled
  <1>17. CASE SystemdTerm
    BY <1>17 DEF SystemdTerm, MainAlive
  <1>18. CASE SystemdKill
    BY <1>18 DEF SystemdKill
  <1>19. CASE LauncherElapse
    BY <1>19 DEF LauncherElapse
  <1>20. CASE UNCHANGED launcherVars
    BY <1>20 DEF launcherVars
  <1>21. QED
    BY <1>1, <1>2, <1>3, <1>4, <1>5, <1>6, <1>7, <1>8, <1>9, <1>10, <1>11, <1>12, <1>13,
       <1>14, <1>15, <1>16, <1>17, <1>18, <1>19, <1>20 DEF LauncherNext

LEMMA OwnerStep ==
  ASSUME ShellTypes, FlagTypes, OneOwner, [LauncherNext]_launcherVars
  PROVE  OneOwner'
  <1> USE DEF ShellTypes, FlagTypes, OneOwner, Serving, MainTo, DogTo, mainVars, dogVars
  <1>1. CASE StartUnit
    BY <1>1 DEF StartUnit, StartUnitWith
  <1>2. CASE MainPoll
    BY <1>2 DEF MainPoll
  <1>3. CASE MainValidated
    BY <1>3 DEF MainValidated
  <1>4. CASE MainCleanup
    BY <1>4 DEF MainCleanup
  <1>5. CASE MainExit
    BY <1>5 DEF MainExit
  <1>6. CASE Launch
    BY <1>6 DEF Launch
  <1>7. CASE ProbeFinds
    BY <1>7 DEF ProbeFinds
  <1>8. CASE ProbeFails
    BY <1>8 DEF ProbeFails
  <1>9. CASE NextProbe
    BY <1>9 DEF NextProbe
  <1>10. CASE TouchFlag
    BY <1>10 DEF TouchFlag
  <1>11. CASE WaitEnds
    BY <1>11 DEF WaitEnds
  <1>12. CASE Terminated
    BY <1>12 DEF Terminated
  <1>13. CASE DelayEnds
    BY <1>13 DEF DelayEnds
  <1>14. CASE DogTrapped
    BY <1>14 DEF DogTrapped
  <1>15. CASE MavrosExits
    BY <1>15 DEF MavrosExits
  <1>16. CASE DogKilled
    BY <1>16 DEF DogKilled
  <1>17. CASE SystemdTerm
    BY <1>17 DEF SystemdTerm, MainAlive
  <1>18. CASE SystemdKill
    BY <1>18 DEF SystemdKill
  <1>19. CASE LauncherElapse
    BY <1>19 DEF LauncherElapse
  <1>20. CASE UNCHANGED launcherVars
    BY <1>20 DEF launcherVars
  <1>21. QED
    BY <1>1, <1>2, <1>3, <1>4, <1>5, <1>6, <1>7, <1>8, <1>9, <1>10, <1>11, <1>12, <1>13,
       <1>14, <1>15, <1>16, <1>17, <1>18, <1>19, <1>20 DEF LauncherNext

LEMMA InTimeStep ==
  ASSUME CountTypes, InTime, [LauncherNext]_launcherVars
  PROVE  InTime'
  <1>1. LimitOf(main) \in Nat /\ LimitOf(main') \in Nat /\ LimitOf(dog) \in Nat /\ LimitOf(dog') \in Nat
    BY Limits
  <1>2. mainFor' <= LimitOf(main') /\ dogFor' <= LimitOf(dog')
    BY <1>1, ShellsMove DEF CountTypes, InTime
  <1>3. (LimitOf(main))' = LimitOf(main') /\ (LimitOf(dog))' = LimitOf(dog')
    BY DEF LimitOf
  <1>4. QED
    BY <1>2, <1>3 DEF InTime

(* No step of either shell has taken longer than it may.                    *)
MainWithin ==
  /\ main = "sleeping" => mainFor <= 1
  /\ main = "validating" => mainFor <= ValidateTime
  /\ main \in {"polling", "gave up", "handling"} => mainFor <= 0

DogWithin ==
  /\ dog = "freeing" => dogFor <= FreeTime
  /\ dog = "probing" => dogFor <= ProbeTime
  /\ dog = "napping" => dogFor <= 1
  /\ dog = "applying" => dogFor <= ApplyTime
  /\ dog = "fail delay" => dogFor <= FailDelay
  /\ dog = "restart delay" => dogFor <= RestartDelay

LEMMA StepsWithin == InTime => MainWithin /\ DogWithin
  BY Limits DEF InTime, MainWithin, DogWithin

(* While the watchdog lives it is back within its own bound.                *)
LEMMA DogIdlesBounded ==
  ASSUME ShellTypes, CountTypes, OneOwner, InTime, Idles, Serving, dog # "none"
  PROVE  idleFor <= DogIdle
  <1>1. CASE ~Absent
    BY <1>1 DEF Idles, AliveIdles
  <1>2. CASE Absent
    <2> USE Sizes DEF DogIdles, DogWithin
    <2>1. DogIdles /\ DogWithin
      BY <1>2, StepsWithin DEF Idles
    <2> dogFor \in Nat /\ idleFor \in Nat
      BY DEF CountTypes
    <2>2. CASE dog = "freeing"
      BY <2>1, <2>2
    <2>3. CASE dog = "probing"
      BY <2>1, <2>3
    <2>4. CASE dog = "napping"
      BY <2>1, <2>4
    <2>5. CASE dog = "applying"
      BY <2>1, <2>5
    <2>6. CASE dog = "waiting"
      BY <2>1, <2>6
    <2>7. CASE dog = "terminating"
      BY <2>1, <2>7
    <2>8. CASE dog = "fail delay"
      <3>1. idleFor <= 1 + ProbeTime + dogFor /\ dogFor <= FailDelay
        BY <2>1, <2>8
      <3>2. QED
        BY <3>1
    <2>9. CASE dog = "restart delay"
      <3>1. idleFor <= ApplyTime + dogFor /\ dogFor <= RestartDelay
        BY <2>1, <2>9
      <3>2. QED
        BY <3>1
    <2>10. dog # "leaving"
      BY DEF OneOwner
    <2>11. QED
      BY <2>2, <2>3, <2>4, <2>5, <2>6, <2>7, <2>8, <2>9, <2>10 DEF ShellTypes
  <1>3. QED
    BY <1>1, <1>2

LEMMA IdlesStep ==
  ASSUME ShellTypes, FlagTypes, CountTypes, OneOwner, InTime, Idles, [LauncherNext]_launcherVars
  PROVE  Idles'
  <1> USE DEF DogIdles, MainIdles, AliveIdles, Absent, Serving, MainTo, DogTo, mainVars, dogVars
  <1>1. /\ idleFor \in Nat /\ dogFor \in Nat /\ mainFor \in Nat
        /\ idleFor' \in Nat /\ dogFor' \in Nat /\ mainFor' \in Nat
    BY LauncherCounts, Sizes DEF CountTypes
  <1>2. CASE StartUnit
    BY <1>1, <1>2, Sizes DEF StartUnit, StartUnitWith, ShellTypes, FlagTypes, OneOwner, Idles
  <1>3. CASE MainPoll
    <2>1. Serving' => idleFor' <= IdleBound
      BY <1>3 DEF MainPoll, ShellTypes, FlagTypes, OneOwner, Idles
    <2>2. ASSUME Serving', Absent' PROVE DogIdles'
      BY <1>3, <2>2 DEF MainPoll, ShellTypes, FlagTypes, OneOwner, Idles
    <2>3. ASSUME Serving', Absent' PROVE MainIdles'
      <3>1. /\ main = "polling" /\ Absent /\ MainIdles /\ idleFor' = idleFor /\ UNCHANGED dog
        BY <1>3, <2>3 DEF MainPoll, ShellTypes, FlagTypes, OneOwner, Idles
      <3>2. CASE main' = "sleeping"
        <4>1. dog # "none"
          BY <1>3, <3>2 DEF MainPoll
        <4>2. flag' = flag /\ ~flag
          BY <1>3, <3>2 DEF MainPoll
        <4>3. ~flag'
          BY <4>2
        <4>4. QED
          BY <3>1, <3>2, <4>1, <4>3
      <3>3. CASE main' = "validating"
        <4>1. flag /\ mainFor' = 0
          BY <1>3, <3>3 DEF MainPoll, ShellTypes, FlagTypes, OneOwner, Idles
        <4>2. idleFor <= ApplyTime + 1
          BY <3>1, <4>1
        <4>3. idleFor' <= ApplyTime + 1 + mainFor'
          BY <3>1, <4>1, <4>2, <1>1, Sizes
        <4>4. QED
          BY <3>1, <3>3, <4>3
      <3>4. CASE main' = "gave up"
        BY <3>4
      <3>5. QED
        BY <1>3, <3>2, <3>3, <3>4 DEF MainPoll, ShellTypes, FlagTypes, OneOwner, Idles
    <2>4. ASSUME Serving', ~Absent' PROVE AliveIdles'
      BY <1>3, <2>4, DogIdlesBounded DEF MainPoll, ShellTypes, FlagTypes, OneOwner, Idles
    <2>5. QED
      BY <2>1, <2>2, <2>3, <2>4 DEF Idles
  <1>4. CASE MainValidated
    BY <1>1, <1>4, Sizes DEF MainValidated, ShellTypes, FlagTypes, OneOwner, Idles
  <1>5. CASE MainCleanup
    BY <1>1, <1>5, Sizes DEF MainCleanup, ShellTypes, FlagTypes, OneOwner, Idles
  <1>6. CASE MainExit
    BY <1>1, <1>6, Sizes DEF MainExit, ShellTypes, FlagTypes, OneOwner, Idles
  <1>7. CASE Launch
    <2>1. Serving' => idleFor' <= IdleBound
      BY <1>7 DEF Launch, ShellTypes, FlagTypes, OneOwner, Idles
    <2>2. ASSUME Serving', Absent' PROVE DogIdles'
      BY <1>7, <2>2 DEF Launch, ShellTypes, FlagTypes, OneOwner, Idles
    <2>3. ASSUME Serving', Absent' PROVE MainIdles'
      BY <1>7, <2>3 DEF Launch, ShellTypes, FlagTypes, OneOwner, Idles
    <2>4. ASSUME Serving', ~Absent' PROVE AliveIdles'
      BY <1>7, <2>4, DogIdlesBounded DEF Launch, ShellTypes, FlagTypes, OneOwner, Idles
    <2>5. QED
      BY <2>1, <2>2, <2>3, <2>4 DEF Idles
  <1>8. CASE ProbeFinds
    BY <1>1, <1>8, Sizes DEF ProbeFinds, ShellTypes, FlagTypes, OneOwner, Idles
  <1>9. CASE ProbeFails
    <2>1. Serving' => idleFor' <= IdleBound
      BY <1>9 DEF ProbeFails, ShellTypes, FlagTypes, OneOwner, Idles
    <2>2. ASSUME Serving', Absent' PROVE DogIdles'
      <3>1. dog' = "terminating" /\ idleFor' = idleFor
        BY <1>9, <2>2 DEF ProbeFails, ShellTypes, FlagTypes, OneOwner, Idles
      <3>2. idleFor <= 1 + dogFor /\ dogFor <= ProbeTime
        BY <1>9, <2>2, StepsWithin DEF ProbeFails, DogWithin, ShellTypes, FlagTypes, OneOwner, Idles
      <3>3. idleFor' <= 1 + ProbeTime
        BY <3>1, <3>2, <1>1, Sizes
      <3>4. QED
        BY <3>1, <3>3
    <2>3. ASSUME Serving', Absent' PROVE MainIdles'
      BY <1>9, <2>3 DEF ProbeFails, ShellTypes, FlagTypes, OneOwner, Idles
    <2>4. ASSUME Serving', ~Absent' PROVE AliveIdles'
      BY <1>9, <2>4, DogIdlesBounded DEF ProbeFails, ShellTypes, FlagTypes, OneOwner, Idles
    <2>5. QED
      BY <2>1, <2>2, <2>3, <2>4 DEF Idles
  <1>10. CASE NextProbe
    <2>1. Serving' => idleFor' <= IdleBound
      BY <1>10 DEF NextProbe, ShellTypes, FlagTypes, OneOwner, Idles
    <2>2. ASSUME Serving', Absent' PROVE DogIdles'
      <3>1. dog' \in {"probing", "terminating"} /\ idleFor' = idleFor /\ dogFor' = 0
        BY <1>10, <2>2 DEF NextProbe, ShellTypes, FlagTypes, OneOwner, Idles
      <3>2. idleFor <= 1
        BY <1>10, <2>2 DEF NextProbe, ShellTypes, FlagTypes, OneOwner, Idles
      <3>3. idleFor' <= 1 + dogFor' /\ idleFor' <= 1 + ProbeTime
        BY <3>1, <3>2, <1>1, Sizes
      <3>4. QED
        BY <3>1, <3>3
    <2>3. ASSUME Serving', Absent' PROVE MainIdles'
      BY <1>10, <2>3 DEF NextProbe, ShellTypes, FlagTypes, OneOwner, Idles
    <2>4. ASSUME Serving', ~Absent' PROVE AliveIdles'
      <3>1. idleFor' = idleFor /\ dogFor' = 0 /\ idleFor <= DogIdle
        BY <1>10, <2>4 DEF NextProbe, ShellTypes, FlagTypes, OneOwner, Idles
      <3>2. QED
        BY <3>1
    <2>5. QED
      BY <2>1, <2>2, <2>3, <2>4 DEF Idles
  <1>11. CASE TouchFlag
    <2>1. Serving' => idleFor' <= IdleBound
      BY <1>11 DEF TouchFlag, ShellTypes, FlagTypes, OneOwner, Idles
    <2>2. ASSUME Serving', Absent' PROVE DogIdles'
      <3>1. dog' = "waiting" /\ idleFor' = idleFor
        BY <1>11 DEF TouchFlag, ShellTypes, FlagTypes, OneOwner, Idles
      <3>2. idleFor <= dogFor /\ dogFor <= ApplyTime
        BY <1>11, <2>2, StepsWithin DEF TouchFlag, DogWithin, ShellTypes, FlagTypes, OneOwner, Idles
      <3>3. idleFor' <= ApplyTime
        BY <3>1, <3>2, <1>1, Sizes
      <3>4. QED
        BY <3>1, <3>3
    <2>3. ASSUME Serving', Absent' PROVE MainIdles'
      <3>1. dog' = "waiting" /\ idleFor' = idleFor /\ main' = main /\ mainFor' = mainFor
        BY <1>11 DEF TouchFlag, ShellTypes, FlagTypes, OneOwner, Idles
      <3>2. idleFor <= dogFor /\ dogFor <= ApplyTime
        BY <1>11, <2>3, StepsWithin DEF TouchFlag, DogWithin, ShellTypes, FlagTypes, OneOwner, Idles
      <3>3. idleFor' <= ApplyTime /\ idleFor' <= ApplyTime + 1
        BY <3>1, <3>2, <1>1, Sizes
      <3>4. main = "validating" => idleFor <= ApplyTime + 1 + mainFor
        BY <1>11, <2>3 DEF TouchFlag, ShellTypes, FlagTypes, OneOwner, Idles
      <3>5. QED
        BY <3>1, <3>3, <3>4
    <2>4. ASSUME Serving', ~Absent' PROVE AliveIdles'
      BY <1>11, <2>4, DogIdlesBounded DEF TouchFlag, ShellTypes, FlagTypes, OneOwner, Idles
    <2>5. QED
      BY <2>1, <2>2, <2>3, <2>4 DEF Idles
  <1>12. CASE WaitEnds
    <2>1. Serving' => idleFor' <= IdleBound
      BY <1>12 DEF WaitEnds, ShellTypes, FlagTypes, OneOwner, Idles
    <2>2. ASSUME Serving', Absent' PROVE DogIdles'
      <3>1. dog' = "restart delay" /\ dogFor' = 0 /\ idleFor' = idleFor
        BY <1>12 DEF WaitEnds, ShellTypes, FlagTypes, OneOwner, Idles
      <3>2. idleFor <= ApplyTime
        BY <1>12, <2>2 DEF WaitEnds, ShellTypes, FlagTypes, OneOwner, Idles
      <3>3. idleFor' <= ApplyTime /\ dogFor' = 0
        BY <3>1, <3>2
      <3>4. idleFor' <= ApplyTime + dogFor'
        BY <3>3, <1>1, Sizes
      <3>5. QED
        BY <3>1, <3>4
    <2>3. ASSUME Serving', Absent' PROVE MainIdles'
      BY <1>12, <2>3 DEF WaitEnds, ShellTypes, FlagTypes, OneOwner, Idles
    <2>4. ASSUME Serving', ~Absent' PROVE AliveIdles'
      BY <1>12, <2>4, DogIdlesBounded DEF WaitEnds, ShellTypes, FlagTypes, OneOwner, Idles
    <2>5. QED
      BY <2>1, <2>2, <2>3, <2>4 DEF Idles
  <1>13. CASE Terminated
    <2>1. idleFor' = idleFor /\ main' = main /\ mainFor' = mainFor /\ flag' = flag
      BY <1>13 DEF Terminated, ShellTypes, FlagTypes, OneOwner, Idles
    <2>2. ASSUME Serving
          PROVE  dog = "terminating" /\ dog' = "fail delay" /\ dogFor' = 0 /\ Absent'
      BY <1>13, <2>2 DEF Terminated, ShellTypes, FlagTypes, OneOwner, Idles
    <2>3. dogFor' = 0
      BY <1>13 DEF Terminated
    <2>4. ASSUME Serving, Absent PROVE Idles'
      <3>1. DogIdles /\ MainIdles /\ idleFor <= IdleBound
        BY <2>4 DEF Idles
      <3>2. idleFor <= 1 + ProbeTime
        BY <2>2, <2>4, <3>1
      <3>3. idleFor' <= 1 + ProbeTime + dogFor'
        BY <2>1, <2>3, <3>2, <1>1, Sizes
      <3>4. DogIdles'
        BY <2>2, <2>4, <3>3
      <3>5. MainIdles'
        BY <2>1, <2>2, <2>4, <3>1
      <3>6. QED
        BY <2>1, <2>2, <2>4, <3>1, <3>4, <3>5 DEF Idles
    <2>5. ASSUME Serving, ~Absent PROVE Idles'
      <3>1. dogFor >= TermGrace
        BY <1>13, <2>2, <2>5 DEF Terminated, OneOwner
      <3>2. dogFor > 0
        BY <3>1, <1>1, Sizes
      <3>3. AliveIdles
        BY <2>5 DEF Idles
      <3>4. idleFor = 0
        BY <2>2, <2>5, <3>2, <3>3
      <3>5. idleFor' = 0
        BY <2>1, <3>4
      <3>6. DogIdles' /\ MainIdles' /\ idleFor' <= IdleBound
        <4>1. 0 <= IdleBound /\ 0 <= DogIdle /\ 0 <= ApplyTime
          BY Sizes
        <4>2. 0 <= ApplyTime + 1 /\ 0 <= ApplyTime + 1 + mainFor
          BY <1>1, Sizes
        <4>3. idleFor' <= 1 + ProbeTime + dogFor'
          BY <2>3, <3>5, <1>1, Sizes
        <4>4. QED
          BY <2>1, <2>2, <2>5, <3>5, <4>1, <4>2, <4>3
      <3>7. QED
        BY <2>2, <2>5, <3>6 DEF Idles
    <2>6. QED
      BY <2>1, <2>4, <2>5 DEF Idles, Serving
  <1>14. CASE DelayEnds
    <2>1. Serving' => idleFor' <= IdleBound
      BY <1>14 DEF DelayEnds, ShellTypes, FlagTypes, OneOwner, Idles
    <2>2. ASSUME Serving', Absent' PROVE DogIdles'
      <3>1. dog' = "freeing" /\ dogFor' = 0 /\ idleFor' = idleFor
        BY <1>14 DEF DelayEnds, ShellTypes, FlagTypes, OneOwner, Idles
      <3>2. CASE dog = "restart delay"
        <4>1. idleFor <= ApplyTime + dogFor /\ dogFor = RestartDelay
          BY <1>14, <2>2, <3>2 DEF DelayEnds, ShellTypes, FlagTypes, OneOwner, Idles
        <4>2. idleFor' <= Delays + dogFor'
          BY <3>1, <4>1, <1>1, Sizes
        <4>3. QED
          BY <3>1, <4>2
      <3>3. CASE dog = "fail delay"
        <4>1. idleFor <= 1 + ProbeTime + dogFor /\ dogFor = FailDelay
          BY <1>14, <2>2, <3>3 DEF DelayEnds, ShellTypes, FlagTypes, OneOwner, Idles
        <4>2. idleFor' <= Delays + dogFor'
          BY <3>1, <4>1, <1>1, Sizes
        <4>3. QED
          BY <3>1, <4>2
      <3>4. QED
        BY <1>14, <3>2, <3>3 DEF DelayEnds, ShellTypes, FlagTypes, OneOwner, Idles
    <2>3. ASSUME Serving', Absent' PROVE MainIdles'
      BY <1>14, <2>3 DEF DelayEnds, ShellTypes, FlagTypes, OneOwner, Idles
    <2>4. ASSUME Serving', ~Absent' PROVE AliveIdles'
      BY <1>14, <2>4, DogIdlesBounded DEF DelayEnds, ShellTypes, FlagTypes, OneOwner, Idles
    <2>5. QED
      BY <2>1, <2>2, <2>3, <2>4 DEF Idles
  <1>15. CASE DogTrapped
    BY <1>1, <1>15, Sizes DEF DogTrapped, ShellTypes, FlagTypes, OneOwner, Idles
  <1>16. CASE MavrosExits
    <2>1. idleFor' = 0 /\ mainFor' = mainFor /\ dogFor' = dogFor /\ Absent'
      BY <1>16 DEF MavrosExits, ShellTypes, FlagTypes, OneOwner, Idles
    <2>2. DogIdles'
      <3>1. 0 <= Delays + dogFor /\ 0 <= 1 + dogFor /\ 0 <= dogFor
        BY <1>1, Sizes
      <3>2. 0 <= 1 + ProbeTime /\ 0 <= 1 + ProbeTime + dogFor
        BY <1>1, Sizes
      <3>3. 0 <= ApplyTime /\ 0 <= ApplyTime + dogFor
        BY <1>1, Sizes
      <3>4. QED
        BY <2>1, <3>1, <3>2, <3>3
    <2>3. MainIdles' /\ idleFor' <= IdleBound
      <3>1. 0 <= IdleBound /\ 0 <= DogIdle /\ 0 <= ApplyTime
        BY Sizes
      <3>2. 0 <= ApplyTime + 1 /\ 0 <= ApplyTime + 1 + mainFor
        BY <1>1, Sizes
      <3>3. QED
        BY <2>1, <3>1, <3>2
    <2>4. QED
      BY <2>1, <2>2, <2>3 DEF Idles
  <1>17. CASE DogKilled
    <2>1. Serving' => idleFor' <= IdleBound
      BY <1>17 DEF DogKilled, ShellTypes, FlagTypes, OneOwner, Idles
    <2>2. ASSUME Serving', Absent' PROVE DogIdles'
      BY <1>17, <2>2 DEF DogKilled, ShellTypes, FlagTypes, OneOwner, Idles
    <2>3. ASSUME Serving', Absent' PROVE MainIdles'
      <3>1. dog # "none" /\ Serving /\ Absent /\ idleFor' = idleFor
        BY <1>17, <2>3 DEF DogKilled, ShellTypes, FlagTypes, OneOwner, Idles
      <3>2. main' = main /\ mainFor' = mainFor /\ flag' = flag /\ MainIdles
        BY <1>17, <3>1 DEF DogKilled, ShellTypes, FlagTypes, OneOwner, Idles
      <3>3. idleFor <= DogIdle
        BY <3>1, DogIdlesBounded
      <3>4. QED
        BY <3>1, <3>2, <3>3
    <2>4. ASSUME Serving', ~Absent' PROVE AliveIdles'
      BY <1>17, <2>4, DogIdlesBounded DEF DogKilled, ShellTypes, FlagTypes, OneOwner, Idles
    <2>5. QED
      BY <2>1, <2>2, <2>3, <2>4 DEF Idles
  <1>18. CASE SystemdTerm
    BY <1>1, <1>18, Sizes DEF SystemdTerm, MainAlive, ShellTypes, FlagTypes, OneOwner, Idles
  <1>19. CASE SystemdKill
    BY <1>1, <1>19, Sizes DEF SystemdKill, ShellTypes, FlagTypes, OneOwner, Idles
  <1>20. CASE LauncherElapse
    <2>1. CASE ~Absent
      <3>1. idleFor' = 0 /\ ~Absent'
        BY <1>20, <2>1 DEF LauncherElapse, ShellTypes, FlagTypes, OneOwner, Idles
      <3>2. 0 <= IdleBound /\ 0 <= DogIdle
        BY Sizes
      <3>3. QED
        BY <3>1, <3>2 DEF Idles
    <2>2. CASE Absent
      <3>1. Absent' /\ dog' = dog /\ flag' = flag /\ (Serving' => Serving)
        BY <1>20, <2>2 DEF LauncherElapse, ShellTypes, FlagTypes, OneOwner, Idles
      <3>2. idleFor' <= idleFor + 1
        <4>1. idleFor' = idleFor + 1 \/ idleFor' = idleFor
          BY <1>20, <2>2 DEF LauncherElapse
        <4>2. QED
          BY <4>1, <1>1
      <3>3. ASSUME Serving PROVE DogIdles'
        <4>1. DogIdles
          BY <2>2, <3>3 DEF Idles
        <4>2. dog \notin {"waiting", "terminating"}
          BY <1>20, <2>2 DEF LauncherElapse, ShellTypes, FlagTypes, OneOwner, Idles
        <4>3. dog # "none" => dogFor' = dogFor + 1
          BY <1>20, <4>2 DEF LauncherElapse, Ages, Unlimited, ShellTypes, FlagTypes, OneOwner, Idles
        <4>4. CASE dog = "freeing"
          <5>1. idleFor <= Delays + dogFor /\ dogFor' = dogFor + 1
            BY <4>1, <4>3, <4>4
          <5>2. idleFor' <= Delays + dogFor'
            BY <3>2, <5>1, <1>1, Sizes
          <5>3. QED
            BY <3>1, <4>4, <5>2
        <4>5. CASE dog = "probing"
          <5>1. idleFor <= 1 + dogFor /\ dogFor' = dogFor + 1
            BY <4>1, <4>3, <4>5
          <5>2. idleFor' <= 1 + dogFor'
            BY <3>2, <5>1, <1>1, Sizes
          <5>3. QED
            BY <3>1, <4>5, <5>2
        <4>6. CASE dog = "napping"
          <5>1. idleFor <= dogFor /\ dogFor' = dogFor + 1
            BY <4>1, <4>3, <4>6
          <5>2. idleFor' <= dogFor'
            BY <3>2, <5>1, <1>1, Sizes
          <5>3. QED
            BY <3>1, <4>6, <5>2
        <4>7. CASE dog = "applying"
          <5>1. idleFor <= dogFor /\ dogFor' = dogFor + 1
            BY <4>1, <4>3, <4>7
          <5>2. idleFor' <= dogFor'
            BY <3>2, <5>1, <1>1, Sizes
          <5>3. QED
            BY <3>1, <4>7, <5>2
        <4>8. CASE dog = "fail delay"
          <5>1. idleFor <= 1 + ProbeTime + dogFor /\ dogFor' = dogFor + 1
            BY <4>1, <4>3, <4>8
          <5>2. idleFor' <= 1 + ProbeTime + dogFor'
            BY <3>2, <5>1, <1>1, Sizes
          <5>3. QED
            BY <3>1, <4>8, <5>2
        <4>9. CASE dog = "restart delay"
          <5>1. idleFor <= ApplyTime + dogFor /\ dogFor' = dogFor + 1
            BY <4>1, <4>3, <4>9
          <5>2. idleFor' <= ApplyTime + dogFor'
            BY <3>2, <5>1, <1>1, Sizes
          <5>3. QED
            BY <3>1, <4>9, <5>2
        <4>10. CASE dog \in {"none", "leaving"}
          BY <3>1, <4>10
        <4>11. QED
          BY <4>2, <4>4, <4>5, <4>6, <4>7, <4>8, <4>9, <4>10 DEF ShellTypes
      <3>4. ASSUME Serving PROVE MainIdles' /\ idleFor' <= IdleBound
        <4>1. MainIdles
          BY <2>2, <3>4 DEF Idles
        <4>2. mainFor < LimitOf(main)
          BY <1>20 DEF LauncherElapse, ShellTypes, FlagTypes, OneOwner, Idles
        <4>3. CASE main = "sleeping"
          <5>1. main' = "polling"
            BY <1>20, <4>3 DEF LauncherElapse, ShellTypes, FlagTypes, OneOwner, Idles
          <5>2. flag => idleFor' <= ApplyTime + 1
            BY <3>2, <4>1, <4>3, <1>1, Sizes
          <5>3. idleFor <= DogIdle
            BY <3>4, <4>1, <4>3, DogIdlesBounded
          <5>4. idleFor' <= IdleBound
            BY <3>2, <5>3, <1>1, Sizes
          <5>5. QED
            BY <3>1, <5>1, <5>2, <5>4
        <4>4. CASE main = "validating"
          <5>1. main' = "validating" /\ mainFor' = mainFor + 1
            BY <1>20, <4>4 DEF LauncherElapse, Ages, Unlimited, ShellTypes, FlagTypes, OneOwner, Idles
          <5>2. idleFor <= ApplyTime + 1 + mainFor
            BY <4>1, <4>4, <1>1, Sizes
          <5>3. idleFor' <= ApplyTime + 1 + mainFor'
            BY <3>2, <5>1, <5>2, <1>1, Sizes
          <5>4. mainFor < ValidateTime
            BY <4>2, <4>4, Limits
          <5>5. idleFor' <= IdleBound
            BY <5>1, <5>3, <5>4, <1>1, Sizes
          <5>6. QED
            BY <5>1, <5>3, <5>5
        <4>5. main \notin {"polling", "gave up", "handling"}
          <5>1. ~(mainFor < 0)
            BY <1>1
          <5>2. QED
            BY <4>2, <5>1, Limits
        <4>6. CASE main = "attached"
          <5>1. dog # "none" /\ main' = "attached"
            BY <1>20, <4>6 DEF LauncherElapse, ShellTypes, FlagTypes, OneOwner, Idles
          <5>2. idleFor <= DogIdle
            BY <3>4, <5>1, DogIdlesBounded
          <5>3. idleFor' <= IdleBound
            BY <3>2, <5>2, <1>1, Sizes
          <5>4. QED
            BY <5>1, <5>3
        <4>7. QED
          BY <3>4, <4>3, <4>4, <4>5, <4>6 DEF ShellTypes
      <3>5. QED
        BY <3>1, <3>3, <3>4 DEF Idles
    <2>3. QED
      BY <2>1, <2>2
  <1>21. CASE UNCHANGED launcherVars
    BY <1>21 DEF launcherVars, Idles
  <1>22. QED
    BY <1>2, <1>3, <1>4, <1>5, <1>6, <1>7, <1>8, <1>9, <1>10, <1>11, <1>12, <1>13,
       <1>14, <1>15, <1>16, <1>17, <1>18, <1>19, <1>20, <1>21 DEF LauncherNext

LEMMA LauncherStep == LauncherIInv /\ [LauncherNext]_launcherVars => LauncherIInv'
  <1> SUFFICES ASSUME LauncherIInv, [LauncherNext]_launcherVars PROVE LauncherIInv'
    OBVIOUS
  <1>1. ShellTypes /\ FlagTypes /\ CountTypes /\ FlagIsHonest /\ OneOwner /\ InTime /\ Idles
    BY DEF LauncherIInv
  <1>2. ShellTypes' /\ FlagTypes'
    BY <1>1, LauncherTypes
  <1>3. CountTypes'
    BY <1>1, LauncherCounts
  <1>4. FlagIsHonest'
    BY <1>1, HonestStep
  <1>5. OneOwner'
    BY <1>1, OwnerStep
  <1>6. InTime'
    BY <1>1, InTimeStep
  <1>7. Idles'
    BY <1>1, IdlesStep
  <1>8. QED
    BY <1>2, <1>3, <1>4, <1>5, <1>6, <1>7 DEF LauncherIInv

(* The unit across its own deaths, the watchdog's and MAVROS's, for every   *)
(* length of every delay: READY is said only of a MAVROS of this run, two   *)
(* MAVROS never share the serial port, and until the unit is stopped or     *)
(* gives up there is a MAVROS again within IdleBound                        *)
(* (px4_start_service.sh, start_mavros_watchdog and the main body).         *)
THEOREM LaunchAlwaysHolds == LauncherSpec => []LaunchHolds
  <1>1. LauncherIInv => LaunchHolds
    <2> SUFFICES ASSUME LauncherIInv PROVE LaunchHolds
      OBVIOUS
    <2>1. ReadyIsHonest
      BY DEF LauncherIInv, FlagIsHonest
    <2>2. OneMavros
      BY DEF LauncherIInv, OneOwner, OneMavros
    <2>3. LaunchedAgain
      BY DEF LauncherIInv, Idles, LaunchedAgain
    <2>4. QED
      BY <2>1, <2>2, <2>3 DEF LaunchHolds
  <1>2. QED
    BY <1>1, LauncherInitial, LauncherStep, PTL DEF LauncherSpec

-----------------------------------------------------------------------------
(* The RTK manager, for any number of requests, sources and children.      *)

(* Only the holder of the lock is past its queue.  Between the stop and the *)
(* spawn of a start nothing runs; in its grace the child is its own.        *)
Holding == {"stop", "terminating", "spawn", "grace", "report"}
LockedWork ==
  \A r \in Requests :
    /\ at[r] \in Holding => lock = r
    /\ at[r] \in {"stop", "terminating"} => asks[r] # "status"
    /\ at[r] = "report" => asks[r] \notin Sources
    /\ at[r] \in {"spawn", "grace"} => asks[r] \in Sources
    /\ at[r] = "spawn" => process = NoChild /\ mode = Idle /\ live = {}
    /\ at[r] = "grace" => process # NoChild /\ mode = asks[r]

RtkIInv == RtkTypeOK /\ NoOrphan /\ LockedWork

LEMMA RtkInitial == RtkInit => RtkIInv
  BY RtkAssumption DEF RtkInit, RtkIInv, RtkTypeOK, NoOrphan, LockedWork, Holding,
     NoChild, Failed, Asks, Nobody, Idle

(* The holder clears the manager's handle when nothing runs any more. *)
LEMMA RtkClearing ==
  ASSUME RtkIInv, NEW r \in Requests, at[r] \in {"stop", "terminating"},
         live' = {}, Clear, Then(r), UNCHANGED <<asks, lock, spawned, answer>>
  PROVE  RtkIInv'
  <1> USE DEF RtkIInv
  <1>1. RtkTypeOK'
    BY RtkAssumption DEF RtkTypeOK, Clear, Then, NoChild
  <1>2. NoOrphan'
    BY DEF NoOrphan
  <1>3. LockedWork'
    <2> SUFFICES ASSUME NEW q \in Requests
                 PROVE  LockedWork!(q)'
      BY DEF LockedWork
    <2>1. asks[r] \in Sources \/ asks[r] = "stop"
      BY DEF LockedWork, RtkTypeOK, Asks
    <2>2. "stop" \notin Sources
      BY RtkAssumption
    <2>3. CASE q = r
      BY <2>1, <2>2, <2>3 DEF LockedWork, RtkTypeOK, Clear, Then, Holding
    <2>4. CASE q # r
      BY <2>4 DEF LockedWork, RtkTypeOK, Clear, Then, Holding
    <2>5. QED
      BY <2>3, <2>4
  <1>4. QED
    BY <1>1, <1>2, <1>3

(* The holder is done: it answered, and the lock is free. *)
LEMMA RtkDone ==
  ASSUME RtkIInv, NEW r \in Requests, at[r] \in Holding,
         at' = [at EXCEPT ![r] = "done"], lock' = Nobody, UNCHANGED asks
  PROVE  LockedWork'
  <1>1. \A q \in Requests : at'[q] \notin Holding
    BY DEF RtkIInv, RtkTypeOK, LockedWork, Holding
  <1>2. QED
    BY <1>1 DEF LockedWork, Holding

LEMMA RtkStep == RtkIInv /\ [RtkNext]_rtkVars => RtkIInv'
  <1> SUFFICES ASSUME RtkIInv, [RtkNext]_rtkVars PROVE RtkIInv'
    OBVIOUS
  <1> USE DEF RtkIInv
  <1>0. /\ live = {} \/ live = {process}
        /\ ChildLimit \in Nat /\ Failed \in Nat /\ NoChild = 0
    BY RtkAssumption DEF NoOrphan, Failed, NoChild
  <1>1. ASSUME NEW r \in Requests, Serve(r) PROVE RtkIInv'
    <2>1. CASE Acquire(r)
      <3>1. RtkTypeOK' /\ NoOrphan'
        BY <2>1 DEF Acquire, RtkTypeOK, NoOrphan
      <3>2. LockedWork'
        <4>1. asks[r] = "status" => asks[r] \notin Sources
          BY RtkAssumption
        <4>2. \A q \in Requests : at[q] \notin Holding
          BY <2>1, RtkAssumption DEF Acquire, LockedWork
        <4>3. QED
          BY <2>1, <4>1, <4>2 DEF Acquire, RtkTypeOK, LockedWork, Holding
      <3>3. QED
        BY <3>1, <3>2
    <2>2. CASE ScriptMissing(r)
      <3>1. RtkTypeOK' /\ NoOrphan'
        BY <2>2, <1>0 DEF ScriptMissing, RtkTypeOK, NoOrphan
      <3>2. QED
        BY <2>2, <3>1, RtkDone DEF ScriptMissing, Holding
    <2>3. CASE StopNothing(r)
      <3>1. live' = {}
        BY <2>3, <1>0 DEF StopNothing
      <3>2. QED
        BY <2>3, <3>1, RtkClearing DEF StopNothing
    <2>4. CASE Terminate(r)
      <3>1. RtkTypeOK' /\ NoOrphan'
        BY <2>4 DEF Terminate, RtkTypeOK, NoOrphan
      <3>2. LockedWork'
        BY <2>4 DEF Terminate, RtkTypeOK, LockedWork, Holding
      <3>3. QED
        BY <3>1, <3>2
    <2>5. CASE Reaped(r)
      <3>1. live' = {}
        BY <2>5, <1>0 DEF Reaped
      <3>2. QED
        BY <2>5, <3>1, RtkClearing DEF Reaped
    <2>6. CASE SpawnFails(r)
      <3>1. RtkTypeOK' /\ NoOrphan'
        BY <2>6, <1>0 DEF SpawnFails, RtkTypeOK, NoOrphan, LockedWork
      <3>2. QED
        BY <2>6, <3>1, RtkDone DEF SpawnFails, Holding
    <2>7. CASE Spawn(r)
      <3>1. asks[r] \in Sources /\ asks[r] # Idle /\ live = {} /\ lock = r
        BY <2>7, RtkAssumption DEF Spawn, LockedWork, Holding
      <3>2. spawned' \in 1..ChildLimit /\ spawned \in Nat /\ spawned' = spawned + 1
        BY <2>7, <1>0 DEF Spawn, RtkTypeOK
      <3>3. RtkTypeOK'
        <4>1. live' \subseteq 1..spawned' /\ watcher' \subseteq 1..spawned'
          BY <2>7, <3>2 DEF Spawn, RtkTypeOK
        <4>2. process' \in 0..spawned' /\ mode' \in Sources \cup {Idle}
              /\ process' # NoChild /\ mode' # Idle
          BY <2>7, <3>1, <3>2, <1>0 DEF Spawn
        <4>3. QED
          BY <2>7, <3>2, <4>1, <4>2 DEF Spawn, RtkTypeOK
      <3>4. NoOrphan'
        BY <2>7, <3>1 DEF Spawn, NoOrphan
      <3>5. LockedWork'
        <4>1. process' # NoChild /\ mode' = asks'[r]
          BY <2>7, <3>2, <1>0 DEF Spawn
        <4>2. \A q \in Requests \ {r} : at'[q] = at[q] /\ at[q] \notin Holding
          BY <2>7, <3>1 DEF Spawn, RtkTypeOK, LockedWork
        <4>3. QED
          BY <2>7, <3>1, <4>1, <4>2 DEF Spawn, RtkTypeOK, LockedWork, Holding
      <3>6. QED
        BY <3>3, <3>4, <3>5
    <2>8. CASE GraceOver(r)
      <3>1. at[r] \in Holding /\ LockedWork'
        BY <2>8, RtkDone DEF GraceOver, Holding
      <3>2. NoOrphan'
        BY <2>8, <1>0 DEF GraceOver, NoOrphan, Clear
      <3>3. RtkTypeOK'
        <4>1. process \in NoChild..Failed /\ Failed \in NoChild..Failed
          BY <1>0 DEF RtkTypeOK, Failed
        <4>2. answer' \in [Requests -> NoChild..Failed]
          BY <2>8, <4>1 DEF GraceOver, RtkTypeOK
        <4>3. /\ process' \in 0..spawned /\ mode' \in Sources \cup {Idle}
              /\ (process' = NoChild <=> mode' = Idle) /\ watcher' \subseteq 1..spawned
          <5>1. CASE UNCHANGED <<process, mode, watcher>>
            BY <2>8, <5>1 DEF GraceOver, RtkTypeOK
          <5>2. CASE Clear
            BY <1>0, <5>2 DEF RtkTypeOK, Clear
          <5>3. QED
            BY <2>8, <5>1, <5>2 DEF GraceOver
        <4>4. QED
          BY <2>8, <4>2, <4>3 DEF GraceOver, RtkTypeOK
      <3>4. QED
        BY <3>1, <3>2, <3>3
    <2>9. CASE Report(r)
      <3>1. at[r] \in Holding /\ LockedWork'
        BY <2>9, RtkDone DEF Report, Holding
      <3>2. NoOrphan'
        BY <2>9, <1>0 DEF Report, NoOrphan, Clear
      <3>3. RtkTypeOK'
        <4>1. process \in NoChild..Failed /\ NoChild \in NoChild..Failed
          BY <1>0 DEF RtkTypeOK, Failed
        <4>2. answer' \in [Requests -> NoChild..Failed]
          BY <2>9, <4>1 DEF Report, RtkTypeOK
        <4>3. /\ process' \in 0..spawned /\ mode' \in Sources \cup {Idle}
              /\ (process' = NoChild <=> mode' = Idle) /\ watcher' \subseteq 1..spawned
          <5>1. CASE UNCHANGED <<process, mode, watcher>>
            BY <2>9, <5>1 DEF Report, RtkTypeOK
          <5>2. CASE Clear
            BY <1>0, <5>2 DEF RtkTypeOK, Clear
          <5>3. QED
            BY <2>9, <5>1, <5>2 DEF Report
        <4>4. QED
          BY <2>9, <4>2, <4>3 DEF Report, RtkTypeOK
      <3>4. QED
        BY <3>1, <3>2, <3>3
    <2>10. QED
      BY <1>1, <2>1, <2>2, <2>3, <2>4, <2>5, <2>6, <2>7, <2>8, <2>9 DEF Serve
  <1>2. ASSUME NEW c \in Children, WatchEnds(c) PROVE RtkIInv'
    <2>1. RtkTypeOK'
      <3>1. /\ process' \in 0..spawned /\ mode' \in Sources \cup {Idle}
            /\ (process' = NoChild <=> mode' = Idle) /\ watcher' \subseteq 1..spawned
        BY <1>2, <1>0 DEF WatchEnds, RtkTypeOK
      <3>2. QED
        BY <1>2, <3>1 DEF WatchEnds, RtkTypeOK
    <2>2. NoOrphan'
      BY <1>2, <1>0 DEF WatchEnds, NoOrphan
    <2>3. \A q \in Requests : at'[q] = at[q] /\ at[q] \notin Holding
      BY <1>2, RtkAssumption DEF WatchEnds, LockedWork
    <2>4. LockedWork'
      BY <2>3 DEF LockedWork, Holding
    <2>5. QED
      BY <2>1, <2>2, <2>4
  <1>3. ASSUME NEW c \in Children, ChildDies(c) PROVE RtkIInv'
    BY <1>3 DEF ChildDies, RtkTypeOK, NoOrphan, LockedWork
  <1>4. CASE UNCHANGED rtkVars
    BY <1>4 DEF rtkVars, RtkTypeOK, NoOrphan, LockedWork
  <1>5. QED
    BY <1>1, <1>2, <1>3, <1>4 DEF RtkNext

(* A start is answered with a child only at the end of its own grace. *)
LEMMA RtkOwnAnswer ==
  ASSUME RtkIInv, [RtkNext]_rtkVars, NEW r \in Requests, asks[r] \in Sources,
         answer'[r] # answer[r], answer'[r] \in Children
  PROVE  mode = asks[r] /\ process = answer'[r]
  <1> USE DEF RtkIInv
  <1>0. Failed \notin Children
    BY RtkAssumption DEF Failed, Children
  <1>1. PICK q \in Requests : Serve(q)
    BY DEF RtkNext, WatchEnds, ChildDies, rtkVars
  <1>2. q = r
    BY <1>1 DEF Serve, Acquire, ScriptMissing, StopNothing, Terminate, Reaped, SpawnFails,
       Spawn, GraceOver, Report, RtkTypeOK
  <1>3. GraceOver(r)
    <2>1. ~Report(r)
      BY DEF Report, LockedWork
    <2>2. ~ScriptMissing(r) /\ ~SpawnFails(r)
      BY <1>0 DEF ScriptMissing, SpawnFails, RtkTypeOK
    <2>3. QED
      BY <1>1, <1>2, <2>1, <2>2 DEF Serve, Acquire, StopNothing, Terminate, Reaped, Spawn
  <1>4. QED
    BY <1>0, <1>3 DEF GraceOver, LockedWork, RtkTypeOK

(* There is never a child beside the one the manager knows, and a start     *)
(* reports the child it spawned, of the source it was asked for: for any    *)
(* number of requests, whenever the children die.                           *)
THEOREM OneChildAlways == RtkSpec => OneChild
  <1>1. RtkIInv => RtkTypeOK /\ NoOrphan
    BY DEF RtkIInv
  <1>2. RtkIInv /\ [RtkNext]_rtkVars =>
          [\A r \in Requests :
             asks[r] \in Sources /\ answer'[r] # answer[r] /\ answer'[r] \in Children
               => mode = asks[r] /\ process = answer'[r]]_rtkVars
    BY RtkOwnAnswer
  <1>3. QED
    BY RtkInitial, RtkStep, <1>1, <1>2, PTL DEF RtkSpec, OneChild, StartReportsItsOwn

-----------------------------------------------------------------------------
(* The recovery of the bridge, for every setting of its budget that lasts   *)
(* for the window, and whatever the link does.                              *)

Waking    == step \in {"asleep", "poll"}
Unmatched == IF step = "stopping" THEN 1 ELSE 0
Spans(n)  == n * Cycle

(* The longest time to the next recovery of a link that stays frozen. *)
Remaining ==
  IF step = "stopping" THEN (StopTimeout - spent) + RestartTimeout + Cooldown + Grace
  ELSE IF step = "restarting" THEN (RestartTimeout - spent) + Cooldown + Grace
  ELSE IF cooldown > 0 THEN cooldown + Grace
  ELSE IF degradedFor # Never THEN Grace - degradedFor
  ELSE IF step = "asleep" THEN Grace + 1 ELSE Grace

Recovering ==
  /\ step = "stopping" => spent <= StopTimeout
  /\ step = "restarting" => spent <= RestartTimeout
  /\ cooldown > 0 => Waking /\ degradedFor = Never
  /\ ~Waking => autoRecover /\ health = "RECOVERING"
  /\ Waking /\ health = "RECOVERING" => degradedFor = Never
  /\ health = "FAILED" => Waking /\ degradedFor # Never
  /\ step = "asleep" /\ autoRecover /\ health # "FAILED" /\ degradedFor # Never
       => degradedFor < Grace
  /\ ~frozen => frozenFor = 0

(* Each restart still counted follows a recovery of its own that is.        *)
Recovery(i) == recoveryTimes[i + Len(recoveryTimes) - Unmatched - Len(restarts)]
Matched ==
  /\ Len(restarts) + Unmatched <= Len(recoveryTimes)
  /\ \A i \in 1..Len(restarts) :
       /\ restarts[i] <= RecoveryWindow - StopTimeout
       /\ restarts[i] <= Recovery(i) /\ Recovery(i) <= restarts[i] + StopTimeout

(* Of the recoveries within the window there are no more than the budget. *)
WithinBudget ==
  \A i \in 1..Len(recoveryTimes) :
    recoveryTimes[i] <= RecoveryWindow => Len(recoveryTimes) + 1 - i <= MaxRecoveries

(* Before the next restart there is a cooldown, and a grace after it. *)
Rested ==
  \A i \in 1..Len(restarts) :
    /\ Waking => restarts[i] + cooldown >= Cooldown
    /\ Waking /\ degradedFor # Never => restarts[i] >= Cooldown + degradedFor
    /\ step = "stopping" => restarts[i] >= Cooldown + Grace

(* A recovery under way, or cooling down, is over within its cycle. *)
Cycling ==
  ~Waking \/ cooldown > 0 =>
    /\ Len(recoveryTimes) > 0
    /\ recoveryTimes[Len(recoveryTimes)] + Remaining <= Cycle

(* While the link stays frozen the recoveries follow each other, none more  *)
(* than a cycle after the one before it.                                    *)
ChainOf(n) ==
  /\ n <= MaxRecoveries /\ n <= Len(recoveryTimes)
  /\ frozenFor + Remaining <= Spans(n) + Grace + 1
  /\ \A k \in 1..n : recoveryTimes[Len(recoveryTimes) + 1 - k] + Remaining <= Spans(k)
Chained == autoRecover /\ frozen /\ health # "FAILED" => \E n \in Nat : ChainOf(n)

BridgeIInv ==
  /\ BridgeTypeOK /\ Recovering /\ Matched /\ WithinBudget
  /\ RestartsApart /\ Rested /\ Cycling /\ Chained

LEMMA Spanning ==
  /\ Spans(0) = 0 /\ Spans(1) = Cycle
  /\ \A n \in Nat : Spans(n) \in Nat /\ Spans(n + 1) = Spans(n) + Cycle
  /\ \A n \in 0..MaxRecoveries :
       Spans(n) <= RecoveryWindow /\ Spans(n) <= Spans(MaxRecoveries)
  <1>1. Cycle \in Nat /\ MaxRecoveries \in Nat
    BY BridgeAssumption DEF Cycle
  <1>2. Spans(0) = 0 /\ Spans(1) = Cycle
    BY <1>1 DEF Spans
  <1>3. ASSUME NEW n \in Nat PROVE Spans(n) \in Nat /\ Spans(n + 1) = Spans(n) + Cycle
    BY <1>1 DEF Spans
  <1>4. ASSUME NEW n \in 0..MaxRecoveries PROVE Spans(n) <= Spans(MaxRecoveries)
    <2>1. PICK m \in Nat : MaxRecoveries = n + m
      <3>1. MaxRecoveries - n \in Nat /\ MaxRecoveries = n + (MaxRecoveries - n)
        BY <1>1
      <3>2. QED
        BY <3>1
    <2>2. (n + m) * Cycle = n * Cycle + m * Cycle /\ m * Cycle >= 0 /\ n * Cycle \in Nat
      BY <1>1
    <2>3. QED
      BY <1>1, <2>1, <2>2 DEF Spans
  <1>5. Spans(MaxRecoveries) <= RecoveryWindow /\ Spans(MaxRecoveries) \in Nat
    BY <1>1, BridgeAssumption DEF Spans
  <1>6. QED
    BY <1>2, <1>3, <1>4, <1>5, BridgeAssumption

LEMMA BridgeSizes ==
  /\ Grace \in Nat /\ Cooldown \in Nat /\ MaxRecoveries \in Nat
  /\ StopTimeout \in Nat /\ RestartTimeout \in Nat /\ RecoveryWindow \in Nat
  /\ 0 < Grace /\ 0 < Cooldown /\ 0 < MaxRecoveries
  /\ Cycle = StopTimeout + RestartTimeout + Cooldown + Grace /\ Cycle <= RecoveryWindow
  /\ Never = RecoveryWindow + 2
  /\ GiveUpBound = Spans(MaxRecoveries) + Grace + 1 /\ GiveUpBound \in Nat
  <1>1. /\ Grace \in Nat /\ Cooldown \in Nat /\ MaxRecoveries \in Nat
        /\ StopTimeout \in Nat /\ RestartTimeout \in Nat /\ RecoveryWindow \in Nat
        /\ 0 < Grace /\ 0 < Cooldown /\ 0 < MaxRecoveries
    BY BridgeAssumption
  <1>2. 1 \in 0..MaxRecoveries /\ Spans(1) = Cycle /\ Spans(MaxRecoveries) \in Nat
    BY <1>1, Spanning
  <1>3. Cycle <= RecoveryWindow
    BY <1>2, Spanning
  <1>4. GiveUpBound = Spans(MaxRecoveries) + Grace + 1
    BY DEF GiveUpBound, Spans
  <1>5. QED
    BY <1>1, <1>2, <1>3, <1>4 DEF Cycle, Never

-----------------------------------------------------------------------------
(* The operators on the ages. *)

LEMMA AgesGrow ==
  ASSUME NEW times \in Seq(0..Never)
  PROVE  /\ AgedAll(times) \in Seq(0..Never) /\ Len(AgedAll(times)) = Len(times)
         /\ \A i \in 1..Len(times) :
              AgedAll(times)[i] = IF times[i] < Never THEN times[i] + 1 ELSE times[i]
  <1>1. Never \in Nat
    BY BridgeSizes
  <1>2. DOMAIN times = 1..Len(times) /\ Len(times) \in Nat
    BY LenProperties
  <1>3. \A i \in 1..Len(times) : times[i] \in 0..Never
    BY ElementOfSeq
  <1>4. AgedAll(times) = [i \in 1..Len(times) |-> Aged(times[i], Never)]
    BY <1>2 DEF AgedAll
  <1>5. \A i \in 1..Len(times) : Aged(times[i], Never) \in 0..Never
    BY <1>1, <1>3 DEF Aged
  <1>6. AgedAll(times) \in [1..Len(times) -> 0..Never]
    BY <1>4, <1>5
  <1>7. AgedAll(times) \in Seq(0..Never) /\ Len(AgedAll(times)) = Len(times)
    <2>1. AgedAll(times) \in Seq(0..Never)
      BY <1>2, <1>6, SeqDef
    <2>2. DOMAIN AgedAll(times) = 1..Len(times)
      BY <1>4
    <2>3. QED
      BY <1>2, <2>1, <2>2, LenProperties
  <1>8. QED
    BY <1>4, <1>7 DEF Aged

(* Some ages are popped off the left, too old all of them; the rest stays.  *)
Popped(times, window, n) ==
  /\ \A i \in 1..n : times[i] > window
  /\ n < Len(times) => times[n + 1] <= window

LEMMA LeastAge ==
  ASSUME NEW S, S \subseteq Nat, S # {}
  PROVE  \E v \in S : \A w \in S : v <= w
  <1> DEFINE Less == OpToRel(<, Nat)
  <1>1. IsWellFoundedOn(Less, Nat)
    BY NatLessThanWellFounded
  <1>2. PICK v \in S : \A w \in S : ~(<<w, v>> \in Less)
    <2> HIDE DEF Less
    <2> QED
      BY <1>1, WFMin
  <1>3. ASSUME NEW w \in S PROVE v <= w
    <2>1. ~(w < v)
      BY <1>2 DEF OpToRel
    <2> QED
      BY <2>1
  <1> QED
    BY <1>3

LEMMA WithinPops ==
  ASSUME NEW times \in Seq(0..Never), NEW window \in Nat
  PROVE  \E n \in 0..Len(times) :
           /\ Popped(times, window, n)
           /\ Within(times, window) \in Seq(0..Never)
           /\ Len(Within(times, window)) = Len(times) - n
           /\ \A i \in 1..Len(times) - n : Within(times, window)[i] = times[i + n]
  <1>1. Len(times) \in Nat /\ DOMAIN times = 1..Len(times)
    BY LenProperties
  <1>2. \E n \in 0..Len(times) : Popped(times, window, n)
    <2> DEFINE Kept == {n \in 0..Len(times) : n < Len(times) => times[n + 1] <= window}
    <2>1. Len(times) \in Kept /\ Kept \subseteq Nat
      BY <1>1
    <2>2. PICK n \in Kept : \A m \in Kept : n <= m
      <3> HIDE DEF Kept
      <3> QED
        BY <2>1, LeastAge
    <2>3. ASSUME NEW i \in 1..n PROVE times[i] > window
      <3>1. i - 1 \in 0..Len(times) /\ i - 1 < n /\ (i - 1) + 1 = i /\ i - 1 < Len(times)
        BY <1>1, <2>2
      <3>2. i - 1 \notin Kept
        BY <2>2, <3>1
      <3>3. times[i] \in 0..Never
        <4>1. i \in 1..Len(times)
          BY <1>1, <3>1
        <4>2. QED
          BY <4>1, ElementOfSeq
      <3>4. QED
        BY <3>1, <3>2, <3>3, BridgeSizes
    <2>4. QED
      BY <2>2, <2>3 DEF Popped
  <1> DEFINE n == CHOOSE n \in 0..Len(times) :
                    /\ \A i \in 1..n : times[i] > window
                    /\ n < Len(times) => times[n + 1] <= window
  <1>3. n \in 0..Len(times) /\ Popped(times, window, n)
    BY <1>2 DEF Popped
  <1>4. Within(times, window) = SubSeq(times, n + 1, Len(times))
    BY DEF Within
  <1> HIDE DEF n
  <1>5. n + 1 \in 1..Len(times) + 1 /\ Len(times) - (n + 1) + 1 = Len(times) - n
    BY <1>1, <1>3
  <1>6. /\ SubSeq(times, n + 1, Len(times)) \in Seq(0..Never)
        /\ Len(SubSeq(times, n + 1, Len(times))) = Len(times) - n
        /\ \A i \in 1..Len(times) - n : SubSeq(times, n + 1, Len(times))[i] = times[i + n]
    <2>1. CASE n = Len(times)
      <3>1. SubSeq(times, n + 1, Len(times)) = << >>
        BY <1>1, <2>1, SubSeqEmpty
      <3>2. QED
        BY <1>1, <2>1, <3>1, EmptySeq
    <2>2. CASE n < Len(times)
      <3>1. \A i \in n + 1..Len(times) : times[i] \in 0..Never
        <4>1. \A i \in n + 1..Len(times) : i \in 1..Len(times)
          BY <1>1, <1>3
        <4>2. QED
          BY <4>1, ElementOfSeq
      <3>0. n + 1 \in Int /\ Len(times) \in Int
        BY <1>1, <1>3
      <3>2. /\ SubSeq(times, n + 1, Len(times)) \in Seq(0..Never)
            /\ Len(SubSeq(times, n + 1, Len(times)))
                 = IF n + 1 <= Len(times) THEN Len(times) - (n + 1) + 1 ELSE 0
            /\ \A i \in 1..Len(times) - (n + 1) + 1 :
                 SubSeq(times, n + 1, Len(times))[i] = times[n + 1 + i - 1]
        BY <3>0, <3>1, SubSeqProperties
      <3>3. \A i \in 1..Len(times) - n : n + 1 + i - 1 = i + n
        BY <1>1, <1>3
      <3>4. n + 1 <= Len(times) /\ Len(times) - (n + 1) + 1 = Len(times) - n
        BY <1>1, <1>3, <1>5, <2>2
      <3>5. Len(SubSeq(times, n + 1, Len(times))) = Len(times) - n
        BY <3>2, <3>4
      <3>6. \A i \in 1..Len(times) - n : SubSeq(times, n + 1, Len(times))[i] = times[i + n]
        BY <3>2, <3>3, <3>4
      <3>7. QED
        BY <3>2, <3>5, <3>6
    <2>3. n = Len(times) \/ n < Len(times)
      <3>1. Len(times) \in Nat /\ n \in 0..Len(times)
        BY <1>1, <1>3
      <3>2. QED
        BY <3>1
    <2>4. QED
      BY <2>1, <2>2, <2>3
  <1>7. QED
    BY <1>3, <1>4, <1>6

-----------------------------------------------------------------------------
(* What the state says, in the form the steps need it. *)

LEMMA BridgeTyped ==
  ASSUME BridgeTypeOK
  PROVE  /\ Len(restarts) \in Nat /\ DOMAIN restarts = 1..Len(restarts)
         /\ Len(recoveryTimes) \in Nat
         /\ \A i \in 1..Len(restarts) : restarts[i] \in Nat /\ restarts[i] <= Never
         /\ \A i \in 1..Len(recoveryTimes) : recoveryTimes[i] \in Nat /\ recoveryTimes[i] <= Never
         /\ spent \in Nat /\ cooldown \in Nat /\ frozenFor \in Nat
         /\ degradedFor # Never => degradedFor \in Nat /\ degradedFor <= Grace
         /\ Remaining \in Int
  <1> USE BridgeSizes
  <1>1. restarts \in Seq(0..Never) /\ recoveryTimes \in Seq(0..Never)
    BY DEF BridgeTypeOK
  <1>2. /\ Len(restarts) \in Nat /\ DOMAIN restarts = 1..Len(restarts)
        /\ Len(recoveryTimes) \in Nat
    BY <1>1, LenProperties
  <1>3. /\ \A i \in 1..Len(restarts) : restarts[i] \in 0..Never
        /\ \A i \in 1..Len(recoveryTimes) : recoveryTimes[i] \in 0..Never
    BY <1>1, ElementOfSeq
  <1>4. /\ spent \in Nat /\ cooldown \in Nat /\ frozenFor \in Nat
        /\ degradedFor # Never => degradedFor \in Nat /\ degradedFor <= Grace
    BY DEF BridgeTypeOK
  <1>5. Remaining \in Int
    BY <1>4 DEF Remaining
  <1>6. QED
    BY <1>2, <1>3, <1>4, <1>5

LEMMA StepsOf ==
  ASSUME BridgeTypeOK
  PROVE  Waking \/ step = "stopping" \/ step = "restarting"
  BY DEF BridgeTypeOK, Waking

LEMMA RemainingBounds ==
  ASSUME BridgeTypeOK, Recovering
  PROVE  /\ Remaining >= 0
         /\ Waking /\ cooldown = 0 => Remaining <= Grace + 1
  <1>1. /\ spent \in Nat /\ cooldown \in Nat
        /\ degradedFor # Never => degradedFor \in Nat /\ degradedFor <= Grace
    BY BridgeTyped
  <1>2. /\ step = "stopping" => spent <= StopTimeout
        /\ step = "restarting" => spent <= RestartTimeout
    BY DEF Recovering
  <1>3. QED
    BY <1>1, <1>2, BridgeSizes DEF Remaining, Waking

(* Steps that record neither a recovery nor a restart. *)
LEMMA TimesKept ==
  ASSUME BridgeIInv, UNCHANGED <<recoveryTimes, restarts>>, Unmatched' = Unmatched
  PROVE  Matched' /\ WithinBudget' /\ RestartsApart'
  BY DEF BridgeIInv, Matched, Recovery, WithinBudget, RestartsApart

LEMMA CyclingKept ==
  ASSUME BridgeIInv, UNCHANGED recoveryTimes, Remaining' \in Int, Remaining' <= Remaining,
         ~Waking' \/ cooldown' > 0 => ~Waking \/ cooldown > 0
  PROVE  Cycling'
  <1>1. CASE ~Waking' \/ cooldown' > 0
    <2>1. /\ Len(recoveryTimes) > 0
          /\ recoveryTimes[Len(recoveryTimes)] + Remaining <= Cycle
      BY <1>1 DEF BridgeIInv, Cycling
    <2>2. recoveryTimes[Len(recoveryTimes)] \in Nat /\ Remaining \in Int
      BY <2>1, BridgeTyped DEF BridgeIInv
    <2>3. recoveryTimes[Len(recoveryTimes)] + Remaining' <= Cycle
      BY <2>1, <2>2, BridgeSizes
    <2>4. QED
      BY <2>1, <2>3 DEF Cycling
  <1>2. QED
    BY <1>1 DEF Cycling

LEMMA ChainKept ==
  ASSUME BridgeIInv, UNCHANGED <<autoRecover, frozen, recoveryTimes, frozenFor>>,
         health = "FAILED" => health' = "FAILED",
         Remaining' \in Int, Remaining' <= Remaining
  PROVE  Chained'
  <1> SUFFICES ASSUME autoRecover, frozen, health' # "FAILED"
               PROVE  \E n \in Nat : ChainOf(n)'
    BY DEF Chained
  <1>1. PICK n \in Nat : ChainOf(n)
    BY DEF BridgeIInv, Chained
  <1>2. frozenFor \in Nat /\ Remaining \in Int /\ Spans(n) \in Nat /\ Grace \in Nat
    BY BridgeTyped, BridgeSizes, Spanning DEF BridgeIInv
  <1>3. frozenFor + Remaining' <= Spans(n) + Grace + 1
    BY <1>1, <1>2 DEF ChainOf
  <1>4. ASSUME NEW k \in 1..n
        PROVE  recoveryTimes[Len(recoveryTimes) + 1 - k] + Remaining' <= Spans(k)
    <2>1. Len(recoveryTimes) + 1 - k \in 1..Len(recoveryTimes)
      BY <1>1, BridgeTyped DEF ChainOf, BridgeIInv
    <2>2. recoveryTimes[Len(recoveryTimes) + 1 - k] \in Nat
      BY <2>1, BridgeTyped DEF BridgeIInv
    <2>3. recoveryTimes[Len(recoveryTimes) + 1 - k] + Remaining <= Spans(k)
      BY <1>1 DEF ChainOf
    <2>4. Spans(k) \in Nat
      BY Spanning
    <2>5. QED
      BY <1>2, <2>2, <2>3, <2>4
  <1>5. n <= Len(recoveryTimes') /\ n <= MaxRecoveries
    BY <1>1 DEF ChainOf
  <1>6. /\ frozenFor' + Remaining' <= Spans(n) + Grace + 1
        /\ \A k \in 1..n : recoveryTimes'[Len(recoveryTimes') + 1 - k] + Remaining' <= Spans(k)
    BY <1>3, <1>4
  <1>7. ChainOf(n)'
    BY <1>5, <1>6 DEF ChainOf, Spans, Cycle
  <1>8. QED
    BY <1>7

(* Popping what is older than the window leaves every recovery that counts. *)
LEMMA PoppingKeeps ==
  ASSUME BridgeIInv, Unmatched = 0, NEW kept, kept = Within(recoveryTimes, RecoveryWindow)
  PROVE  /\ kept \in Seq(0..Never) /\ Len(kept) \in Nat
         /\ Len(kept) <= Len(recoveryTimes) /\ Len(restarts) <= Len(kept)
         /\ \A i \in 1..Len(restarts) : kept[i + Len(kept) - Len(restarts)] = Recovery(i)
         /\ \A i \in 1..Len(kept) : kept[i] <= RecoveryWindow => Len(kept) + 1 - i <= MaxRecoveries
         /\ \A k \in 1..Len(recoveryTimes) :
              recoveryTimes[Len(recoveryTimes) + 1 - k] <= RecoveryWindow => k <= Len(kept)
         /\ \A k \in 1..Len(kept) : kept[Len(kept) + 1 - k] = recoveryTimes[Len(recoveryTimes) + 1 - k]
  <1> DEFINE R == Len(recoveryTimes)
             N == Len(restarts)
  <1>1. recoveryTimes \in Seq(0..Never) /\ RecoveryWindow \in Nat /\ R \in Nat /\ N \in Nat
    BY BridgeSizes, BridgeTyped DEF BridgeIInv, BridgeTypeOK
  <1>2. PICK n \in 0..R :
           /\ Popped(recoveryTimes, RecoveryWindow, n)
           /\ kept \in Seq(0..Never)
           /\ Len(kept) = R - n
           /\ \A i \in 1..R - n : kept[i] = recoveryTimes[i + n]
    BY <1>1, WithinPops
  <1>3. n \in Int /\ 0 <= n /\ n <= R
    BY <1>1
  <1>4. \A i \in 1..R : recoveryTimes[i] \in Nat
    BY BridgeTyped DEF BridgeIInv
  <1>5. \A i \in 1..R : recoveryTimes[i] <= RecoveryWindow => n < i
    <2> SUFFICES ASSUME NEW i \in 1..R, recoveryTimes[i] <= RecoveryWindow, i <= n
                 PROVE  FALSE
      BY <1>1, <1>3
    <2>1. recoveryTimes[i] > RecoveryWindow
      BY <1>2, <1>3 DEF Popped
    <2>2. QED
      BY <1>1, <1>4, <2>1
  <1>6. N <= R /\ \A i \in 1..N : Recovery(i) = recoveryTimes[i + R - N]
    BY <1>1 DEF BridgeIInv, Matched, Recovery
  <1>7. N <= R - n
    <2>1. CASE N = 0
      BY <1>3, <1>1, <2>1
    <2>2. CASE N > 0
      <3>1. 1 \in 1..N /\ 1 + R - N \in 1..R
        BY <1>1, <1>6, <2>2
      <3>2. restarts[1] <= RecoveryWindow - StopTimeout /\ Recovery(1) <= restarts[1] + StopTimeout
        BY <3>1 DEF BridgeIInv, Matched
      <3>3. restarts[1] \in Nat
        BY <3>1, BridgeTyped DEF BridgeIInv
      <3>4. recoveryTimes[1 + R - N] <= RecoveryWindow
        BY SMTT(30), <1>1, <1>4, <1>6, <3>1, <3>2, <3>3, BridgeSizes
      <3>5. n < 1 + R - N
        BY <1>5, <3>1, <3>4
      <3>6. QED
        BY <1>1, <1>3, <3>5
    <2>3. QED
      BY <1>1, <2>1, <2>2
  <1>8. \A i \in 1..N : kept[i + Len(kept) - N] = Recovery(i)
    <2> SUFFICES ASSUME NEW i \in 1..N PROVE kept[i + Len(kept) - N] = Recovery(i)
      OBVIOUS
    <2>1. i + (R - n) - N \in 1..R - n /\ i + (R - n) - N + n = i + R - N
      BY <1>1, <1>3, <1>7
    <2>2. QED
      BY <1>2, <1>6, <2>1
  <1>9. \A i \in 1..Len(kept) : kept[i] <= RecoveryWindow => Len(kept) + 1 - i <= MaxRecoveries
    <2> SUFFICES ASSUME NEW i \in 1..R - n, kept[i] <= RecoveryWindow
                 PROVE  (R - n) + 1 - i <= MaxRecoveries
      BY <1>2
    <2>1. i + n \in 1..R /\ R + 1 - (i + n) = (R - n) + 1 - i
      BY <1>1, <1>3
    <2>2. recoveryTimes[i + n] <= RecoveryWindow
      BY <1>2
    <2>3. R + 1 - (i + n) <= MaxRecoveries
      BY <2>1, <2>2 DEF BridgeIInv, WithinBudget
    <2>4. QED
      BY <2>1, <2>3
  <1>10. ASSUME NEW k \in 1..R, recoveryTimes[R + 1 - k] <= RecoveryWindow
         PROVE  k <= Len(kept)
    <2>1. R + 1 - k \in 1..R
      BY <1>1
    <2>2. n < R + 1 - k
      BY <1>5, <1>10, <2>1
    <2>3. QED
      BY <1>1, <1>2, <1>3, <2>2
  <1>11. ASSUME NEW k \in 1..Len(kept)
         PROVE  kept[Len(kept) + 1 - k] = recoveryTimes[R + 1 - k]
    <2>1. (R - n) + 1 - k \in 1..R - n /\ (R - n) + 1 - k + n = R + 1 - k
      BY <1>1, <1>2, <1>3
    <2>2. QED
      BY <1>2, <2>1
  <1>12. Len(kept) \in Nat /\ Len(kept) <= R /\ N <= Len(kept)
    BY <1>1, <1>2, <1>3, <1>7
  <1>13. QED
    BY <1>2, <1>8, <1>9, <1>10, <1>11, <1>12

-----------------------------------------------------------------------------
(* The steps. *)

LEMMA BridgeInitial == BridgeInit => BridgeIInv
  <1> SUFFICES ASSUME BridgeInit PROVE BridgeIInv
    OBVIOUS
  <1> USE BridgeSizes DEF BridgeInit
  <1>1. recoveryTimes = << >> /\ restarts = << >> /\ Len(recoveryTimes) = 0 /\ Len(restarts) = 0
    BY EmptySeq
  <1>2. BridgeTypeOK
    <2>1. recoveryTimes \in Seq(0..Never) /\ restarts \in Seq(0..Never)
      BY <1>1, EmptySeq
    <2>2. QED
      BY <2>1 DEF BridgeTypeOK
  <1>3. Recovering /\ Cycling
    BY DEF Recovering, Cycling, Waking
  <1>4. Matched /\ WithinBudget /\ RestartsApart /\ Rested
    BY <1>1 DEF Matched, WithinBudget, RestartsApart, Rested, Unmatched, Waking
  <1>5. Chained
    <2>1. ChainOf(0)
      BY <1>1, Spanning DEF ChainOf, Remaining
    <2>2. QED
      BY <2>1 DEF Chained
  <1>6. QED
    BY <1>2, <1>3, <1>4, <1>5 DEF BridgeIInv

LEMMA LinkStep == BridgeIInv /\ Link => BridgeIInv'
  <1> SUFFICES ASSUME BridgeIInv, Link PROVE BridgeIInv'
    OBVIOUS
  <1> USE BridgeSizes, BridgeTyped, StepsOf DEF Link
  <1>0. Remaining' = Remaining /\ Waking' = Waking /\ Unmatched' = Unmatched
    BY DEF Remaining, Waking, Unmatched, Never
  <1>1. BridgeTypeOK'
    BY DEF BridgeIInv, BridgeTypeOK, Never
  <1>2. Recovering' /\ Rested'
    BY DEF BridgeIInv, Recovering, Rested, Waking, Never
  <1>3. Cycling'
    BY <1>0, CyclingKept DEF BridgeIInv
  <1>4. Matched' /\ WithinBudget' /\ RestartsApart'
    BY <1>0, TimesKept
  <1>5. Chained'
    <2>1. CASE ~Waking \/ cooldown > 0
      <3>1. /\ Len(recoveryTimes) > 0
            /\ recoveryTimes[Len(recoveryTimes)] + Remaining <= Cycle
        BY <2>1 DEF BridgeIInv, Cycling
      <3>2. recoveryTimes[Len(recoveryTimes)] \in Nat /\ Remaining \in Int /\ Len(recoveryTimes) \in Nat
        BY <3>1 DEF BridgeIInv
      <3>3. Spans(1) = Cycle /\ frozenFor' = 0
        BY Spanning
      <3>4. frozenFor' + Remaining <= Spans(1) + Grace + 1
        BY <3>1, <3>2, <3>3
      <3>5. \A k \in 1..1 : recoveryTimes[Len(recoveryTimes) + 1 - k] + Remaining <= Spans(k)
        BY <3>1, <3>2, <3>3
      <3>6. ChainOf(1)'
        BY <1>0, <3>1, <3>4, <3>5 DEF ChainOf, Spans, Cycle
      <3>7. QED
        BY <3>6 DEF Chained
    <2>2. CASE Waking /\ cooldown = 0
      <3>1. Remaining <= Grace + 1 /\ Spans(0) = 0
        BY <2>2, RemainingBounds, Spanning DEF BridgeIInv
      <3>2. ChainOf(0)'
        BY <1>0, <3>1 DEF ChainOf, Spans, Cycle, BridgeIInv
      <3>3. QED
        BY <3>2 DEF Chained
    <2>3. QED
      BY <2>1, <2>2 DEF BridgeIInv
  <1>6. QED
    BY <1>1, <1>2, <1>3, <1>4, <1>5 DEF BridgeIInv

LEMMA StartMissionStep == BridgeIInv /\ StartMission => BridgeIInv'
  <1> SUFFICES ASSUME BridgeIInv, StartMission PROVE BridgeIInv'
    OBVIOUS
  <1>1. UNCHANGED <<frozen, autoRecover, step, spent, health, degradedFor, cooldown,
                    recoveryTimes, frozenFor, restarts>> /\ mission' \in {"idle", "running"}
    BY DEF StartMission
  <1>2. Remaining' = Remaining /\ Waking' = Waking /\ Unmatched' = Unmatched
    BY <1>1 DEF Remaining, Waking, Unmatched, Never
  <1>3. BridgeTypeOK'
    BY <1>1 DEF BridgeIInv, BridgeTypeOK, Never
  <1>4. Recovering' /\ Rested'
    BY <1>1 DEF BridgeIInv, Recovering, Rested, Waking, Never
  <1>5. Remaining' \in Int /\ Remaining' <= Remaining
    BY <1>2, BridgeTyped DEF BridgeIInv
  <1>6. Cycling' /\ Chained'
    BY <1>1, <1>2, <1>5, CyclingKept, ChainKept
  <1>7. Matched' /\ WithinBudget' /\ RestartsApart'
    BY <1>1, <1>2, TimesKept
  <1>8. QED
    BY <1>3, <1>4, <1>6, <1>7 DEF BridgeIInv

LEMMA TickCoolingStep == BridgeIInv /\ TickCooling => BridgeIInv'
  <1> SUFFICES ASSUME BridgeIInv, TickCooling PROVE BridgeIInv'
    OBVIOUS
  <1>1. UNCHANGED <<frozen, autoRecover, spent, health, degradedFor, cooldown, recoveryTimes,
                    mission, frozenFor, restarts>>
        /\ step = "poll" /\ step' = "asleep" /\ cooldown > 0
    BY DEF TickCooling
  <1>2. Remaining' = Remaining /\ Waking' = Waking /\ Unmatched' = Unmatched
    BY <1>1 DEF Remaining, Waking, Unmatched, Never
  <1>3. BridgeTypeOK'
    BY <1>1 DEF BridgeIInv, BridgeTypeOK, Never
  <1>4. Recovering' /\ Rested'
    BY <1>1 DEF BridgeIInv, Recovering, Rested, Waking, Never
  <1>5. Remaining' \in Int /\ Remaining' <= Remaining
    BY <1>2, BridgeTyped DEF BridgeIInv
  <1>6. Cycling' /\ Chained'
    BY <1>1, <1>2, <1>5, CyclingKept, ChainKept
  <1>7. Matched' /\ WithinBudget' /\ RestartsApart'
    BY <1>1, <1>2, TimesKept
  <1>8. QED
    BY <1>3, <1>4, <1>6, <1>7 DEF BridgeIInv

LEMMA TickHealthyStep == BridgeIInv /\ TickHealthy => BridgeIInv'
  <1> SUFFICES ASSUME BridgeIInv, TickHealthy PROVE BridgeIInv'
    OBVIOUS
  <1>1. UNCHANGED <<frozen, autoRecover, spent, cooldown, recoveryTimes, mission, frozenFor,
                    restarts>>
        /\ step = "poll" /\ step' = "asleep" /\ cooldown = 0 /\ ~frozen
        /\ health' = "HEALTHY" /\ degradedFor' = Never
    BY DEF TickHealthy
  <1>2. Waking' /\ Waking /\ Unmatched' = Unmatched
    BY <1>1 DEF Waking, Unmatched
  <1>3. BridgeTypeOK'
    BY <1>1 DEF BridgeIInv, BridgeTypeOK, Never
  <1>4. Recovering' /\ Rested'
    BY <1>1 DEF BridgeIInv, Recovering, Rested, Waking, Never
  <1>5. Cycling' /\ Chained'
    BY <1>1, <1>2 DEF Cycling, Chained
  <1>6. Matched' /\ WithinBudget' /\ RestartsApart'
    BY <1>1, <1>2, TimesKept
  <1>7. QED
    BY <1>3, <1>4, <1>5, <1>6 DEF BridgeIInv

LEMMA TickFrozenStep == BridgeIInv /\ TickFrozen => BridgeIInv'
  <1> SUFFICES ASSUME BridgeIInv, TickFrozen PROVE BridgeIInv'
    OBVIOUS
  <1>1. UNCHANGED <<frozen, autoRecover, spent, cooldown, recoveryTimes, mission, frozenFor,
                    restarts>>
        /\ step = "poll" /\ step' = "asleep" /\ cooldown = 0 /\ frozen
        /\ degradedFor' = FrozenSince /\ health' = FrozenState
        /\ (FrozenSince < Grace \/ FrozenState \in {"RECOVERING", "FAILED"} \/ ~autoRecover)
    BY DEF TickFrozen
  <1>2. Waking' /\ Waking /\ Unmatched' = Unmatched
    BY <1>1 DEF Waking, Unmatched
  <1>3. FrozenSince \in 0..Grace /\ FrozenSince # Never
        /\ (degradedFor # Never => FrozenSince = degradedFor /\ FrozenState = health)
        /\ (degradedFor = Never => FrozenSince = 0 /\ FrozenState = "DEGRADED")
    <2>1. degradedFor # Never => degradedFor \in 0..Grace
      BY BridgeTyped, BridgeSizes DEF BridgeIInv
    <2>2. 0 \in 0..Grace /\ \A t \in 0..Grace : t # Never
      BY BridgeSizes
    <2>3. FrozenSince \in 0..Grace
      BY <2>1, <2>2 DEF FrozenSince
    <2>4. QED
      BY <2>2, <2>3 DEF FrozenSince, FrozenState
  <1>4. /\ health = "RECOVERING" => degradedFor = Never
        /\ health = "FAILED" => degradedFor # Never
        /\ health = "HEALTHY" => degradedFor = Never
    BY <1>2 DEF BridgeIInv, Recovering, BridgeTypeOK
  <1>5. BridgeTypeOK'
    <2>1. health' \in {"HEALTHY", "DEGRADED", "RECOVERING", "FAILED"}
          /\ (health' = "HEALTHY" => degradedFor' = Never)
      BY <1>1, <1>3, <1>4 DEF BridgeIInv, BridgeTypeOK
    <2>2. degradedFor' \in 0..Grace \cup {Never}
      BY <1>1, <1>3
    <2>3. QED
      BY <1>1, <2>1, <2>2 DEF BridgeIInv, BridgeTypeOK, Never
  <1>6. autoRecover /\ health' # "FAILED" => degradedFor' < Grace
    BY <1>1, <1>3, <1>4
  <1>7. Recovering'
    BY <1>1, <1>2, <1>3, <1>4, <1>6 DEF BridgeIInv, Recovering, Waking, Never
  <1>8. Rested'
    <2> SUFFICES ASSUME NEW i \in 1..Len(restarts)
                 PROVE  restarts[i] + cooldown >= Cooldown /\ restarts[i] >= Cooldown + FrozenSince
      BY <1>1, <1>2 DEF Rested, Waking
    <2>1. /\ restarts[i] + cooldown >= Cooldown
          /\ degradedFor # Never => restarts[i] >= Cooldown + degradedFor
      BY <1>2 DEF BridgeIInv, Rested
    <2>2. restarts[i] \in Nat
      BY BridgeTyped DEF BridgeIInv
    <2>3. QED
      BY <1>1, <1>3, <2>1, <2>2, BridgeSizes
  <1>9. Cycling'
    BY <1>1, <1>2 DEF Cycling
  <1>10. Chained'
    <2>1. Remaining = IF degradedFor # Never THEN Grace - degradedFor ELSE Grace
      BY <1>1 DEF Remaining
    <2>2. Remaining' = Grace - FrozenSince
      BY <1>1, <1>3 DEF Remaining, Never
    <2>3. Remaining' \in Int /\ Remaining' <= Remaining
      BY <1>3, <2>1, <2>2, BridgeSizes
    <2>4. health = "FAILED" => health' = "FAILED"
      BY <1>1, <1>3, <1>4
    <2>5. QED
      BY <1>1, <2>3, <2>4, ChainKept
  <1>11. Matched' /\ WithinBudget' /\ RestartsApart'
    BY <1>1, <1>2, TimesKept
  <1>12. QED
    BY <1>5, <1>7, <1>8, <1>9, <1>10, <1>11 DEF BridgeIInv

LEMMA RestartReturnsStep == BridgeIInv /\ RestartReturns => BridgeIInv'
  <1> SUFFICES ASSUME BridgeIInv, RestartReturns PROVE BridgeIInv'
    OBVIOUS
  <1>1. UNCHANGED <<frozen, autoRecover, health, recoveryTimes, mission, frozenFor, restarts>>
        /\ step = "restarting" /\ step' = "asleep" /\ spent' = 0
        /\ cooldown' = Cooldown /\ degradedFor' = Never
    BY DEF RestartReturns, RestartReturnsWith
  <1>2. Waking' /\ ~Waking /\ Unmatched' = Unmatched
    BY <1>1 DEF Waking, Unmatched
  <1>3. BridgeTypeOK'
    BY <1>1, BridgeSizes DEF BridgeIInv, BridgeTypeOK, Never
  <1>4. Recovering'
    BY <1>1, <1>2 DEF BridgeIInv, Recovering, Waking, Never
  <1>5. Rested'
    BY <1>1, <1>2, BridgeSizes, BridgeTyped DEF BridgeIInv, Rested, Never
  <1>6. Remaining' \in Int /\ Remaining' <= Remaining
    BY <1>1, BridgeSizes, BridgeTyped DEF BridgeIInv, Recovering, Remaining
  <1>7. Cycling' /\ Chained'
    BY <1>1, <1>2, <1>6, CyclingKept, ChainKept
  <1>8. Matched' /\ WithinBudget' /\ RestartsApart'
    BY <1>1, <1>2, TimesKept
  <1>9. QED
    BY <1>3, <1>4, <1>5, <1>7, <1>8 DEF BridgeIInv


LEMMA StopReturnsStep ==
  ASSUME BridgeIInv, NEW stops \in BOOLEAN, StopReturns(stops)
  PROVE  BridgeIInv'
  <1> DEFINE R == Len(recoveryTimes)
             N == Len(restarts)
  <1>1. UNCHANGED <<frozen, autoRecover, health, degradedFor, cooldown, recoveryTimes, frozenFor>>
        /\ step = "stopping" /\ step' = "restarting" /\ spent' = 0
        /\ restarts' = Append(restarts, 0) /\ mission' \in {"idle", "running"}
    BY DEF StopReturns, BridgeIInv, BridgeTypeOK
  <1>2. ~Waking /\ ~Waking' /\ Unmatched = 1 /\ Unmatched' = 0
    BY <1>1 DEF Waking, Unmatched
  <1>3. R \in Nat /\ N \in Nat
    BY BridgeTyped DEF BridgeIInv
  <1>4. /\ restarts' \in Seq(0..Never) /\ Len(restarts') = N + 1
        /\ \A i \in 1..N : restarts'[i] = restarts[i]
        /\ restarts'[N + 1] = 0
    <2>1. restarts \in Seq(0..Never) /\ 0 \in 0..Never
      BY BridgeSizes DEF BridgeIInv, BridgeTypeOK
    <2>2. QED
      BY <1>1, <2>1, AppendProperties
  <1>5. BridgeTypeOK'
    BY <1>1, <1>4, BridgeSizes DEF BridgeIInv, BridgeTypeOK, Never
  <1>6. Recovering'
    BY <1>1, <1>2, BridgeSizes DEF BridgeIInv, Recovering, Waking, Never
  <1>7. Remaining' \in Int /\ Remaining' <= Remaining
    BY SMTT(30), <1>1, BridgeSizes, BridgeTyped DEF BridgeIInv, Recovering, Remaining
  <1>8. Cycling' /\ Chained'
    BY <1>1, <1>2, <1>7, CyclingKept, ChainKept
  <1>9. R > 0 /\ recoveryTimes[R] \in Nat /\ recoveryTimes[R] <= StopTimeout
    <2>1. R > 0 /\ recoveryTimes[R] + Remaining <= Cycle
      BY <1>2 DEF BridgeIInv, Cycling
    <2>2. R \in 1..R
      BY <1>3, <2>1
    <2>3. recoveryTimes[R] \in Nat
      BY <2>2, BridgeTyped DEF BridgeIInv
    <2>4. spent \in Nat /\ spent <= StopTimeout
      BY <1>1, BridgeTyped DEF BridgeIInv, Recovering
    <2>5. Remaining = (StopTimeout - spent) + RestartTimeout + Cooldown + Grace
      BY <1>1 DEF Remaining
    <2>6. QED
      BY <2>1, <2>3, <2>4, <2>5, BridgeSizes
  <1>10. Matched'
    <2>1. N + 1 <= R
      BY <1>2 DEF BridgeIInv, Matched
    <2>2. ASSUME NEW i \in 1..N + 1
          PROVE  /\ restarts'[i] <= RecoveryWindow - StopTimeout
                 /\ restarts'[i] <= recoveryTimes[i + R - (N + 1)]
                 /\ recoveryTimes[i + R - (N + 1)] <= restarts'[i] + StopTimeout
      <3>1. CASE i = N + 1
        <4>1. i + R - (N + 1) = R /\ restarts'[i] = 0
          BY <1>3, <1>4, <3>1
        <4>2. QED
          BY <1>9, <4>1, BridgeSizes
      <3>2. CASE i \in 1..N
        <4>1. i + R - (N + 1) = i + R - 1 - N /\ restarts'[i] = restarts[i]
          BY <1>3, <1>4, <3>2
        <4>2. QED
          BY <1>2, <3>2, <4>1 DEF BridgeIInv, Matched, Recovery
      <3>3. QED
        BY <1>3, <3>1, <3>2
    <2>3. \A i \in 1..N + 1 : Recovery(i)' = recoveryTimes[i + R - (N + 1)]
      <3>1. \A i \in 1..N + 1 : Recovery(i)' = recoveryTimes[i + R - 0 - (N + 1)]
        BY <1>1, <1>2, <1>4 DEF Recovery
      <3>2. \A i \in 1..N + 1 : i + R - 0 - (N + 1) = i + R - (N + 1)
        BY <1>3
      <3>3. QED
        BY <3>1, <3>2
    <2>4. QED
      BY <1>1, <1>2, <1>4, <2>1, <2>2, <2>3, <1>3 DEF Matched
  <1>11. WithinBudget'
    BY <1>1 DEF BridgeIInv, WithinBudget
  <1>12. Rested'
    BY <1>1, <1>2 DEF Rested
  <1>13. RestartsApart'
    <2>1. DOMAIN restarts' = 1..N + 1 /\ DOMAIN restarts = 1..N
      BY <1>4, LenProperties, BridgeTyped DEF BridgeIInv
    <2>2. ASSUME NEW i \in 1..N + 1, NEW j \in 1..N + 1, i < j
          PROVE  restarts'[i] - restarts'[j] >= Cooldown + Grace
      <3>1. i \in 1..N /\ restarts'[i] = restarts[i] /\ restarts[i] \in Nat
        BY <1>3, <1>4, <2>2, BridgeTyped DEF BridgeIInv
      <3>2. CASE j = N + 1
        <4>1. restarts[i] >= Cooldown + Grace
          BY <1>1, <3>1 DEF BridgeIInv, Rested
        <4>2. QED
          BY <1>4, <3>1, <3>2, <4>1, BridgeSizes
      <3>3. CASE j \in 1..N
        BY <1>4, <2>1, <2>2, <3>1, <3>3 DEF BridgeIInv, RestartsApart
      <3>4. QED
        BY <1>3, <3>2, <3>3
    <2>3. QED
      BY <2>1, <2>2 DEF RestartsApart
  <1>14. QED
    BY <1>5, <1>6, <1>8, <1>10, <1>11, <1>12, <1>13 DEF BridgeIInv

(* The budget is spent: the link is given up.                               *)
LEMMA GivesUpStep ==
  ASSUME BridgeIInv, Recover, Len(Within(recoveryTimes, RecoveryWindow)) >= MaxRecoveries
  PROVE  BridgeIInv'
  <1> DEFINE kept == Within(recoveryTimes, RecoveryWindow)
             R == Len(recoveryTimes)
             N == Len(restarts)
  <1>1. UNCHANGED <<frozen, autoRecover, spent, degradedFor, cooldown, mission, frozenFor, restarts>>
        /\ step = "poll" /\ step' = "asleep" /\ cooldown = 0 /\ frozen /\ autoRecover
        /\ health' = "FAILED" /\ recoveryTimes' = kept /\ FrozenSince >= Grace
    BY DEF Recover
  <1>2. Waking' /\ Waking /\ Unmatched' = 0 /\ Unmatched = 0
    BY <1>1 DEF Waking, Unmatched
  <1>3. degradedFor # Never
    BY <1>1, BridgeSizes DEF FrozenSince
  <1>4. /\ kept \in Seq(0..Never) /\ Len(kept) \in Nat /\ N <= Len(kept)
        /\ \A i \in 1..N : kept[i + Len(kept) - N] = Recovery(i)
        /\ \A i \in 1..Len(kept) : kept[i] <= RecoveryWindow => Len(kept) + 1 - i <= MaxRecoveries
    BY <1>2, PoppingKeeps
  <1> HIDE DEF kept
  <1>5. BridgeTypeOK'
    BY <1>1, <1>3, <1>4 DEF BridgeIInv, BridgeTypeOK, Never
  <1>6. Recovering' /\ Rested'
    BY <1>1, <1>2, <1>3, <1>4 DEF BridgeIInv, Recovering, Rested, Waking, Never
  <1>7. Cycling' /\ Chained'
    BY <1>1, <1>2 DEF Cycling, Chained
  <1>8. Matched'
    <2>1. \A i \in 1..N : Recovery(i)' = Recovery(i)
      <3>1. \A i \in 1..N : Recovery(i)' = kept[i + Len(kept) - 0 - N]
        BY <1>1, <1>2 DEF Recovery
      <3>2. \A i \in 1..N : i + Len(kept) - 0 - N = i + Len(kept) - N
        BY <1>4, BridgeTyped DEF BridgeIInv
      <3>3. QED
        BY <1>4, <3>1, <3>2
    <2>2. QED
      BY <1>1, <1>2, <1>4, <2>1, BridgeTyped DEF BridgeIInv, Matched
  <1>9. WithinBudget'
    BY <1>1, <1>4 DEF WithinBudget
  <1>10. RestartsApart'
    BY <1>1 DEF BridgeIInv, RestartsApart
  <1>11. QED
    BY <1>5, <1>6, <1>7, <1>8, <1>9, <1>10 DEF BridgeIInv

(* Within the budget: the mission is stopped, or the restart begins.        *)
LEMMA RecoversStep ==
  ASSUME BridgeIInv, Recover, ~(Len(Within(recoveryTimes, RecoveryWindow)) >= MaxRecoveries)
  PROVE  BridgeIInv'
  <1> DEFINE kept == Within(recoveryTimes, RecoveryWindow)
             R == Len(recoveryTimes)
             N == Len(restarts)
             K == Len(kept)
  <1>1. /\ UNCHANGED <<frozen, autoRecover, degradedFor, cooldown, mission, frozenFor>>
        /\ step = "poll" /\ cooldown = 0 /\ frozen /\ autoRecover
        /\ FrozenSince >= Grace /\ FrozenState \notin {"RECOVERING", "FAILED"}
        /\ recoveryTimes' = Append(kept, 0) /\ health' = "RECOVERING" /\ spent' = 0
        /\ \/ step' = "stopping" /\ restarts' = restarts
           \/ step' = "restarting" /\ restarts' = Append(restarts, 0)
    BY DEF Recover
  <1>2. Waking /\ ~Waking' /\ Unmatched = 0 /\ Unmatched' = IF step' = "stopping" THEN 1 ELSE 0
    BY <1>1 DEF Waking, Unmatched
  <1>3. degradedFor # Never /\ degradedFor = Grace /\ health # "FAILED"
    <2>1. degradedFor # Never
      BY <1>1, BridgeSizes DEF FrozenSince
    <2>2. QED
      BY <1>1, <2>1, BridgeSizes, BridgeTyped DEF FrozenSince, FrozenState, BridgeIInv
  <1>4. /\ kept \in Seq(0..Never) /\ K \in Nat /\ N <= K /\ N \in Nat /\ R \in Nat /\ K <= R
        /\ \A i \in 1..N : kept[i + K - N] = Recovery(i)
        /\ \A k \in 1..R : recoveryTimes[R + 1 - k] <= RecoveryWindow => k <= K
        /\ \A k \in 1..K : kept[K + 1 - k] = recoveryTimes[R + 1 - k]
    BY <1>2, PoppingKeeps, BridgeTyped DEF BridgeIInv
  <1>5. K < MaxRecoveries
    BY <1>4, BridgeSizes
  <1> HIDE DEF kept
  <1>6. /\ recoveryTimes' \in Seq(0..Never) /\ Len(recoveryTimes') = K + 1
        /\ \A i \in 1..K : recoveryTimes'[i] = kept[i]
        /\ recoveryTimes'[K + 1] = 0
    <2>1. 0 \in 0..Never
      BY BridgeSizes
    <2>2. QED
      BY <1>1, <1>4, <2>1, AppendProperties
  <1>7. /\ restarts' \in Seq(0..Never) /\ Len(restarts') = N + 1 - Unmatched'
        /\ \A i \in 1..N : restarts'[i] = restarts[i] /\ restarts[i] \in Nat
        /\ step' # "stopping" => restarts'[N + 1] = 0
    <2>1. restarts \in Seq(0..Never) /\ 0 \in 0..Never
      BY BridgeSizes DEF BridgeIInv, BridgeTypeOK
    <2>2. \A i \in 1..N : restarts[i] \in Nat
      BY BridgeTyped DEF BridgeIInv
    <2>3. CASE step' = "stopping" /\ restarts' = restarts
      BY <1>2, <1>4, <2>1, <2>2, <2>3
    <2>4. CASE step' = "restarting" /\ restarts' = Append(restarts, 0)
      BY <1>2, <1>4, <2>1, <2>2, <2>4, AppendProperties
    <2>5. QED
      BY <1>1, <2>3, <2>4
  <1>8. BridgeTypeOK'
    BY <1>1, <1>3, <1>6, <1>7, BridgeSizes DEF BridgeIInv, BridgeTypeOK, Never
  <1>9. Recovering'
    BY <1>1, <1>2, BridgeSizes DEF BridgeIInv, Recovering, Waking, Never
  <1>10. Remaining' \in Nat /\ Remaining' <= Cycle
    BY <1>1, BridgeSizes DEF Remaining
  <1>11. Cycling'
    <2>1. Len(recoveryTimes') > 0 /\ recoveryTimes'[Len(recoveryTimes')] = 0
      BY <1>4, <1>6
    <2>2. Cycle' = Cycle
      BY DEF Cycle
    <2>3. QED
      BY <1>10, <2>1, <2>2 DEF Cycling
  <1>12. Matched'
    <2>1. N + 1 - Unmatched' + Unmatched' <= K + 1
      BY <1>2, <1>4
    <2>2. \A i \in 1..N + 1 : Recovery(i)' = recoveryTimes'[i + K - N]
      <3>1. \A i \in 1..N + 1 : Recovery(i)' = recoveryTimes'[i + (K + 1) - Unmatched' - (N + 1 - Unmatched')]
        BY <1>6, <1>7 DEF Recovery
      <3>2. \A i \in 1..N + 1 : i + (K + 1) - Unmatched' - (N + 1 - Unmatched') = i + K - N
        BY <1>2, <1>4
      <3>3. QED
        BY <3>1, <3>2
    <2>3. ASSUME NEW i \in 1..N
          PROVE  /\ restarts'[i] <= RecoveryWindow - StopTimeout
                 /\ restarts'[i] <= Recovery(i)' /\ Recovery(i)' <= restarts'[i] + StopTimeout
      <3>1. i + K - N \in 1..K /\ i \in 1..N + 1
        BY <1>4
      <3>2. Recovery(i)' = Recovery(i)
        BY <1>4, <1>6, <2>2, <3>1
      <3>3. QED
        BY <1>7, <3>2 DEF BridgeIInv, Matched
    <2>4. ASSUME NEW i \in 1..N + 1, i = N + 1, step' # "stopping"
          PROVE  /\ restarts'[i] <= RecoveryWindow - StopTimeout
                 /\ restarts'[i] <= Recovery(i)' /\ Recovery(i)' <= restarts'[i] + StopTimeout
      <3>1. i + K - N = K + 1 /\ restarts'[i] = 0
        BY <1>4, <1>7, <2>4
      <3>2. Recovery(i)' = recoveryTimes'[i + K - N]
        BY <2>2
      <3>3. Recovery(i)' = 0
        BY <1>6, <3>1, <3>2
      <3>4. QED
        BY <3>1, <3>3, BridgeSizes
    <2>5. \A i \in 1..Len(restarts') : i \in 1..N \/ (i = N + 1 /\ step' # "stopping")
      BY <1>2, <1>4, <1>7
    <2>6. \A i \in 1..Len(restarts') :
            /\ restarts'[i] <= RecoveryWindow - StopTimeout
            /\ restarts'[i] <= Recovery(i)' /\ Recovery(i)' <= restarts'[i] + StopTimeout
      <3>1. TAKE i \in 1..Len(restarts')
      <3>2. CASE i \in 1..N
        BY <2>3, <3>2
      <3>3. CASE i = N + 1 /\ step' # "stopping"
        BY <1>4, <2>4, <3>3
      <3>4. QED
        BY <2>5, <3>1, <3>2, <3>3
    <2>7. QED
      BY <1>6, <1>7, <2>1, <2>6 DEF Matched
  <1>13. WithinBudget'
    <2>1. \A i \in 1..K + 1 : (K + 1) + 1 - i <= MaxRecoveries
      BY <1>4, <1>5, BridgeSizes
    <2>2. QED
      BY <1>6, <2>1 DEF WithinBudget
  <1>14. \A i \in 1..N : restarts[i] >= Cooldown + Grace
    BY <1>2, <1>3 DEF BridgeIInv, Rested
  <1>15. Rested'
    <2>1. \A i \in 1..Len(restarts') : step' = "stopping" => restarts'[i] >= Cooldown + Grace
      BY <1>2, <1>4, <1>7, <1>14
    <2>2. QED
      BY <1>2, <2>1 DEF Rested
  <1>16. RestartsApart'
    <2>1. DOMAIN restarts' = 1..Len(restarts') /\ DOMAIN restarts = 1..N
      BY <1>7, LenProperties, BridgeTyped DEF BridgeIInv
    <2>2. ASSUME NEW i \in 1..Len(restarts'), NEW j \in 1..Len(restarts'), i < j
          PROVE  restarts'[i] - restarts'[j] >= Cooldown + Grace
      <3>1. i \in 1..N /\ restarts'[i] = restarts[i] /\ restarts[i] \in Nat
        BY <1>2, <1>4, <1>7, <2>2
      <3>2. CASE j \in 1..N
        BY <1>7, <2>1, <2>2, <3>1, <3>2 DEF BridgeIInv, RestartsApart
      <3>3. CASE j \notin 1..N
        <4>1. restarts'[j] = 0
          BY <1>2, <1>4, <1>7, <3>3
        <4>2. QED
          BY <1>14, <3>1, <4>1, BridgeSizes
      <3>4. QED
        BY <3>2, <3>3
    <2>3. QED
      BY <2>1, <2>2 DEF RestartsApart
  <1>17. Chained'
    <2>1. PICK n \in Nat : ChainOf(n)
      BY <1>1, <1>3 DEF BridgeIInv, Chained
    <2>2. Remaining = 0 /\ frozenFor \in Nat
      BY <1>1, <1>3, BridgeSizes, BridgeTyped DEF Remaining, BridgeIInv
    <2>3. n <= MaxRecoveries /\ n <= R /\ frozenFor <= Spans(n) + Grace + 1
      BY <2>1, <2>2, BridgeSizes DEF ChainOf
    <2>4. \A k \in 1..n : recoveryTimes[R + 1 - k] <= Spans(k)
      <3>1. \A k \in 1..n : R + 1 - k \in 1..R
        BY <1>4, <2>3
      <3>2. \A k \in 1..n : recoveryTimes[R + 1 - k] \in Nat
        BY <3>1, BridgeTyped DEF BridgeIInv
      <3>3. \A k \in 1..n : recoveryTimes[R + 1 - k] + 0 <= Spans(k)
        BY <2>1, <2>2 DEF ChainOf
      <3>4. QED
        BY <3>2, <3>3
    <2>5. n <= K
      <3>1. CASE n = 0
        BY <1>4, <3>1
      <3>2. CASE n > 0
        <4>1. n \in 1..n /\ n \in 1..R /\ n \in 0..MaxRecoveries
          BY <1>4, <2>3, <3>2, BridgeSizes
        <4>2. Spans(n) <= RecoveryWindow /\ Spans(n) \in Nat /\ recoveryTimes[R + 1 - n] <= Spans(n)
          BY <4>1, <2>4, Spanning
        <4>3. R + 1 - n \in 1..R
          BY <1>4, <4>1
        <4>4. recoveryTimes[R + 1 - n] \in Nat
          BY <4>3, BridgeTyped DEF BridgeIInv
        <4>5. recoveryTimes[R + 1 - n] <= RecoveryWindow
          BY <4>2, <4>4, BridgeSizes
        <4>6. QED
          BY <1>4, <4>1, <4>5
      <3>3. QED
        BY <3>1, <3>2
    <2>6. Spans(n + 1) = Spans(n) + Cycle /\ Spans(n) \in Nat
      BY Spanning
    <2>7. frozenFor' + Remaining' <= Spans(n + 1) + Grace + 1
      <3>1. frozenFor' = frozenFor /\ frozenFor \in Nat /\ frozenFor <= Spans(n) + Grace + 1
        BY <1>1, <2>2, <2>3
      <3>2. Grace \in Nat /\ Cycle \in Nat
        BY BridgeSizes
      <3>3. QED
        BY <1>10, <2>6, <3>1, <3>2
    <2>8. ASSUME NEW k \in 1..n + 1
          PROVE  recoveryTimes'[Len(recoveryTimes') + 1 - k] + Remaining' <= Spans(k)
      <3>1. CASE k = 1
        <4>1. recoveryTimes'[Len(recoveryTimes') + 1 - k] = 0 /\ Spans(k) = Cycle
          BY <1>4, <1>6, <3>1, Spanning
        <4>2. QED
          BY <1>10, <4>1
      <3>2. CASE k > 1
        <4>1. k - 1 \in 1..n /\ k - 1 \in 1..K /\ (k - 1) + 1 = k
              /\ K + 1 - (k - 1) = (K + 1) + 1 - k /\ K + 1 - (k - 1) \in 1..K
          BY <1>4, <2>5, <3>2
        <4>2. recoveryTimes'[Len(recoveryTimes') + 1 - k] = recoveryTimes[R + 1 - (k - 1)]
          BY <1>4, <1>6, <4>1
        <4>3. recoveryTimes[R + 1 - (k - 1)] <= Spans(k - 1)
          BY <2>4, <4>1
        <4>4. Spans(k) = Spans(k - 1) + Cycle /\ Spans(k - 1) \in Nat
          <5>1. k - 1 \in Nat
            BY <4>1
          <5>2. Spans((k - 1) + 1) = Spans(k - 1) + Cycle /\ Spans(k - 1) \in Nat
            BY <5>1, Spanning
          <5>3. QED
            BY <4>1, <5>2
        <4>5. R + 1 - (k - 1) \in 1..R
          BY <1>4, <4>1
        <4>6. recoveryTimes[R + 1 - (k - 1)] \in Nat
          BY <4>5, BridgeTyped DEF BridgeIInv
        <4>7. QED
          BY <1>10, <4>2, <4>3, <4>4, <4>6, BridgeSizes
      <3>3. QED
        BY <3>1, <3>2
    <2>9. n + 1 <= MaxRecoveries /\ n + 1 <= Len(recoveryTimes') /\ n + 1 \in Nat
      BY <1>4, <1>5, <1>6, <2>5, BridgeSizes
    <2>10. ChainOf(n + 1)'
      BY <2>7, <2>8, <2>9 DEF ChainOf, Spans, Cycle
    <2>11. QED
      BY <2>9, <2>10 DEF Chained
  <1>18. QED
    BY <1>8, <1>9, <1>11, <1>12, <1>13, <1>15, <1>16, <1>17 DEF BridgeIInv

LEMMA RemainingElapses ==
  ASSUME BridgeIInv, BridgeElapse
  PROVE  /\ Remaining' \in Int
         /\ ~Waking \/ cooldown > 0 \/ (autoRecover /\ health # "FAILED")
              => Remaining' <= Remaining - 1
  <1> USE BridgeSizes DEF BridgeIInv
  <1>1. /\ spent \in Nat /\ cooldown \in Nat
        /\ degradedFor # Never => degradedFor \in Nat /\ degradedFor <= Grace
    BY BridgeTyped
  <1>2. CASE step = "stopping" \/ step = "restarting"
    BY <1>1, <1>2 DEF BridgeElapse, Remaining, Waking
  <1>3. CASE step = "asleep" /\ cooldown > 0
    <2>1. step' = "poll" /\ cooldown' = cooldown - 1 /\ degradedFor' = Never /\ Never' = Never
      BY <1>3 DEF BridgeElapse, Recovering, Never
    <2>2. QED
      BY <1>1, <1>3, <2>1 DEF Remaining
  <1>4. CASE step = "asleep" /\ cooldown = 0
    <2>1. step' = "poll" /\ cooldown' = 0 /\ Never' = Never
      BY <1>4 DEF BridgeElapse, Never
    <2>2. CASE degradedFor = Never
      <3>1. degradedFor' = Never
        BY <2>2 DEF BridgeElapse
      <3>2. QED
        BY <1>1, <1>4, <2>1, <2>2, <3>1 DEF Remaining, Waking
    <2>3. CASE degradedFor # Never
      <3>1. degradedFor' = IF degradedFor < Grace THEN degradedFor + 1 ELSE degradedFor
        BY <2>3 DEF BridgeElapse, Aged
      <3>2. degradedFor' \in Nat /\ degradedFor' <= Grace /\ degradedFor' # Never
        BY <1>1, <2>3, <3>1
      <3>3. autoRecover /\ health # "FAILED" => degradedFor < Grace
        BY <1>4, <2>3 DEF Recovering
      <3>4. QED
        BY <1>1, <1>4, <2>1, <2>3, <3>1, <3>2, <3>3 DEF Remaining, Waking
    <2>4. QED
      BY <2>2, <2>3
  <1>5. QED
    BY <1>1, <1>2, <1>3, <1>4 DEF BridgeElapse, BridgeTypeOK

LEMMA BridgeElapseStep ==
  ASSUME BridgeIInv, BridgeElapse
  PROVE  BridgeIInv'
  <1> DEFINE R == Len(recoveryTimes)
             N == Len(restarts)
             window == RecoveryWindow - StopTimeout
  <1>1. /\ UNCHANGED <<frozen, autoRecover, health, mission>>
        /\ step # "poll"
        /\ step = "stopping" => spent < StopTimeout
        /\ step = "restarting" => spent < RestartTimeout
        /\ IF step = "asleep" THEN step' = "poll" /\ spent' = spent
                              ELSE step' = step /\ spent' = spent + 1
        /\ cooldown' = IF cooldown > 0 THEN cooldown - 1 ELSE 0
        /\ degradedFor' = IF degradedFor = Never THEN Never ELSE Aged(degradedFor, Grace)
        /\ recoveryTimes' = AgedAll(recoveryTimes)
        /\ restarts' = Within(AgedAll(restarts), window)
        /\ frozenFor' = IF frozen THEN Aged(frozenFor, GiveUpBound + 1) ELSE 0
    BY DEF BridgeElapse
  <1>2. (Waking' <=> Waking) /\ Unmatched' = Unmatched /\ Unmatched \in {0, 1}
    BY <1>1 DEF Waking, Unmatched
  <1>3. /\ spent \in Nat /\ cooldown \in Nat /\ frozenFor \in Nat /\ R \in Nat /\ N \in Nat
        /\ degradedFor # Never => degradedFor \in Nat /\ degradedFor <= Grace
        /\ \A i \in 1..N : restarts[i] \in Nat
        /\ \A i \in 1..R : recoveryTimes[i] \in Nat
        /\ window \in Int /\ DOMAIN restarts = 1..N
    BY BridgeTyped, BridgeSizes DEF BridgeIInv
  <1>4. recoveryTimes' \in Seq(0..Never) /\ Len(recoveryTimes') = R
        /\ \A i \in 1..R :
             recoveryTimes'[i] = IF recoveryTimes[i] < Never THEN recoveryTimes[i] + 1
                                                             ELSE recoveryTimes[i]
    BY <1>1, AgesGrow DEF BridgeIInv, BridgeTypeOK
  <1>5. PICK e \in 0..N :
           /\ restarts' \in Seq(0..Never) /\ Len(restarts') = N - e
           /\ \A i \in 1..N - e : restarts'[i] = restarts[i + e] + 1
           /\ e < N => restarts[e + 1] + 1 <= window
    <2> DEFINE aged == AgedAll(restarts)
    <2>1. /\ aged \in Seq(0..Never) /\ Len(aged) = N
          /\ \A i \in 1..N : aged[i] = IF restarts[i] < Never THEN restarts[i] + 1 ELSE restarts[i]
      BY AgesGrow DEF BridgeIInv, BridgeTypeOK
    <2>2. \A i \in 1..N : restarts[i] < Never
      BY <1>3, BridgeSizes DEF BridgeIInv, Matched
    <2>3. \A i \in 1..N : aged[i] = restarts[i] + 1
      BY <2>1, <2>2
    <2> HIDE DEF aged
    <2>4. window \in Nat
      BY BridgeSizes
    <2>5. PICK e \in 0..Len(aged) :
             /\ Popped(aged, window, e)
             /\ Within(aged, window) \in Seq(0..Never)
             /\ Len(Within(aged, window)) = Len(aged) - e
             /\ \A i \in 1..Len(aged) - e : Within(aged, window)[i] = aged[i + e]
      <3> HIDE DEF window
      <3> QED
        BY <2>1, <2>4, WithinPops
    <2>6. /\ e \in 0..N /\ Len(Within(aged, window)) = N - e
          /\ \A i \in 1..N - e : Within(aged, window)[i] = aged[i + e]
      <3>1. Len(aged) = N
        BY <2>1
      <3>2. QED
        BY <2>5, <3>1
    <2>7. restarts' = Within(aged, window)
      BY <1>1 DEF aged
    <2>8. \A i \in 1..N - e : i + e \in 1..N
      BY <1>3, <2>6
    <2>9. \A i \in 1..N - e : restarts'[i] = restarts[i + e] + 1
      BY <2>3, <2>6, <2>7, <2>8
    <2>10. e < N => restarts[e + 1] + 1 <= window
      <3>1. e < N => e + 1 \in 1..N /\ e < Len(aged)
        BY <1>3, <2>1, <2>6
      <3>2. QED
        BY <2>3, <2>5, <3>1 DEF Popped
    <2>11. QED
      BY <2>5, <2>6, <2>7, <2>9, <2>10
  <1>6. e \in Nat /\ e <= N
    BY <1>3
  <1>7. \A i \in 1..N - e : i + e \in 1..N
    BY <1>3, <1>6
  <1>8. DOMAIN restarts' = 1..N - e
    BY <1>5, LenProperties
  <1>9. RestartsApart'
    <2> SUFFICES ASSUME NEW i \in 1..N - e, NEW j \in 1..N - e, i < j
                 PROVE  restarts'[i] - restarts'[j] >= Cooldown + Grace
      BY <1>8 DEF RestartsApart
    <2>1. i + e \in 1..N /\ j + e \in 1..N /\ i + e < j + e
      BY <1>6, <1>7
    <2>2. restarts[i + e] - restarts[j + e] >= Cooldown + Grace
      BY <1>3, <2>1 DEF BridgeIInv, RestartsApart
    <2>3. QED
      BY <1>3, <1>5, <2>1, <2>2, BridgeSizes
  <1>10. ASSUME NEW i \in 1..N - e PROVE restarts'[i] <= window
    <2>1. 1 \in 1..N - e /\ 1 + e \in 1..N /\ e < N /\ 1 + e = e + 1
      BY <1>3, <1>6
    <2>2. restarts'[1] <= window /\ restarts'[1] \in Int
      BY <1>3, <1>5, <2>1
    <2>3. i = 1 \/ i > 1
      BY <1>3, <1>6
    <2>4. CASE i > 1
      <3>1. restarts'[1] - restarts'[i] >= Cooldown + Grace
        BY <1>8, <1>9, <2>1, <2>4 DEF RestartsApart
      <3>2. restarts'[i] \in Int
        BY <1>3, <1>5, <1>7
      <3>3. QED
        BY <1>3, <2>2, <3>1, <3>2, BridgeSizes
    <2>5. QED
      BY <2>2, <2>3, <2>4
  <1>11. BridgeTypeOK'
    <2>1. degradedFor' \in 0..Grace \cup {Never} /\ (degradedFor = Never => degradedFor' = Never)
      BY <1>1, <1>3, BridgeSizes DEF Aged
    <2>2. cooldown' \in 0..Cooldown
      BY <1>1, <1>3, BridgeSizes DEF BridgeIInv, BridgeTypeOK
    <2>3. spent' \in 0..StopTimeout + RestartTimeout /\ step' \in {"asleep", "poll", "stopping", "restarting"}
      BY <1>1, <1>3, BridgeSizes DEF BridgeIInv, BridgeTypeOK
    <2>4. frozenFor' \in 0..GiveUpBound + 1
      BY <1>1, <1>3, BridgeSizes DEF BridgeIInv, BridgeTypeOK, Aged
    <2>5. QED
      BY <1>1, <1>4, <1>5, <2>1, <2>2, <2>3, <2>4 DEF BridgeIInv, BridgeTypeOK, Never, GiveUpBound, Cycle
  <1>12. Recovering'
    <2>1. /\ step' = "stopping" => spent' <= StopTimeout
          /\ step' = "restarting" => spent' <= RestartTimeout
      BY <1>1, <1>3, BridgeSizes
    <2>2. cooldown' > 0 => cooldown > 0
      BY <1>1, <1>3
    <2>3. degradedFor' = Never <=> degradedFor = Never
      BY <1>1, <1>3, BridgeSizes DEF Aged
    <2>4. step' # "asleep"
      BY <1>1
    <2>5. QED
      BY <1>1, <1>2, <2>1, <2>2, <2>3, <2>4 DEF BridgeIInv, Recovering, Never
  <1>13. Rested'
    <2> SUFFICES ASSUME NEW i \in 1..N - e
                 PROVE  /\ Waking => restarts'[i] + cooldown' >= Cooldown
                        /\ Waking /\ degradedFor' # Never => restarts'[i] >= Cooldown + degradedFor'
                        /\ step = "stopping" => restarts'[i] >= Cooldown + Grace
      BY <1>1, <1>2, <1>5 DEF Rested, Never
    <2>1. i + e \in 1..N /\ restarts[i + e] \in Nat /\ restarts'[i] = restarts[i + e] + 1
      BY <1>3, <1>5, <1>7
    <2>2. /\ Waking => restarts[i + e] + cooldown >= Cooldown
          /\ Waking /\ degradedFor # Never => restarts[i + e] >= Cooldown + degradedFor
          /\ step = "stopping" => restarts[i + e] >= Cooldown + Grace
      BY <2>1 DEF BridgeIInv, Rested
    <2>3. degradedFor' # Never => degradedFor # Never /\ degradedFor' <= degradedFor + 1
                                  /\ degradedFor' \in Int
      BY <1>1, <1>3, BridgeSizes DEF Aged
    <2>4. Waking => restarts'[i] + cooldown' >= Cooldown
      BY SMTT(30), <1>1, <1>3, <2>1, <2>2, BridgeSizes
    <2>5. Waking /\ degradedFor' # Never => restarts'[i] >= Cooldown + degradedFor'
      BY SMTT(30), <1>3, <2>1, <2>2, <2>3, BridgeSizes
    <2>6. step = "stopping" => restarts'[i] >= Cooldown + Grace
      BY <2>1, <2>2, BridgeSizes
    <2>7. QED
      BY <2>4, <2>5, <2>6
  <1>14. \A i \in 1..R : recoveryTimes'[i] \in Nat /\ recoveryTimes'[i] <= recoveryTimes[i] + 1
                         /\ recoveryTimes'[i] >= recoveryTimes[i]
    BY <1>3, <1>4
  <1>15. Cycling'
    <2> SUFFICES ASSUME ~Waking \/ cooldown' > 0
                 PROVE  R > 0 /\ recoveryTimes'[R] + Remaining' <= Cycle
      BY <1>2, <1>4 DEF Cycling, Cycle
    <2>1. ~Waking \/ cooldown > 0
      BY <1>1, <1>3
    <2>2. R > 0 /\ recoveryTimes[R] + Remaining <= Cycle
      BY <2>1 DEF BridgeIInv, Cycling
    <2>3. Remaining' \in Int /\ Remaining' <= Remaining - 1 /\ Remaining \in Int
      BY <2>1, RemainingElapses, BridgeTyped DEF BridgeIInv
    <2>4. R \in 1..R
      BY <1>3, <2>2
    <2>5. QED
      BY SMTT(30), <1>3, <1>14, <2>2, <2>3, <2>4, BridgeSizes
  <1>16. Chained'
    <2> SUFFICES ASSUME autoRecover, frozen, health # "FAILED"
                 PROVE  \E n \in Nat : ChainOf(n)'
      BY <1>1 DEF Chained
    <2>1. PICK n \in Nat : ChainOf(n)
      BY DEF BridgeIInv, Chained
    <2>2. Remaining' \in Int /\ Remaining' <= Remaining - 1 /\ Remaining \in Int
      BY RemainingElapses, BridgeTyped DEF BridgeIInv
    <2>3. frozenFor' \in Nat /\ frozenFor' <= frozenFor + 1
      BY <1>1, <1>3, BridgeSizes DEF Aged
    <2>4. frozenFor' + Remaining' <= Spans(n) + Grace + 1
      <3>1. frozenFor + Remaining <= Spans(n) + Grace + 1 /\ Spans(n) \in Nat
        BY <2>1, Spanning DEF ChainOf
      <3>2. QED
        BY SMTT(30), <1>3, <2>2, <2>3, <3>1, BridgeSizes
    <2>5. n <= MaxRecoveries /\ n <= R
      BY <2>1 DEF ChainOf
    <2>6. ASSUME NEW k \in 1..n PROVE recoveryTimes'[R + 1 - k] + Remaining' <= Spans(k)
      <3>1. R + 1 - k \in 1..R
        BY <1>3, <2>5
      <3>2. recoveryTimes[R + 1 - k] + Remaining <= Spans(k)
        BY <2>1 DEF ChainOf
      <3>3. k \in Nat /\ Spans(k) \in Nat
        <4>1. k \in Nat
          BY <3>1
        <4>2. QED
          BY <4>1, Spanning
      <3>4. QED
        BY SMTT(30), <1>3, <1>14, <2>2, <3>1, <3>2, <3>3
    <2>7. ChainOf(n)'
      BY <1>4, <2>4, <2>5, <2>6 DEF ChainOf, Spans, Cycle
    <2>8. QED
      BY <2>7
  <1>17. Matched'
    <2>1. N + Unmatched <= R
      BY DEF BridgeIInv, Matched
    <2>2. (N - e) + Unmatched <= R
      BY <1>2, <1>3, <1>6, <2>1
    <2>3. \A i \in 1..N - e : Recovery(i)' = recoveryTimes'[(i + e) + R - Unmatched - N]
      <3>1. \A i \in 1..N - e : Recovery(i)' = recoveryTimes'[i + R - Unmatched - (N - e)]
        BY <1>2, <1>4, <1>5 DEF Recovery
      <3>2. \A i \in 1..N - e : i + R - Unmatched - (N - e) = (i + e) + R - Unmatched - N
        BY <1>2, <1>3, <1>6
      <3>3. QED
        BY <3>1, <3>2
    <2>4. ASSUME NEW i \in 1..N - e
          PROVE  /\ restarts'[i] <= window
                 /\ restarts'[i] <= Recovery(i)' /\ Recovery(i)' <= restarts'[i] + StopTimeout
      <3>1. i + e \in 1..N /\ (i + e) + R - Unmatched - N \in 1..R
        BY <1>2, <1>3, <1>6, <1>7, <2>1
      <3>2. /\ restarts[i + e] <= window
            /\ restarts[i + e] <= Recovery(i + e) /\ Recovery(i + e) <= restarts[i + e] + StopTimeout
        BY <3>1 DEF BridgeIInv, Matched
      <3>3. Recovery(i + e) = recoveryTimes[(i + e) + R - Unmatched - N]
        BY DEF Recovery
      <3>4. Recovery(i + e) \in Nat /\ restarts[i + e] \in Nat
        BY <1>3, <3>1, <3>3
      <3>5. Recovery(i + e) < Never
        BY <1>3, <3>2, <3>4, BridgeSizes
      <3>6. Recovery(i)' = Recovery(i + e) + 1
        BY <1>4, <2>3, <3>1, <3>3, <3>5
      <3>7. restarts'[i] = restarts[i + e] + 1
        BY <1>5
      <3>8. QED
        BY <1>10, <3>2, <3>4, <3>6, <3>7, BridgeSizes
    <2>5. QED
      BY <1>2, <1>4, <1>5, <2>2, <2>4 DEF Matched
  <1>18. WithinBudget'
    <2> SUFFICES ASSUME NEW i \in 1..R, recoveryTimes'[i] <= RecoveryWindow
                 PROVE  R + 1 - i <= MaxRecoveries
      BY <1>4 DEF WithinBudget
    <2>1. recoveryTimes[i] <= RecoveryWindow
      BY <1>3, <1>14, BridgeSizes
    <2>2. QED
      BY <2>1 DEF BridgeIInv, WithinBudget
  <1>19. QED
    BY <1>9, <1>11, <1>12, <1>13, <1>15, <1>16, <1>17, <1>18 DEF BridgeIInv

LEMMA BridgeStep == BridgeIInv /\ [BridgeNext]_bridgeVars => BridgeIInv'
  <1> SUFFICES ASSUME BridgeIInv, [BridgeNext]_bridgeVars PROVE BridgeIInv'
    OBVIOUS
  <1>1. CASE Link
    BY <1>1, LinkStep
  <1>2. CASE StartMission
    BY <1>2, StartMissionStep
  <1>3. CASE TickCooling
    BY <1>3, TickCoolingStep
  <1>4. CASE TickHealthy
    BY <1>4, TickHealthyStep
  <1>5. CASE TickFrozen
    BY <1>5, TickFrozenStep
  <1>6. CASE Recover
    BY <1>6, GivesUpStep, RecoversStep
  <1>7. ASSUME NEW stops \in BOOLEAN, StopReturns(stops) PROVE BridgeIInv'
    BY <1>7, StopReturnsStep
  <1>8. CASE RestartReturns
    BY <1>8, RestartReturnsStep
  <1>9. CASE BridgeElapse
    BY <1>9, BridgeElapseStep
  <1>10. CASE UNCHANGED bridgeVars
    <2>1. UNCHANGED <<frozen, autoRecover, step, spent, health, degradedFor, cooldown,
                      recoveryTimes, mission, frozenFor, restarts>>
      BY <1>10 DEF bridgeVars
    <2>2. Remaining' = Remaining /\ Waking' = Waking /\ Unmatched' = Unmatched
      BY <2>1 DEF Remaining, Waking, Unmatched, Never
    <2>3. Remaining' \in Int /\ Remaining' <= Remaining
      BY <2>2, BridgeTyped DEF BridgeIInv
    <2>4. BridgeTypeOK' /\ Recovering' /\ Rested'
      BY <2>1 DEF BridgeIInv, BridgeTypeOK, Recovering, Rested, Waking, Never, GiveUpBound, Cycle
    <2>5. Cycling' /\ Chained' /\ Matched' /\ WithinBudget' /\ RestartsApart'
      BY <2>1, <2>2, <2>3, CyclingKept, ChainKept, TimesKept
    <2>6. QED
      BY <2>4, <2>5 DEF BridgeIInv
  <1>11. QED
    BY <1>1, <1>2, <1>3, <1>4, <1>5, <1>6, <1>7, <1>8, <1>9, <1>10 DEF BridgeNext

LEMMA BridgeSafe == BridgeIInv => BridgeTypeOK /\ RecoveryBounded
  <1> SUFFICES ASSUME BridgeIInv PROVE BridgeTypeOK /\ RecoveryBounded
    OBVIOUS
  <1> DEFINE R == Len(recoveryTimes)
             N == Len(restarts)
  <1>1. /\ R \in Nat /\ N \in Nat /\ frozenFor \in Nat /\ Remaining \in Int
        /\ \A i \in 1..R : recoveryTimes[i] \in Nat
        /\ \A i \in 1..N : restarts[i] \in Nat
    BY BridgeTyped DEF BridgeIInv
  <1>2. BudgetHolds
    <2>1. CASE N = 0
      BY <2>1, BridgeSizes DEF BudgetHolds
    <2>2. CASE N > 0
      <3>1. Unmatched \in {0, 1} /\ N + Unmatched <= R
        BY DEF Unmatched, BridgeIInv, Matched
      <3>2. 1 \in 1..N /\ 1 + R - Unmatched - N \in 1..R
        BY <1>1, <2>2, <3>1
      <3>3. restarts[1] <= RecoveryWindow - StopTimeout /\ Recovery(1) <= restarts[1] + StopTimeout
        BY <3>2 DEF BridgeIInv, Matched
      <3>4. Recovery(1) = recoveryTimes[1 + R - Unmatched - N]
        BY DEF Recovery
      <3>5. recoveryTimes[1 + R - Unmatched - N] <= RecoveryWindow
        BY <1>1, <3>2, <3>3, <3>4, BridgeSizes
      <3>6. R + 1 - (1 + R - Unmatched - N) <= MaxRecoveries
        BY <3>2, <3>5 DEF BridgeIInv, WithinBudget
      <3>7. QED
        BY <1>1, <3>1, <3>6, BridgeSizes DEF BudgetHolds
    <2>3. QED
      BY <1>1, <2>1, <2>2
  <1>3. GivesUp
    <2> SUFFICES ASSUME autoRecover, frozenFor > GiveUpBound, health # "FAILED"
                 PROVE  FALSE
      BY DEF GivesUp
    <2>1. frozen
      BY <1>1, BridgeSizes DEF BridgeIInv, Recovering
    <2>2. PICK n \in Nat : ChainOf(n)
      BY <2>1 DEF BridgeIInv, Chained
    <2>3. n \in 0..MaxRecoveries /\ frozenFor + Remaining <= Spans(n) + Grace + 1
      BY <2>2, BridgeSizes DEF ChainOf
    <2>4. Spans(n) <= Spans(MaxRecoveries) /\ Spans(n) \in Nat /\ Spans(MaxRecoveries) \in Nat
      BY <2>3, Spanning, BridgeSizes
    <2>5. Remaining >= 0
      BY RemainingBounds DEF BridgeIInv
    <2>6. QED
      BY <1>1, <2>3, <2>4, <2>5, BridgeSizes
  <1>4. QED
    BY <1>2, <1>3 DEF BridgeIInv, RecoveryBounded

(* The window never holds more restarts than the budget, two of them are a  *)
(* cooldown and a grace apart, and a link that stays frozen is given up:    *)
(* for every setting whose budget lasts for the window.                     *)
THEOREM RecoveryAlwaysBounded == BridgeSpec => [](BridgeTypeOK /\ RecoveryBounded)
  BY BridgeInitial, BridgeStep, BridgeSafe, PTL DEF BridgeSpec

-----------------------------------------------------------------------------
(* The shell that supervises the nodes, for any nodes in any order and any  *)
(* windows and back-offs.                                                   *)

(* The delays of a round up to a position, and the most that passes before  *)
(* the loop has served the node at a position.                              *)
Laps(i) == Cardinality({j \in 1..i : Order[j] \in Critical})
Round   == Laps(Len(Order))
Done(doing, at_) == IF doing = "restart" THEN Laps(at_) ELSE Laps(at_ - 1)
Left(doing, at_, p) ==
  IF doing = "sleep" THEN 1 + Laps(p)
  ELSE IF at_ <= p THEN Laps(p) - Done(doing, at_)
  ELSE Round - Done(doing, at_) + 1 + Laps(p)

Supervising == shell \in {"sleep", "scan", "delay", "restart"} /\ ~signal

(* Where the loop is, and whom it waits for. *)
Placed ==
  /\ turn \in Nat /\ turn <= Len(Order)
  /\ Supervising => (shell = "sleep" <=> turn = 0)
  /\ Supervising /\ shell \in {"delay", "restart"} => Order[turn] \in Critical \ alive
  /\ \A n \in alive \cup Critical : due[n] = Unscheduled

(* Time that a dead node has waited and may still wait.                     *)
Awaited(n, p) ==
  IF n \in Critical \/ due[n] = Unscheduled
  THEN down[n] + Left(shell, turn, p) <= Round + 1
  ELSE down[n] + (IF due[n] = 0 THEN Left(shell, turn, p) ELSE due[n] + Round)
         <= BackoffCap + 2 * Round + 1
Served == Supervising => \A p \in 1..Len(Order) : Order[p] \notin alive => Awaited(Order[p], p)

(* The recorded failures, and the critical nodes that are dead but not      *)
(* recorded yet, are deaths of critical nodes.                              *)
Unrecorded == Cardinality(Critical \ alive) - (IF shell \in {"delay", "restart"} THEN 1 ELSE 0)
Recording ==
  /\ Supervising => Len(failAges) < MaxFails
  /\ Supervising => deaths >= MaxFails \/ Len(failAges) + Unrecorded <= deaths
  /\ shell \in {"failing", "fail_cleanup", "fail_killing", "failed"} => deaths >= MaxFails

(* How far a shutdown has come, and how long it has taken so far. *)
Ending ==
  /\ ~signal => pending = 0
  /\ signal => shell \in {"sleep", "scan", "delay", "restart", "cleanup", "killing", "stopped"}
  /\ signal /\ shell \in {"sleep", "delay"} => pending = 0
  /\ signal /\ shell \in {"scan", "restart", "cleanup"} => pending <= 1
  /\ pending <= 2
  /\ shell = "stopped" => alive = {}

SupervisorIInv == SupervisorTypeOK /\ Placed /\ Served /\ Recording /\ Ending

-----------------------------------------------------------------------------
(* The constants and the operators. *)

LEMMA SupervisorSizes ==
  /\ Len(Order) \in Nat /\ 0 < Len(Order) /\ DOMAIN Order = 1..Len(Order)
  /\ \A i \in 1..Len(Order) : Order[i] \in Nodes
  /\ FailWindow \in Nat /\ MaxFails \in Nat /\ 0 < MaxFails
  /\ BackoffCap \in Nat /\ 0 < BackoffCap /\ ResetAfter \in Nat /\ MaxCount \in Nat /\ 0 < MaxCount
  /\ Forever \in Nat /\ 2 < Forever /\ Unscheduled = -1
  <1>1. /\ Order \in Seq(Nodes) /\ Order # << >>
        /\ FailWindow \in Nat /\ MaxFails \in Nat /\ 0 < MaxFails
        /\ BackoffCap \in Nat /\ 0 < BackoffCap /\ ResetAfter \in Nat
        /\ MaxCount \in Nat /\ 0 < MaxCount
    BY SupervisorAssumption
  <1>2. Len(Order) \in Nat \ {0} /\ DOMAIN Order = 1..Len(Order)
    BY <1>1, LenProperties, EmptySeq
  <1>3. \A i \in 1..Len(Order) : Order[i] \in Nodes
    BY DEF Nodes
  <1>4. QED
    BY <1>1, <1>2, <1>3 DEF Forever, Unscheduled

LEMMA FiniteNodes == IsFiniteSet(Nodes) /\ IsFiniteSet(Critical)
  <1>1. IsFiniteSet(1..Len(Order))
    BY SupervisorSizes, FS_Interval
  <1>2. IsFiniteSet(Nodes)
    <2> DEFINE f == [i \in 1..Len(Order) |-> Order[i]]
    <2>1. f \in Surjection(1..Len(Order), Nodes)
      BY DEF Nodes, Surjection
    <2>2. QED
      BY <1>1, <2>1, FS_Surjection
  <1>3. QED
    BY <1>2, FS_Subset, SupervisorAssumption

LEMMA LapsCount ==
  /\ Laps(0) = 0 /\ Round \in Nat
  /\ \A i \in 0..Len(Order) : Laps(i) \in Nat /\ Laps(i) <= Round
  /\ \A i \in 1..Len(Order) :
       Laps(i) = IF Order[i] \in Critical THEN Laps(i - 1) + 1 ELSE Laps(i - 1)
  /\ \A i, j \in 0..Len(Order) : i <= j => Laps(i) <= Laps(j)
  /\ CriticalBound = Round + 1
  <1> DEFINE In(i) == {j \in 1..i : Order[j] \in Critical}
  <1>1. \A i \in 0..Len(Order) : IsFiniteSet(In(i))
    <2> TAKE i \in 0..Len(Order)
    <2>1. IsFiniteSet(1..i) /\ In(i) \subseteq 1..i
      BY FS_Interval
    <2>2. QED
      BY <2>1, FS_Subset
  <1>2. \A i \in 0..Len(Order) : Laps(i) \in Nat
    BY <1>1, FS_CardinalityType DEF Laps
  <1>3. \A i, j \in 0..Len(Order) : i <= j => Laps(i) <= Laps(j)
    <2> TAKE i, j \in 0..Len(Order)
    <2> HAVE i <= j
    <2>1. In(i) \subseteq In(j) /\ IsFiniteSet(In(j))
      BY <1>1
    <2>2. QED
      BY <2>1, FS_Subset DEF Laps
  <1>4. Laps(0) = 0
    <2>1. In(0) = {}
      OBVIOUS
    <2>2. QED
      BY <2>1, FS_EmptySet DEF Laps
  <1>5. \A i \in 1..Len(Order) :
          Laps(i) = IF Order[i] \in Critical THEN Laps(i - 1) + 1 ELSE Laps(i - 1)
    <2> TAKE i \in 1..Len(Order)
    <2>0. i - 1 \in 0..Len(Order) /\ i \in Nat
      BY SupervisorSizes
    <2>1. CASE Order[i] \in Critical
      <3>1. In(i) = In(i - 1) \cup {i} /\ i \notin In(i - 1)
        BY <2>0, <2>1
      <3>2. QED
        BY <1>1, <2>0, <2>1, <3>1, FS_AddElement DEF Laps
    <2>2. CASE Order[i] \notin Critical
      <3>1. In(i) = In(i - 1)
        BY <2>0, <2>2
      <3>2. QED
        BY <2>2, <3>1 DEF Laps
    <2>3. QED
      BY <2>1, <2>2
  <1>6. Len(Order) \in 0..Len(Order) /\ \A i \in 0..Len(Order) : i <= Len(Order)
    BY SupervisorSizes
  <1>7. Round \in Nat /\ \A i \in 0..Len(Order) : Laps(i) <= Round
    BY <1>2, <1>3, <1>6 DEF Round
  <1>8. CriticalBound = Round + 1
    BY SupervisorSizes DEF CriticalBound, Round, Laps
  <1>9. QED
    BY <1>2, <1>3, <1>4, <1>5, <1>7, <1>8

(* The back-off doubles: 2^n is the number of subsets of a set of n.        *)
LEMMA DelayBounds == \A count \in Nat \ {0} : AuxBackoffDelay(count) \in 1..BackoffCap
  <1> SUFFICES ASSUME NEW count \in Nat \ {0} PROVE AuxBackoffDelay(count) \in 1..BackoffCap
    OBVIOUS
  <1> DEFINE n == count - 1
             S == SUBSET (1..n)
  <1>1. IsFiniteSet(1..n) /\ Cardinality(1..n) = n
    BY FS_Interval
  <1>2. IsFiniteSet(S) /\ Cardinality(S) = 2 ^ n
    BY <1>1, FS_SUBSET
  <1>3. S # {}
    OBVIOUS
  <1>4. Cardinality(S) \in Nat /\ Cardinality(S) # 0
    BY <1>2, <1>3, FS_CardinalityType, FS_EmptySet
  <1>5. 2 ^ (count - 1) \in Nat /\ 2 ^ (count - 1) # 0
    BY <1>2, <1>4
  <1> HIDE DEF n, S
  <1>6. QED
    BY <1>5, SupervisorSizes DEF AuxBackoffDelay

LEMMA RecordedBounds ==
  ASSUME NEW ages \in Seq(0..FailWindow + 1)
  PROVE  /\ Recorded(ages) \in Seq(0..FailWindow + 1)
         /\ Len(Recorded(ages)) \in Nat /\ Len(Recorded(ages)) <= Len(ages) + 1
  <1> DEFINE kept == SubSeq(ages, Cardinality(Outdated(ages)) + 1, Len(ages))
  <1>1. Len(ages) \in Nat /\ DOMAIN ages = 1..Len(ages)
    BY LenProperties
  <1>2. Cardinality(Outdated(ages)) \in Nat
    <2>1. IsFiniteSet(1..Len(ages)) /\ Outdated(ages) \subseteq 1..Len(ages)
      BY <1>1, FS_Interval DEF Outdated
    <2>2. QED
      BY <2>1, FS_Subset, FS_CardinalityType
  <1>3. \A i \in Cardinality(Outdated(ages)) + 1..Len(ages) : ages[i] \in 0..FailWindow + 1
    <2>1. \A i \in Cardinality(Outdated(ages)) + 1..Len(ages) : i \in 1..Len(ages)
      BY <1>1, <1>2
    <2>2. QED
      BY <2>1, ElementOfSeq
  <1>4. /\ kept \in Seq(0..FailWindow + 1)
        /\ Len(kept) = IF Cardinality(Outdated(ages)) + 1 <= Len(ages)
                       THEN Len(ages) - (Cardinality(Outdated(ages)) + 1) + 1 ELSE 0
    <2>1. Cardinality(Outdated(ages)) + 1 \in Int /\ Len(ages) \in Int
      BY <1>1, <1>2
    <2>2. QED
      BY <1>3, <2>1, SubSeqProperties
  <1>5. Len(kept) \in Nat /\ Len(kept) <= Len(ages)
    BY <1>1, <1>2, <1>4
  <1>6. 0 \in 0..FailWindow + 1
    BY SupervisorSizes
  <1>7. Recorded(ages) = Append(kept, 0)
    BY DEF Recorded
  <1> HIDE DEF kept
  <1>8. Recorded(ages) \in Seq(0..FailWindow + 1) /\ Len(Recorded(ages)) = Len(kept) + 1
    BY <1>4, <1>6, <1>7, AppendProperties
  <1>9. QED
    BY <1>1, <1>5, <1>8

-----------------------------------------------------------------------------
(* How the wait for the loop shrinks. *)

LEMMA LeftBounds ==
  ASSUME NEW doing, NEW t \in 1..Len(Order), NEW p \in 1..Len(Order)
  PROVE  /\ Left(doing, t, p) \in Int /\ 0 <= Left(doing, t, p) /\ Left(doing, t, p) <= Round + 1
         /\ Left("sleep", 0, p) \in Int /\ 0 <= Left("sleep", 0, p) /\ Left("sleep", 0, p) <= Round + 1
  <1>1. /\ p \in 0..Len(Order) /\ t \in 0..Len(Order) /\ t - 1 \in 0..Len(Order) /\ t - 1 <= t
        /\ t \in Int /\ p \in Int /\ (p < t => p <= t - 1)
    BY SupervisorSizes
  <1>2. /\ Laps(p) \in Nat /\ Laps(p) <= Round /\ Round \in Nat
        /\ Laps(t) \in Nat /\ Laps(t) <= Round /\ Laps(t - 1) \in Nat /\ Laps(t - 1) <= Laps(t)
        /\ t <= p => Laps(t) <= Laps(p)
        /\ p < t => Laps(p) <= Laps(t - 1)
    BY <1>1, LapsCount
  <1>3. CASE doing = "sleep"
    BY <1>2, <1>3 DEF Left
  <1>4. CASE doing # "sleep"
    <2>1. /\ Done(doing, t) \in Nat /\ Done(doing, t) <= Laps(t) /\ Laps(t - 1) <= Done(doing, t)
      BY <1>2 DEF Done
    <2>2. CASE t <= p
      BY <1>2, <1>4, <2>1, <2>2 DEF Left
    <2>3. CASE p < t
      <3>1. ~(t <= p)
        BY <1>1, <2>3
      <3>2. Left(doing, t, p) = Round - Done(doing, t) + 1 + Laps(p)
        BY <1>4, <3>1 DEF Left
      <3>3. Left("sleep", 0, p) = 1 + Laps(p)
        BY DEF Left
      <3>4. QED
        BY SMTT(30), <1>2, <2>1, <2>3, <3>2, <3>3
    <2>4. QED
      BY <1>1, <2>2, <2>3
  <1>5. QED
    BY <1>3, <1>4

(* The loop turns to the next node: the others wait no longer for that. *)
LEMMA LeftAdvances ==
  ASSUME NEW doing \in {"scan", "restart"}, NEW t \in 1..Len(Order), NEW p \in 1..Len(Order), p # t
  PROVE  /\ t < Len(Order) => Left("scan", t + 1, p) <= Left(doing, t, p)
         /\ t = Len(Order) => Left("sleep", 0, p) <= Left(doing, t, p)
  <1>1. /\ p \in 0..Len(Order) /\ t \in 0..Len(Order) /\ t - 1 \in 0..Len(Order) /\ t - 1 <= t
        /\ t \in Int /\ p \in Int /\ (t + 1) - 1 = t /\ (t <= p <=> t + 1 <= p)
    BY SupervisorSizes
  <1>2. /\ Laps(p) \in Nat /\ Round \in Nat
        /\ Laps(t) \in Nat /\ Laps(t) <= Round /\ Laps(t - 1) \in Nat /\ Laps(t - 1) <= Laps(t)
    BY <1>1, LapsCount
  <1>3. Done(doing, t) \in Nat /\ Done(doing, t) <= Laps(t)
    BY <1>2 DEF Done
  <1>4. Done("scan", t + 1) = Laps(t)
    BY <1>1 DEF Done
  <1>5. ASSUME t < Len(Order) PROVE Left("scan", t + 1, p) <= Left(doing, t, p)
    <2>1. Left("scan", t + 1, p) = IF t + 1 <= p THEN Laps(p) - Laps(t) ELSE Round - Laps(t) + 1 + Laps(p)
      BY <1>4 DEF Left
    <2>2. Left(doing, t, p) = IF t <= p THEN Laps(p) - Done(doing, t)
                                        ELSE Round - Done(doing, t) + 1 + Laps(p)
      BY DEF Left
    <2>3. QED
      BY <1>1, <1>2, <1>3, <2>1, <2>2
  <1>6. ASSUME t = Len(Order) PROVE Left("sleep", 0, p) <= Left(doing, t, p)
    <2>1. ~(t <= p)
      <3>1. p \in Int /\ p <= Len(Order) /\ Len(Order) \in Int
        BY SupervisorSizes
      <3>2. QED
        BY <1>6, <3>1
    <2>2. Left(doing, t, p) = Round - Done(doing, t) + 1 + Laps(p) /\ Left("sleep", 0, p) = 1 + Laps(p)
      BY <2>1 DEF Left
    <2>3. QED
      BY <1>2, <1>3, <2>2
  <1>7. QED
    BY <1>5, <1>6

(* A period of the sleep or of a delay is one less to wait. *)
LEMMA LeftElapses ==
  ASSUME NEW t \in 1..Len(Order), NEW p \in 1..Len(Order)
  PROVE  /\ Left("scan", 1, p) = Left("sleep", 0, p) - 1
         /\ Order[t] \in Critical => Left("restart", t, p) = Left("delay", t, p) - 1
         /\ Left("delay", t, p) = Left("scan", t, p)
         /\ Order[t] \notin Critical => Left("scan", t, t) = 0
  <1>1. /\ p \in 0..Len(Order) /\ t \in 0..Len(Order) /\ t - 1 \in 0..Len(Order) /\ 1 - 1 = 0 /\ 1 <= p
        /\ t <= t
    BY SupervisorSizes
  <1>2. /\ Laps(p) \in Nat /\ Laps(t) \in Nat /\ Laps(t - 1) \in Nat /\ Laps(0) = 0 /\ Round \in Nat
        /\ Laps(t) = IF Order[t] \in Critical THEN Laps(t - 1) + 1 ELSE Laps(t - 1)
    BY <1>1, LapsCount
  <1>3. Left("scan", 1, p) = Laps(p) - Laps(0) /\ Left("sleep", 0, p) = 1 + Laps(p)
    BY <1>1 DEF Left, Done
  <1>4. Done("restart", t) = Laps(t) /\ Done("delay", t) = Laps(t - 1) /\ Done("scan", t) = Laps(t - 1)
    BY DEF Done
  <1>5. Order[t] \in Critical => Left("restart", t, p) = Left("delay", t, p) - 1
    BY SMTT(30), <1>2, <1>4 DEF Left
  <1>6. Left("delay", t, p) = Left("scan", t, p)
    BY <1>4 DEF Left
  <1>7. Order[t] \notin Critical => Left("scan", t, t) = 0
    BY <1>1, <1>2, <1>4 DEF Left
  <1>8. QED
    BY <1>2, <1>3, <1>5, <1>6, <1>7

-----------------------------------------------------------------------------
(* What the state says, in the form the steps need it. *)

LEMMA SupervisorTyped ==
  ASSUME SupervisorTypeOK
  PROVE  /\ turn \in Nat /\ Len(failAges) \in Nat /\ deaths \in Nat /\ pending \in Nat
         /\ \A n \in Nodes : down[n] \in Nat /\ due[n] \in Int /\ due[n] <= BackoffCap
                             /\ (due[n] = Unscheduled \/ due[n] \in Nat)
         /\ DOMAIN failAges = 1..Len(failAges)
  <1>1. failAges \in Seq(0..FailWindow + 1)
    BY DEF SupervisorTypeOK
  <1>2. Len(failAges) \in Nat /\ DOMAIN failAges = 1..Len(failAges)
    BY <1>1, LenProperties
  <1>3. turn \in Nat /\ deaths \in Nat /\ pending \in Nat
    BY SupervisorSizes DEF SupervisorTypeOK
  <1>4. ASSUME NEW n \in Nodes
        PROVE  down[n] \in Nat /\ due[n] \in Int /\ due[n] <= BackoffCap
               /\ (due[n] = Unscheduled \/ due[n] \in Nat)
    <2>1. down[n] \in 0..Forever /\ due[n] \in Unscheduled..BackoffCap
      BY DEF SupervisorTypeOK
    <2>2. QED
      BY <2>1, SupervisorSizes
  <1>5. QED
    BY <1>2, <1>3, <1>4

LEMMA Unfinished == IsFiniteSet(Critical \ alive) /\ Cardinality(Critical \ alive) \in Nat
  BY FiniteNodes, FS_Difference, FS_CardinalityType

(* The loop turns to the next node, or sleeps. *)
LEMMA AdvancePlaces ==
  ASSUME SupervisorIInv, turn \in 1..Len(Order), Advance
  PROVE  /\ turn' \in 0..Len(Order) /\ shell' \in {"scan", "sleep"}
         /\ shell' = "sleep" <=> turn' = 0
         /\ turn < Len(Order) => shell' = "scan" /\ turn' = turn + 1
         /\ turn = Len(Order) => shell' = "sleep" /\ turn' = 0
         /\ turn < Len(Order) \/ turn = Len(Order)
  <1>1. turn \in Nat /\ 1 <= turn /\ turn <= Len(Order) /\ Len(Order) \in Nat
    BY SupervisorSizes
  <1>2. CASE turn < Len(Order)
    <2>1. shell' = "scan" /\ turn' = turn + 1
      BY <1>2 DEF Advance
    <2>2. QED
      BY <1>1, <1>2, <2>1
  <1>3. CASE turn = Len(Order)
    <2>1. shell' = "sleep" /\ turn' = 0
      BY <1>1, <1>3 DEF Advance
    <2>2. QED
      BY <1>1, <1>3, <2>1
  <1>4. QED
    BY <1>1, <1>2, <1>3

LEMMA AdvanceServes ==
  ASSUME SupervisorIInv, Supervising, shell \in {"scan", "restart"}, turn \in 1..Len(Order), Advance,
         NEW p \in 1..Len(Order), Order[p] \notin alive, p # turn,
         down'[Order[p]] = down[Order[p]], due'[Order[p]] = due[Order[p]]
  PROVE  Awaited(Order[p], p)'
  <1>1. Order[p] \in Nodes
    BY SupervisorSizes
  <1>2. down[Order[p]] \in Nat /\ due[Order[p]] \in Int /\ Round \in Nat /\ BackoffCap \in Nat
    BY <1>1, SupervisorTyped, SupervisorSizes, LapsCount DEF SupervisorIInv
  <1>3. Left(shell, turn, p) \in Int /\ Left(shell', turn', p) \in Int
    <2>1. turn < Len(Order) => turn' \in 1..Len(Order)
      <3>1. turn \in Nat /\ 1 <= turn /\ Len(Order) \in Nat
        BY SupervisorSizes
      <3>2. turn < Len(Order) => turn + 1 \in 1..Len(Order)
        BY <3>1
      <3>3. QED
        BY <3>2, AdvancePlaces
    <2>2. QED
      BY <2>1, AdvancePlaces, LeftBounds
  <1>4. Left(shell', turn', p) <= Left(shell, turn, p)
    <2>1. /\ turn < Len(Order) => Left("scan", turn + 1, p) <= Left(shell, turn, p)
          /\ turn = Len(Order) => Left("sleep", 0, p) <= Left(shell, turn, p)
      BY LeftAdvances
    <2>2. QED
      BY <2>1, AdvancePlaces
  <1>5. Awaited(Order[p], p)
    BY DEF SupervisorIInv, Served
  <1> DEFINE n == Order[p]
  <1>6. IF n \in Critical \/ due[n] = Unscheduled
        THEN down[n] + Left(shell', turn', p) <= Round + 1
        ELSE down[n] + (IF due[n] = 0 THEN Left(shell', turn', p) ELSE due[n] + Round)
               <= BackoffCap + 2 * Round + 1
    <2> HIDE DEF n
    <2>1. IF n \in Critical \/ due[n] = Unscheduled
          THEN down[n] + Left(shell, turn, p) <= Round + 1
          ELSE down[n] + (IF due[n] = 0 THEN Left(shell, turn, p) ELSE due[n] + Round)
                 <= BackoffCap + 2 * Round + 1
      BY <1>5 DEF Awaited, n
    <2>2. down[n] \in Nat /\ due[n] \in Int
      BY <1>2 DEF n
    <2>3. QED
      BY <1>2, <1>3, <1>4, <2>1, <2>2
  <1>7. QED
    BY <1>6 DEF Awaited, Left, Round, Laps, Done, Unscheduled

-----------------------------------------------------------------------------
(* The steps. *)

LEMMA SupervisorInitial == SupervisorInit => SupervisorIInv
  <1> SUFFICES ASSUME SupervisorInit PROVE SupervisorIInv
    OBVIOUS
  <1> USE SupervisorSizes DEF SupervisorInit
  <1>1. SupervisorTypeOK
    <2>1. failAges \in Seq(0..FailWindow + 1) /\ Len(failAges) = 0
      BY EmptySeq
    <2>2. upSince \in [Nodes -> 0..ResetAfter] /\ failures \in [Nodes -> 0..MaxCount]
          /\ due \in [Nodes -> Unscheduled..BackoffCap] /\ down \in [Nodes -> 0..Forever]
      OBVIOUS
    <2>3. turn \in 0..Len(Order) /\ turn \in Nat /\ turn <= Len(Order)
      OBVIOUS
    <2>4. deaths \in 0..MaxFails /\ pending \in 0..Forever
      OBVIOUS
    <2>5. Len(failAges) <= MaxFails
      BY <2>1
    <2>6. alive \subseteq Nodes /\ signal \in BOOLEAN /\ shell = "sleep"
      OBVIOUS
    <2>7. QED
      BY <2>1, <2>2, <2>3, <2>4, <2>5, <2>6 DEF SupervisorTypeOK
  <1>2. Critical \ alive = {}
    BY SupervisorAssumption
  <1>3. Placed /\ Served /\ Ending
    <2>1. \A n \in alive \cup Critical : due[n] = Unscheduled
      BY SupervisorAssumption
    <2>2. turn \in Nat /\ turn <= Len(Order)
      OBVIOUS
    <2>3. Placed
      BY <2>1, <2>2 DEF Placed
    <2>4. Served
      BY DEF Served
    <2>5. Ending
      BY DEF Ending
    <2>6. QED
      BY <2>3, <2>4, <2>5
  <1>4. Recording
    <2>1. Len(failAges) = 0 /\ Unrecorded = 0
      <3>1. Len(failAges) = 0 /\ Cardinality(Critical \ alive) = 0
        BY <1>2, EmptySeq, FS_EmptySet
      <3>2. QED
        BY <3>1 DEF Unrecorded
    <2>2. QED
      BY <2>1 DEF Recording
  <1>5. QED
    BY <1>1, <1>3, <1>4 DEF SupervisorIInv

(* What a scan of the node at the turn starts from. *)
LEMMA ScanPlaces ==
  ASSUME SupervisorIInv, ~signal, shell \in {"scan", "restart"}
  PROVE  Supervising /\ turn \in 1..Len(Order) /\ Order[turn] \in Nodes
  <1>1. Supervising /\ turn # 0
    BY DEF Supervising, SupervisorIInv, Placed
  <1>2. turn \in 1..Len(Order)
    BY <1>1, SupervisorSizes DEF SupervisorIInv, Placed
  <1>3. QED
    BY <1>1, <1>2, SupervisorSizes

LEMMA ScanAliveStep == \A n \in Nodes : SupervisorIInv /\ ScanAlive(n) => SupervisorIInv'
  <1> SUFFICES ASSUME NEW n \in Nodes, SupervisorIInv, ScanAlive(n) PROVE SupervisorIInv'
    OBVIOUS
  <1>1. /\ shell = "scan" /\ ~signal /\ n = Order[turn] /\ n \in alive /\ Advance
        /\ UNCHANGED <<alive, upSince, failures, due, failAges, signal, down, deaths, pending>>
    BY DEF ScanAlive, Here
  <1>2. Supervising /\ turn \in 1..Len(Order)
    BY <1>1, ScanPlaces
  <1>3. /\ turn' \in 0..Len(Order) /\ shell' \in {"scan", "sleep"}
        /\ shell' = "sleep" <=> turn' = 0
    BY <1>1, <1>2, AdvancePlaces
  <1>4. SupervisorTypeOK'
    BY <1>1, <1>3 DEF SupervisorIInv, SupervisorTypeOK, Forever
  <1>5. Placed'
    BY <1>1, <1>3, SupervisorSizes DEF SupervisorIInv, Placed, Supervising, Unscheduled
  <1>6. Served'
    <2> SUFFICES ASSUME NEW p \in 1..Len(Order), Order[p] \notin alive
                 PROVE  Awaited(Order[p], p)'
      BY <1>1 DEF Served
    <2>1. p # turn
      BY <1>1
    <2>2. QED
      BY <1>1, <1>2, <2>1, AdvanceServes
  <1>7. Recording'
    BY <1>1, <1>2, <1>3 DEF SupervisorIInv, Recording, Supervising, Unrecorded
  <1>8. Ending'
    BY <1>1, <1>3 DEF SupervisorIInv, Ending
  <1>9. QED
    BY <1>4, <1>5, <1>6, <1>7, <1>8 DEF SupervisorIInv

LEMMA ScanCriticalStep == \A n \in Nodes : SupervisorIInv /\ ScanCritical(n) => SupervisorIInv'
  <1> SUFFICES ASSUME NEW n \in Nodes, SupervisorIInv, ScanCritical(n) PROVE SupervisorIInv'
    OBVIOUS
  <1>1. /\ shell = "scan" /\ ~signal /\ n = Order[turn] /\ n \in Critical \ alive
        /\ failAges' = Recorded(failAges)
        /\ shell' = IF Len(failAges') >= MaxFails THEN "failing" ELSE "delay"
        /\ UNCHANGED <<turn, alive, upSince, failures, due, signal, down, deaths, pending>>
    BY DEF ScanCritical, Here
  <1>2. Supervising /\ turn \in 1..Len(Order)
    BY <1>1, ScanPlaces
  <1>3. /\ failAges' \in Seq(0..FailWindow + 1) /\ Len(failAges') \in Nat
        /\ Len(failAges') <= Len(failAges) + 1 /\ Len(failAges) < MaxFails /\ Len(failAges) \in Nat
    BY <1>1, <1>2, RecordedBounds, SupervisorTyped DEF SupervisorIInv, SupervisorTypeOK, Recording
  <1>4. SupervisorTypeOK'
    <2>1. Len(failAges') <= MaxFails
      BY <1>3, SupervisorSizes
    <2>2. QED
      BY <1>1, <1>3, <2>1 DEF SupervisorIInv, SupervisorTypeOK, Forever
  <1>5. Placed'
    BY <1>1, <1>2, SupervisorSizes DEF SupervisorIInv, Placed, Supervising, Unscheduled
  <1>6. Served'
    <2> SUFFICES ASSUME Supervising', NEW p \in 1..Len(Order), Order[p] \notin alive
                 PROVE  Awaited(Order[p], p)'
      BY <1>1 DEF Served
    <2>1. shell' = "delay"
      BY <1>1 DEF Supervising
    <2>2. Left("delay", turn, p) = Left("scan", turn, p)
      BY <1>2, LeftElapses
    <2>3. Awaited(Order[p], p)
      BY <1>2 DEF SupervisorIInv, Served
    <2>4. QED
      BY <1>1, <2>1, <2>2, <2>3 DEF Awaited, Left, Round, Laps, Done, Unscheduled
  <1>7. Recording'
    <2>1. Cardinality(Critical \ alive) \in Nat /\ Cardinality(Critical \ alive) # 0
      BY <1>1, Unfinished, FS_EmptySet
    <2>2. deaths >= MaxFails \/ Len(failAges) + Cardinality(Critical \ alive) <= deaths
      <3>1. deaths >= MaxFails \/ Len(failAges) + Unrecorded <= deaths
        BY <1>2 DEF SupervisorIInv, Recording
      <3>2. Unrecorded = Cardinality(Critical \ alive)
        BY <1>1, <2>1 DEF Unrecorded
      <3>3. QED
        BY <3>1, <3>2
    <2>3. deaths \in Nat /\ MaxFails \in Nat
      BY SupervisorTyped, SupervisorSizes DEF SupervisorIInv
    <2>4. CASE Len(failAges') >= MaxFails
      <3>1. shell' = "failing" /\ deaths' = deaths
        BY <1>1, <2>4
      <3>2. deaths >= MaxFails
        BY <1>3, <2>1, <2>2, <2>3, <2>4
      <3>3. QED
        BY <3>1, <3>2 DEF Recording, Supervising
    <2>5. CASE ~(Len(failAges') >= MaxFails)
      <3>1. shell' = "delay" /\ deaths' = deaths /\ Len(failAges') < MaxFails
        BY <1>1, <1>3, <2>3, <2>5
      <3>2. Unrecorded' = Cardinality(Critical \ alive) - 1
        BY <1>1, <3>1 DEF Unrecorded
      <3>3. deaths >= MaxFails \/ Len(failAges') + Unrecorded' <= deaths
        BY <1>3, <2>1, <2>2, <2>3, <3>2
      <3>4. QED
        BY <3>1, <3>3 DEF Recording, Supervising
    <2>6. QED
      BY <2>4, <2>5
  <1>8. Ending'
    BY <1>1 DEF SupervisorIInv, Ending
  <1>9. QED
    BY <1>4, <1>5, <1>6, <1>7, <1>8 DEF SupervisorIInv

LEMMA RestartCriticalStep == \A n \in Nodes : SupervisorIInv /\ RestartCritical(n) => SupervisorIInv'
  <1> SUFFICES ASSUME NEW n \in Nodes, SupervisorIInv, RestartCritical(n) PROVE SupervisorIInv'
    OBVIOUS
  <1>1. /\ shell = "restart" /\ ~signal /\ n = Order[turn] /\ Advance
        /\ alive' = alive \cup {n}
        /\ upSince' = [upSince EXCEPT ![n] = 0] /\ down' = [down EXCEPT ![n] = 0]
        /\ UNCHANGED <<failures, due, failAges, signal, deaths, pending>>
    BY DEF RestartCritical, StartNode
  <1>2. Supervising /\ turn \in 1..Len(Order) /\ n \in Critical \ alive
    BY <1>1, ScanPlaces DEF SupervisorIInv, Placed
  <1>3. /\ turn' \in 0..Len(Order) /\ shell' \in {"scan", "sleep"}
        /\ shell' = "sleep" <=> turn' = 0
    BY <1>1, <1>2, AdvancePlaces
  <1>4. SupervisorTypeOK'
    <2>1. upSince' \in [Nodes -> 0..ResetAfter] /\ down' \in [Nodes -> 0..Forever]
      BY <1>1, SupervisorSizes DEF SupervisorIInv, SupervisorTypeOK
    <2>2. QED
      BY <1>1, <1>3, <2>1 DEF SupervisorIInv, SupervisorTypeOK, Forever
  <1>5. Placed'
    <2>1. due[n] = Unscheduled
      BY <1>2 DEF SupervisorIInv, Placed
    <2>2. QED
      BY <1>1, <1>3, <2>1, SupervisorSizes DEF SupervisorIInv, Placed, Supervising, Unscheduled
  <1>6. Served'
    <2> SUFFICES ASSUME NEW p \in 1..Len(Order), Order[p] \notin alive'
                 PROVE  Awaited(Order[p], p)'
      BY DEF Served
    <2>1. p # turn /\ Order[p] # n /\ Order[p] \notin alive /\ Order[p] \in Nodes
      BY <1>1, SupervisorSizes
    <2>2. down'[Order[p]] = down[Order[p]] /\ due'[Order[p]] = due[Order[p]]
      BY <1>1, <2>1 DEF SupervisorIInv, SupervisorTypeOK
    <2>3. QED
      BY <1>1, <1>2, <2>1, <2>2, AdvanceServes
  <1>7. Recording'
    <2>1. Critical \ alive' = (Critical \ alive) \ {n} /\ n \in Critical \ alive
      BY <1>1, <1>2
    <2>2. Cardinality(Critical \ alive') = Cardinality(Critical \ alive) - 1
      BY <2>1, Unfinished, FS_RemoveElement
    <2>3. Unrecorded' = Unrecorded
      BY <1>1, <1>3, <2>2, Unfinished DEF Unrecorded
    <2>4. QED
      BY <1>1, <1>2, <1>3, <2>3 DEF SupervisorIInv, Recording, Supervising
  <1>8. Ending'
    BY <1>1, <1>3 DEF SupervisorIInv, Ending
  <1>9. QED
    BY <1>4, <1>5, <1>6, <1>7, <1>8 DEF SupervisorIInv

LEMMA ScheduleStep == \A n \in Nodes : SupervisorIInv /\ ScheduleAuxiliary(n) => SupervisorIInv'
  <1> SUFFICES ASSUME NEW n \in Nodes, SupervisorIInv, ScheduleAuxiliary(n) PROVE SupervisorIInv'
    OBVIOUS
  <1> DEFINE count == IF upSince[n] >= ResetAfter THEN 1 ELSE failures[n] + 1
             kept  == IF count > MaxCount THEN MaxCount ELSE count
  <1>1. /\ shell = "scan" /\ ~signal /\ n = Order[turn] /\ n \in Auxiliary \ alive /\ Advance
        /\ due[n] = Unscheduled
        /\ failures' = [failures EXCEPT ![n] = kept]
        /\ due' = [due EXCEPT ![n] = AuxBackoffDelay(kept)]
        /\ UNCHANGED <<alive, upSince, failAges, signal, down, deaths, pending>>
    BY DEF ScheduleAuxiliary, Here
  <1>2. Supervising /\ turn \in 1..Len(Order)
    BY <1>1, ScanPlaces
  <1>3. /\ turn' \in 0..Len(Order) /\ shell' \in {"scan", "sleep"}
        /\ shell' = "sleep" <=> turn' = 0
    BY <1>1, <1>2, AdvancePlaces
  <1>4. kept \in 1..MaxCount
    <2>1. failures[n] \in Nat
      BY DEF SupervisorIInv, SupervisorTypeOK
    <2>2. count \in Nat /\ 1 <= count
      BY <2>1
    <2> HIDE DEF count
    <2>3. QED
      BY <2>2, SupervisorSizes
  <1> HIDE DEF kept
  <1>5. AuxBackoffDelay(kept) \in 1..BackoffCap
    BY <1>4, DelayBounds
  <1>6. n \notin Critical /\ n \notin alive
    BY <1>1 DEF Auxiliary
  <1>7. due'[n] = AuxBackoffDelay(kept) /\ \A m \in Nodes : m # n => due'[m] = due[m]
    BY <1>1 DEF SupervisorIInv, SupervisorTypeOK
  <1>8. SupervisorTypeOK'
    <2>1. failures' \in [Nodes -> 0..MaxCount]
      BY <1>1, <1>4 DEF SupervisorIInv, SupervisorTypeOK
    <2>2. AuxBackoffDelay(kept) \in Unscheduled..BackoffCap
      BY <1>5, SupervisorSizes
    <2>3. due' \in [Nodes -> Unscheduled..BackoffCap]
      BY <1>1, <2>2 DEF SupervisorIInv, SupervisorTypeOK
    <2>4. QED
      BY <1>1, <1>3, <2>1, <2>3 DEF SupervisorIInv, SupervisorTypeOK, Forever, Unscheduled
  <1>9. Placed'
    <2>1. \A m \in alive \cup Critical : m \in Nodes /\ m # n
      BY <1>6, SupervisorAssumption DEF SupervisorIInv, SupervisorTypeOK
    <2>2. \A m \in alive \cup Critical : due'[m] = Unscheduled
      BY <1>7, <2>1 DEF SupervisorIInv, Placed
    <2>3. QED
      BY <1>1, <1>3, <2>2, SupervisorSizes DEF Placed, Supervising, Unscheduled
  <1>10. Served'
    <2> SUFFICES ASSUME NEW p \in 1..Len(Order), Order[p] \notin alive
                 PROVE  Awaited(Order[p], p)'
      BY <1>1 DEF Served
    <2>1. CASE Order[p] = n
      <3>1. down[n] + Left(shell, turn, p) <= Round + 1
        BY <1>1, <1>2, <1>6, <2>1 DEF SupervisorIInv, Served, Awaited
      <3>2. Left(shell, turn, p) \in Int /\ 0 <= Left(shell, turn, p)
        BY <1>2, LeftBounds
      <3>3. down[n] \in Nat /\ Round \in Nat
        BY SupervisorTyped, LapsCount DEF SupervisorIInv
      <3>4. due'[n] # 0 /\ due'[n] # Unscheduled /\ due'[n] \in Nat /\ due'[n] <= BackoffCap
        BY <1>5, <1>7, SupervisorSizes
      <3>5. down[n] + (due'[n] + Round) <= BackoffCap + 2 * Round + 1
        BY <3>1, <3>2, <3>3, <3>4, SupervisorSizes
      <3>6. QED
        BY <1>1, <1>6, <2>1, <3>4, <3>5 DEF Awaited, Left, Round, Laps, Done, Unscheduled
    <2>2. CASE Order[p] # n
      <3>1. p # turn /\ down'[Order[p]] = down[Order[p]] /\ due'[Order[p]] = due[Order[p]]
        BY <1>1, <1>7, <2>2, SupervisorSizes
      <3>2. QED
        BY <1>1, <1>2, <3>1, AdvanceServes
    <2>3. QED
      BY <2>1, <2>2
  <1>11. Recording'
    BY <1>1, <1>2, <1>3 DEF SupervisorIInv, Recording, Supervising, Unrecorded
  <1>12. Ending'
    BY <1>1, <1>3 DEF SupervisorIInv, Ending
  <1>13. QED
    BY <1>8, <1>9, <1>10, <1>11, <1>12 DEF SupervisorIInv

LEMMA AwaitStep == \A n \in Nodes : SupervisorIInv /\ AwaitAuxiliary(n) => SupervisorIInv'
  <1> SUFFICES ASSUME NEW n \in Nodes, SupervisorIInv, AwaitAuxiliary(n) PROVE SupervisorIInv'
    OBVIOUS
  <1>1. /\ shell = "scan" /\ ~signal /\ n = Order[turn] /\ n \in Auxiliary \ alive /\ Advance
        /\ due[n] > 0
        /\ UNCHANGED <<alive, upSince, failures, due, failAges, signal, down, deaths, pending>>
    BY DEF AwaitAuxiliary, Here
  <1>2. Supervising /\ turn \in 1..Len(Order)
    BY <1>1, ScanPlaces
  <1>3. /\ turn' \in 0..Len(Order) /\ shell' \in {"scan", "sleep"}
        /\ shell' = "sleep" <=> turn' = 0
    BY <1>1, <1>2, AdvancePlaces
  <1>4. SupervisorTypeOK'
    BY <1>1, <1>3 DEF SupervisorIInv, SupervisorTypeOK, Forever
  <1>5. Placed'
    BY <1>1, <1>3, SupervisorSizes DEF SupervisorIInv, Placed, Supervising, Unscheduled
  <1>6. Served'
    <2> SUFFICES ASSUME NEW p \in 1..Len(Order), Order[p] \notin alive
                 PROVE  Awaited(Order[p], p)'
      BY <1>1 DEF Served
    <2>1. CASE Order[p] = n
      <3>1. n \notin Critical /\ due[n] # Unscheduled /\ due[n] # 0
        BY <1>1, SupervisorTyped, SupervisorSizes DEF Auxiliary, SupervisorIInv
      <3>2. Awaited(n, p)
        BY <1>2, <2>1 DEF SupervisorIInv, Served
      <3>3. QED
        BY <1>1, <2>1, <3>1, <3>2 DEF Awaited, Left, Round, Laps, Done, Unscheduled
    <2>2. CASE Order[p] # n
      BY <1>1, <1>2, <2>2, AdvanceServes
    <2>3. QED
      BY <2>1, <2>2
  <1>7. Recording'
    BY <1>1, <1>2, <1>3 DEF SupervisorIInv, Recording, Supervising, Unrecorded
  <1>8. Ending'
    BY <1>1, <1>3 DEF SupervisorIInv, Ending
  <1>9. QED
    BY <1>4, <1>5, <1>6, <1>7, <1>8 DEF SupervisorIInv

LEMMA RestartAuxiliaryStep == \A n \in Nodes : SupervisorIInv /\ RestartAuxiliary(n) => SupervisorIInv'
  <1> SUFFICES ASSUME NEW n \in Nodes, SupervisorIInv, RestartAuxiliary(n) PROVE SupervisorIInv'
    OBVIOUS
  <1>1. /\ shell = "scan" /\ ~signal /\ n = Order[turn] /\ n \in Auxiliary \ alive /\ Advance
        /\ alive' = alive \cup {n}
        /\ upSince' = [upSince EXCEPT ![n] = 0] /\ down' = [down EXCEPT ![n] = 0]
        /\ due' = [due EXCEPT ![n] = Unscheduled]
        /\ UNCHANGED <<failures, failAges, signal, deaths, pending>>
    BY DEF RestartAuxiliary, Here, StartNode
  <1>2. Supervising /\ turn \in 1..Len(Order)
    BY <1>1, ScanPlaces
  <1>3. /\ turn' \in 0..Len(Order) /\ shell' \in {"scan", "sleep"}
        /\ shell' = "sleep" <=> turn' = 0
    BY <1>1, <1>2, AdvancePlaces
  <1>4. \A m \in Nodes : due'[m] = IF m = n THEN Unscheduled ELSE due[m]
    BY <1>1 DEF SupervisorIInv, SupervisorTypeOK
  <1>5. SupervisorTypeOK'
    <2>1. upSince' \in [Nodes -> 0..ResetAfter] /\ down' \in [Nodes -> 0..Forever]
      BY <1>1, SupervisorSizes DEF SupervisorIInv, SupervisorTypeOK
    <2>2. due' \in [Nodes -> Unscheduled..BackoffCap]
      BY <1>1, SupervisorSizes DEF SupervisorIInv, SupervisorTypeOK
    <2>3. QED
      BY <1>1, <1>3, <2>1, <2>2 DEF SupervisorIInv, SupervisorTypeOK, Forever, Unscheduled
  <1>6. Placed'
    <2>1. \A m \in alive' \cup Critical : m \in Nodes /\ (m = n \/ m \in alive \cup Critical)
      BY <1>1, SupervisorAssumption DEF SupervisorIInv, SupervisorTypeOK
    <2>2. \A m \in alive' \cup Critical : due'[m] = Unscheduled
      BY <1>4, <2>1 DEF SupervisorIInv, Placed
    <2>3. QED
      BY <1>1, <1>3, <2>2, SupervisorSizes DEF Placed, Supervising, Unscheduled
  <1>7. Served'
    <2> SUFFICES ASSUME NEW p \in 1..Len(Order), Order[p] \notin alive'
                 PROVE  Awaited(Order[p], p)'
      BY DEF Served
    <2>1. p # turn /\ Order[p] # n /\ Order[p] \notin alive /\ Order[p] \in Nodes
      BY <1>1, SupervisorSizes
    <2>2. down'[Order[p]] = down[Order[p]] /\ due'[Order[p]] = due[Order[p]]
      BY <1>1, <1>4, <2>1 DEF SupervisorIInv, SupervisorTypeOK
    <2>3. QED
      BY <1>1, <1>2, <2>1, <2>2, AdvanceServes
  <1>8. Recording'
    <2>1. Critical \ alive' = Critical \ alive
      BY <1>1 DEF Auxiliary
    <2>2. QED
      BY <1>1, <1>2, <1>3, <2>1 DEF SupervisorIInv, Recording, Supervising, Unrecorded
  <1>9. Ending'
    BY <1>1, <1>3 DEF SupervisorIInv, Ending
  <1>10. QED
    BY <1>5, <1>6, <1>7, <1>8, <1>9 DEF SupervisorIInv

LEMMA CrashStep == \A n \in Nodes : SupervisorIInv /\ Crash(n) => SupervisorIInv'
  <1> SUFFICES ASSUME NEW n \in Nodes, SupervisorIInv, Crash(n) PROVE SupervisorIInv'
    OBVIOUS
  <1>1. /\ n \in alive /\ alive' = alive \ {n}
        /\ down' = [down EXCEPT ![n] = 0]
        /\ deaths' = IF n \in Critical THEN Capped(deaths, MaxFails) ELSE deaths
        /\ UNCHANGED <<shell, turn, upSince, failures, due, failAges, signal, pending>>
    BY DEF Crash
  <1>2. deaths \in Nat /\ deaths <= MaxFails /\ MaxFails \in Nat
        /\ deaths' = IF n \in Critical /\ deaths < MaxFails THEN deaths + 1 ELSE deaths
    BY <1>1, SupervisorSizes DEF SupervisorIInv, SupervisorTypeOK, Capped
  <1>3. SupervisorTypeOK'
    <2>1. down' \in [Nodes -> 0..Forever]
      BY <1>1, SupervisorSizes DEF SupervisorIInv, SupervisorTypeOK
    <2>2. deaths' \in 0..MaxFails
      BY <1>2
    <2>3. QED
      BY <1>1, <2>1, <2>2 DEF SupervisorIInv, SupervisorTypeOK, Forever
  <1>4. Placed'
    BY <1>1 DEF SupervisorIInv, Placed, Supervising, Unscheduled
  <1>5. Served'
    <2> SUFFICES ASSUME Supervising, NEW p \in 1..Len(Order), Order[p] \notin alive'
                 PROVE  Awaited(Order[p], p)'
      BY <1>1 DEF Served, Supervising
    <2>1. CASE Order[p] = n
      <3>1. down'[n] = 0 /\ due'[n] = Unscheduled /\ Unscheduled' = Unscheduled
        BY <1>1 DEF SupervisorIInv, SupervisorTypeOK, Placed, Unscheduled
      <3>2. Left(shell, turn, p) \in Int /\ Left(shell, turn, p) <= Round + 1
        <4>1. CASE shell = "sleep"
          <5>1. turn = 0
            BY <4>1 DEF SupervisorIInv, Placed
          <5>2. QED
            BY <4>1, <5>1, LeftBounds
        <4>2. CASE shell # "sleep"
          <5>1. turn \in 1..Len(Order)
            BY <4>2, SupervisorSizes DEF SupervisorIInv, Placed
          <5>2. QED
            BY <5>1, LeftBounds
        <4>3. QED
          BY <4>1, <4>2
      <3>3. down'[n] + Left(shell, turn, p) <= Round + 1
        BY <3>1, <3>2
      <3>4. QED
        BY <1>1, <2>1, <3>1, <3>3 DEF Awaited, Left, Round, Laps, Done
    <2>2. CASE Order[p] # n
      <3>1. Order[p] \notin alive /\ down'[Order[p]] = down[Order[p]]
        BY <1>1, <2>2, SupervisorSizes DEF SupervisorIInv, SupervisorTypeOK
      <3>2. Awaited(Order[p], p)
        BY <3>1 DEF SupervisorIInv, Served
      <3>3. QED
        BY <1>1, <3>1, <3>2 DEF Awaited, Left, Round, Laps, Done, Unscheduled
    <2>3. QED
      BY <2>1, <2>2
  <1>6. Recording'
    <2>1. CASE n \in Critical
      <3>1. Critical \ alive' = (Critical \ alive) \cup {n} /\ n \notin Critical \ alive
        BY <1>1, <2>1
      <3>2. Cardinality(Critical \ alive') = Cardinality(Critical \ alive) + 1
        BY <3>1, Unfinished, FS_AddElement
      <3>3. Unrecorded' = Unrecorded + 1 /\ Unrecorded \in Int
        BY <1>1, <3>2, Unfinished DEF Unrecorded
      <3>4. Len(failAges) \in Nat
        BY SupervisorTyped DEF SupervisorIInv
      <3>5. deaths >= MaxFails \/ Len(failAges) + Unrecorded <= deaths
              => deaths' >= MaxFails \/ Len(failAges) + Unrecorded' <= deaths'
        BY <1>2, <2>1, <3>3, <3>4
      <3>6. deaths >= MaxFails => deaths' >= MaxFails
        BY <1>2
      <3>7. QED
        BY <1>1, <3>5, <3>6 DEF SupervisorIInv, Recording, Supervising
    <2>2. CASE n \notin Critical
      <3>1. Critical \ alive' = Critical \ alive /\ deaths' = deaths
        BY <1>1, <1>2, <2>2
      <3>2. QED
        BY <1>1, <3>1 DEF SupervisorIInv, Recording, Supervising, Unrecorded
    <2>3. QED
      BY <2>1, <2>2
  <1>7. Ending'
    BY <1>1 DEF SupervisorIInv, Ending
  <1>8. QED
    BY <1>3, <1>4, <1>5, <1>6, <1>7 DEF SupervisorIInv

LEMMA BeginCleanupStep == SupervisorIInv /\ BeginCleanup => SupervisorIInv'
  <1> SUFFICES ASSUME SupervisorIInv, BeginCleanup PROVE SupervisorIInv'
    OBVIOUS
  <1>1. /\ (signal /\ shell \in {"scan", "restart"}) \/ shell = "failing"
        /\ shell' = IF signal THEN "cleanup" ELSE "fail_cleanup"
        /\ alive' \subseteq alive
        /\ UNCHANGED <<turn, upSince, failures, due, failAges, signal, down, deaths, pending>>
    BY DEF BeginCleanup
  <1>2. ~Supervising'
    BY <1>1 DEF Supervising
  <1>3. SupervisorTypeOK'
    BY <1>1 DEF SupervisorIInv, SupervisorTypeOK, Forever
  <1>4. Placed'
    BY <1>1, <1>2 DEF SupervisorIInv, Placed, Unscheduled
  <1>5. Served'
    BY <1>2 DEF Served
  <1>6. Recording'
    BY <1>1, <1>2 DEF SupervisorIInv, Recording
  <1>7. Ending'
    BY <1>1 DEF SupervisorIInv, Ending
  <1>8. QED
    BY <1>3, <1>4, <1>5, <1>6, <1>7 DEF SupervisorIInv

LEMMA EndCleanupStep == SupervisorIInv /\ EndCleanup => SupervisorIInv'
  <1> SUFFICES ASSUME SupervisorIInv, EndCleanup PROVE SupervisorIInv'
    OBVIOUS
  <1>1. /\ shell \in {"killing", "fail_killing"}
        /\ shell' = IF shell = "killing" THEN "stopped" ELSE "failed"
        /\ alive' = {}
        /\ UNCHANGED <<turn, upSince, failures, due, failAges, signal, down, deaths, pending>>
    BY DEF EndCleanup
  <1>2. ~Supervising'
    BY <1>1 DEF Supervising
  <1>3. SupervisorTypeOK'
    BY <1>1 DEF SupervisorIInv, SupervisorTypeOK, Forever
  <1>4. Placed'
    BY <1>1, <1>2 DEF SupervisorIInv, Placed, Unscheduled
  <1>5. Served'
    BY <1>2 DEF Served
  <1>6. Recording'
    BY <1>1, <1>2 DEF SupervisorIInv, Recording
  <1>7. Ending'
    BY <1>1 DEF SupervisorIInv, Ending
  <1>8. QED
    BY <1>3, <1>4, <1>5, <1>6, <1>7 DEF SupervisorIInv

LEMMA TermStep == SupervisorIInv /\ Term => SupervisorIInv'
  <1> SUFFICES ASSUME SupervisorIInv, Term PROVE SupervisorIInv'
    OBVIOUS
  <1>1. /\ shell \in {"sleep", "scan", "delay"} /\ signal' = TRUE /\ pending' = 0
        /\ UNCHANGED <<shell, turn, alive, upSince, failures, due, failAges, down, deaths>>
    BY DEF Term, Running
  <1>2. ~Supervising'
    BY <1>1 DEF Supervising
  <1>3. SupervisorTypeOK'
    <2>1. 0 \in 0..Forever
      BY SupervisorSizes
    <2>2. QED
      BY <1>1, <2>1 DEF SupervisorIInv, SupervisorTypeOK, Forever
  <1>4. Placed'
    BY <1>1, <1>2 DEF SupervisorIInv, Placed, Unscheduled
  <1>5. Served'
    BY <1>2 DEF Served
  <1>6. Recording'
    BY <1>1, <1>2 DEF SupervisorIInv, Recording
  <1>7. Ending'
    BY <1>1 DEF SupervisorIInv, Ending
  <1>8. QED
    BY <1>3, <1>4, <1>5, <1>6, <1>7 DEF SupervisorIInv

(* The shell that systemd starts again begins as the first one did. *)
LEMMA InitialAgain == SupervisorInit' => SupervisorIInv'
  BY SupervisorInitial, PTL

LEMMA BootStep == SupervisorIInv /\ Boot => SupervisorIInv'
  <1>1. Boot => SupervisorInit'
    BY DEF Boot, SupervisorInit, Nodes, Unscheduled
  <1>2. QED
    BY <1>1, InitialAgain

LEMMA FailuresAge ==
  ASSUME NEW ages \in Seq(0..FailWindow + 1)
  PROVE  /\ [i \in DOMAIN ages |-> Capped(ages[i], FailWindow + 1)] \in Seq(0..FailWindow + 1)
         /\ Len([i \in DOMAIN ages |-> Capped(ages[i], FailWindow + 1)]) = Len(ages)
  <1> DEFINE aged == [i \in DOMAIN ages |-> Capped(ages[i], FailWindow + 1)]
  <1>1. DOMAIN ages = 1..Len(ages) /\ Len(ages) \in Nat
    BY LenProperties
  <1>2. \A i \in 1..Len(ages) : ages[i] \in 0..FailWindow + 1
    BY ElementOfSeq
  <1>3. \A i \in 1..Len(ages) : Capped(ages[i], FailWindow + 1) \in 0..FailWindow + 1
    BY <1>2, SupervisorSizes DEF Capped
  <1>4. aged \in [1..Len(ages) -> 0..FailWindow + 1]
    BY <1>1, <1>3
  <1>5. aged \in Seq(0..FailWindow + 1)
    BY <1>1, <1>4, SeqDef
  <1>6. DOMAIN aged = 1..Len(ages)
    BY <1>1
  <1>7. Len(aged) = Len(ages)
    BY <1>1, <1>5, <1>6, LenProperties
  <1>8. QED
    BY <1>5, <1>7

LEMMA ElapseStep == SupervisorIInv /\ Elapse => SupervisorIInv'
  <1> SUFFICES ASSUME SupervisorIInv, Elapse PROVE SupervisorIInv'
    OBVIOUS
  <1>1. /\ shell \in {"sleep", "delay", "cleanup", "fail_cleanup"}
        /\ shell = "sleep" => shell' = "scan"
        /\ shell = "delay" => shell' = "restart"
        /\ shell = "cleanup" => shell' = "killing"
        /\ shell = "fail_cleanup" => shell' = "fail_killing"
        /\ turn' = IF shell = "sleep" THEN 1 ELSE turn
        /\ UNCHANGED <<alive, failures, signal, deaths>>
    BY DEF Elapse
  <1>2. /\ upSince' = [n \in Nodes |-> Capped(upSince[n], ResetAfter)]
        /\ down' = [n \in Nodes |-> IF n \in alive THEN 0 ELSE Capped(down[n], Forever)]
        /\ due' = [n \in Nodes |-> IF due[n] > 0 THEN due[n] - 1 ELSE due[n]]
        /\ failAges' = [i \in DOMAIN failAges |-> Capped(failAges[i], FailWindow + 1)]
        /\ pending' = IF signal THEN Capped(pending, Forever) ELSE 0
    BY DEF Elapse
  <1>3. Supervising' => Supervising /\ shell \in {"sleep", "delay"}
    BY <1>1 DEF Supervising
  <1>4. \A n \in Nodes : due'[n] = IF due[n] > 0 THEN due[n] - 1 ELSE due[n]
    BY <1>2
  <1>5. failAges' \in Seq(0..FailWindow + 1) /\ Len(failAges') = Len(failAges)
    BY <1>2, FailuresAge DEF SupervisorIInv, SupervisorTypeOK
  <1>6. turn \in Nat /\ turn <= Len(Order) /\ turn' \in Nat /\ turn' <= Len(Order)
    <2>1. turn \in Nat /\ turn <= Len(Order)
      BY DEF SupervisorIInv, Placed
    <2>2. QED
      BY <1>1, <2>1, SupervisorSizes
  <1>7. SupervisorTypeOK'
    <2>1. upSince' \in [Nodes -> 0..ResetAfter]
      <3>1. \A n \in Nodes : upSince[n] \in 0..ResetAfter
        BY DEF SupervisorIInv, SupervisorTypeOK
      <3>2. \A n \in Nodes : Capped(upSince[n], ResetAfter) \in 0..ResetAfter
        BY <3>1, SupervisorSizes DEF Capped
      <3>3. QED
        BY <1>2, <3>2
    <2>2. down' \in [Nodes -> 0..Forever]
      <3>1. \A n \in Nodes : down[n] \in 0..Forever
        BY DEF SupervisorIInv, SupervisorTypeOK
      <3>2. \A n \in Nodes : Capped(down[n], Forever) \in 0..Forever /\ 0 \in 0..Forever
        BY <3>1, SupervisorSizes DEF Capped
      <3>3. QED
        BY <1>2, <3>2
    <2>3. due' \in [Nodes -> Unscheduled..BackoffCap]
      <3>1. \A n \in Nodes : due[n] \in Unscheduled..BackoffCap
        BY DEF SupervisorIInv, SupervisorTypeOK
      <3>2. \A n \in Nodes : (IF due[n] > 0 THEN due[n] - 1 ELSE due[n]) \in Unscheduled..BackoffCap
        BY <3>1, SupervisorSizes
      <3>3. QED
        BY <1>2, <3>2
    <2>4. pending' \in 0..Forever
      <3>1. pending \in 0..Forever
        BY DEF SupervisorIInv, SupervisorTypeOK
      <3>2. QED
        BY <1>2, <3>1, SupervisorSizes DEF Capped
    <2>5. turn' \in 0..Len(Order)
      BY <1>6, SupervisorSizes
    <2>6. shell' \in {"scan", "restart", "killing", "fail_killing"}
      BY <1>1
    <2>7. QED
      BY <1>1, <1>5, <2>1, <2>2, <2>3, <2>4, <2>5, <2>6
         DEF SupervisorIInv, SupervisorTypeOK, Forever, Unscheduled
  <1>8. Placed'
    <2>1. \A n \in alive \cup Critical : n \in Nodes /\ due[n] = Unscheduled
      BY SupervisorAssumption DEF SupervisorIInv, SupervisorTypeOK, Placed
    <2>2. \A n \in alive \cup Critical : due'[n] = Unscheduled
      BY <1>4, <2>1, SupervisorSizes
    <2>3. CASE ~Supervising'
      BY <1>1, <1>6, <2>2, <2>3 DEF Placed, Unscheduled
    <2>4. CASE Supervising' /\ shell = "sleep"
      <3>1. shell' = "scan" /\ turn' = 1 /\ 1 # 0
        BY <1>1, <2>4
      <3>2. QED
        BY <1>1, <1>6, <2>2, <3>1 DEF Placed, Unscheduled
    <2>5. CASE Supervising' /\ shell = "delay"
      <3>1. shell' = "restart" /\ turn' = turn
        BY <1>1, <2>5
      <3>2. turn # 0 /\ Order[turn] \in Critical \ alive
        BY <1>3, <2>5 DEF SupervisorIInv, Placed
      <3>3. QED
        BY <1>1, <1>6, <2>2, <3>1, <3>2 DEF Placed, Unscheduled
    <2>6. QED
      BY <1>3, <2>3, <2>4, <2>5
  <1>9. Served'
    <2> SUFFICES ASSUME Supervising', NEW p \in 1..Len(Order), Order[p] \notin alive
                 PROVE  Awaited(Order[p], p)'
      BY <1>1 DEF Served
    <2> DEFINE n == Order[p]
    <2>1. Supervising /\ shell \in {"sleep", "delay"} /\ n \in Nodes
      BY <1>3, SupervisorSizes
    <2>2. /\ Left(shell', turn', p) = Left(shell, turn, p) - 1
          /\ Left(shell, turn, p) \in Int /\ Left(shell, turn, p) <= Round + 1
      <3>1. CASE shell = "sleep"
        <4>1. turn = 0 /\ shell' = "scan" /\ turn' = 1 /\ 1 \in 1..Len(Order)
          BY <1>1, <2>1, <3>1, SupervisorSizes DEF SupervisorIInv, Placed
        <4>2. Left("scan", 1, p) = Left("sleep", 0, p) - 1
          BY <4>1, LeftElapses
        <4>3. Left("sleep", 0, p) \in Int /\ Left("sleep", 0, p) <= Round + 1
          BY <4>1, LeftBounds
        <4>4. QED
          BY <3>1, <4>1, <4>2, <4>3
      <3>2. CASE shell = "delay"
        <4>1. turn # 0 /\ shell' = "restart" /\ turn' = turn /\ Order[turn] \in Critical
          BY <1>1, <2>1, <3>2 DEF SupervisorIInv, Placed
        <4>2. turn \in 1..Len(Order)
          BY <1>6, <4>1, SupervisorSizes
        <4>3. Left("restart", turn, p) = Left("delay", turn, p) - 1
          BY <4>1, <4>2, LeftElapses
        <4>4. Left("delay", turn, p) \in Int /\ Left("delay", turn, p) <= Round + 1
          BY <4>2, LeftBounds
        <4>5. QED
          BY <3>2, <4>1, <4>3, <4>4
      <3>3. QED
        BY <2>1, <3>1, <3>2
    <2>3. /\ down[n] \in Nat /\ due[n] \in Int /\ due[n] <= BackoffCap
          /\ due[n] = Unscheduled \/ due[n] \in Nat
          /\ Round \in Nat /\ BackoffCap \in Nat /\ Unscheduled = -1
      BY <2>1, SupervisorTyped, LapsCount, SupervisorSizes DEF SupervisorIInv
    <2>4. down'[n] \in Nat /\ down'[n] <= down[n] + 1
      BY <1>2, <2>1, <2>3 DEF Capped
    <2>5. due'[n] = IF due[n] > 0 THEN due[n] - 1 ELSE due[n]
      BY <1>4, <2>1
    <2>6. Awaited(n, p)
      BY <2>1 DEF SupervisorIInv, Served
    <2> HIDE DEF n
    <2>7. CASE n \in Critical \/ due[n] = Unscheduled
      <3>1. down[n] + Left(shell, turn, p) <= Round + 1
        BY <2>6, <2>7 DEF Awaited
      <3>2. down'[n] + Left(shell', turn', p) <= Round + 1
        BY <2>2, <2>3, <2>4, <3>1
      <3>3. n \in Critical \/ due'[n] = Unscheduled
        BY <2>3, <2>5, <2>7
      <3>4. QED
        BY <3>2, <3>3 DEF Awaited, Left, Round, Laps, Done, Unscheduled, n
    <2>8. CASE ~(n \in Critical \/ due[n] = Unscheduled)
      <3>1. due[n] \in Nat
        BY <2>3, <2>8
      <3>2. down[n] + (IF due[n] = 0 THEN Left(shell, turn, p) ELSE due[n] + Round)
              <= BackoffCap + 2 * Round + 1
        BY <2>6, <2>8 DEF Awaited
      <3>3. due'[n] \in Nat /\ due'[n] # Unscheduled
        BY <2>3, <2>5, <3>1
      <3>4. down'[n] + (IF due'[n] = 0 THEN Left(shell', turn', p) ELSE due'[n] + Round)
              <= BackoffCap + 2 * Round + 1
        <4>1. CASE due[n] = 0
          BY <2>2, <2>3, <2>4, <2>5, <3>2, <4>1
        <4>2. CASE due[n] = 1
          BY <2>2, <2>3, <2>4, <2>5, <3>2, <4>2
        <4>3. CASE due[n] > 1
          <5>1. due'[n] = due[n] - 1 /\ due'[n] # 0
            BY <2>5, <3>1, <4>3
          <5>2. down[n] + (due[n] + Round) <= BackoffCap + 2 * Round + 1
            BY <3>1, <3>2, <4>3
          <5>3. /\ down[n] \in Int /\ down'[n] \in Int /\ down'[n] <= down[n] + 1
                /\ due[n] \in Int /\ Round \in Int /\ BackoffCap \in Int
            BY <2>3, <2>4, <3>1
          <5>4. down'[n] + (due'[n] + Round) <= down[n] + (due[n] + Round)
            BY <5>1, <5>3
          <5>5. /\ down'[n] + (due'[n] + Round) \in Int /\ down[n] + (due[n] + Round) \in Int
                /\ BackoffCap + 2 * Round + 1 \in Int
            BY SMTT(30), <3>3, <5>3
          <5>6. down'[n] + (due'[n] + Round) <= BackoffCap + 2 * Round + 1
            BY <5>2, <5>4, <5>5
          <5>7. QED
            BY <5>1, <5>6
        <4>4. QED
          BY <3>1, <4>1, <4>2, <4>3
      <3>5. QED
        BY <2>8, <3>3, <3>4 DEF Awaited, Left, Round, Laps, Done, Unscheduled, n
    <2>9. QED
      BY <2>7, <2>8 DEF n
  <1>10. Recording'
    <2>1. Supervising' => Unrecorded' = Unrecorded
      BY <1>1, <1>3 DEF Unrecorded, Supervising
    <2>2. shell' = "fail_killing" => shell = "fail_cleanup"
      BY <1>1
    <2>3. shell' \in {"scan", "restart", "killing", "fail_killing"}
      BY <1>1
    <2>4. QED
      BY <1>1, <1>3, <1>5, <2>1, <2>2, <2>3 DEF SupervisorIInv, Recording
  <1>11. Ending'
    <2>1. CASE ~signal
      <3>1. pending' = 0 /\ ~signal'
        BY <1>1, <1>2, <2>1
      <3>2. QED
        BY <1>1, <3>1 DEF Ending
    <2>2. CASE signal /\ shell \in {"sleep", "delay"}
      <3>1. pending' = 1
        BY <1>2, <2>2, SupervisorSizes DEF SupervisorIInv, Ending, Capped
      <3>2. shell' \in {"scan", "restart"} /\ signal'
        BY <1>1, <2>2
      <3>3. QED
        BY <3>1, <3>2 DEF Ending
    <2>3. CASE signal /\ shell = "cleanup"
      <3>1. pending \in Nat /\ pending <= 1
        BY <2>3, SupervisorTyped DEF SupervisorIInv, Ending
      <3>2. pending' <= 2
        BY <1>2, <2>3, <3>1, SupervisorSizes DEF Capped
      <3>3. shell' = "killing" /\ signal'
        BY <1>1, <2>3
      <3>4. QED
        BY <3>2, <3>3 DEF Ending
    <2>4. QED
      BY <1>1, <2>1, <2>2, <2>3 DEF SupervisorIInv, Ending
  <1>12. QED
    BY <1>7, <1>8, <1>9, <1>10, <1>11 DEF SupervisorIInv

LEMMA SupervisorIdle == SupervisorIInv /\ UNCHANGED supervisorVars => SupervisorIInv'
  <1> SUFFICES ASSUME SupervisorIInv, UNCHANGED supervisorVars PROVE SupervisorIInv'
    OBVIOUS
  <1> USE DEF supervisorVars
  <1>1. SupervisorTypeOK'
    BY DEF SupervisorIInv, SupervisorTypeOK, Forever
  <1>2. Placed'
    BY DEF SupervisorIInv, Placed, Supervising, Unscheduled
  <1>3. Served'
    BY DEF SupervisorIInv, Served, Supervising, Awaited, Left, Round, Laps, Done, Unscheduled
  <1>4. Recording'
    BY DEF SupervisorIInv, Recording, Supervising, Unrecorded
  <1>5. Ending'
    BY DEF SupervisorIInv, Ending
  <1>6. QED
    BY <1>1, <1>2, <1>3, <1>4, <1>5 DEF SupervisorIInv

LEMMA SupervisorStep == SupervisorIInv /\ [SupervisorNext]_supervisorVars => SupervisorIInv'
  <1> SUFFICES ASSUME SupervisorIInv, [SupervisorNext]_supervisorVars PROVE SupervisorIInv'
    OBVIOUS
  <1>1. ASSUME NEW n \in Nodes, Scan(n) PROVE SupervisorIInv'
    BY <1>1, ScanAliveStep, ScanCriticalStep, RestartCriticalStep, ScheduleStep, AwaitStep,
       RestartAuxiliaryStep DEF Scan
  <1>2. ASSUME NEW n \in Nodes, Crash(n) PROVE SupervisorIInv'
    BY <1>2, CrashStep
  <1>3. CASE BeginCleanup \/ EndCleanup \/ Term \/ Boot \/ Elapse
    BY <1>3, BeginCleanupStep, EndCleanupStep, TermStep, BootStep, ElapseStep
  <1>4. CASE UNCHANGED supervisorVars
    BY <1>4, SupervisorIdle
  <1>5. QED
    BY <1>1, <1>2, <1>3, <1>4 DEF SupervisorNext

LEMMA SupervisorSafe == SupervisorIInv => SupervisorTypeOK /\ SupervisionHolds
  <1> SUFFICES ASSUME SupervisorIInv PROVE SupervisorTypeOK /\ SupervisionHolds
    OBVIOUS
  <1>1. BackInTime
    <2> SUFFICES ASSUME Running, ~signal, NEW n \in Nodes \ alive
                 PROVE  down[n] <= IF n \in Critical THEN CriticalBound ELSE AuxiliaryBound
      BY DEF BackInTime
    <2>1. Supervising
      BY DEF Running, Supervising
    <2>2. PICK p \in 1..Len(Order) : n = Order[p]
      BY DEF Nodes
    <2>3. Awaited(n, p)
      BY <2>1, <2>2 DEF SupervisorIInv, Served
    <2>4. Left(shell, turn, p) \in Int /\ 0 <= Left(shell, turn, p)
      <3>1. CASE shell = "sleep"
        <4>1. turn = 0 /\ 1 \in 1..Len(Order)
          BY <2>1, <3>1, SupervisorSizes DEF SupervisorIInv, Placed
        <4>2. QED
          BY <3>1, <4>1, LeftBounds
      <3>2. CASE shell # "sleep"
        <4>1. turn \in 1..Len(Order)
          BY <2>1, <3>2, SupervisorSizes DEF SupervisorIInv, Placed
        <4>2. QED
          BY <4>1, LeftBounds
      <3>3. QED
        BY <3>1, <3>2
    <2>5. /\ down[n] \in Nat /\ due[n] \in Int /\ (due[n] = Unscheduled \/ due[n] \in Nat)
          /\ Round \in Nat /\ BackoffCap \in Nat
      BY SupervisorTyped, LapsCount, SupervisorSizes DEF SupervisorIInv
    <2>6. CriticalBound = Round + 1 /\ AuxiliaryBound = BackoffCap + 2 * Round + 1
      <3>1. CriticalBound = Round + 1
        BY LapsCount
      <3>2. QED
        BY <2>5, <3>1 DEF AuxiliaryBound
    <2>7. CASE n \in Critical \/ due[n] = Unscheduled
      <3>1. down[n] + Left(shell, turn, p) <= Round + 1
        BY <2>3, <2>7 DEF Awaited
      <3>2. QED
        BY <2>4, <2>5, <2>6, <3>1
    <2>8. CASE ~(n \in Critical \/ due[n] = Unscheduled)
      <3>1. down[n] + (IF due[n] = 0 THEN Left(shell, turn, p) ELSE due[n] + Round)
              <= BackoffCap + 2 * Round + 1
        BY <2>3, <2>8 DEF Awaited
      <3>2. down[n] <= AuxiliaryBound
        BY <2>4, <2>5, <2>6, <2>8, <3>1
      <3>3. QED
        BY <2>8, <3>2
    <2>9. QED
      BY <2>7, <2>8
  <1>2. AuxiliaryIsolated
    BY DEF SupervisorIInv, Recording, AuxiliaryIsolated
  <1>3. ShutdownInTime
    BY DEF SupervisorIInv, Ending, ShutdownInTime
  <1>4. QED
    BY <1>1, <1>2, <1>3 DEF SupervisorIInv, SupervisionHolds

(* rpp_start.sh, whatever the nodes, their order and which are critical:    *)
(* a dead critical node is back within a round and its delay, an auxiliary  *)
(* one within its back-off and two rounds, only deaths of critical nodes    *)
(* end the shell, and a stop is over within two periods.                    *)
THEOREM SupervisionAlwaysHolds == SupervisorSpec => [](SupervisorTypeOK /\ SupervisionHolds)
  BY SupervisorInitial, SupervisorStep, SupervisorSafe, PTL DEF SupervisorSpec

=============================================================================
