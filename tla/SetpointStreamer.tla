--------------------------- MODULE SetpointStreamer ----------------------------
(***************************************************************************)
(* twist_to_setpoint_node.py: the node that keeps PX4's OFFBOARD stream    *)
(* alive.  RPP publishes a velocity and a yaw rate each cycle, best effort *)
(* with a queue of one; this node stores what it receives and streams a    *)
(* setpoint per period, zero when the velocity is old.                     *)
(*                                                                         *)
(* Time is counted in periods of the stream.  Age is counted from the      *)
(* callback, so a message that waited for a stalled executor is fresh when *)
(* it is taken.  RPP and PX4 are external: RPP publishes what it likes and *)
(* may fall silent, PX4 holds the last setpoint.                           *)
(***************************************************************************)
EXTENDS Naturals

CONSTANTS
  Headings,         \* directions of a velocity
  InputMaxAge,      \* input_max_age_s
  YawRateMaxAge,    \* yaw_rate_max_age_s
  ExecutorStall     \* assumed: periods the executor may miss

Zero       == "zero"
NonFinite  == "nan"
NoMessage  == "no message"

ASSUME StreamerAssumption ==
  /\ InputMaxAge \in Nat /\ YawRateMaxAge \in Nat /\ ExecutorStall \in Nat
  /\ Headings \cap {Zero, NonFinite, NoMessage} = {}

Velocities == Headings \cup {Zero}
YawRates   == {Zero, "turn"}

(* Ages are not counted further than the node or a property tells apart. *)
Ancient == InputMaxAge + YawRateMaxAge + 2 * ExecutorStall + 2

VARIABLES
  velocityBox, yawRateBox,          \* the queues of depth one
  latestVel, velAge,                \* _latest_vel, time since _latest_recv_time
  latestYawRate, yawRateAge,        \* _latest_yaw_rate_body, _yaw_rate_recv_time
  lastYaw,                          \* _last_yaw_cmd
  setpoint,                         \* the last PositionTarget, which PX4 holds
  streamed, missed,                 \* the timer ran in this period; periods it missed
  drivenAge, turnedAge              \* history: since RPP asked for a speed, a turn

streamerVars == <<velocityBox, yawRateBox, latestVel, velAge, latestYawRate, yawRateAge,
                  lastYaw, setpoint, streamed, missed, drivenAge, turnedAge>>

Older(t, bound) == IF t < bound THEN t + 1 ELSE t

-----------------------------------------------------------------------------
(* RPP publishes both in each cycle; a message the transport drops looks    *)
(* like silence.                                                            *)
PublishVelocity(v) ==
  /\ velocityBox' = v
  /\ drivenAge' = IF v \in Headings THEN 0 ELSE drivenAge
  /\ UNCHANGED <<yawRateBox, latestVel, velAge, latestYawRate, yawRateAge, lastYaw, setpoint,
                 streamed, missed, turnedAge>>

PublishYawRate(w) ==
  /\ yawRateBox' = w
  /\ turnedAge' = IF w = "turn" THEN 0 ELSE turnedAge
  /\ UNCHANGED <<velocityBox, latestVel, velAge, latestYawRate, yawRateAge, lastYaw, setpoint,
                 streamed, missed, drivenAge>>

(* _vel_cb and _yaw_rate_cb: what is not finite is dropped. *)
VelCb ==
  /\ velocityBox # NoMessage
  /\ IF velocityBox = NonFinite THEN UNCHANGED <<latestVel, velAge>>
                                ELSE latestVel' = velocityBox /\ velAge' = 0
  /\ velocityBox' = NoMessage
  /\ UNCHANGED <<yawRateBox, latestYawRate, yawRateAge, lastYaw, setpoint, streamed, missed,
                 drivenAge, turnedAge>>

YawRateCb ==
  /\ yawRateBox # NoMessage
  /\ IF yawRateBox = NonFinite THEN UNCHANGED <<latestYawRate, yawRateAge>>
                               ELSE latestYawRate' = yawRateBox /\ yawRateAge' = 0
  /\ yawRateBox' = NoMessage
  /\ UNCHANGED <<velocityBox, latestVel, velAge, lastYaw, setpoint, streamed, missed,
                 drivenAge, turnedAge>>

(* _stream_cb.  Below 1 cm/s the yaw is held; a yaw rate is fed forward     *)
(* only beside a fresh velocity.                                            *)
Stream(fresh, rateFresh, stopYaw) ==
  /\ ~streamed
  /\ LET vel   == IF fresh THEN latestVel ELSE Zero
         yaw   == IF vel = Zero THEN stopYaw ELSE vel
         rate  == IF fresh /\ rateFresh THEN latestYawRate ELSE Zero
     IN /\ setpoint' = [velocity |-> vel, yaw |-> yaw, yawRate |-> rate]
        /\ lastYaw' = yaw
  /\ streamed' = TRUE /\ missed' = 0
  /\ UNCHANGED <<velocityBox, yawRateBox, latestVel, velAge, latestYawRate, yawRateAge,
                 drivenAge, turnedAge>>

VelFresh == velAge <= InputMaxAge
RateFresh == yawRateAge <= YawRateMaxAge
StreamStale == Stream(TRUE, RateFresh, lastYaw)
StreamCb == Stream(VelFresh, RateFresh, lastYaw)

(* A period passes; a stall delays the timer and the callbacks alike.       *)
StreamTick ==
  /\ IF streamed
     THEN velocityBox = NoMessage /\ yawRateBox = NoMessage /\ UNCHANGED missed
     ELSE missed < ExecutorStall /\ missed' = missed + 1
  /\ streamed' = FALSE
  /\ velAge' = Older(velAge, InputMaxAge + 1)
  /\ yawRateAge' = Older(yawRateAge, YawRateMaxAge + 1)
  /\ drivenAge' = Older(drivenAge, Ancient) /\ turnedAge' = Older(turnedAge, Ancient)
  /\ UNCHANGED <<velocityBox, yawRateBox, latestVel, latestYawRate, lastYaw, setpoint>>

StreamerNext ==
  \/ \E v \in Velocities \cup {NonFinite} : PublishVelocity(v)
  \/ \E w \in YawRates \cup {NonFinite} : PublishYawRate(w)
  \/ VelCb \/ YawRateCb \/ StreamCb \/ StreamTick

StreamerInit ==
  /\ velocityBox = NoMessage /\ yawRateBox = NoMessage
  /\ latestVel = Zero /\ velAge = InputMaxAge + 1
  /\ latestYawRate = Zero /\ yawRateAge = YawRateMaxAge + 1
  /\ lastYaw \in Headings          \* 0.0: east
  /\ setpoint = [velocity |-> Zero, yaw |-> lastYaw, yawRate |-> Zero]
  /\ streamed = FALSE /\ missed = 0
  /\ drivenAge = Ancient /\ turnedAge = Ancient

StreamerSpec == StreamerInit /\ [][StreamerNext]_streamerVars

-----------------------------------------------------------------------------
StreamerTypeOK ==
  /\ velocityBox \in Velocities \cup {NonFinite, NoMessage}
  /\ yawRateBox \in YawRates \cup {NonFinite, NoMessage}
  /\ latestVel \in Velocities /\ latestYawRate \in YawRates
  /\ velAge \in 0..InputMaxAge + 1 /\ yawRateAge \in 0..YawRateMaxAge + 1
  /\ drivenAge \in 0..Ancient /\ turnedAge \in 0..Ancient
  /\ lastYaw \in Headings
  /\ setpoint \in [velocity : Velocities, yaw : Headings, yawRate : YawRates]
  /\ streamed \in BOOLEAN /\ missed \in 0..ExecutorStall

(* Once RPP no longer asks for a speed or for a turn, by a zero, by garbage  *)
(* or by silence, PX4 holds the setpoint no longer than the input's own age  *)
(* limit and two stalls: the one the message waited in and the one of the    *)
(* stream itself.  (The feed-forward of a turn outlives the velocity.)       *)
SilenceStops ==
  /\ setpoint.velocity # Zero => drivenAge <= InputMaxAge + 2 * ExecutorStall + 1
  /\ setpoint.yawRate # Zero => turnedAge <= YawRateMaxAge + 2 * ExecutorStall + 1
=============================================================================
