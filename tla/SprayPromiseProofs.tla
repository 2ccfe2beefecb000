-------------------------- MODULE SprayPromiseProofs --------------------------
(***************************************************************************)
(* What the spray node promises, for every value of its constants: it      *)
(* implements SprayIndication, and it commands only when it may            *)
(* (CommandDiscipline).                                                    *)
(*                                                                         *)
(* A callback chains several calls on the machine, so the argument is a    *)
(* relation between the fields before and after a call that holds of every *)
(* call and of every chain of calls, being reflexive and transitive        *)
(* (Lawful): no call gains certainty, none starts an ON but from a         *)
(* confirmed OFF, and none cuts a running backoff short.  Only the success *)
(* of the current command is not Lawful, and that is where certainty is    *)
(* gained; what is then certain is what SprayActuatorProofs established.   *)
(***************************************************************************)
EXTENDS SprayActuatorProofs

(* From f to g no certainty is gained and no ON starts but from OFF.        *)
Careful(f, g) ==
  /\ g.state = "OFF_CONFIRMED" => f.state = "OFF_CONFIRMED"
  /\ g.state = "DISABLED"      => f.state \in {"OFF_CONFIRMED", "DISABLED"}
  /\ g.state = "ON_CONFIRMED"  => f.state = "ON_CONFIRMED"
  /\ g.state = "ON_PENDING"    => f.state \in {"ON_PENDING", "OFF_CONFIRMED"}

(* A machine that waited for its backoff under the number n, some calls     *)
(* later and with the parameter spray_enabled at e: it still waits, or its  *)
(* backoff was reset and it has commanded at most once since.               *)
Patient(n, e, g) ==
  /\ e => g.prevEnabled
  /\ g.prevEnabled =>
       \/ g.state = "RECOVERY" /\ g.retryLeft > 0 /\ (g.cmd_seq = n \/ g.attempt <= 1)
       \/ g.state \in {"RECOVERY", "OFF_UNCONFIRMED"} /\ g.attempt = 0
       \/ g.state = "OFF_PENDING" /\ g.attempt = 0 /\ g.ackLeft > 0

Lawful(f, e, g) == Careful(f, g) /\ \A n \in Nat : Patient(n, e, f) => Patient(n, e, g)

LEMMA LawfulChains ==
  ASSUME NEW f, NEW g, NEW h, NEW e, Lawful(f, e, g), Lawful(g, e, h)
  PROVE  Lawful(f, e, h)
  <1>1. Careful(f, h)
    BY DEF Lawful, Careful
  <1>2. \A n \in Nat : Patient(n, e, f) => Patient(n, e, h)
    BY DEF Lawful
  <1> QED
    BY <1>1, <1>2 DEF Lawful

LEMMA LawfulAtRest == ASSUME NEW f, NEW e PROVE Lawful(f, e, f)
  BY DEF Lawful, Careful

-----------------------------------------------------------------------------
(* The calls on the machine.                                                *)

LEMMA DispatchFields ==
  ASSUME NEW f \in Fsm
  PROVE  /\ DispatchOff(f).fsm.state = "OFF_PENDING" /\ DispatchOn(f).fsm.state = "ON_PENDING"
         /\ DispatchOff(f).fsm.ackLeft = AckTimeout
         /\ DispatchOff(f).fsm.attempt = f.attempt
         /\ DispatchOff(f).fsm.prevEnabled = f.prevEnabled
         /\ DispatchOn(f).fsm.prevEnabled = f.prevEnabled
         /\ DispatchOff(f).cmd = "OFF" /\ DispatchOn(f).cmd = "ON"
         /\ DispatchOff(f).raised = FALSE /\ DispatchOn(f).raised = FALSE
  BY DEF Fsm, DispatchOff, DispatchOn

LEMMA RecoveryFields ==
  ASSUME NEW f \in Fsm
  PROVE  /\ EnterRecovery(f).fsm.state \in {f.state, "RECOVERY"}
         /\ EnterRecovery(f).fsm.prevEnabled = f.prevEnabled
         /\ f.attempt = 0 => /\ EnterRecovery(f).fsm.state = "RECOVERY"
                             /\ EnterRecovery(f).fsm.attempt = 1
                             /\ EnterRecovery(f).fsm.retryLeft > 0
  <1>1. f.attempt \in Nat /\ ~(0 >= FloatExpLimit)
    BY FsmAssumption DEF Fsm
  <1>2. CASE f.attempt >= FloatExpLimit
    <2>1. EnterRecovery(f).fsm = f
      BY <1>2 DEF EnterRecovery
    <2> QED
      BY <1>1, <1>2, <2>1
  <1>3. CASE ~(f.attempt >= FloatExpLimit)
    <2>1. EnterRecovery(f).fsm = [f EXCEPT !.state = "RECOVERY", !.retryLeft = Backoff(f.attempt),
                                          !.attempt = f.attempt + 1, !.ackLeft = NotPending]
      BY <1>3 DEF EnterRecovery, Quiet, Fsm
    <2>2. /\ EnterRecovery(f).fsm.state = "RECOVERY"
          /\ EnterRecovery(f).fsm.prevEnabled = f.prevEnabled
          /\ EnterRecovery(f).fsm.attempt = f.attempt + 1
          /\ EnterRecovery(f).fsm.retryLeft = Backoff(f.attempt)
      BY <2>1 DEF Fsm
    <2>3. BackoffBase * 2 ^ 0 = BackoffBase
      BY FsmAssumption
    <2>4. Backoff(0) = BackoffBase
      BY <2>3, FsmAssumption DEF Backoff
    <2>5. BackoffBase > 0
      BY FsmAssumption
    <2> QED
      BY <2>2, <2>4, <2>5
  <1> QED
    BY <1>2, <1>3

LEMMA ResetFields ==
  ASSUME NEW f \in Fsm
  PROVE  LET g == NoteEventReset(f)
         IN  /\ g.state = f.state /\ g.ackLeft = f.ackLeft /\ g.cmd_seq = f.cmd_seq
             /\ g.prevEnabled = f.prevEnabled /\ g.attempt = 0
  BY DEF Fsm, NoteEventReset

LEMMA ResetLawful ==
  ASSUME NEW f \in Fsm, NEW e PROVE Lawful(f, e, NoteEventReset(f))
  BY ResetFields DEF Lawful, Careful, Patient

(* tick, step by step.                                                      *)
LEMMA EnableEdgeFields ==
  ASSUME NEW f \in Fsm, NEW enabled \in BOOLEAN
  PROVE  /\ EnableEdge(f, enabled).state \in {f.state, "OFF_UNCONFIRMED"}
         /\ EnableEdge(f, enabled).prevEnabled = enabled
         /\ enabled /\ f.prevEnabled => EnableEdge(f, enabled) = f
  <1>1. CASE ~enabled /\ f.prevEnabled
    <2>1. EnableEdge(f, enabled) = [f EXCEPT !.prevEnabled = FALSE, !.disabled = TRUE, !.attempt = 0]
      BY <1>1 DEF EnableEdge
    <2> QED
      BY <1>1, <2>1 DEF Fsm
  <1>2. CASE enabled /\ ~f.prevEnabled
    <2>1. EnableEdge(f, enabled) =
            [f EXCEPT !.prevEnabled = TRUE, !.disabled = FALSE, !.state = "OFF_UNCONFIRMED",
                      !.attempt = 0, !.retryLeft = 0, !.ackLeft = NotPending]
      BY <1>2 DEF EnableEdge
    <2> QED
      BY <1>2, <2>1 DEF Fsm
  <1>3. CASE (enabled /\ f.prevEnabled) \/ (~enabled /\ ~f.prevEnabled)
    <2>1. EnableEdge(f, enabled) = f
      BY <1>3 DEF EnableEdge
    <2>2. f.prevEnabled \in BOOLEAN
      BY DEF Fsm
    <2> QED
      BY <1>3, <2>1, <2>2
  <1> QED
    BY <1>1, <1>2, <1>3 DEF Fsm

LEMMA SafetyEdgeFields ==
  ASSUME NEW f \in Fsm, NEW safety_ok \in BOOLEAN, NEW enabled \in BOOLEAN
  PROVE  LET g == SafetyEdge(f, safety_ok, enabled)
         IN  /\ g.state = f.state /\ g.ackLeft = f.ackLeft /\ g.cmd_seq = f.cmd_seq
             /\ g.prevEnabled = f.prevEnabled
             /\ (g.attempt = 0 \/ (g.attempt = f.attempt /\ g.retryLeft = f.retryLeft))
  <1> DEFINE h == [f EXCEPT !.prevSafe = safety_ok]
  <1>1. /\ h \in Fsm /\ h.state = f.state /\ h.ackLeft = f.ackLeft /\ h.cmd_seq = f.cmd_seq
        /\ h.prevEnabled = f.prevEnabled /\ h.attempt = f.attempt /\ h.retryLeft = f.retryLeft
    BY DEF Fsm
  <1>2. SafetyEdge(f, safety_ok, enabled) \in {h, NoteEventReset(h)}
    BY DEF SafetyEdge
  <1> HIDE DEF h
  <1> QED
    BY <1>1, <1>2, ResetFields

LEMMA DriveFields ==
  ASSUME NEW f \in Fsm, NEW desired \in BOOLEAN, NEW safety_ok \in BOOLEAN, NEW enabled \in BOOLEAN
  PROVE  LET o == Drive(f, desired, safety_ok, enabled)
         IN  /\ Careful(f, o.fsm)
             /\ o.fsm.prevEnabled = f.prevEnabled
             /\ enabled /\ f.state = "RECOVERY" /\ f.retryLeft > 0 => o = Quiet(f)
             /\ enabled /\ f.state \in {"RECOVERY", "OFF_UNCONFIRMED"} => o \in {Quiet(f), DispatchOff(f)}
             /\ enabled /\ f.state = "OFF_PENDING" => o = Quiet(f)
  <1> DEFINE settled == [f EXCEPT !.state = "DISABLED"]
             o == Drive(f, desired, safety_ok, enabled)
  <1>1. settled.state = "DISABLED" /\ settled.prevEnabled = f.prevEnabled
    BY DEF Fsm
  <1>2. \/ o \in {Quiet(f), DispatchOff(f)}
        \/ f.state = "OFF_CONFIRMED" /\ o = DispatchOn(f)
        \/ f.state = "OFF_CONFIRMED" /\ o = Quiet(settled)
    <2> HIDE DEF settled
    <2>1. \/ DriveOffDisabled(f) \in {Quiet(f), DispatchOff(f)}
          \/ f.state = "OFF_CONFIRMED" /\ DriveOffDisabled(f) = Quiet(settled)
      BY DEF DriveOffDisabled, settled
    <2>2. DriveOffSafety(f) \in {Quiet(f), DispatchOff(f)}
      BY DEF DriveOffSafety
    <2>3. \/ NormalTick(f, desired) \in {Quiet(f), DispatchOff(f)}
          \/ f.state = "OFF_CONFIRMED" /\ NormalTick(f, desired) = DispatchOn(f)
      BY DEF NormalTick
    <2> QED
      BY <2>1, <2>2, <2>3 DEF Drive
  <1>3. Quiet(f).fsm = f /\ Quiet(settled).fsm = settled
    BY DEF Quiet
  <1>4. ASSUME enabled
        PROVE  /\ f.state = "RECOVERY" /\ f.retryLeft > 0 => o = Quiet(f)
               /\ f.state \in {"RECOVERY", "OFF_UNCONFIRMED"} => o \in {Quiet(f), DispatchOff(f)}
               /\ f.state = "OFF_PENDING" => o = Quiet(f)
    <2>1. o = IF safety_ok THEN NormalTick(f, desired) ELSE DriveOffSafety(f)
      BY <1>4 DEF Drive
    <2>2. CASE f.state = "RECOVERY"
      <3>1. f.retryLeft > 0 => ~RetryDue(f)
        BY DEF RetryDue, Fsm
      <3>2. NormalTick(f, desired) = IF RetryDue(f) THEN DispatchOff(f) ELSE Quiet(f)
        BY <2>2 DEF NormalTick, Commanded
      <3>3. DriveOffSafety(f) = IF RetryDue(f) THEN DispatchOff(f) ELSE Quiet(f)
        BY <2>2 DEF DriveOffSafety
      <3> QED
        BY <2>1, <2>2, <3>1, <3>2, <3>3
    <2>3. CASE f.state = "OFF_UNCONFIRMED"
      BY <1>2, <2>3
    <2>4. CASE f.state = "OFF_PENDING"
      BY <2>1, <2>4 DEF NormalTick, DriveOffSafety, Commanded
    <2> QED
      BY <2>2, <2>3, <2>4
  <1> HIDE DEF settled, o
  <1>5. Careful(f, o.fsm) /\ o.fsm.prevEnabled = f.prevEnabled
    BY <1>1, <1>2, <1>3, DispatchFields DEF Careful
  <1> QED
    BY <1>4, <1>5 DEF o

LEMMA TimeoutFields ==
  ASSUME NEW f \in Fsm, Timed(f)
  PROVE  LET o == CheckPendingTimeout(f)
         IN  /\ o.fsm.state \in {f.state, "OFF_PENDING", "RECOVERY"}
             /\ o.fsm.prevEnabled = f.prevEnabled
             /\ f.ackLeft # 0 => o = Quiet(f)
  <1>1. CheckPendingTimeout(f) \in {Quiet(f), DispatchOff(f), EnterRecovery(f)}
    BY DEF CheckPendingTimeout, Timed, Pending, NotPending
  <1>2. f.ackLeft # 0 => CheckPendingTimeout(f) = Quiet(f)
    BY DEF CheckPendingTimeout
  <1>3. Quiet(f).fsm = f
    BY DEF Quiet
  <1>4. CASE CheckPendingTimeout(f) = Quiet(f)
    BY <1>3, <1>4
  <1>5. CASE CheckPendingTimeout(f) = DispatchOff(f)
    BY <1>2, <1>5, DispatchFields
  <1>6. CASE CheckPendingTimeout(f) = EnterRecovery(f)
    BY <1>2, <1>6, RecoveryFields
  <1> QED
    BY <1>1, <1>4, <1>5, <1>6

LEMMA TickLawful ==
  ASSUME NEW f \in Fsm, Timed(f),
         NEW desired \in BOOLEAN, NEW safety_ok \in BOOLEAN, NEW enabled \in BOOLEAN
  PROVE  Lawful(f, enabled, Tick(f, desired, safety_ok, enabled).fsm)
  <1> DEFINE x == EnableEdge(f, enabled)
             g == SafetyEdge(x, safety_ok, enabled)
             t == CheckPendingTimeout(g)
             d == Drive(t.fsm, desired, safety_ok, enabled)
             o == Tick(f, desired, safety_ok, enabled)
  <1>1. x \in Fsm /\ Timed(x)
    BY EnableEdgeKeeps DEF Edged
  <1>2. /\ x.state \in {f.state, "OFF_UNCONFIRMED"} /\ x.prevEnabled = enabled
        /\ enabled /\ f.prevEnabled => x = f
    BY EnableEdgeFields
  <1> HIDE DEF x
  <1>3. g \in Fsm /\ Timed(g)
    BY <1>1, SafetyEdgeKeeps DEF Edged
  <1>4. /\ g.state = x.state /\ g.ackLeft = x.ackLeft /\ g.cmd_seq = x.cmd_seq
        /\ g.prevEnabled = x.prevEnabled
        /\ (g.attempt = 0 \/ (g.attempt = x.attempt /\ g.retryLeft = x.retryLeft))
    BY <1>1, SafetyEdgeFields
  <1> HIDE DEF g
  <1>5. Sound(g, t)
    BY <1>3, CheckPendingTimeoutSound
  <1>6. t \in Outcome /\ t.fsm \in Fsm
    BY <1>5 DEF Sound, Outcome
  <1>7. o = IF t.raised \/ t.cmd # "none" THEN t ELSE d
    BY <1>6 DEF Tick, x, g
  <1>8. /\ t.fsm.state \in {g.state, "OFF_PENDING", "RECOVERY"} /\ t.fsm.prevEnabled = g.prevEnabled
        /\ g.ackLeft # 0 => t = Quiet(g)
    BY <1>3, TimeoutFields
  <1> HIDE DEF t
  <1>9. Careful(t.fsm, d.fsm) /\ d.fsm.prevEnabled = t.fsm.prevEnabled
    BY <1>6, DriveFields
  <1>10. Careful(f, o.fsm) /\ o.fsm.prevEnabled = enabled
    <2>1. Careful(f, t.fsm)
      BY <1>2, <1>4, <1>8 DEF Careful
    <2> HIDE DEF d, o
    <2>2. Careful(f, d.fsm)
      BY <1>9, <2>1 DEF Careful
    <2> QED
      BY <1>2, <1>4, <1>7, <1>8, <1>9, <2>1, <2>2
  <1>11. ASSUME NEW n \in Nat, Patient(n, enabled, f) PROVE Patient(n, enabled, o.fsm)
    <2>1. CASE ~enabled
      BY <1>10, <2>1 DEF Patient
    <2>2. CASE enabled
      <3>1. f.prevEnabled /\ x = f
        BY <1>2, <1>11, <2>2 DEF Patient
      <3>2. Patient(n, enabled, g) /\ g.prevEnabled
        BY <1>4, <1>11, <2>2, <3>1 DEF Patient
      <3>3. g.ackLeft # 0
        BY <1>3, <3>2 DEF Patient, Timed, Pending, NotPending
      <3>4. t = Quiet(g) /\ t.fsm = g /\ o = d
        <4>1. t = Quiet(g)
          BY <1>8, <3>3
        <4>2. t.fsm = g /\ t.raised = FALSE /\ t.cmd = "none"
          BY <4>1 DEF Quiet
        <4> HIDE DEF d, o
        <4> QED
          BY <1>7, <4>1, <4>2
      <3>5. d = Drive(g, desired, safety_ok, enabled)
        BY <3>4
      <3> HIDE DEF d, o
      <3>6. /\ g.state = "RECOVERY" /\ g.retryLeft > 0 => d = Quiet(g)
            /\ g.state \in {"RECOVERY", "OFF_UNCONFIRMED"} => d \in {Quiet(g), DispatchOff(g)}
            /\ g.state = "OFF_PENDING" => d = Quiet(g)
        BY <1>3, <2>2, <3>5, DriveFields
      <3>7. /\ DispatchOff(g).fsm.state = "OFF_PENDING" /\ DispatchOff(g).fsm.ackLeft > 0
            /\ DispatchOff(g).fsm.attempt = g.attempt
        <4>1. AckTimeout > 0
          BY FsmAssumption
        <4> QED
          BY <1>3, <4>1, DispatchFields
      <3>8. Quiet(g).fsm = g
        BY DEF Quiet
      <3>9. \/ o.fsm = g
            \/ /\ g.attempt = 0
               /\ o.fsm.state = "OFF_PENDING" /\ o.fsm.ackLeft > 0 /\ o.fsm.attempt = 0
        BY <3>2, <3>4, <3>6, <3>7, <3>8 DEF Patient
      <3> QED
        BY <1>10, <2>2, <3>2, <3>9 DEF Patient
    <2> QED
      BY <2>1, <2>2
  <1> QED
    BY <1>10, <1>11 DEF Lawful, o

(* on_ack: a reply that confirms nothing.                                   *)
LEMMA OnAckLawful ==
  ASSUME NEW f \in Fsm, Timed(f), NEW seq \in Nat, NEW success \in BOOLEAN, NEW e
  PROVE  \/ Lawful(f, e, OnAck(f, seq, success).fsm)
         \/ Confirms(f, seq, success, OnAck(f, seq, success))
  <1> DEFINE o == OnAck(f, seq, success)
             on  == [f EXCEPT !.state = "ON_CONFIRMED", !.ackLeft = NotPending]
             off == [f EXCEPT !.state = IF f.disabled THEN "DISABLED" ELSE "OFF_CONFIRMED",
                              !.ackLeft = NotPending, !.attempt = 0, !.retryLeft = 0]
  <1>1. \/ o = Quiet(f)
        \/ f.state = "ON_PENDING" /\ o = DispatchOff(f)
        \/ f.state = "OFF_PENDING" /\ o = EnterRecovery(f)
        \/ f.state = "ON_PENDING" /\ o = Quiet(on)
        \/ f.state = "OFF_PENDING" /\ o = Quiet(off)
    BY Zenon DEF OnAck
  <1>2. /\ Quiet(f).fsm = f
        /\ Quiet(on).fsm.state = "ON_CONFIRMED" /\ Quiet(on).cmd = "none"
        /\ Quiet(off).fsm.state \in {"OFF_CONFIRMED", "DISABLED"} /\ Quiet(off).cmd = "none"
    BY DEF Quiet, Fsm
  <1>3. Sound(f, o) \/ Confirms(f, seq, success, o)
    BY OnAckSound
  <1> HIDE DEF o, on, off
  <1>4. CASE o = Quiet(f)
    BY <1>2, <1>4, LawfulAtRest DEF o
  <1>5. CASE f.state = "ON_PENDING" /\ o = DispatchOff(f)
    <2>1. o.fsm.state = "OFF_PENDING" /\ o.fsm.prevEnabled = f.prevEnabled
      BY <1>5, DispatchFields
    <2>2. Lawful(f, e, o.fsm)
      BY <1>5, <2>1 DEF Lawful, Careful, Patient
    <2> QED
      BY <2>2 DEF o
  <1>6. CASE f.state = "OFF_PENDING" /\ o = EnterRecovery(f)
    <2>1. /\ o.fsm.state \in {"OFF_PENDING", "RECOVERY"} /\ o.fsm.prevEnabled = f.prevEnabled
          /\ f.attempt = 0 => /\ o.fsm.state = "RECOVERY"
                              /\ o.fsm.attempt = 1 /\ o.fsm.retryLeft > 0
      BY <1>6, RecoveryFields
    <2>2. Careful(f, o.fsm)
      BY <2>1 DEF Careful
    <2>3. ASSUME NEW n \in Nat, Patient(n, e, f) PROVE Patient(n, e, o.fsm)
      <3>1. f.prevEnabled => f.attempt = 0
        BY <1>6, <2>3 DEF Patient
      <3>2. CASE f.prevEnabled
        BY <2>1, <3>1, <3>2 DEF Patient
      <3>3. CASE ~f.prevEnabled
        BY <2>1, <2>3, <3>3 DEF Patient
      <3> QED
        BY <3>2, <3>3
    <2>4. Lawful(f, e, o.fsm)
      BY <2>2, <2>3 DEF Lawful
    <2> QED
      BY <2>4 DEF o
  <1>7. CASE \/ f.state = "ON_PENDING" /\ o = Quiet(on)
             \/ f.state = "OFF_PENDING" /\ o = Quiet(off)
    <2>1. ~Follows(f, o)
      <3>1. CASE f.state = "ON_PENDING" /\ o = Quiet(on)
        BY <1>2, <3>1 DEF Follows, Pending
      <3>2. CASE f.state = "OFF_PENDING" /\ o = Quiet(off)
        BY <1>2, <3>2 DEF Follows, Pending
      <3> QED
        BY <1>7, <3>1, <3>2
    <2> QED
      BY <1>3, <2>1 DEF Sound, o
  <1> QED
    BY <1>1, <1>4, <1>5, <1>6, <1>7

-----------------------------------------------------------------------------
(* The calls of the node.                                                   *)

LEMMA FailNowLawful ==
  ASSUME NEW f \in Fsm, NEW e, NEW o, Sound(f, o), Lawful(f, e, o.fsm)
  PROVE  Lawful(f, e, FailNow[o].fsm)
  <1> DEFINE g == o.fsm
             a == OnAck(g, g.cmd_seq, FALSE)
  <1>1. o \in Outcome /\ g \in Fsm /\ Timed(g)
    BY DEF Sound, Outcome
  <1>2. FailNow[o] = IF o.raised \/ o.cmd = "none" THEN o ELSE a
    BY <1>1 DEF FailNow
  <1>3. g.cmd_seq \in Nat
    BY <1>1 DEF Fsm
  <1> HIDE DEF g
  <1>4. Lawful(g, e, a.fsm)
    BY <1>1, <1>3, OnAckLawful DEF Confirms
  <1> HIDE DEF a
  <1>5. Lawful(f, e, a.fsm)
    BY <1>4, LawfulChains DEF g
  <1> QED
    BY <1>2, <1>5

LEMMA DispatchCommandLawful ==
  ASSUME NEW c, CallType(c), NEW e, NEW o, Sound(c.fsm, o), Lawful(c.fsm, e, o.fsm),
         NEW ready \in BOOLEAN
  PROVE  Lawful(c.fsm, e, DispatchCommand(c, o, ready).fsm)
  <1> DEFINE x == IF ready THEN o ELSE FailNow[FailNow[o]]
  <1>1. c.fsm \in Fsm
    BY DEF CallType
  <1>2. Sound(c.fsm, FailNow[o]) /\ Lawful(c.fsm, e, FailNow[o].fsm)
    BY <1>1, FailNowSound, FailNowLawful
  <1>3. Sound(c.fsm, FailNow[FailNow[o]]) /\ Lawful(c.fsm, e, FailNow[FailNow[o]].fsm)
    BY <1>1, <1>2, FailNowSound, FailNowLawful
  <1>4. x \in Outcome /\ Lawful(c.fsm, e, x.fsm)
    BY <1>3 DEF Sound
  <1>5. DispatchCommand(c, o, ready).fsm = x.fsm
    BY <1>4 DEF DispatchCommand
  <1> QED
    BY <1>4, <1>5

LEMMA DriveFsmTickLawful ==
  ASSUME NEW c, CallType(c),
         NEW a \in BOOLEAN, NEW m, m.active \in BOOLEAN, NEW d,
         NEW u, u.desired \in BOOLEAN, NEW e \in BOOLEAN, NEW ready \in BOOLEAN
  PROVE  Lawful(c.fsm, e, DriveFsmTick(c, a, m, d, u, e, ready).fsm)
  <1> DEFINE o == Tick(c.fsm, EffectiveDesired(m, u), FsmSafetyOk(a, m, d), e)
  <1>1. c.fsm \in Fsm /\ Timed(c.fsm)
    BY DEF CallType
  <1>2. EffectiveDesired(m, u) \in BOOLEAN /\ FsmSafetyOk(a, m, d) \in BOOLEAN
    BY DEF EffectiveDesired, FsmSafetyOk
  <1>3. Sound(c.fsm, o) /\ Lawful(c.fsm, e, o.fsm)
    BY <1>1, <1>2, TickSound, TickLawful
  <1> HIDE DEF o
  <1>4. Lawful(c.fsm, e, DispatchCommand(c, o, ready).fsm)
    BY <1>3, DispatchCommandLawful
  <1>5. Lawful(c.fsm, e, c.fsm)
    BY LawfulAtRest
  <1> QED
    BY <1>4, <1>5 DEF DriveFsmTick, o

LEMMA EndCallbackLawful ==
  ASSUME NEW f, NEW c, CallType(c), EnvTypeOK', EndCallback(c),
         Lawful(f, spray_enabled', c.fsm)
  PROVE  Lawful(f, spray_enabled', fsm')
  <1>1. /\ manual'.active \in BOOLEAN /\ auto'.desired \in BOOLEAN
        /\ armed' \in BOOLEAN /\ spray_enabled' \in BOOLEAN /\ service_ready' \in BOOLEAN
    BY DEF EnvTypeOK, ManualType, AutoType
  <1>2. Lawful(c.fsm, spray_enabled', Redriven(c).fsm)
    BY <1>1, DriveFsmTickLawful DEF Redriven
  <1>3. Lawful(f, spray_enabled', Redriven(c).fsm)
    BY <1>2, LawfulChains
  <1>4. fsm' \in {c.fsm, Redriven(c).fsm}
    BY DEF EndCallback
  <1> QED
    BY <1>3, <1>4

-----------------------------------------------------------------------------
(* One step.                                                                *)

LEMMA HereIsTyped ==
  ASSUME TypeOK PROVE CallType(Here) /\ Here.fsm = fsm
  BY DEF TypeOK, CallType, Here, Timed

LEMMA AfterTypes ==
  ASSUME Inv'
  PROVE  EnvTypeOK' /\ manual'.active \in BOOLEAN /\ auto'.desired \in BOOLEAN
  BY DEF Inv, TypeOK, EnvTypeOK, AutoType, ManualType

(* The callbacks that drive the machine once.                               *)
LEMMA StateCbLawful ==
  ASSUME Inv, NEW a \in BOOLEAN, NEW o \in BOOLEAN, StateCb(a, o)
  PROVE  Lawful(fsm, spray_enabled', fsm') /\ valve' = valve
  <1> DEFINE c == DriveFsmTick(Here, a, manual', decision, auto, spray_enabled, service_ready)
  <1>1. EnvTypeOK' /\ manual'.active \in BOOLEAN /\ auto'.desired \in BOOLEAN
    BY StateCbKeeps, AfterTypes
  <1>2. CallType(Here) /\ Here.fsm = fsm /\ InOrder(Here, replies, valve)
    BY HereIsTyped, InputTypes DEF Inv
  <1>3. CallType(c)
    BY <1>1, <1>2, InputTypes, DriveFsmTickInOrder DEF Inv, InOrder
  <1>4. Lawful(fsm, spray_enabled, c.fsm)
    BY <1>1, <1>2, InputTypes, DriveFsmTickLawful DEF Inv
  <1>5. spray_enabled' = spray_enabled /\ valve' = valve /\ EndCallback(c)
    BY DEF StateCb, linkVars, worldVars
  <1> HIDE DEF c
  <1> QED
    BY <1>1, <1>3, <1>4, <1>5, EndCallbackLawful

LEMMA ManualCbLawful ==
  ASSUME Inv, NEW on \in BOOLEAN, ManualCb(on)
  PROVE  Lawful(fsm, spray_enabled', fsm') /\ valve' = valve
  <1> DEFINE c == DriveFsmTick(Here, armed, manual', decision, auto, spray_enabled, service_ready)
  <1>1. EnvTypeOK' /\ manual'.active \in BOOLEAN /\ auto'.desired \in BOOLEAN
    BY ManualCbKeeps, AfterTypes
  <1>2. CallType(Here) /\ Here.fsm = fsm /\ InOrder(Here, replies, valve)
    BY HereIsTyped, InputTypes DEF Inv
  <1>3. CallType(c)
    BY <1>1, <1>2, InputTypes, DriveFsmTickInOrder DEF Inv, InOrder
  <1>4. Lawful(fsm, spray_enabled, c.fsm)
    BY <1>1, <1>2, InputTypes, DriveFsmTickLawful DEF Inv
  <1>5. spray_enabled' = spray_enabled /\ valve' = valve /\ EndCallback(c)
    BY DEF ManualCb, linkVars, worldVars
  <1> HIDE DEF c
  <1> QED
    BY <1>1, <1>3, <1>4, <1>5, EndCallbackLawful

LEMMA ServiceProbeTickLawful ==
  ASSUME Inv, ServiceProbeTick
  PROVE  Lawful(fsm, spray_enabled', fsm') /\ valve' = valve
  <1> DEFINE c == DriveFsmTick(Here, armed, manual, decision, auto, spray_enabled, service_ready')
  <1>1. EnvTypeOK' /\ manual'.active \in BOOLEAN /\ auto'.desired \in BOOLEAN
    BY ServiceProbeTickKeeps, AfterTypes
  <1>2. CallType(Here) /\ Here.fsm = fsm /\ InOrder(Here, replies, valve)
    BY HereIsTyped, InputTypes DEF Inv
  <1>6. service_ready' \in BOOLEAN
    BY DEF ServiceProbeTick
  <1>3. CallType(c)
    BY <1>6, <1>1, <1>2, InputTypes, DriveFsmTickInOrder DEF Inv, InOrder
  <1>4. Lawful(fsm, spray_enabled, c.fsm)
    BY <1>6, <1>1, <1>2, InputTypes, DriveFsmTickLawful DEF Inv
  <1>5. spray_enabled' = spray_enabled /\ valve' = valve /\ EndCallback(c)
    BY DEF ServiceProbeTick, linkVars, worldVars
  <1> HIDE DEF c
  <1> QED
    BY <1>1, <1>3, <1>4, <1>5, EndCallbackLawful

(* The watchdog may drive it twice.                                         *)
LEMMA WatchdogTickLawful ==
  ASSUME Inv, WatchdogTick
  PROVE  Lawful(fsm, spray_enabled', fsm') /\ valve' = valve
  <1> DEFINE once  == DriveFsmTick(Here, armed, NoManual, decision, auto, spray_enabled, service_ready)
             first == IF Expired(manual) THEN once ELSE Here
             c == DriveFsmTick(first, armed, manual', decision', auto', spray_enabled, service_ready)
  <1>1. EnvTypeOK' /\ manual'.active \in BOOLEAN /\ auto'.desired \in BOOLEAN
    BY WatchdogTickKeeps, AfterTypes
  <1>2. CallType(Here) /\ Here.fsm = fsm /\ InOrder(Here, replies, valve)
    BY HereIsTyped, InputTypes DEF Inv
  <1>3. InOrder(once, replies, valve) /\ Lawful(fsm, spray_enabled, once.fsm)
    BY <1>2, StartTypes, InputTypes, DriveFsmTickInOrder, DriveFsmTickLawful DEF Inv
  <1> HIDE DEF once
  <1>4. InOrder(first, replies, valve) /\ Lawful(fsm, spray_enabled, first.fsm)
    BY <1>2, <1>3, LawfulAtRest
  <1> HIDE DEF first
  <1>5. CallType(first)
    BY <1>4 DEF InOrder
  <1>6. CallType(c)
    BY <1>1, <1>4, InputTypes, DriveFsmTickInOrder DEF Inv, InOrder
  <1>7. Lawful(first.fsm, spray_enabled, c.fsm)
    BY <1>1, <1>5, InputTypes, DriveFsmTickLawful DEF Inv
  <1>8. spray_enabled' = spray_enabled /\ valve' = valve /\ EndCallback(c)
    BY DEF WatchdogTick, linkVars, worldVars, first, once
  <1> HIDE DEF c
  <1>9. Lawful(fsm, spray_enabled', c.fsm)
    BY <1>4, <1>7, <1>8, LawfulChains
  <1> QED
    BY <1>1, <1>6, <1>8, <1>9, EndCallbackLawful

(* Repeating an ON leaves the machine alone.                                *)
LEMMA ReassertTickLawful ==
  ASSUME Inv, ReassertTick
  PROVE  Lawful(fsm, spray_enabled', fsm') /\ valve' = valve
  <1> DEFINE c == DriveFsmTick(Here, armed, manual, decision, auto, spray_enabled, service_ready)
             m == Append(c.link, [seq |-> 0, on |-> TRUE])
             d == IF ReassertDue(c) THEN [c EXCEPT !.link = m] ELSE c
  <1>1. EnvTypeOK'
    BY ReassertTickKeeps, AfterTypes
  <1>2. CallType(Here) /\ Here.fsm = fsm /\ InOrder(Here, replies, valve)
    BY HereIsTyped, InputTypes DEF Inv
  <1>3. InOrder(c, replies, valve)
    BY <1>2, InputTypes, DriveFsmTickInOrder DEF Inv
  <1>4. Lawful(fsm, spray_enabled, c.fsm)
    BY <1>2, InputTypes, DriveFsmTickLawful DEF Inv
  <1>5. spray_enabled' = spray_enabled /\ valve' = valve /\ EndCallback(d)
    BY DEF ReassertTick, linkVars, worldVars
  <1> HIDE DEF c
  <1>6. ReassertDue(c) => m \in Seq(Request)
    BY <1>3, InputTypes, ReassertInOrder DEF Inv, ReassertDue
  <1>7. c.fsm \in Fsm /\ Timed(c.fsm) /\ c.raised \in BOOLEAN /\ CallType(c)
        /\ c = [fsm |-> c.fsm, link |-> c.link, raised |-> c.raised]
    BY <1>3 DEF InOrder, CallType
  <1> HIDE DEF m
  <1>8. CallType(d) /\ d.fsm = c.fsm
    <2>1. CASE ReassertDue(c)
      <3>1. d = [fsm |-> c.fsm, link |-> m, raised |-> c.raised]
        BY <1>7, <2>1
      <3> HIDE DEF d
      <3> QED
        BY <1>6, <1>7, <2>1, <3>1 DEF CallType
    <2>2. CASE ~ReassertDue(c)
      BY <1>7, <2>2
    <2> QED
      BY <2>1, <2>2
  <1> HIDE DEF d
  <1>9. Lawful(fsm, spray_enabled', d.fsm)
    BY <1>4, <1>5, <1>8
  <1> QED
    BY <1>1, <1>5, <1>8, <1>9, EndCallbackLawful

LEMMA ResetCallLawful ==
  ASSUME Inv
  PROVE  /\ CallType(Reset) /\ InOrder(Reset, replies, valve)
         /\ \A e : Lawful(fsm, e, Reset.fsm)
  <1>1. Reset.fsm = NoteEventReset(fsm) /\ fsm \in Fsm
    BY DEF Reset, Inv, TypeOK
  <1> QED
    BY <1>1, ResetInOrder, ResetLawful DEF InOrder

LEMMA MissionLoadedLawful ==
  ASSUME Inv, NEW empty \in BOOLEAN, MissionLoaded(empty)
  PROVE  Lawful(fsm, spray_enabled', fsm') /\ valve' = valve
  <1> DEFINE u == IF empty THEN Debounced(auto, FALSE) ELSE auto
             c == DriveFsmTick(Reset, armed, manual, decision, u, spray_enabled, service_ready)
             d == IF empty THEN c ELSE Reset
  <1>1. EnvTypeOK' /\ manual'.active \in BOOLEAN /\ auto'.desired \in BOOLEAN
    BY MissionLoadedKeeps, AfterTypes
  <1>2. /\ auto' = u /\ spray_enabled' = spray_enabled /\ valve' = valve
        /\ EndCallback(d)
    BY DEF MissionLoaded, linkVars, worldVars
  <1> HIDE DEF u
  <1>3. CallType(Reset) /\ InOrder(Reset, replies, valve) /\ Lawful(fsm, spray_enabled, Reset.fsm)
    BY ResetCallLawful
  <1>4. u.desired \in BOOLEAN
    BY <1>1, <1>2
  <1>5. InOrder(c, replies, valve)
    BY <1>3, <1>4, InputTypes, DriveFsmTickInOrder DEF Inv
  <1>6. Lawful(Reset.fsm, spray_enabled, c.fsm)
    BY <1>3, <1>4, InputTypes, DriveFsmTickLawful DEF Inv
  <1> HIDE DEF c
  <1>7. CallType(d) /\ Lawful(fsm, spray_enabled, d.fsm)
    BY <1>3, <1>5, <1>6, LawfulChains DEF InOrder
  <1> HIDE DEF d
  <1> QED
    BY <1>1, <1>2, <1>7, EndCallbackLawful

LEMMA ShutdownLawful ==
  ASSUME Inv, Shutdown
  PROVE  Lawful(fsm, spray_enabled', fsm') /\ valve' = valve
  <1> DEFINE c == DriveFsmTick(Reset, armed, NoManual, decision, AutoInit, spray_enabled, service_ready)
  <1>1. CallType(Reset) /\ Lawful(fsm, spray_enabled, Reset.fsm)
    BY ResetCallLawful
  <1>2. Lawful(Reset.fsm, spray_enabled, c.fsm)
    BY <1>1, StartTypes, InputTypes, DriveFsmTickLawful DEF Inv
  <1>3. fsm' = c.fsm /\ spray_enabled' = spray_enabled /\ valve' = valve
    BY DEF Shutdown, worldVars, linkVars
  <1> QED
    BY <1>1, <1>2, <1>3, LawfulChains

(* A new process starts from the initial fields, under the law.             *)
LEMMA FreshLawful ==
  ASSUME NEW l \in Seq(Request), \A i \in DOMAIN l : l[i].seq = 0,
         NEW a \in BOOLEAN, NEW e \in BOOLEAN, NEW ready \in BOOLEAN
  PROVE  Lawful(FsmInit, e, DriveFsmTick(Fresh(l), a, NoManual, "none", AutoInit, e, ready).fsm)
  <1>1. CallType(Fresh(l)) /\ Fresh(l).fsm = FsmInit
    BY FreshInOrder DEF InOrder, Fresh
  <1> QED
    BY <1>1, StartTypes, DriveFsmTickLawful

LEMMA RestartLawful ==
  ASSUME Inv, Restart
  PROVE  Lawful(FsmInit, spray_enabled', fsm') /\ valve' = valve
  <1> DEFINE l == Orphaned(link)
  <1>1. link \in Seq(Request) /\ spray_enabled \in BOOLEAN
    BY DEF Inv, TypeOK
  <1>2. l \in Seq(Request) /\ \A i \in DOMAIN l : l[i].seq = 0
    BY <1>1, OrphanedType
  <1>3. PICK ready \in BOOLEAN :
          fsm' = DriveFsmTick(Fresh(l), armed', NoManual, "none", AutoInit, spray_enabled, ready).fsm
    BY DEF Restart
  <1>4. spray_enabled' = spray_enabled /\ valve' = valve /\ armed' \in BOOLEAN
    BY DEF Restart, worldVars
  <1> HIDE DEF l
  <1> QED
    BY <1>1, <1>2, <1>3, <1>4, FreshLawful

(* The one step that is not lawful, because it may confirm.                 *)
LEMMA CommandDoneConfirms ==
  ASSUME Inv, NEW r \in replies, CommandDone(r)
  PROVE  /\ valve' = valve
         /\ \/ Lawful(fsm, spray_enabled', fsm')
            \/ fsm.state \in Pending /\ fsm'.state # "ON_PENDING"
  <1> DEFINE o == OnAck(fsm, r.seq, r.success)
             c == DispatchCommand(Here, o, service_ready)
  <1>1. EnvTypeOK' /\ manual'.active \in BOOLEAN /\ auto'.desired \in BOOLEAN
    BY CommandDoneKeeps, AfterTypes
  <1>2. CallType(Here) /\ Here.fsm = fsm /\ Here.link = link /\ InOrder(Here, replies, valve)
    BY HereIsTyped, InputTypes DEF Inv, Here
  <1>3. /\ fsm \in Fsm /\ Timed(fsm) /\ link \in Seq(Request)
        /\ r.seq \in Nat /\ r.success \in BOOLEAN
        /\ service_ready \in BOOLEAN /\ replies \in SUBSET Reply /\ valve \in BOOLEAN
    BY InputTypes DEF Inv, TypeOK, Timed, Reply
  <1>4. spray_enabled' = spray_enabled /\ valve' = valve /\ EndCallback(c)
    BY DEF CommandDone, worldVars
  <1>5. \/ Sound(fsm, o) /\ Lawful(fsm, spray_enabled, o.fsm)
        \/ Confirms(fsm, r.seq, r.success, o)
    BY <1>3, OnAckSound, OnAckLawful
  <1> HIDE DEF o
  <1>6. CASE Sound(fsm, o) /\ Lawful(fsm, spray_enabled, o.fsm)
    <2>1. InOrder(c, replies, valve)
      BY <1>2, <1>3, <1>6, DispatchCommandInOrder
    <2>2. Lawful(fsm, spray_enabled, c.fsm)
      BY <1>2, <1>3, <1>6, DispatchCommandLawful
    <2> HIDE DEF c
    <2> QED
      BY <1>1, <1>4, <2>1, <2>2, EndCallbackLawful DEF InOrder
  <1>7. CASE Confirms(fsm, r.seq, r.success, o)
    <2>1. /\ o \in Outcome /\ Timed(o.fsm) /\ o.cmd = "none" /\ fsm.state \in Pending
          /\ o.fsm.state \in {"ON_CONFIRMED", "OFF_CONFIRMED", "DISABLED"}
      BY <1>7 DEF Confirms, Pending
    <2>2. FailNow[o] = o
      BY <2>1 DEF FailNow
    <2>3. c = [fsm |-> o.fsm, link |-> link, raised |-> o.raised]
      BY <1>2, <2>1, <2>2 DEF DispatchCommand
    <2> HIDE DEF c
    <2>4. CallType(c) /\ c.fsm = o.fsm
      BY <1>3, <2>1, <2>3 DEF CallType, Outcome
    <2>5. \/ fsm' = c.fsm
          \/ ~OffConfirmed(c.fsm) /\ fsm' = Redriven(c).fsm
      BY <1>4 DEF EndCallback
    <2>6. armed' \in BOOLEAN /\ spray_enabled' \in BOOLEAN /\ service_ready' \in BOOLEAN
      BY <1>1 DEF EnvTypeOK
    <2>7. Careful(c.fsm, Redriven(c).fsm)
      BY <1>1, <2>4, <2>6, DriveFsmTickLawful DEF Redriven, Lawful
    <2>8. fsm'.state # "ON_PENDING"
      BY <2>1, <2>4, <2>5, <2>7 DEF Careful, OffConfirmed
    <2> QED
      BY <1>4, <2>1, <2>8
  <1> QED
    BY <1>5, <1>6, <1>7

(* What any step does to the machine, seen from outside.                    *)
LEMMA EveryStep ==
  ASSUME Inv, [Next]_vars
  PROVE  \/ fsm' = fsm
         \/ /\ valve' = valve
            /\ \/ fsm'.state = fsm.state /\ fsm'.cmd_seq = fsm.cmd_seq
               \/ Lawful(fsm, spray_enabled', fsm')
               \/ Lawful(FsmInit, spray_enabled', fsm')
               \/ fsm.state \in Pending /\ fsm'.state # "ON_PENDING"
  <1>1. CASE \E a, o \in BOOLEAN : StateCb(a, o)
    BY <1>1, StateCbLawful
  <1>2. CASE \E on \in BOOLEAN : ManualCb(on)
    BY <1>2, ManualCbLawful
  <1>3. CASE WatchdogTick
    BY <1>3, WatchdogTickLawful
  <1>4. CASE ReassertTick
    BY <1>4, ReassertTickLawful
  <1>5. CASE \E r \in replies : CommandDone(r)
    BY <1>5, CommandDoneConfirms
  <1>6. CASE ServiceProbeTick
    BY <1>6, ServiceProbeTickLawful
  <1>7. CASE \E empty \in BOOLEAN : MissionLoaded(empty)
    BY <1>7, MissionLoadedLawful
  <1>8. CASE Shutdown
    BY <1>8, ShutdownLawful
  <1>9. CASE Restart
    BY <1>9, RestartLawful
  <1>10. CASE Execute \/ Misserve
    BY <1>10 DEF Execute, Misserve, Served
  <1>11. CASE TimePasses
    <2>1. fsm' = Elapse(fsm) /\ valve' = valve /\ fsm \in Fsm /\ Timed(fsm)
      BY <1>11 DEF TimePasses, linkVars, Inv, TypeOK, Timed
    <2>2. Elapse(fsm).state = fsm.state /\ Elapse(fsm).cmd_seq = fsm.cmd_seq
      BY <2>1, ElapseKeeps DEF Edged
    <2> QED
      BY <2>1, <2>2
  <1>12. CASE WorldChanges \/ FlushExpires \/ Kill \/ UNCHANGED vars
    BY <1>12 DEF WorldChanges, FlushExpires, Kill, vars
  <1> QED
    BY <1>1, <1>2, <1>3, <1>4, <1>5, <1>6, <1>7, <1>8, <1>9, <1>10, <1>11, <1>12
    DEF Next, Callback

-----------------------------------------------------------------------------
(* The abstract specification.                                              *)

LEMMA IndicationIs ==
  /\ Indication = "off" => fsm.state \in {"OFF_CONFIRMED", "DISABLED"}
  /\ Indication = "on"  => fsm.state = "ON_CONFIRMED"
  /\ fsm.state \in {"OFF_CONFIRMED", "DISABLED"} => Indication = "off"
  /\ fsm.state = "ON_CONFIRMED" => Indication = "on"
  /\ Indication \in {"off", "on", "unknown"}
  BY DEF Indication, OffConfirmed, Spraying

LEMMA IndicationIsAfter ==
  /\ Indication' = "off" => fsm'.state \in {"OFF_CONFIRMED", "DISABLED"}
  /\ Indication' = "on"  => fsm'.state = "ON_CONFIRMED"
  /\ Indication' \in {"off", "on", "unknown"}
  BY DEF Indication, OffConfirmed, Spraying

(* A certain indication is right.                                           *)
LEMMA CertainIsRight ==
  Inv => /\ Indication = "off" => valve = FALSE
         /\ Indication = "on"  => valve = TRUE
  BY DEF Inv, Trusted, SettledAt, Indication, OffConfirmed, Spraying

LEMMA CertainIsRightAfter ==
  Inv' => /\ Indication' = "off" => valve' = FALSE
          /\ Indication' = "on"  => valve' = TRUE
  BY DEF Inv, Trusted, SettledAt, Indication, OffConfirmed, Spraying

LEMMA IndicationSteps ==
  ASSUME Inv, [Next]_vars
  PROVE  [Promise!Next]_<<Indication, valve>>
  <1>1. Inv'
    BY NextKeeps
  <1>2. valve \in BOOLEAN /\ valve' \in BOOLEAN
    BY <1>1 DEF Inv, TypeOK
  <1>3. CASE fsm' = fsm
    <2>1. Indication' = Indication
      BY <1>3 DEF Indication, OffConfirmed, Spraying
    <2>2. CASE valve' = valve
      BY <2>1, <2>2
    <2>3. CASE valve' # valve
      <3>1. Indication = "unknown"
        BY <1>1, <2>1, <2>3, IndicationIs, CertainIsRight, CertainIsRightAfter
      <3>2. valve' = ~valve
        BY <1>2, <2>3
      <3> QED
        BY <2>1, <3>1, <3>2 DEF Promise!Next, Promise!Move
    <2> QED
      BY <2>2, <2>3
  <1>4. CASE /\ valve' = valve
             /\ \/ Indication' = Indication
                \/ Indication = "unknown"
                \/ Indication' = "unknown"
    <2>1. CASE Indication' = Indication
      BY <1>4, <2>1
    <2>2. CASE Indication # "unknown" /\ Indication' = "unknown"
      BY <1>4, <2>2 DEF Promise!Next, Promise!Doubt
    <2>3. CASE Indication = "unknown" /\ Indication' = "off"
      <3>1. valve = FALSE
        BY <1>1, <1>4, <2>3, CertainIsRightAfter
      <3>2. Promise!Confirm(FALSE)
        BY <1>4, <2>3, <3>1 DEF Promise!Confirm
      <3> QED
        BY <3>2 DEF Promise!Next
    <2>4. CASE Indication = "unknown" /\ Indication' = "on"
      <3>1. valve = TRUE
        BY <1>1, <1>4, <2>4, CertainIsRightAfter
      <3>2. Promise!Confirm(TRUE)
        BY <1>4, <2>4, <3>1 DEF Promise!Confirm
      <3> QED
        BY <3>2 DEF Promise!Next
    <2> QED
      BY <1>4, <2>1, <2>2, <2>3, <2>4, IndicationIsAfter
  <1>5. ASSUME fsm'.state = fsm.state PROVE Indication' = Indication
    BY <1>5 DEF Indication, OffConfirmed, Spraying
  <1>6. ASSUME Careful(fsm, fsm') PROVE Indication' \in {Indication, "unknown"}
    BY <1>6, IndicationIs, IndicationIsAfter DEF Careful
  <1>7. ASSUME Careful(FsmInit, fsm') PROVE Indication' = "unknown"
    BY <1>7, IndicationIsAfter DEF Careful, FsmInit
  <1>8. ASSUME fsm.state \in Pending PROVE Indication = "unknown"
    BY <1>8, IndicationIs DEF Pending
  <1> QED
    BY <1>3, <1>4, <1>5, <1>6, <1>7, <1>8, EveryStep DEF Lawful

LEMMA IndicationStart == Init => Promise!Init
  <1> SUFFICES ASSUME Init PROVE Promise!Init
    OBVIOUS
  <1>1. valve \in BOOLEAN /\ spray_enabled \in BOOLEAN /\ armed \in BOOLEAN /\ armed = FALSE
    BY DEF Init
  <1>2. <<>> \in Seq(Request) /\ \A i \in DOMAIN <<>> : <<>>[i].seq = 0
    OBVIOUS
  <1>3. PICK ready \in BOOLEAN :
          fsm = DriveFsmTick(Fresh(<<>>), armed, NoManual, "none", AutoInit, spray_enabled, ready).fsm
    BY DEF Init
  <1>4. Careful(FsmInit, fsm)
    BY <1>1, <1>2, <1>3, FreshLawful DEF Lawful
  <1>5. Indication = "unknown"
    BY <1>4, IndicationIs DEF Careful, FsmInit
  <1> QED
    BY <1>1, <1>5 DEF Promise!Init

(* The spray node implements its indication: what it reports as certain is  *)
(* true, the valve moves only while it admits that it does not know, and it *)
(* never exchanges "off" and "on" without that admission, through every     *)
(* refused, lost or late reply, kill and restart.                           *)
THEOREM IndicationIsImplemented == Spec => IndicationSpec
  <1>1. Inv /\ [Next]_vars => [Promise!Next]_<<Indication, valve>>
    BY IndicationSteps
  <1> QED
    BY <1>1, InitEstablishes, NextKeeps, IndicationStart, PTL
    DEF Spec, IndicationSpec, Promise!Spec

-----------------------------------------------------------------------------
(* When the machine may command again.                                      *)

LEMMA OnStarts ==
  ASSUME Inv, [Next]_vars
  PROVE  (fsm'.state = "ON_PENDING" /\ fsm.state # "ON_PENDING") => Settled(FALSE)
  <1> SUFFICES ASSUME fsm'.state = "ON_PENDING", fsm.state # "ON_PENDING"
               PROVE  Settled(FALSE)
    OBVIOUS
  <1>1. ~Careful(FsmInit, fsm')
    BY DEF Careful, FsmInit
  <1>2. Careful(fsm, fsm')
    BY <1>1, EveryStep DEF Lawful
  <1>3. fsm.state = "OFF_CONFIRMED"
    BY <1>2 DEF Careful
  <1> QED
    BY <1>3, InvIsSafety DEF OffConfirmedMeansClosed, OffConfirmed

LEMMA RetryWaits ==
  ASSUME Inv, [Next]_vars
  PROVE  (/\ fsm.state = "RECOVERY" /\ fsm.attempt >= 2 /\ fsm.retryLeft > 0
          /\ fsm.prevEnabled /\ fsm'.prevEnabled
          /\ fsm'.cmd_seq # fsm.cmd_seq)
           => fsm'.attempt <= 1
  <1> SUFFICES ASSUME fsm.state = "RECOVERY", fsm.retryLeft > 0, fsm.prevEnabled,
                      fsm'.prevEnabled, fsm'.cmd_seq # fsm.cmd_seq
               PROVE  fsm'.attempt <= 1
    OBVIOUS
  <1>1. fsm.cmd_seq \in Nat
    BY DEF Inv, TypeOK, Fsm
  <1>2. fsm'.cmd_seq \in Nat
    BY NextKeeps DEF Inv, TypeOK, Fsm
  <1>3. CASE Lawful(fsm, spray_enabled', fsm')
    <2>1. Patient(fsm.cmd_seq, spray_enabled', fsm)
      BY DEF Patient
    <2>2. Patient(fsm.cmd_seq, spray_enabled', fsm')
      BY <1>1, <1>3, <2>1 DEF Lawful
    <2> QED
      BY <2>2 DEF Patient
  <1>4. CASE Lawful(FsmInit, spray_enabled', fsm')
    <2>1. PICK n \in Nat : n # fsm'.cmd_seq
      BY <1>2
    <2>2. Patient(n, spray_enabled', FsmInit)
      BY DEF Patient, FsmInit
    <2>3. Patient(n, spray_enabled', fsm')
      BY <1>4, <2>2 DEF Lawful
    <2> QED
      BY <2>1, <2>3 DEF Patient
  <1> QED
    BY <1>3, <1>4, EveryStep DEF Pending

(* A fresh ON is sent only to a valve that is closed and confirmed so, and  *)
(* a failed OFF is retried no earlier than its backoff, unless an event     *)
(* reset it: however many calls one callback of the node chains.            *)
THEOREM CommandsAreDisciplined == Spec => CommandDiscipline
  <1>1. Inv /\ [Next]_vars =>
          ((fsm'.state = "ON_PENDING" /\ fsm.state # "ON_PENDING") => Settled(FALSE))
    BY OnStarts
  <1>2. Inv /\ [Next]_vars =>
          ((/\ fsm.state = "RECOVERY" /\ fsm.attempt >= 2 /\ fsm.retryLeft > 0
            /\ fsm.prevEnabled /\ fsm'.prevEnabled
            /\ fsm'.cmd_seq # fsm.cmd_seq)
             => fsm'.attempt <= 1)
    BY RetryWaits
  <1> QED
    BY <1>1, <1>2, InitEstablishes, NextKeeps, PTL
    DEF Spec, CommandDiscipline, OnStartsFromClosed, RetryHonoursBackoff

=============================================================================
