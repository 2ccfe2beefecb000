------------------------- MODULE SprayActuatorProofs -------------------------
(***************************************************************************)
(* The safety of SprayActuator for every value of its constants: whatever  *)
(* is refused, lost, late, left over from a previous process or issued     *)
(* while the service is missing, a confirmed state means a settled valve.  *)
(*                                                                         *)
(* The argument is about one call in progress, c, against the replies and  *)
(* the valve of the moment.  A call is in order when its current command,  *)
(* if it is pending, is the last one in the line that counts (Trusted).    *)
(* Every outcome of the machine that Follows its fields keeps a call in    *)
(* order, so every callback does, however many calls it chains.            *)
(*                                                                         *)
(* First what holds of every method of SpraySafetyFsm: it returns          *)
(* well-typed fields, a pending command always has a running timeout, and  *)
(* Follows is the one relation between fields and command on which the     *)
(* callers rely.                                                           *)
(***************************************************************************)
EXTENDS SprayActuator, SequenceTheorems, TLAPS

(* A pending command has a running timeout and nothing else does.           *)
Timed(f) == f.state \in Pending <=> f.ackLeft # NotPending

(* What any call may do to the fields, given the command it hands back:     *)
(* dispatch under a new number, stay, promote a confirmed OFF to DISABLED,  *)
(* or give up certainty.  With FailNow in mind a command may also have been *)
(* issued and suppressed, which shows as a higher number.                   *)
Follows(f, o) ==
  \/ /\ o.cmd # "none"
     /\ o.fsm.cmd_seq > f.cmd_seq
     /\ o.fsm.state = IF o.cmd = "ON" THEN "ON_PENDING" ELSE "OFF_PENDING"
  \/ /\ o.cmd = "none"
     /\ o.fsm.cmd_seq = f.cmd_seq
     /\ \/ o.fsm.state = f.state
        \/ f.state = "OFF_CONFIRMED" /\ o.fsm.state = "DISABLED"
  \/ /\ o.cmd = "none"
     /\ o.fsm.cmd_seq >= f.cmd_seq
     /\ \/ o.fsm.state \in {"OFF_UNCONFIRMED", "RECOVERY"}
        \/ o.fsm.cmd_seq > f.cmd_seq /\ o.fsm.state \in Pending

(* What the callers rely on in every outcome.                                *)
Sound(f, o) == o \in Outcome /\ Timed(o.fsm) /\ Follows(f, o)

-----------------------------------------------------------------------------
(* The helpers that dispatch or schedule a retry.                           *)

LEMMA BackoffType ==
  ASSUME NEW n \in Nat PROVE Backoff(n) \in 0 .. BackoffMax
  BY FsmAssumption DEF Backoff

LEMMA QuietSound ==
  ASSUME NEW f \in Fsm, Timed(f) PROVE Sound(f, Quiet(f))
  BY DEF Quiet, Outcome, Follows, Sound

LEMMA NextSeq ==
  ASSUME NEW f \in Fsm PROVE f.cmd_seq + 1 \in Nat /\ f.cmd_seq + 1 > f.cmd_seq
  BY DEF Fsm

(* Issuing a command under a new number keeps the fields well typed.        *)
Issued(f, s, n) == [f EXCEPT !.state = s, !.cmd_seq = n, !.ackLeft = AckTimeout]

LEMMA IssuedType ==
  ASSUME NEW f \in Fsm, NEW s \in SprayState, NEW n \in Nat
  PROVE  /\ Issued(f, s, n) \in Fsm
         /\ Issued(f, s, n).state = s
         /\ Issued(f, s, n).cmd_seq = n
         /\ Issued(f, s, n).ackLeft = AckTimeout
  <1>1. AckTimeout \in 0 .. AckTimeout
    BY FsmAssumption
  <1> QED
    BY <1>1 DEF Fsm, Issued

LEMMA DispatchOffSound ==
  ASSUME NEW f \in Fsm
  PROVE  Sound(f, DispatchOff(f))
  <1>1. PICK n \in Nat : n = f.cmd_seq + 1
    BY NextSeq
  <1>2. "OFF_PENDING" \in SprayState
    BY DEF SprayState
  <1> DEFINE g == Issued(f, "OFF_PENDING", n)
  <1>3. g \in Fsm /\ g.state = "OFF_PENDING" /\ g.cmd_seq = n /\ g.ackLeft = AckTimeout
    BY <1>2, IssuedType
  <1>4. DispatchOff(f) = [fsm |-> g, cmd |-> "OFF", raised |-> FALSE]
    BY <1>1 DEF DispatchOff, Issued, Fsm
  <1> HIDE DEF g
  <1> QED
    BY <1>1, <1>3, <1>4, NextSeq, FsmAssumption DEF Outcome, Timed, Pending, NotPending, Follows, Sound

LEMMA DispatchOnSound ==
  ASSUME NEW f \in Fsm
  PROVE  Sound(f, DispatchOn(f))
  <1>1. PICK n \in Nat : n = f.cmd_seq + 1
    BY NextSeq
  <1>2. "ON_PENDING" \in SprayState
    BY DEF SprayState
  <1> DEFINE g == Issued(f, "ON_PENDING", n)
  <1>3. g \in Fsm /\ g.state = "ON_PENDING" /\ g.cmd_seq = n /\ g.ackLeft = AckTimeout
    BY <1>2, IssuedType
  <1>4. DispatchOn(f) = [fsm |-> g, cmd |-> "ON", raised |-> FALSE]
    BY <1>1 DEF DispatchOn, Issued, Fsm
  <1> HIDE DEF g
  <1> QED
    BY <1>1, <1>3, <1>4, NextSeq, FsmAssumption DEF Outcome, Timed, Pending, NotPending, Follows, Sound

LEMMA EnterRecoverySound ==
  ASSUME NEW f \in Fsm, Timed(f)
  PROVE  Sound(f, EnterRecovery(f))
  <1> DEFINE g == [f EXCEPT !.state = "RECOVERY", !.retryLeft = Backoff(f.attempt),
                            !.attempt = f.attempt + 1, !.ackLeft = NotPending]
  <1>1. Backoff(f.attempt) \in 0 .. BackoffMax /\ f.attempt + 1 \in Nat
    BY BackoffType DEF Fsm
  <1>2. g \in Fsm /\ g.state = "RECOVERY" /\ g.cmd_seq = f.cmd_seq /\ g.ackLeft = NotPending
    BY <1>1 DEF Fsm, SprayState
  <1>3. EnterRecovery(f) = IF f.attempt >= FloatExpLimit
                           THEN [fsm |-> f, cmd |-> "none", raised |-> TRUE]
                           ELSE [fsm |-> g, cmd |-> "none", raised |-> FALSE]
    BY DEF EnterRecovery, Quiet, Fsm
  <1>4. f.cmd_seq \in Nat
    BY DEF Fsm
  <1> HIDE DEF g
  <1>5. CASE f.attempt >= FloatExpLimit
    BY <1>3, <1>5 DEF Outcome, Follows, Sound
  <1>6. CASE ~(f.attempt >= FloatExpLimit)
    BY <1>2, <1>3, <1>4, <1>6 DEF Outcome, Timed, Pending, NotPending, Follows, Sound
  <1> QED
    BY <1>5, <1>6

-----------------------------------------------------------------------------
(* tick.                                                                    *)

(* Neither edge touches the number; the enable edge may give up certainty.  *)
Edged(f, g) ==
  /\ g \in Fsm /\ Timed(g)
  /\ g.cmd_seq = f.cmd_seq
  /\ g.state \in {f.state, "OFF_UNCONFIRMED"}

LEMMA EnableEdgeKeeps ==
  ASSUME NEW f \in Fsm, Timed(f), NEW enabled \in BOOLEAN
  PROVE  Edged(f, EnableEdge(f, enabled))
  <1> DEFINE off == [f EXCEPT !.prevEnabled = FALSE, !.disabled = TRUE, !.attempt = 0]
             on  == [f EXCEPT !.prevEnabled = TRUE, !.disabled = FALSE,
                              !.state = "OFF_UNCONFIRMED", !.attempt = 0,
                              !.retryLeft = 0, !.ackLeft = NotPending]
  <1>1. Edged(f, off)
    BY DEF Edged, Fsm, Timed
  <1>2. Edged(f, on)
    <2>1. 0 \in 0 .. BackoffMax
      BY FsmAssumption
    <2> QED
      BY <2>1 DEF Edged, Fsm, SprayState, Timed, Pending
  <1>3. Edged(f, f)
    BY DEF Edged
  <1>4. EnableEdge(f, enabled) \in {off, on, f}
    BY Zenon DEF EnableEdge
  <1> HIDE DEF off, on
  <1> QED
    BY <1>1, <1>2, <1>3, <1>4

LEMMA NoteEventResetKeeps ==
  ASSUME NEW f \in Fsm, Timed(f)
  PROVE  Edged(f, NoteEventReset(f)) /\ NoteEventReset(f).state = f.state
  <1>1. PICK r \in 0 .. BackoffMax : r = IF f.state = "RECOVERY" THEN 0 ELSE f.retryLeft
    BY FsmAssumption DEF Fsm
  <1> DEFINE g == [f EXCEPT !.attempt = 0, !.retryLeft = r]
  <1>2. NoteEventReset(f) = g
    BY <1>1 DEF NoteEventReset, Fsm
  <1>3. Edged(f, g) /\ g.state = f.state
    BY DEF Edged, Fsm, Timed
  <1> HIDE DEF g
  <1> QED
    BY <1>2, <1>3

LEMMA SafetyEdgeKeeps ==
  ASSUME NEW f \in Fsm, Timed(f), NEW safety_ok \in BOOLEAN, NEW enabled \in BOOLEAN
  PROVE  Edged(f, SafetyEdge(f, safety_ok, enabled))
  <1> DEFINE g == [f EXCEPT !.prevSafe = safety_ok]
  <1>1. Edged(f, g) /\ g.state = f.state
    BY DEF Edged, Fsm, Timed
  <1> HIDE DEF g
  <1>2. Edged(g, NoteEventReset(g))
    BY <1>1, NoteEventResetKeeps DEF Edged
  <1>3. SafetyEdge(f, safety_ok, enabled) \in {g, NoteEventReset(g)}
    BY DEF SafetyEdge, g
  <1> QED
    BY <1>1, <1>2, <1>3 DEF Edged

LEMMA CheckPendingTimeoutSound ==
  ASSUME NEW f \in Fsm, Timed(f)
  PROVE  Sound(f, CheckPendingTimeout(f))
  <1>1. CheckPendingTimeout(f) \in {Quiet(f), DispatchOff(f), EnterRecovery(f)}
    BY DEF CheckPendingTimeout, Timed, Pending, NotPending
  <1> QED
    BY <1>1, QuietSound, DispatchOffSound, EnterRecoverySound

LEMMA DriveSound ==
  ASSUME NEW f \in Fsm, Timed(f),
         NEW desired \in BOOLEAN, NEW safety_ok \in BOOLEAN, NEW enabled \in BOOLEAN
  PROVE  Sound(f, Drive(f, desired, safety_ok, enabled))
  <1> DEFINE settled == [f EXCEPT !.state = "DISABLED"]
  <1>1. f.state = "OFF_CONFIRMED" => Sound(f, Quiet(settled))
    BY DEF Fsm, SprayState, Quiet, Outcome, Sound, Follows, Timed, Pending
  <1>2. \/ Drive(f, desired, safety_ok, enabled) \in {Quiet(f), DispatchOff(f), DispatchOn(f)}
        \/ /\ f.state = "OFF_CONFIRMED"
           /\ Drive(f, desired, safety_ok, enabled) = Quiet(settled)
    <2> HIDE DEF settled
    <2>1. \/ DriveOffDisabled(f) \in {Quiet(f), DispatchOff(f)}
          \/ f.state = "OFF_CONFIRMED" /\ DriveOffDisabled(f) = Quiet(settled)
      BY DEF DriveOffDisabled, settled
    <2>2. DriveOffSafety(f) \in {Quiet(f), DispatchOff(f)}
      BY DEF DriveOffSafety
    <2>3. NormalTick(f, desired) \in {Quiet(f), DispatchOff(f), DispatchOn(f)}
      BY DEF NormalTick
    <2> QED
      BY <2>1, <2>2, <2>3 DEF Drive
  <1> HIDE DEF settled
  <1> QED
    BY <1>1, <1>2, QuietSound, DispatchOffSound, DispatchOnSound

(* A sound outcome of edged fields is sound for the fields before the edge. *)
LEMMA EdgedFollows ==
  ASSUME NEW f \in Fsm, NEW g \in Fsm, Edged(f, g), NEW o, Sound(g, o)
  PROVE  Sound(f, o)
  BY DEF Edged, Sound, Follows, Fsm

LEMMA TickSound ==
  ASSUME NEW f \in Fsm, Timed(f),
         NEW desired \in BOOLEAN, NEW safety_ok \in BOOLEAN, NEW enabled \in BOOLEAN
  PROVE  Sound(f, Tick(f, desired, safety_ok, enabled))
  <1> DEFINE e == EnableEdge(f, enabled)
             g == SafetyEdge(e, safety_ok, enabled)
             t == CheckPendingTimeout(g)
             d == Drive(t.fsm, desired, safety_ok, enabled)
  <1>1. Edged(f, e)
    BY EnableEdgeKeeps
  <1>2. Edged(e, g)
    <2>1. e \in Fsm /\ Timed(e)
      BY <1>1 DEF Edged
    <2> HIDE DEF e
    <2> QED
      BY <2>1, SafetyEdgeKeeps
  <1>3. Edged(f, g) /\ g \in Fsm /\ Timed(g)
    BY <1>1, <1>2 DEF Edged
  <1> HIDE DEF e, g
  <1>4. Sound(g, t)
    BY <1>3, CheckPendingTimeoutSound
  <1>5. t \in Outcome
    BY <1>4 DEF Sound
  <1>6. Tick(f, desired, safety_ok, enabled) = IF t.raised \/ t.cmd # "none" THEN t ELSE d
    BY <1>5 DEF Tick, e, g
  <1>7. ASSUME ~(t.raised \/ t.cmd # "none") PROVE Sound(g, d)
    <2>1. t.fsm \in Fsm /\ Timed(t.fsm) /\ Follows(g, t)
      BY <1>4 DEF Sound, Outcome
    <2> HIDE DEF t
    <2>2. Sound(t.fsm, d)
      BY <2>1, DriveSound
    <2>3. t.cmd = "none"
      BY <1>7
    <2> HIDE DEF d
    <2>4. g.cmd_seq \in Nat /\ t.fsm.cmd_seq \in Nat /\ d.fsm.cmd_seq \in Nat
      BY <1>3, <2>1, <2>2 DEF Sound, Outcome, Fsm
    <2>5. Follows(t.fsm, d)
      BY <2>2 DEF Sound
    <2>6. Follows(g, d)
      BY <2>1, <2>3, <2>4, <2>5 DEF Follows, Pending
    <2> QED
      BY <2>2, <2>6 DEF Sound
  <1> HIDE DEF t, d
  <1>8. Sound(g, Tick(f, desired, safety_ok, enabled))
    BY <1>4, <1>6, <1>7
  <1> QED
    BY <1>3, <1>8, EdgedFollows

-----------------------------------------------------------------------------
(* on_ack.                                                                  *)

(* The only steps that gain certainty: the success of the current command.  *)
Confirms(f, seq, success, o) ==
  /\ o \in Outcome /\ Timed(o.fsm)
  /\ o.cmd = "none"
  /\ success /\ seq = f.cmd_seq
  /\ o.fsm.cmd_seq = f.cmd_seq
  /\ \/ f.state = "ON_PENDING" /\ o.fsm.state = "ON_CONFIRMED"
     \/ f.state = "OFF_PENDING" /\ o.fsm.state \in {"OFF_CONFIRMED", "DISABLED"}

LEMMA OnAckSound ==
  ASSUME NEW f \in Fsm, Timed(f), NEW seq \in Nat, NEW success \in BOOLEAN
  PROVE  Sound(f, OnAck(f, seq, success)) \/ Confirms(f, seq, success, OnAck(f, seq, success))
  <1> DEFINE on  == [f EXCEPT !.state = "ON_CONFIRMED", !.ackLeft = NotPending]
             off == [f EXCEPT !.state = IF f.disabled THEN "DISABLED" ELSE "OFF_CONFIRMED",
                              !.ackLeft = NotPending, !.attempt = 0, !.retryLeft = 0]
  <1>1. on \in Fsm /\ Timed(on) /\ on.state = "ON_CONFIRMED" /\ on.cmd_seq = f.cmd_seq
    BY DEF Fsm, SprayState, Timed, Pending
  <1>2. off \in Fsm /\ Timed(off) /\ off.state \in {"OFF_CONFIRMED", "DISABLED"}
        /\ off.cmd_seq = f.cmd_seq
    <2>1. 0 \in 0 .. BackoffMax
      BY FsmAssumption
    <2>2. PICK s \in {"OFF_CONFIRMED", "DISABLED"} :
             s = IF f.disabled THEN "DISABLED" ELSE "OFF_CONFIRMED"
      OBVIOUS
    <2>3. off = [f EXCEPT !.state = s, !.ackLeft = NotPending, !.attempt = 0, !.retryLeft = 0]
      BY <2>2
    <2> DEFINE g == [f EXCEPT !.state = s, !.ackLeft = NotPending, !.attempt = 0, !.retryLeft = 0]
    <2>4. g \in Fsm /\ Timed(g) /\ g.state = s /\ g.cmd_seq = f.cmd_seq
      BY <2>1, <2>2 DEF Fsm, SprayState, Timed, Pending
    <2> HIDE DEF g, off
    <2>5. off = g
      BY <2>3 DEF g
    <2> QED
      BY <2>2, <2>4, <2>5
  <1>3. \/ OnAck(f, seq, success) \in {Quiet(f), DispatchOff(f), EnterRecovery(f)}
        \/ /\ success /\ seq = f.cmd_seq
           /\ \/ f.state = "ON_PENDING" /\ OnAck(f, seq, success) = Quiet(on)
              \/ f.state = "OFF_PENDING" /\ OnAck(f, seq, success) = Quiet(off)
    BY Zenon DEF OnAck
  <1> HIDE DEF on, off
  <1>4. f.state = "ON_PENDING" /\ success /\ seq = f.cmd_seq => Confirms(f, seq, success, Quiet(on))
    BY <1>1 DEF Confirms, Quiet, Outcome
  <1>5. f.state = "OFF_PENDING" /\ success /\ seq = f.cmd_seq => Confirms(f, seq, success, Quiet(off))
    BY <1>2 DEF Confirms, Quiet, Outcome
  <1> QED
    BY <1>3, <1>4, <1>5, QuietSound, DispatchOffSound, EnterRecoverySound

LEMMA ElapseKeeps ==
  ASSUME NEW f \in Fsm, Timed(f)
  PROVE  Edged(f, Elapse(f)) /\ Elapse(f).state = f.state
  <1>1. PICK a \in 0 .. AckTimeout \cup {NotPending} :
           a = IF f.ackLeft > 0 THEN f.ackLeft - 1 ELSE f.ackLeft
    BY FsmAssumption DEF Fsm, NotPending
  <1>2. PICK r \in 0 .. BackoffMax :
           r = IF f.retryLeft > 0 THEN f.retryLeft - 1 ELSE f.retryLeft
    BY FsmAssumption DEF Fsm
  <1> DEFINE g == [f EXCEPT !.ackLeft = a, !.retryLeft = r]
  <1>3. Elapse(f) = g
    BY <1>1, <1>2 DEF Elapse, Fsm
  <1>4. a # NotPending <=> f.ackLeft # NotPending
    BY <1>1, FsmAssumption DEF Fsm, NotPending
  <1>5. Edged(f, g) /\ g.state = f.state
    BY <1>4 DEF Edged, Fsm, Timed
  <1> HIDE DEF g
  <1> QED
    BY <1>3, <1>5

LEMMA FsmInitType == FsmInit \in Fsm /\ Timed(FsmInit)
  <1>1. 0 \in 0 .. BackoffMax
    BY FsmAssumption
  <1> QED
    BY <1>1 DEF FsmInit, Fsm, SprayState, Timed, Pending

-----------------------------------------------------------------------------

SettledAt(l, v, position) == v = position /\ \A i \in DOMAIN l : l[i].on = position

(* OffConfirmedMeansClosed, SprayingMeansOpen and CurrentDecides, of given   *)
(* fields, requests, replies and valve.                                     *)
Trusted(f, l, R, v) ==
  /\ \A i \in DOMAIN l : l[i].seq <= f.cmd_seq
  /\ \A r \in R : r.seq <= f.cmd_seq
  /\ OffConfirmed(f) => SettledAt(l, v, FALSE)
  /\ Spraying(f) => SettledAt(l, v, TRUE)
  /\ f.state \in Pending =>
       /\ f.cmd_seq > 0
       /\ \A i \in DOMAIN l : l[i].seq = f.cmd_seq =>
            \A j \in i .. Len(l) : l[j].on = Commanded(f)
       /\ \A r \in R : r.success /\ r.seq = f.cmd_seq => SettledAt(l, v, Commanded(f))

CallType(c) ==
  /\ c.fsm \in Fsm /\ Timed(c.fsm)
  /\ c.link \in Seq(Request)
  /\ c.raised \in BOOLEAN
  /\ c = [fsm |-> c.fsm, link |-> c.link, raised |-> c.raised]

InOrder(c, R, v) == CallType(c) /\ Trusted(c.fsm, c.link, R, v)

-----------------------------------------------------------------------------
(* One call.                                                                *)

(* A suppressed command is still an outcome that follows the fields.        *)
LEMMA FailNowSound ==
  ASSUME NEW f \in Fsm, NEW o, Sound(f, o)
  PROVE  Sound(f, FailNow[o])
  <1>1. o \in Outcome /\ o.fsm \in Fsm /\ Timed(o.fsm) /\ Follows(f, o)
    BY DEF Sound, Outcome
  <1> DEFINE g == o.fsm
             a == OnAck(g, g.cmd_seq, FALSE)
  <1>2. FailNow[o] = IF o.raised \/ o.cmd = "none" THEN o ELSE a
    BY <1>1 DEF FailNow
  <1>3. g \in Fsm /\ Timed(g) /\ g.cmd_seq \in Nat /\ f.cmd_seq \in Nat
    BY <1>1 DEF Fsm
  <1>4. Sound(g, a)
    <2> HIDE DEF g
    <2> QED
      BY <1>3, OnAckSound DEF Confirms
  <1>5. ASSUME o.cmd # "none" PROVE Follows(f, a)
    <2>1. g.cmd_seq > f.cmd_seq /\ g.state \in Pending
      BY <1>1, <1>5 DEF Follows, Pending
    <2>2. a.fsm.cmd_seq \in Nat /\ Follows(g, a)
      BY <1>4 DEF Sound, Outcome, Fsm
    <2> HIDE DEF g, a
    <2> QED
      BY <1>3, <2>1, <2>2 DEF Follows, Pending
  <1> HIDE DEF g, a
  <1>6. CASE o.raised \/ o.cmd = "none"
    BY <1>2, <1>6
  <1>7. CASE ~(o.raised \/ o.cmd = "none")
    BY <1>2, <1>4, <1>5, <1>7 DEF Sound
  <1> QED
    BY <1>6, <1>7

(* Sending the command of an outcome, or not having any to send.            *)
SentCall(c, o) ==
  [fsm    |-> o.fsm,
   link   |-> IF o.cmd = "none" THEN c.link
              ELSE Append(c.link, [seq |-> o.fsm.cmd_seq, on |-> o.cmd = "ON"]),
   raised |-> o.raised]

LEMMA SentInOrder ==
  ASSUME NEW R \in SUBSET Reply, NEW v \in BOOLEAN,
         NEW c, InOrder(c, R, v), NEW o, Sound(c.fsm, o)
  PROVE  InOrder(SentCall(c, o), R, v)
  <1> DEFINE f == c.fsm
             g == o.fsm
             l == c.link
  <1>1. /\ f \in Fsm /\ l \in Seq(Request) /\ Trusted(f, l, R, v)
        /\ o \in Outcome /\ Timed(g) /\ Follows(f, o)
    BY DEF InOrder, CallType, Sound
  <1>2. /\ g \in Fsm /\ o.raised \in BOOLEAN /\ o.cmd \in {"none", "ON", "OFF"}
        /\ g.cmd_seq \in Nat /\ f.cmd_seq \in Nat
    BY <1>1 DEF Outcome, Fsm
  <1>3. \A i \in DOMAIN l : l[i] \in Request /\ l[i].seq \in Nat
    <2> HIDE DEF l
    <2>1. \A i \in DOMAIN l : l[i] \in Request
      BY <1>1
    <2> QED
      BY <2>1 DEF Request
  <1>4. \A r \in R : r.seq \in Nat
    BY DEF Reply
  <1>5. /\ SentCall(c, o).fsm = g /\ SentCall(c, o).raised = o.raised
        /\ SentCall(c, o).link = IF o.cmd = "none" THEN l
                      ELSE Append(l, [seq |-> g.cmd_seq, on |-> o.cmd = "ON"])
        /\ SentCall(c, o) = [fsm |-> SentCall(c, o).fsm, link |-> SentCall(c, o).link,
                             raised |-> SentCall(c, o).raised]
    BY DEF SentCall
  <1>6. CASE o.cmd = "none"
    <2>1. g.cmd_seq >= f.cmd_seq
      BY <1>1, <1>2, <1>6 DEF Follows
    <2>2. Trusted(g, l, R, v)
      <3> HIDE DEF f, g, l
      <3>1. CASE /\ g.cmd_seq = f.cmd_seq
                 /\ \/ g.state = f.state
                    \/ f.state = "OFF_CONFIRMED" /\ g.state = "DISABLED"
        BY <1>1, <3>1 DEF Trusted, OffConfirmed, Spraying, Commanded, Pending
      <3>2. CASE g.state \in {"OFF_UNCONFIRMED", "RECOVERY"}
        <4>1. \A i \in DOMAIN l : l[i].seq <= g.cmd_seq
          BY <1>1, <1>2, <1>3, <2>1 DEF Trusted
        <4>2. \A r \in R : r.seq <= g.cmd_seq
          BY <1>1, <1>2, <1>4, <2>1 DEF Trusted
        <4> QED
          BY <3>2, <4>1, <4>2 DEF Trusted, OffConfirmed, Spraying, Pending
      <3>3. CASE g.cmd_seq > f.cmd_seq /\ g.state \in Pending
        <4>1. \A i \in DOMAIN l : l[i].seq <= g.cmd_seq /\ l[i].seq # g.cmd_seq
          BY <1>1, <1>2, <1>3, <3>3 DEF Trusted
        <4>2. \A r \in R : r.seq <= g.cmd_seq /\ r.seq # g.cmd_seq
          BY <1>1, <1>2, <1>4, <3>3 DEF Trusted
        <4>3. g.cmd_seq > 0
          BY <1>2, <3>3
        <4> QED
          BY <3>3, <4>1, <4>2, <4>3 DEF Trusted, OffConfirmed, Spraying, Pending
      <3> QED
        BY <1>1, <1>6, <3>1, <3>2, <3>3 DEF Follows, g
    <2> HIDE DEF f, g, l
    <2> QED
      BY <1>1, <1>2, <1>5, <1>6, <2>2 DEF InOrder, CallType
  <1>7. CASE o.cmd # "none"
    <2> DEFINE q == [seq |-> g.cmd_seq, on |-> o.cmd = "ON"]
               m == Append(l, q)
    <2>1. g.cmd_seq > f.cmd_seq /\ g.state = IF o.cmd = "ON" THEN "ON_PENDING" ELSE "OFF_PENDING"
      BY <1>1, <1>7 DEF Follows
    <2>2. q \in Request /\ q.seq = g.cmd_seq /\ q.on = Commanded(g)
      BY <1>2, <1>7, <2>1 DEF Request, Commanded
    <2> HIDE DEF q, g, f, l
    <2>3. /\ m \in Seq(Request) /\ Len(m) = Len(l) + 1 /\ DOMAIN m = 1 .. Len(m)
          /\ Len(l) \in Nat /\ DOMAIN l = 1 .. Len(l)
          /\ \A i \in 1 .. Len(l) : m[i] = l[i]
          /\ m[Len(l) + 1] = q
      BY <1>1, <2>2
    <2> HIDE DEF m
    <2>4. \A i \in DOMAIN l : l[i].seq <= f.cmd_seq
      BY <1>1 DEF Trusted
    <2>5. \A i \in DOMAIN m : m[i].seq <= g.cmd_seq /\ (m[i].seq = g.cmd_seq => i = Len(m))
      <3> TAKE i \in DOMAIN m
      <3>1. CASE i \in DOMAIN l
        BY <1>2, <1>3, <2>1, <2>3, <2>4, <3>1
      <3>2. CASE i \notin DOMAIN l
        <4>1. i = Len(l) + 1
          BY <2>3, <3>2
        <4> QED
          BY <1>2, <2>2, <2>3, <4>1
      <3> QED
        BY <3>1, <3>2
    <2>6. \A r \in R : r.seq <= g.cmd_seq /\ r.seq # g.cmd_seq
      BY <1>1, <1>2, <1>4, <2>1 DEF Trusted
    <2>7. g.cmd_seq > 0 /\ g.state \in Pending /\ ~OffConfirmed(g) /\ ~Spraying(g)
      BY <1>2, <2>1 DEF Pending, OffConfirmed, Spraying
    <2>8. \A i \in DOMAIN m : m[i].seq = g.cmd_seq =>
             \A j \in i .. Len(m) : m[j].on = Commanded(g)
      BY <2>2, <2>3, <2>5
    <2>9. Trusted(g, m, R, v)
      BY <2>5, <2>6, <2>7, <2>8 DEF Trusted
    <2>10. SentCall(c, o).link = m
      BY <1>5, <1>7 DEF m, q, l, g
    <2> QED
      BY <1>1, <1>2, <1>5, <2>3, <2>9, <2>10 DEF InOrder, CallType, g
  <1> QED
    BY <1>6, <1>7

LEMMA DispatchCommandInOrder ==
  ASSUME NEW R \in SUBSET Reply, NEW v \in BOOLEAN, NEW c, InOrder(c, R, v),
         NEW o, Sound(c.fsm, o), NEW ready \in BOOLEAN
  PROVE  InOrder(DispatchCommand(c, o, ready), R, v)
  <1> DEFINE x == IF ready THEN o ELSE FailNow[FailNow[o]]
  <1>1. c.fsm \in Fsm
    BY DEF InOrder, CallType
  <1>2. Sound(c.fsm, x)
    BY <1>1, FailNowSound
  <1>3. x \in Outcome
    BY <1>2 DEF Sound
  <1>4. DispatchCommand(c, o, ready) = SentCall(c, x)
    BY <1>3 DEF DispatchCommand, SentCall
  <1> HIDE DEF x
  <1> QED
    BY <1>2, <1>4, SentInOrder

LEMMA DriveFsmTickInOrder ==
  ASSUME NEW R \in SUBSET Reply, NEW v \in BOOLEAN, NEW c, InOrder(c, R, v),
         NEW a \in BOOLEAN, NEW m, m.active \in BOOLEAN, NEW d,
         NEW u, u.desired \in BOOLEAN, NEW e \in BOOLEAN, NEW ready \in BOOLEAN
  PROVE  InOrder(DriveFsmTick(c, a, m, d, u, e, ready), R, v)
  <1> DEFINE o == Tick(c.fsm, EffectiveDesired(m, u), FsmSafetyOk(a, m, d), e)
  <1>1. c.fsm \in Fsm /\ Timed(c.fsm)
    BY DEF InOrder, CallType
  <1>2. EffectiveDesired(m, u) \in BOOLEAN /\ FsmSafetyOk(a, m, d) \in BOOLEAN
    BY DEF EffectiveDesired, FsmSafetyOk
  <1>3. Sound(c.fsm, o)
    BY <1>1, <1>2, TickSound
  <1> HIDE DEF o
  <1>4. InOrder(DispatchCommand(c, o, ready), R, v)
    BY <1>3, DispatchCommandInOrder
  <1> QED
    BY <1>4 DEF DriveFsmTick, o

-----------------------------------------------------------------------------
(* One step.                                                                *)

AutoType   == [candidate : {"none", "on", "off"}, count : 0 .. DebounceSamples, desired : BOOLEAN]
ManualType == [active : BOOLEAN, left : 0 .. ManualTimeout]

Inv == TypeOK /\ Trusted(fsm, link, replies, valve)

(* Inv is the conjunction of the checked invariants.                        *)
LEMMA InvIsSafety ==
  Inv <=> TypeOK /\ OffConfirmedMeansClosed /\ SprayingMeansOpen /\ CurrentDecides
  BY DEF Inv, Trusted, SettledAt, OffConfirmedMeansClosed, SprayingMeansOpen,
         CurrentDecides, Settled

LEMMA InputTypes ==
  ASSUME TypeOK
  PROVE  /\ InOrder(Here, replies, valve) <=> Inv
         /\ manual \in ManualType /\ manual.active \in BOOLEAN
         /\ auto \in AutoType /\ auto.desired \in BOOLEAN
         /\ replies \in SUBSET Reply /\ valve \in BOOLEAN
         /\ armed \in BOOLEAN /\ spray_enabled \in BOOLEAN /\ service_ready \in BOOLEAN
  BY DEF TypeOK, InOrder, CallType, Inv, Here, Timed, ManualType, AutoType

LEMMA DebouncedType ==
  ASSUME NEW u \in AutoType, NEW raw \in BOOLEAN
  PROVE  Debounced(u, raw) \in AutoType
  <1> DEFINE cand  == AsDesire(raw)
             count == IF u.candidate = cand
                      THEN IF u.count < DebounceSamples THEN u.count + 1 ELSE u.count
                      ELSE 1
  <1>1. cand \in {"none", "on", "off"}
    BY DEF AsDesire
  <1>2. count \in 0 .. DebounceSamples
    BY ActuatorAssumption DEF AutoType
  <1>3. Debounced(u, raw) = [candidate |-> cand, count |-> count,
                             desired |-> IF count >= DebounceSamples THEN raw ELSE u.desired]
    BY DEF Debounced
  <1> HIDE DEF cand, count
  <1> QED
    BY <1>1, <1>2, <1>3 DEF AutoType

LEMMA StartTypes ==
  /\ NoManual \in ManualType /\ NoManual.active \in BOOLEAN
  /\ AutoInit \in AutoType /\ AutoInit.desired \in BOOLEAN
  BY ActuatorAssumption DEF NoManual, AutoInit, ManualType, AutoType

(* What a callback leaves behind.                                           *)
EnvTypeOK ==
  /\ armed \in BOOLEAN /\ offboard \in BOOLEAN
  /\ spray_enabled \in BOOLEAN /\ gates \in BOOLEAN /\ mark \in BOOLEAN
  /\ decision \in {"none", "safe", "unsafe"}
  /\ auto \in AutoType /\ manual \in ManualType
  /\ service_ready \in BOOLEAN
  /\ replies \in SUBSET Reply /\ valve \in BOOLEAN
  /\ faults \in Nat /\ inputs \in Nat

LEMMA EnvTypes ==
  TypeOK <=> /\ EnvTypeOK /\ fsm \in Fsm /\ Timed(fsm) /\ proc \in Life
             /\ link \in Seq(Request)
  BY DEF TypeOK, EnvTypeOK, Timed, AutoType, ManualType

LEMMA EndCallbackKeeps ==
  ASSUME NEW c, EnvTypeOK', InOrder(c, replies', valve'), EndCallback(c)
  PROVE  Inv'
  <1>1. /\ manual'.active \in BOOLEAN /\ auto'.desired \in BOOLEAN
        /\ armed' \in BOOLEAN /\ spray_enabled' \in BOOLEAN /\ service_ready' \in BOOLEAN
        /\ replies' \in SUBSET Reply /\ valve' \in BOOLEAN
    BY DEF EnvTypeOK, ManualType, AutoType
  <1>2. InOrder(Redriven(c), replies', valve')
    BY <1>1, DriveFsmTickInOrder DEF Redriven
  <1>3. PICK d \in {c, Redriven(c)} :
          /\ fsm' = d.fsm /\ link' = d.link
          /\ proc' = CASE proc = "running"  -> IF d.raised THEN "raised" ELSE "running"
                      [] OTHER -> IF d.raised \/ OffConfirmed(d.fsm) THEN "stopped" ELSE "stopping"
    BY DEF EndCallback
  <1>4. InOrder(d, replies', valve')
    BY <1>2, <1>3
  <1>5. proc' \in Life
    BY <1>3 DEF Life
  <1>6. fsm' \in Fsm /\ Timed(fsm') /\ link' \in Seq(Request) /\ Trusted(fsm', link', replies', valve')
    BY <1>3, <1>4 DEF InOrder, CallType
  <1>7. TypeOK'
    BY <1>5, <1>6 DEF TypeOK, EnvTypeOK, Timed, AutoType, ManualType
  <1> QED
    BY <1>6, <1>7 DEF Inv

LEMMA StateCbKeeps ==
  ASSUME Inv, NEW a \in BOOLEAN, NEW o \in BOOLEAN, StateCb(a, o)
  PROVE  Inv'
  <1> DEFINE c == DriveFsmTick(Here, a, manual', decision, auto, spray_enabled, service_ready)
  <1>1. manual' \in ManualType /\ manual'.active \in BOOLEAN
    BY InputTypes, StartTypes DEF StateCb, Inv
  <1>2. EnvTypeOK'
    BY <1>1, EnvTypes DEF Inv, EnvTypeOK, StateCb, SpendInput, worldVars, linkVars
  <1>3. InOrder(Here, replies, valve)
    BY InputTypes DEF Inv
  <1>4. InOrder(c, replies, valve)
    BY <1>1, <1>3, InputTypes, DriveFsmTickInOrder DEF Inv
  <1>5. replies' = replies /\ valve' = valve /\ EndCallback(c)
    BY DEF StateCb, linkVars
  <1> HIDE DEF c
  <1> QED
    BY <1>2, <1>4, <1>5, EndCallbackKeeps

LEMMA ManualCbKeeps ==
  ASSUME Inv, NEW on \in BOOLEAN, ManualCb(on)
  PROVE  Inv'
  <1> DEFINE c == DriveFsmTick(Here, armed, manual', decision, auto, spray_enabled, service_ready)
  <1>1. manual' \in ManualType /\ manual'.active \in BOOLEAN
    <2>1. ManualTimeout \in 0 .. ManualTimeout
      BY ActuatorAssumption
    <2>2. [active |-> TRUE, left |-> ManualTimeout] \in ManualType
      BY <2>1 DEF ManualType
    <2>3. manual' \in ManualType
      BY <2>2, StartTypes DEF ManualCb
    <2> QED
      BY <2>3 DEF ManualType
  <1>2. EnvTypeOK'
    BY <1>1, EnvTypes DEF Inv, EnvTypeOK, ManualCb, SpendInput, fcuVars, worldVars, linkVars
  <1>3. InOrder(Here, replies, valve)
    BY InputTypes DEF Inv
  <1>4. InOrder(c, replies, valve)
    BY <1>1, <1>3, InputTypes, DriveFsmTickInOrder DEF Inv
  <1>5. replies' = replies /\ valve' = valve /\ EndCallback(c)
    BY DEF ManualCb, linkVars
  <1> HIDE DEF c
  <1> QED
    BY <1>2, <1>4, <1>5, EndCallbackKeeps

LEMMA WatchdogTickKeeps ==
  ASSUME Inv, WatchdogTick
  PROVE  Inv'
  <1> DEFINE first == IF Expired(manual)
                      THEN DriveFsmTick(Here, armed, NoManual, decision, auto,
                                        spray_enabled, service_ready)
                      ELSE Here
             c == DriveFsmTick(first, armed, manual', decision', auto',
                               spray_enabled, service_ready)
  <1>1. manual' \in ManualType /\ manual'.active \in BOOLEAN
    BY InputTypes, StartTypes DEF WatchdogTick, Inv
  <1>2. auto' \in AutoType /\ auto'.desired \in BOOLEAN
    <2>1. (mark /\ armed /\ offboard /\ gates) \in BOOLEAN
      OBVIOUS
    <2>2. auto' = Debounced(auto, mark /\ armed /\ offboard /\ gates)
      BY DEF WatchdogTick
    <2>3. auto' \in AutoType
      BY <2>1, <2>2, InputTypes, DebouncedType DEF Inv
    <2> QED
      BY <2>3 DEF AutoType
  <1>3. EnvTypeOK'
    BY <1>1, <1>2, EnvTypes DEF Inv, EnvTypeOK, WatchdogTick, fcuVars, worldVars, linkVars
  <1>4. InOrder(Here, replies, valve)
    BY InputTypes DEF Inv
  <1>5. InOrder(first, replies, valve)
    <2>1. InOrder(DriveFsmTick(Here, armed, NoManual, decision, auto, spray_enabled, service_ready),
                  replies, valve)
      BY <1>4, InputTypes, StartTypes, DriveFsmTickInOrder DEF Inv
    <2> QED
      BY <1>4, <2>1
  <1>6. replies' = replies /\ valve' = valve /\ EndCallback(c)
    BY DEF WatchdogTick, linkVars
  <1> HIDE DEF first
  <1>7. InOrder(c, replies, valve)
    BY <1>1, <1>2, <1>5, InputTypes, DriveFsmTickInOrder DEF Inv
  <1> HIDE DEF c
  <1> QED
    BY <1>3, <1>6, <1>7, EndCallbackKeeps

(* A re-sent ON goes behind the command it repeats.                         *)
LEMMA ReassertInOrder ==
  ASSUME NEW R \in SUBSET Reply, NEW v \in BOOLEAN, NEW c, InOrder(c, R, v), Commanded(c.fsm),
         NEW m, m = Append(c.link, [seq |-> 0, on |-> TRUE])
  PROVE  m \in Seq(Request) /\ Trusted(c.fsm, m, R, v)
  <1> DEFINE f == c.fsm
             l == c.link
             q == [seq |-> 0, on |-> TRUE]
  <1>1. f \in Fsm /\ l \in Seq(Request) /\ Trusted(f, l, R, v) /\ Commanded(f)
    BY DEF InOrder, CallType
  <1>2. f.cmd_seq \in Nat
    BY <1>1 DEF Fsm
  <1>3. q \in Request /\ q.seq = 0 /\ q.on = TRUE /\ m = Append(l, q)
    BY DEF Request
  <1> HIDE DEF f, l, q
  <1>4. /\ m \in Seq(Request) /\ Len(m) = Len(l) + 1 /\ DOMAIN m = 1 .. Len(m)
        /\ Len(l) \in Nat /\ DOMAIN l = 1 .. Len(l)
        /\ \A i \in 1 .. Len(l) : m[i] = l[i]
        /\ m[Len(l) + 1] = q
    <2>1. /\ Append(l, q) \in Seq(Request) /\ Len(Append(l, q)) = Len(l) + 1
          /\ DOMAIN Append(l, q) = 1 .. Len(Append(l, q))
          /\ Len(l) \in Nat /\ DOMAIN l = 1 .. Len(l)
          /\ \A i \in 1 .. Len(l) : Append(l, q)[i] = l[i]
          /\ Append(l, q)[Len(l) + 1] = q
      BY <1>1, <1>3
    <2> QED
      BY <1>3, <2>1
  <1>5. \A i \in DOMAIN m : m[i].seq <= f.cmd_seq
    BY <1>1, <1>2, <1>3, <1>4 DEF Trusted
  <1>6. ~OffConfirmed(f)
    BY <1>1 DEF Commanded, OffConfirmed
  <1>7. SettledAt(l, v, TRUE) => SettledAt(m, v, TRUE)
    BY <1>3, <1>4 DEF SettledAt
  <1>8. ASSUME f.state \in Pending, NEW i \in DOMAIN m, m[i].seq = f.cmd_seq,
               NEW j \in i .. Len(m)
        PROVE  m[j].on = TRUE
    <2>1. f.cmd_seq > 0
      BY <1>1, <1>8 DEF Trusted
    <2>2. i \in DOMAIN l
      BY <1>2, <1>3, <1>4, <1>8, <2>1
    <2>3. CASE j = Len(m)
      BY <1>3, <1>4, <2>3
    <2>4. CASE j # Len(m)
      <3>1. j \in i .. Len(l) /\ l[i].seq = f.cmd_seq /\ m[j] = l[j]
        BY <1>4, <1>8, <2>2, <2>4
      <3> QED
        BY <1>1, <1>8, <2>2, <3>1 DEF Trusted
    <2> QED
      BY <2>3, <2>4
  <1>9. Trusted(f, m, R, v)
    BY <1>1, <1>5, <1>6, <1>7, <1>8 DEF Trusted
  <1> QED
    BY <1>4, <1>9 DEF f

LEMMA ReassertTickKeeps ==
  ASSUME Inv, ReassertTick
  PROVE  Inv'
  <1> DEFINE c == DriveFsmTick(Here, armed, manual, decision, auto, spray_enabled, service_ready)
             m == Append(c.link, [seq |-> 0, on |-> TRUE])
             d == IF ReassertDue(c) THEN [c EXCEPT !.link = m] ELSE c
  <1>1. EnvTypeOK'
    BY EnvTypes
    DEF Inv, EnvTypeOK, ReassertTick, fcuVars, worldVars, nodeVars, linkVars
  <1>2. InOrder(c, replies, valve)
    BY InputTypes, DriveFsmTickInOrder DEF Inv
  <1>3. replies' = replies /\ valve' = valve /\ EndCallback(d)
    BY DEF ReassertTick, linkVars
  <1>4. c = [fsm |-> c.fsm, link |-> c.link, raised |-> c.raised]
    BY <1>2 DEF InOrder, CallType
  <1> HIDE DEF c
  <1>5. ReassertDue(c) => m \in Seq(Request) /\ Trusted(c.fsm, m, replies, valve)
    BY <1>2, InputTypes, ReassertInOrder DEF Inv, ReassertDue
  <1> HIDE DEF m
  <1>6. InOrder(d, replies, valve)
    <2>1. CASE ReassertDue(c)
      <3>1. d = [fsm |-> c.fsm, link |-> m, raised |-> c.raised]
        BY <1>4, <2>1
      <3> HIDE DEF d
      <3> QED
        BY <1>2, <1>5, <2>1, <3>1 DEF InOrder, CallType
    <2>2. CASE ~ReassertDue(c)
      BY <1>2, <2>2
    <2> QED
      BY <2>1, <2>2
  <1> HIDE DEF d
  <1> QED
    BY <1>1, <1>3, <1>6, EndCallbackKeeps

(* The one place where certainty is gained.                                 *)
LEMMA CommandDoneKeeps ==
  ASSUME Inv, NEW r \in replies, CommandDone(r)
  PROVE  Inv'
  <1> DEFINE o == OnAck(fsm, r.seq, r.success)
             c == DispatchCommand(Here, o, service_ready)
  <1>1. EnvTypeOK'
    BY EnvTypes
    DEF Inv, EnvTypeOK, CommandDone, fcuVars, worldVars, nodeVars
  <1>2. InOrder(Here, replies, valve) /\ InOrder(Here, replies', valve)
    BY InputTypes DEF Inv, CommandDone, InOrder, Trusted, Here
  <1>3. /\ fsm \in Fsm /\ Timed(fsm) /\ r.seq \in Nat /\ r.success \in BOOLEAN
        /\ r \in Reply
    BY InputTypes DEF Inv, TypeOK, Timed, Reply
  <1>4. Here.fsm = fsm /\ Here.link = link /\ Here = [fsm |-> fsm, link |-> link, raised |-> FALSE]
    BY DEF Here
  <1>5. replies' \in SUBSET Reply /\ valve \in BOOLEAN /\ service_ready \in BOOLEAN
        /\ link \in Seq(Request)
    BY <1>1, InputTypes DEF EnvTypeOK, Inv, TypeOK
  <1>6. ASSUME Sound(fsm, o) PROVE InOrder(c, replies', valve)
    <2> HIDE DEF o
    <2>1. Sound(Here.fsm, o)
      BY <1>4, <1>6
    <2> QED
      BY <1>2, <1>5, <2>1, DispatchCommandInOrder
  <1>7. ASSUME Confirms(fsm, r.seq, r.success, o) PROVE InOrder(c, replies', valve)
    <2>1. o \in Outcome /\ Timed(o.fsm) /\ o.cmd = "none" /\ o.fsm.cmd_seq = fsm.cmd_seq
      BY <1>7 DEF Confirms
    <2> HIDE DEF o
    <2>2. /\ fsm.state \in Pending /\ o.fsm.state \notin Pending
          /\ OffConfirmed(o.fsm) => Commanded(fsm) = FALSE
          /\ Spraying(o.fsm) => Commanded(fsm) = TRUE
      BY <1>7 DEF Confirms, Pending, Commanded, OffConfirmed, Spraying
    <2>3. SettledAt(link, valve, Commanded(fsm))
      BY <1>2, <1>3, <1>4, <1>7, <2>2 DEF Confirms, InOrder, Trusted
    <2>4. /\ OffConfirmed(o.fsm) => SettledAt(link, valve, FALSE)
          /\ Spraying(o.fsm) => SettledAt(link, valve, TRUE)
      BY <2>2, <2>3, Zenon
    <2>7. Trusted(o.fsm, link, replies', valve)
      BY <1>2, <1>4, <2>1, <2>2, <2>4 DEF InOrder, Trusted
    <2>5. FailNow[o] = o
      BY <2>1 DEF FailNow
    <2>6. c = [fsm |-> o.fsm, link |-> link, raised |-> o.raised]
      BY <1>4, <2>1, <2>5 DEF DispatchCommand
    <2> HIDE DEF c
    <2> QED
      BY <1>5, <2>1, <2>6, <2>7 DEF InOrder, CallType, Outcome
  <1>8. InOrder(c, replies', valve)
    BY <1>3, <1>6, <1>7, OnAckSound
  <1>9. valve' = valve /\ EndCallback(c)
    BY DEF CommandDone
  <1> HIDE DEF c
  <1> QED
    BY <1>1, <1>8, <1>9, EndCallbackKeeps

LEMMA ServiceProbeTickKeeps ==
  ASSUME Inv, ServiceProbeTick
  PROVE  Inv'
  <1> DEFINE c == DriveFsmTick(Here, armed, manual, decision, auto, spray_enabled, service_ready')
  <1>1. EnvTypeOK'
    BY EnvTypes
    DEF Inv, EnvTypeOK, ServiceProbeTick, fcuVars, worldVars, nodeVars, linkVars
  <1>2. InOrder(c, replies, valve)
    <2>1. service_ready' \in BOOLEAN
      BY DEF ServiceProbeTick
    <2> QED
      BY <2>1, InputTypes, DriveFsmTickInOrder DEF Inv
  <1>3. replies' = replies /\ valve' = valve /\ EndCallback(c)
    BY DEF ServiceProbeTick, linkVars
  <1> HIDE DEF c
  <1> QED
    BY <1>1, <1>2, <1>3, EndCallbackKeeps

(* The calls that start with a reset of the retry backoff.                  *)
LEMMA ResetInOrder ==
  ASSUME Inv
  PROVE  InOrder(Reset, replies, valve)
  <1> DEFINE g == NoteEventReset(fsm)
  <1>1. fsm \in Fsm /\ Timed(fsm) /\ Trusted(fsm, link, replies, valve) /\ link \in Seq(Request)
    BY DEF Inv, TypeOK, Timed
  <1>2. g \in Fsm /\ Timed(g) /\ g.cmd_seq = fsm.cmd_seq /\ g.state = fsm.state
    BY <1>1, NoteEventResetKeeps DEF Edged
  <1>3. Reset = [fsm |-> g, link |-> link, raised |-> FALSE]
    BY DEF Reset
  <1> HIDE DEF g
  <1>4. Trusted(g, link, replies, valve)
    BY <1>1, <1>2 DEF Trusted, OffConfirmed, Spraying, Commanded
  <1>5. InOrder([fsm |-> g, link |-> link, raised |-> FALSE], replies, valve)
    BY <1>1, <1>2, <1>4 DEF InOrder, CallType
  <1> QED
    BY <1>3, <1>5

LEMMA MissionLoadedKeeps ==
  ASSUME Inv, NEW empty \in BOOLEAN, MissionLoaded(empty)
  PROVE  Inv'
  <1> DEFINE u == IF empty THEN Debounced(auto, FALSE) ELSE auto
             d == IF empty
                  THEN DriveFsmTick(Reset, armed, manual, decision, u, spray_enabled, service_ready)
                  ELSE Reset
  <1>1. u \in AutoType /\ u.desired \in BOOLEAN
    <2>1. Debounced(auto, FALSE) \in AutoType
      BY InputTypes, DebouncedType DEF Inv
    <2>2. u \in AutoType
      BY <2>1, InputTypes DEF Inv
    <2> QED
      BY <2>2 DEF AutoType
  <1>2. /\ auto' = u /\ replies' = replies /\ valve' = valve /\ EndCallback(d)
        /\ SpendInput
        /\ UNCHANGED <<fcuVars, worldVars, decision, manual, service_ready, faults>>
    BY DEF MissionLoaded, linkVars
  <1>3. InOrder(Reset, replies, valve)
    BY ResetInOrder
  <1> HIDE DEF u
  <1>4. EnvTypeOK'
    BY <1>1, <1>2, EnvTypes DEF Inv, EnvTypeOK, SpendInput, fcuVars, worldVars
  <1>5. InOrder(DriveFsmTick(Reset, armed, manual, decision, u, spray_enabled, service_ready),
                replies, valve)
    BY <1>1, <1>3, InputTypes, DriveFsmTickInOrder DEF Inv
  <1>6. InOrder(d, replies, valve)
    BY <1>3, <1>5
  <1> HIDE DEF d
  <1> QED
    BY <1>2, <1>4, <1>6, EndCallbackKeeps

LEMMA ShutdownKeeps ==
  ASSUME Inv, Shutdown
  PROVE  Inv'
  <1> DEFINE c == DriveFsmTick(Reset, armed, NoManual, decision, AutoInit, spray_enabled, service_ready)
  <1>1. InOrder(Reset, replies, valve)
    BY ResetInOrder
  <1>2. InOrder(c, replies, valve)
    BY <1>1, StartTypes, InputTypes, DriveFsmTickInOrder DEF Inv
  <1>3. EnvTypeOK'
    <2>1. faults' \in Nat
      BY EnvTypes DEF Inv, EnvTypeOK, Shutdown, SpendFault
    <2>2. /\ manual' = NoManual /\ auto' = AutoInit
          /\ UNCHANGED <<fcuVars, worldVars, decision, service_ready, linkVars, inputs>>
      BY DEF Shutdown
    <2> QED
      BY <2>1, <2>2, StartTypes, EnvTypes DEF Inv, EnvTypeOK, fcuVars, worldVars, linkVars
  <1>4. /\ fsm' = c.fsm /\ link' = c.link /\ replies' = replies /\ valve' = valve
        /\ proc' \in Life
    BY DEF Shutdown, linkVars, Life
  <1> HIDE DEF c
  <1>5. fsm' \in Fsm /\ Timed(fsm') /\ link' \in Seq(Request) /\ Trusted(fsm', link', replies', valve')
    BY <1>2, <1>4 DEF InOrder, CallType
  <1> QED
    BY <1>3, <1>4, <1>5 DEF Inv, TypeOK, EnvTypeOK, Timed, AutoType, ManualType

LEMMA FreshInOrder ==
  ASSUME NEW l \in Seq(Request), \A i \in DOMAIN l : l[i].seq = 0,
         NEW v \in BOOLEAN
  PROVE  InOrder(Fresh(l), {}, v)
  <1>1. Fresh(l) = [fsm |-> FsmInit, link |-> l, raised |-> FALSE]
    BY DEF Fresh
  <1>2. FsmInit.state = "OFF_UNCONFIRMED" /\ FsmInit.cmd_seq = 0
    BY DEF FsmInit
  <1>3. Trusted(FsmInit, l, {}, v)
    BY <1>2 DEF Trusted, OffConfirmed, Spraying, Pending
  <1> QED
    BY <1>1, <1>3, FsmInitType DEF InOrder, CallType

LEMMA OrphanedType ==
  ASSUME NEW l \in Seq(Request)
  PROVE  Orphaned(l) \in Seq(Request) /\ \A i \in DOMAIN Orphaned(l) : Orphaned(l)[i].seq = 0
  <1>1. \A i \in 1 .. Len(l) : l[i] \in Request
    OBVIOUS
  <1>2. Len(l) \in Nat /\ DOMAIN l = 1 .. Len(l)
    OBVIOUS
  <1>3. \A i \in 1 .. Len(l) : [l[i] EXCEPT !.seq = 0] \in Request /\ [l[i] EXCEPT !.seq = 0].seq = 0
    BY <1>1 DEF Request
  <1>4. Orphaned(l) = [i \in 1 .. Len(l) |-> [l[i] EXCEPT !.seq = 0]]
    BY <1>2 DEF Orphaned
  <1>5. Orphaned(l) \in [1 .. Len(l) -> Request]
    BY <1>3, <1>4
  <1>6. Orphaned(l) \in Seq(Request)
    BY <1>2, <1>5, SeqDef
  <1>7. \A i \in DOMAIN Orphaned(l) : Orphaned(l)[i].seq = 0
    BY <1>3, <1>4
  <1> QED
    BY <1>6, <1>7

LEMMA RestartKeeps ==
  ASSUME Inv, Restart
  PROVE  Inv'
  <1>1. link \in Seq(Request) /\ valve \in BOOLEAN
    BY DEF Inv, TypeOK
  <1> DEFINE l == Orphaned(link)
  <1>2. l \in Seq(Request) /\ \A i \in DOMAIN l : l[i].seq = 0
    BY <1>1, OrphanedType
  <1> HIDE DEF l
  <1>3. InOrder(Fresh(l), {}, valve) /\ {} \in SUBSET Reply
    BY <1>1, <1>2, FreshInOrder
  <1>4. FALSE \in BOOLEAN
    OBVIOUS
  <1>5. PICK ready \in BOOLEAN :
          LET c == DriveFsmTick(Fresh(l), armed', NoManual, "none", AutoInit, spray_enabled, ready)
          IN  /\ proc' = IF c.raised THEN "raised" ELSE "running"
              /\ fsm' = c.fsm /\ link' = c.link /\ replies' = {}
              /\ service_ready' = ready
    BY DEF Restart, l
  <1> DEFINE c == DriveFsmTick(Fresh(l), armed', NoManual, "none", AutoInit, spray_enabled, ready)
  <1>6. /\ armed' = FALSE /\ offboard' = FALSE
        /\ decision' = "none" /\ auto' = AutoInit /\ manual' = NoManual
        /\ UNCHANGED <<worldVars, valve, faults, inputs>>
    BY DEF Restart
  <1>7. armed' \in BOOLEAN
    BY <1>6
  <1>8. InOrder(c, {}, valve)
    BY <1>1, <1>3, <1>7, StartTypes, InputTypes, DriveFsmTickInOrder DEF Inv
  <1>9. EnvTypeOK'
    BY <1>3, <1>5, <1>6, StartTypes, EnvTypes DEF Inv, EnvTypeOK, worldVars
  <1> HIDE DEF c
  <1>10. /\ fsm' \in Fsm /\ Timed(fsm') /\ link' \in Seq(Request) /\ proc' \in Life
         /\ Trusted(fsm', link', replies', valve')
    BY <1>5, <1>6, <1>8 DEF c, InOrder, CallType, Life
  <1> QED
    BY <1>9, <1>10 DEF Inv, TypeOK, EnvTypeOK, Timed, AutoType, ManualType

(* The service takes the oldest request.                                    *)
LEMMA ServedKeeps ==
  ASSUME Inv, NEW executed \in BOOLEAN, NEW reply \in SUBSET BOOLEAN,
         TRUE \in reply => executed = TRUE,
         Served(executed, reply), faults' \in Nat
  PROVE  Inv'
  <1> DEFINE h == Head(link)
             m == Tail(link)
             new == IF reply = {} \/ h.seq = 0 THEN {} ELSE {[seq |-> h.seq, success |-> b] : b \in reply}
  <1>1. /\ link \in Seq(Request) /\ link # <<>> /\ fsm \in Fsm /\ fsm.cmd_seq \in Nat
        /\ Trusted(fsm, link, replies, valve) /\ valve \in BOOLEAN /\ replies \in SUBSET Reply
    BY DEF Inv, TypeOK, Served, Fsm
  <1>2. /\ m \in Seq(Request) /\ Len(m) = Len(link) - 1 /\ Len(link) \in Nat \ {0}
        /\ DOMAIN m = 1 .. Len(m) /\ DOMAIN link = 1 .. Len(link)
        /\ \A i \in 1 .. Len(m) : m[i] = link[i + 1]
        /\ h = link[1] /\ h \in Request
    BY <1>1
  <1>3. h.seq \in Nat /\ h.on \in BOOLEAN
    BY <1>2 DEF Request
  <1>4. /\ link' = m /\ fsm' = fsm /\ proc' = proc
        /\ valve' = IF executed THEN h.on ELSE valve
        /\ replies' = replies \cup new
        /\ UNCHANGED <<fcuVars, worldVars, nodeVars, service_ready, inputs>>
    BY DEF Served
  <1> HIDE DEF h, m
  <1>5. \A r \in new : r \in Reply /\ r.seq = h.seq /\ (r.success => executed = TRUE)
    <2> SUFFICES ASSUME NEW r \in new
                 PROVE  r \in Reply /\ r.seq = h.seq /\ (r.success => executed = TRUE)
      OBVIOUS
    <2>1. h.seq # 0
      OBVIOUS
    <2>2. PICK b \in reply : r = [seq |-> h.seq, success |-> b]
      BY <2>1
    <2>3. b \in BOOLEAN /\ r.success = b /\ r.seq = h.seq
      BY <2>2
    <2>4. r \in Reply
      BY <1>3, <2>1, <2>2, <2>3 DEF Reply
    <2>5. r.success => b = TRUE
      BY <2>3
    <2> QED
      BY <2>3, <2>4, <2>5
  <1> HIDE DEF new
  <1>6. replies' \in SUBSET Reply /\ valve' \in BOOLEAN
    BY <1>1, <1>3, <1>4, <1>5
  <1>7. ASSUME NEW p \in BOOLEAN, SettledAt(link, valve, p)
        PROVE  SettledAt(m, valve', p)
    <2>1. link[1].on = p /\ valve = p /\ \A k \in 1 .. Len(link) : link[k].on = p
      BY <1>2, <1>7 DEF SettledAt
    <2>2. valve' = p
      BY <1>2, <1>4, <2>1
    <2>3. \A i \in 1 .. Len(m) : m[i].on = p
      BY <1>2, <2>1
    <2> QED
      BY <1>2, <2>2, <2>3 DEF SettledAt
  <1>8. \A i \in DOMAIN m : m[i].seq <= fsm.cmd_seq
    <2>1. \A k \in DOMAIN link : link[k].seq <= fsm.cmd_seq
      BY <1>1 DEF Trusted
    <2> SUFFICES ASSUME NEW i \in DOMAIN m PROVE m[i].seq <= fsm.cmd_seq
      OBVIOUS
    <2>2. i + 1 \in DOMAIN link /\ m[i] = link[i + 1]
      BY <1>2
    <2> QED
      BY <2>1, <2>2
  <1>9. \A r \in replies' : r.seq <= fsm.cmd_seq
    BY <1>1, <1>2, <1>4, <1>5 DEF Trusted
  <1>10. ASSUME fsm.state \in Pending, NEW i \in DOMAIN m, m[i].seq = fsm.cmd_seq,
                NEW j \in i .. Len(m)
         PROVE  m[j].on = Commanded(fsm)
    <2>1. i + 1 \in DOMAIN link /\ link[i + 1].seq = fsm.cmd_seq
          /\ j + 1 \in (i + 1) .. Len(link) /\ m[j] = link[j + 1]
      BY <1>2, <1>10
    <2> QED
      BY <1>1, <1>10, <2>1 DEF Trusted
  <1>11. ASSUME fsm.state \in Pending, NEW r \in replies', r.success, r.seq = fsm.cmd_seq
         PROVE  SettledAt(m, valve', Commanded(fsm))
    <2>1. Commanded(fsm) \in BOOLEAN
      BY DEF Commanded
    <2>2. CASE r \in replies
      BY <1>1, <1>7, <1>11, <2>1, <2>2 DEF Trusted
    <2>3. CASE r \in new
      <3>1. h.seq = fsm.cmd_seq /\ executed = TRUE
        BY <1>5, <1>11, <2>3
      <3>2. \A k \in 1 .. Len(link) : link[k].on = Commanded(fsm)
        BY <1>1, <1>2, <1>11, <3>1 DEF Trusted
      <3> QED
        BY <1>2, <1>4, <3>1, <3>2 DEF SettledAt
    <2> QED
      BY <1>4, <1>11, <2>2, <2>3
  <1>12. Trusted(fsm, m, replies', valve')
    BY <1>1, <1>7, <1>8, <1>9, <1>10, <1>11 DEF Trusted
  <1>13. TypeOK'
    BY <1>2, <1>4, <1>6
    DEF Inv, TypeOK, fcuVars, worldVars, nodeVars
  <1> QED
    BY <1>4, <1>12, <1>13 DEF Inv

LEMMA ExecuteKeeps ==
  ASSUME Inv, Execute
  PROVE  Inv'
  <1>1. faults' \in Nat
    BY EnvTypes DEF Inv, EnvTypeOK, Execute
  <1>2. Served(TRUE, {TRUE})
    BY DEF Execute
  <1>3. PICK executed \in BOOLEAN, reply \in SUBSET BOOLEAN :
          executed = TRUE /\ reply = {TRUE}
    OBVIOUS
  <1> QED
    BY <1>1, <1>2, <1>3, ServedKeeps

LEMMA MisserveKeeps ==
  ASSUME Inv, Misserve
  PROVE  Inv'
  <1>1. faults' \in Nat
    BY EnvTypes DEF Inv, EnvTypeOK, Misserve, SpendFault
  <1>2. PICK executed \in BOOLEAN : Served(executed, {FALSE}) \/ Served(executed, {})
    BY DEF Misserve
  <1>3. PICK reply \in SUBSET BOOLEAN : Served(executed, reply) /\ ~(TRUE \in reply)
    BY <1>2
  <1> QED
    BY <1>1, <1>3, ServedKeeps

LEMMA TimePassesKeeps ==
  ASSUME Inv, TimePasses
  PROVE  Inv'
  <1>1. /\ fsm \in Fsm /\ Timed(fsm) /\ manual \in ManualType
        /\ Trusted(fsm, link, replies, valve)
    BY EnvTypes DEF Inv, EnvTypeOK
  <1> DEFINE g == Elapse(fsm)
  <1>2. g \in Fsm /\ Timed(g) /\ g.cmd_seq = fsm.cmd_seq /\ g.state = fsm.state
    BY <1>1, ElapseKeeps DEF Edged
  <1>3. fsm' = g
    BY DEF TimePasses
  <1> HIDE DEF g
  <1>4. Trusted(g, link, replies, valve)
    BY <1>1, <1>2 DEF Trusted, OffConfirmed, Spraying, Commanded
  <1>5. manual' \in ManualType
    <2>1. PICK n \in 0 .. ManualTimeout :
            n = IF manual.left > 0 THEN manual.left - 1 ELSE manual.left
      BY <1>1, ActuatorAssumption DEF ManualType
    <2>2. manual' = [manual EXCEPT !.left = n]
      BY <2>1 DEF TimePasses
    <2> QED
      BY <1>1, <2>2 DEF ManualType
  <1>6. faults' \in Nat
    BY EnvTypes DEF Inv, EnvTypeOK, TimePasses, SpendFault
  <1>7. UNCHANGED <<proc, fcuVars, worldVars, decision, auto, service_ready, link, linkVars, inputs>>
    BY DEF TimePasses
  <1>8. TypeOK'
    BY <1>2, <1>3, <1>5, <1>6, <1>7
    DEF Inv, TypeOK, Timed, ManualType, fcuVars, worldVars, linkVars
  <1> QED
    BY <1>3, <1>4, <1>7, <1>8 DEF Inv, linkVars

(* The steps that leave the machine, the link and the valve alone.          *)
LEMMA OutsideKeeps ==
  ASSUME Inv, WorldChanges \/ FlushExpires \/ Kill \/ UNCHANGED vars
  PROVE  Inv'
  <1>1. CASE WorldChanges
    <2>1. spray_enabled' \in BOOLEAN /\ gates' \in BOOLEAN /\ mark' \in BOOLEAN
      BY <1>1 DEF Inv, TypeOK, WorldChanges
    <2>2. inputs' \in Nat
      BY <1>1 DEF Inv, TypeOK, WorldChanges, SpendInput
    <2>3. UNCHANGED <<fsm, proc, fcuVars, nodeVars, service_ready, link, linkVars, faults>>
      BY <1>1 DEF WorldChanges
    <2> QED
      BY <2>1, <2>2, <2>3 DEF Inv, TypeOK, fcuVars, nodeVars, linkVars
  <1>2. CASE FlushExpires
    BY <1>2 DEF Inv, TypeOK, FlushExpires, Life, fcuVars, worldVars, nodeVars, linkVars
  <1>3. CASE Kill
    BY <1>3 DEF Inv, TypeOK, Kill, SpendFault, Life, fcuVars, worldVars, nodeVars, linkVars
  <1>4. CASE UNCHANGED vars
    BY <1>4 DEF Inv, TypeOK, vars
  <1> QED
    BY <1>1, <1>2, <1>3, <1>4

LEMMA NextKeeps ==
  ASSUME Inv, [Next]_vars
  PROVE  Inv'
  <1>1. CASE Callback
    <2>1. CASE \E a, o \in BOOLEAN : StateCb(a, o)
      BY <2>1, StateCbKeeps
    <2>2. CASE \E on \in BOOLEAN : ManualCb(on)
      BY <2>2, ManualCbKeeps
    <2>3. CASE \E r \in replies : CommandDone(r)
      BY <2>3, CommandDoneKeeps
    <2>4. CASE \E empty \in BOOLEAN : MissionLoaded(empty)
      BY <2>4, MissionLoadedKeeps
    <2>5. CASE WatchdogTick \/ ReassertTick \/ ServiceProbeTick
      BY <2>5, WatchdogTickKeeps, ReassertTickKeeps, ServiceProbeTickKeeps
    <2> QED
      BY <1>1, <2>1, <2>2, <2>3, <2>4, <2>5 DEF Callback
  <1>2. CASE Shutdown \/ Restart
    BY <1>2, ShutdownKeeps, RestartKeeps
  <1>3. CASE Execute \/ Misserve
    BY <1>3, ExecuteKeeps, MisserveKeeps
  <1>4. CASE TimePasses
    BY <1>4, TimePassesKeeps
  <1>5. CASE WorldChanges \/ FlushExpires \/ Kill \/ UNCHANGED vars
    BY <1>5, OutsideKeeps
  <1> QED
    BY <1>1, <1>2, <1>3, <1>4, <1>5 DEF Next

LEMMA InitEstablishes == Init => Inv
  <1> SUFFICES ASSUME Init PROVE Inv
    OBVIOUS
  <1>1. /\ armed \in BOOLEAN /\ valve \in BOOLEAN /\ spray_enabled \in BOOLEAN
        /\ armed = FALSE
    BY DEF Init
  <1>2. <<>> \in Seq(Request) /\ \A i \in DOMAIN <<>> : <<>>[i].seq = 0
    OBVIOUS
  <1>3. InOrder(Fresh(<<>>), {}, valve) /\ {} \in SUBSET Reply
    BY <1>1, <1>2, FreshInOrder
  <1>4. PICK ready \in BOOLEAN :
          LET c == DriveFsmTick(Fresh(<<>>), armed, NoManual, "none", AutoInit, spray_enabled, ready)
          IN  fsm = c.fsm /\ link = c.link /\ service_ready = ready
    BY DEF Init
  <1> DEFINE c == DriveFsmTick(Fresh(<<>>), armed, NoManual, "none", AutoInit, spray_enabled, ready)
  <1>5. InOrder(c, {}, valve)
    BY <1>1, <1>3, StartTypes, DriveFsmTickInOrder
  <1> HIDE DEF c
  <1>6. fsm \in Fsm /\ Timed(fsm) /\ link \in Seq(Request) /\ Trusted(fsm, link, replies, valve)
    BY <1>4, <1>5 DEF c, InOrder, CallType, Init
  <1>7. EnvTypeOK /\ proc \in Life
    BY <1>3, <1>4, StartTypes, ActuatorAssumption DEF Init, EnvTypeOK, Life
  <1> QED
    BY <1>6, <1>7, EnvTypes DEF Inv

-----------------------------------------------------------------------------
(* Every state the node can reach is well typed, and a pending command      *)
(* always has a running acknowledgement timeout.                            *)
THEOREM TypeCorrect == Spec => []TypeOK
  <1>1. Inv => TypeOK
    BY DEF Inv
  <1> QED
    BY <1>1, InitEstablishes, NextKeeps, PTL DEF Spec

(* A machine that reports OFF confirmed has its valve closed, with nothing  *)
(* in flight to open it: spray_fsm.py's on_ack can be believed.             *)
THEOREM OffIsClosed == Spec => []OffConfirmedMeansClosed
  <1>1. Inv => OffConfirmedMeansClosed
    BY InvIsSafety
  <1> QED
    BY <1>1, InitEstablishes, NextKeeps, PTL DEF Spec

(* A machine that reports spraying has its valve open, with nothing in      *)
(* flight to close it.                                                      *)
THEOREM SprayingIsOpen == Spec => []SprayingMeansOpen
  <1>1. Inv => SprayingMeansOpen
    BY InvIsSafety
  <1> QED
    BY <1>1, InitEstablishes, NextKeeps, PTL DEF Spec

(* The command with the current number is the last that counts: what the    *)
(* two theorems above rest on.                                              *)
THEOREM CurrentCommandDecides == Spec => []CurrentDecides
  <1>1. Inv => CurrentDecides
    BY InvIsSafety
  <1> QED
    BY <1>1, InitEstablishes, NextKeeps, PTL DEF Spec

=============================================================================
