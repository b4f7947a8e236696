--------------------------- MODULE SessionProofs ---------------------------
(***************************************************************************)
(* Proofs about Session, for every set of settings, payloads and incoming  *)
(* messages: types, the order of the inbound queue, that no number reaches *)
(* the application twice, that the store is complete, that nothing of a    *)
(* connection outlives it, that each message is counted once and in its    *)
(* turn, that a retransmission covers its range and that a refused Logon   *)
(* leaves the numbers alone.                                               *)
(*                                                                         *)
(* The argument follows the code.  Base(s) holds of every state a method   *)
(* of the session can leave behind.  A method that only sends, resets or   *)
(* disconnects "keeps" a state: Keeps(s, t).  Counting a message is the    *)
(* one step that can bring the queue's first number level with the         *)
(* expected one, which is why a handler starts from QueueAfter and ends in *)
(* QueueFrom, and why the queue is drained before the next message.        *)
(*                                                                         *)
(* The last two parts, on counting and on refused Logons, follow the calls *)
(* once more for what they do to the expected numbers: Stays, Counts and   *)
(* Grows relate the states before and after a method.                      *)
(***************************************************************************)
EXTENDS Session, RetransmitProofs

Fields == {"cfg", "enabled", "sched", "conn", "responder", "receivedLogon", "sentLogon",
           "sentLogout", "receivedReset", "sentReset", "testRequest", "resendRange",
           "heartBtInt", "sinceSent", "sinceReceived", "queue", "sender", "target",
           "store", "out", "got", "seen", "pc", "tail"}

\* The queue lies at or above, or strictly above, the expected number, unless the
\* session has sent its Logout.
QueueFrom(s) == s.sentLogout \/ \A n \in DOMAIN s.queue : n >= s.target
QueueAfter(s) == s.sentLogout \/ \A n \in DOMAIN s.queue : n > s.target

StoreOK(s) == s.cfg.persist => DOMAIN s.store = 1..(s.sender - 1)
SeenOK(s) == \A n \in s.seen : n < s.target

Base(s) == DOMAIN s = Fields /\ StateType(s) /\ QueueFrom(s) /\ StoreOK(s)

\* t is the same session with the same connection, which only a threaded transport
\* may retire inside a handler.
SameSession(s, t) ==
  t.pc = s.pc /\ t.cfg = s.cfg /\ (s.cfg.threaded \/ t.conn = s.conn)

\* The step from s to t leaves the order of the queue and of what was seen alone.
Keeps(s, t) ==
  /\ Base(t) /\ SameSession(s, t)
  /\ QueueAfter(s) => QueueAfter(t)
  /\ SeenOK(s) => SeenOK(t)

-----------------------------------------------------------------------------
(* Methods that keep a state *)

\* Keeping a state composes.
LEMMA KeepsTransitive ==
  ASSUME NEW s, NEW t, NEW u, Keeps(s, t), Base(t) => Keeps(t, u)
  PROVE  Keeps(s, u)
BY DEF SameSession, Keeps

\* SessionState::reset empties queue, store and what was seen together.
LEMMA ResetKeeps ==
  ASSUME NEW s, Base(s)
  PROVE  Keeps(s, Reset(s)) /\ Reset(s).cfg = s.cfg
BY DEF SameSession, Keeps, Base, Reset, Fields, StateType, QueueFrom, QueueAfter, StoreOK, SeenOK

\* Writing to the responder changes nothing the session keeps.
LEMMA TransmitKeeps ==
  ASSUME NEW s, NEW m, Base(s)
  PROVE  Keeps(s, Transmit(s, m))
BY DEF SameSession, Keeps, Base, Transmit, Fields, StateType, QueueFrom, QueueAfter, StoreOK, SeenOK

\* persist() stores a message under the next number and then counts it, so the
\* store stays complete.
LEMMA PersistKeeps ==
  ASSUME NEW s, NEW m, Base(s), m.seq = s.sender, m.body \in Bodies \cup {NoBody}
  PROVE  Keeps(s, Persist(s, m))
<1> DEFINE grown == [n \in DOMAIN s.store \cup {m.seq} |->
                       IF n = m.seq THEN m.body ELSE s.store[n]]
           kept == IF s.cfg.persist THEN grown ELSE s.store
<1>1. \A n \in DOMAIN kept : kept[n] \in Bodies \cup {NoBody}
  BY DEF Base, StateType
<1>2. s.sender \in Nat \ {0} /\ (s.cfg.persist => DOMAIN s.store = 1..(s.sender - 1))
  BY DEF Base, StateType, StoreOK
<1>3. s.cfg.persist => DOMAIN kept = 1..s.sender
  BY <1>2
<1>4. Persist(s, m) = [s EXCEPT !.store = kept, !.sender = s.sender + 1]
  BY DEF Persist
<1> HIDE DEF kept
<1> DEFINE t == [s EXCEPT !.store = kept, !.sender = s.sender + 1]
<1>5. DOMAIN t = Fields /\ StateType(t)
  BY <1>1, <1>2 DEF Base, Fields, StateType
<1>6. StoreOK(t) /\ SameSession(s, t) /\ (SeenOK(s) => SeenOK(t))
  BY <1>2, <1>3 DEF SameSession, Base, Fields, StoreOK, SeenOK
<1>7. QueueFrom(t) /\ (QueueAfter(s) => QueueAfter(t))
  BY DEF Base, Fields, QueueFrom, QueueAfter
<1> QED BY <1>4, <1>5, <1>6, <1>7 DEF Keeps, Base

\* The reset of an outgoing Logon is a reset like any other.
LEMMA LogonResetKeeps ==
  ASSUME NEW s, Base(s), NEW m, m.flag \in BOOLEAN
  PROVE  Keeps(s, LogonReset(s, m))
<1>1. CASE m.type # "Logon" \/ s.receivedReset
  BY <1>1 DEF SameSession, Keeps, LogonReset
<1>2. CASE ~(m.type # "Logon" \/ s.receivedReset)
  <2> DEFINE r == IF m.flag THEN Reset(s) ELSE s
  <2>1. Keeps(s, r)
    BY ResetKeeps DEF SameSession, Keeps
  <2>2. LogonReset(s, m) = [r EXCEPT !.sentReset = m.flag]
    BY <1>2 DEF LogonReset
  <2> HIDE DEF r
  <2>3. Keeps(s, [r EXCEPT !.sentReset = m.flag])
    BY <2>1 DEF SameSession, Keeps, Base, Fields, StateType, QueueFrom, QueueAfter, StoreOK, SeenOK
  <2> QED BY <2>2, <2>3
<1> QED BY <1>1, <1>2

\* A new message of the session is a message.
LEMMA NewMessageType ==
  ASSUME NEW t \in MsgTypes
  PROVE  NewMessage(t) \in Message
BY DEF NewMessage, Message, Defects

\* Sending an administrative message keeps a state.
LEMMA SendRawKeeps ==
  ASSUME NEW s, Base(s), NEW m \in Message
  PROVE  Keeps(s, SendRaw(s, m))
<1> DEFINE s0 == [s EXCEPT !.sinceSent = 0]
           s1 == LogonReset(s0, m)
           m1 == [m EXCEPT !.seq = s1.sender]
           s2 == Persist(s1, m1)
<1>1. Keeps(s, s0)
  BY BoundsAssumption DEF SameSession, Keeps, Base, Fields, StateType, QueueFrom, QueueAfter, StoreOK, SeenOK
<1>2. m.flag \in BOOLEAN /\ m1.seq = s1.sender /\ m1.body \in Bodies \cup {NoBody}
  BY DEF Message
<1> SUFFICES Keeps(s, s2) /\ Keeps(s, Transmit(s2, m1))
  BY DEF SendRaw
<1> HIDE DEF s0
<1>3. Keeps(s, s1)
  BY <1>1, <1>2, LogonResetKeeps, KeepsTransitive DEF Keeps
<1> HIDE DEF s1, m1
<1>4. Keeps(s, s2)
  BY <1>2, <1>3, PersistKeeps, KeepsTransitive DEF Keeps
<1> HIDE DEF s2
<1>5. Keeps(s, Transmit(s2, m1))
  BY <1>4, TransmitKeeps, KeepsTransitive DEF Keeps
<1> QED BY <1>4, <1>5

\* Sending an application message keeps a state.
LEMMA SendAppKeeps ==
  ASSUME NEW s, Base(s), NEW body \in Bodies
  PROVE  Keeps(s, SendApp(s, body))
<1> DEFINE s1 == [s EXCEPT !.sinceSent = 0]
           m == [NewMessage("App") EXCEPT !.seq = s.sender, !.body = body]
           s2 == Persist(s1, m)
<1>1. Keeps(s, s1) /\ s1.sender = s.sender
  BY BoundsAssumption DEF SameSession, Keeps, Base, Fields, StateType, QueueFrom, QueueAfter, StoreOK, SeenOK
<1>2. m.seq = s.sender /\ m.body = body
  BY DEF NewMessage
<1> HIDE DEF s1, m
<1>3. Keeps(s, s2)
  BY <1>1, <1>2, PersistKeeps, KeepsTransitive DEF Keeps
<1> HIDE DEF s2
<1>4. Keeps(s, Transmit(s2, m))
  BY <1>3, TransmitKeeps, KeepsTransitive DEF Keeps
<1>5. Keeps(s, s)
  BY DEF SameSession, Keeps
<1> QED BY <1>3, <1>4, <1>5 DEF SendApp, s1, s2, m

\* So do the administrative messages without fields of their own.
LEMMA GenerateKeeps ==
  ASSUME NEW s, Base(s)
  PROVE  /\ Keeps(s, GenerateHeartbeat(s))
         /\ Keeps(s, GenerateTestRequest(s))
         /\ Keeps(s, GenerateLogout(s))
<1>1. \A t \in {"Heartbeat", "TestRequest", "Logout"} : Keeps(s, SendRaw(s, NewMessage(t)))
  BY NewMessageType, SendRawKeeps DEF MsgTypes, AdminTypes
<1> DEFINE l == SendRaw(s, NewMessage("Logout"))
<1>2. Keeps(s, l)
  BY <1>1
<1> HIDE DEF l
<1>3. Keeps(s, [l EXCEPT !.sentLogout = TRUE])
  BY <1>2 DEF SameSession, Keeps, Base, Fields, StateType, QueueFrom, QueueAfter, StoreOK, SeenOK
<1> QED BY <1>1, <1>3 DEF GenerateHeartbeat, GenerateTestRequest, GenerateLogout, l

\* The Logon a session builds is a message.
LEMMA LogonMessageType ==
  ASSUME NEW f \in BOOLEAN, NEW h \in Nat, NEW n \in Nat
  PROVE  [NewMessage("Logon") EXCEPT !.flag = f, !.hb = h, !.num = n] \in Message
BY DEF NewMessage, Message, Defects, MsgTypes, AdminTypes

\* Sending a Logon, with the reset it may ask for, keeps a state.
LEMMA GenerateLogonKeeps ==
  ASSUME NEW s, Base(s)
  PROVE  Keeps(s, GenerateLogon(s))
<1> DEFINE s1 == IF s.cfg.resetOnLogon THEN Reset(s) ELSE s
           m == [NewMessage("Logon") EXCEPT
                   !.flag = ShouldSendReset(s1), !.hb = s1.heartBtInt,
                   !.num = IF s1.cfg.nextExpected THEN s1.target ELSE 0]
           s2 == [s1 EXCEPT !.sinceReceived = 0, !.testRequest = 0, !.sentLogon = TRUE]
<1>1. Keeps(s, s1)
  BY ResetKeeps DEF SameSession, Keeps
<1>2. s1.heartBtInt \in Nat /\ s1.target \in Nat
  BY <1>1 DEF Keeps, Base, StateType
<1>3. GenerateLogon(s) = SendRaw(s2, m)
  BY DEF GenerateLogon
<1> HIDE DEF s1
<1>4. m \in Message
  <2>1. ShouldSendReset(s1) \in BOOLEAN
    BY DEF ShouldSendReset
  <2> QED BY <1>2, <2>1, LogonMessageType
<1>5. Keeps(s, s2)
  BY <1>1, BoundsAssumption
  DEF SameSession, Keeps, Base, Fields, StateType, QueueFrom, QueueAfter, StoreOK, SeenOK
<1> HIDE DEF s2, m
<1> QED BY <1>3, <1>4, <1>5, SendRawKeeps, KeepsTransitive DEF Keeps

\* Answering a Logon keeps a state.
LEMMA GenerateLogonReplyKeeps ==
  ASSUME NEW s, Base(s), NEW logon \in Message
  PROVE  Keeps(s, GenerateLogonReply(s, logon))
<1> DEFINE n == IF s.cfg.nextExpected THEN s.target + 1 ELSE 0
           m == [NewMessage("Logon") EXCEPT !.flag = s.receivedReset, !.hb = logon.hb, !.num = n]
           r == SendRaw(s, m)
<1>1. s.receivedReset \in BOOLEAN /\ n \in Nat /\ logon.hb \in Nat
  BY DEF Base, StateType, Message
<1>4. GenerateLogonReply(s, logon) = [r EXCEPT !.sentLogon = TRUE]
  BY DEF GenerateLogonReply
<1> HIDE DEF n
<1>2. m \in Message
  BY <1>1, LogonMessageType
<1>3. Keeps(s, r)
  BY <1>2, SendRawKeeps
<1> HIDE DEF r
<1> QED
  BY <1>3, <1>4 DEF SameSession, Keeps, Base, Fields, StateType, QueueFrom, QueueAfter, StoreOK, SeenOK

\* Asking for a resend keeps a state.
LEMMA GenerateResendRequestKeeps ==
  ASSUME NEW s, Base(s), NEW n \in Nat \ {0}
  PROVE  Keeps(s, GenerateResendRequest(s, n))
<1> DEFINE m == [NewMessage("ResendRequest") EXCEPT !.num = s.target]
           r == SendRaw(s, m)
<1>1. s.target \in Nat
  BY DEF Base, StateType
<1>2. m \in Message
  BY <1>1 DEF NewMessage, Message, Defects, MsgTypes, AdminTypes
<1>3. Keeps(s, r)
  BY <1>2, SendRawKeeps
<1>4. GenerateResendRequest(s, n) = [r EXCEPT !.resendRange = <<s.target, n - 1>>]
  BY DEF GenerateResendRequest
<1>5. <<s.target, n - 1>> \in Nat \X Nat
  BY <1>1
<1> HIDE DEF r
<1> QED
  BY <1>3, <1>4, <1>5
  DEF SameSession, Keeps, Base, Fields, StateType, QueueFrom, QueueAfter, StoreOK, SeenOK

\* Retransmitting only sends.
LEMMA RetransmitKeeps ==
  ASSUME NEW s, Base(s), NEW b, NEW e, NEW withheld
  PROVE  Keeps(s, RetransmitOrFill(s, b, e, withheld))
<1>1. Keeps(s, GenerateRetransmits(s, b, e, withheld))
  <2>1. ASSUME NEW age \in 0..MaxAge, NEW o
        PROVE  Keeps(s, [s EXCEPT !.sinceSent = age, !.out = o])
    BY DEF SameSession, Keeps, Base, Fields, StateType, QueueFrom, QueueAfter, StoreOK, SeenOK
  <2>2. 0 \in 0..MaxAge /\ s.sinceSent \in 0..MaxAge
    BY BoundsAssumption DEF Base, StateType
  <2> QED BY <2>1, <2>2 DEF GenerateRetransmits
<1>2. ASSUME NEW k PROVE Keeps(s, GenerateSequenceReset(s, b, k))
  <2> DEFINE s1 == [s EXCEPT !.sinceSent = 0]
  <2>1. Keeps(s, s1)
    BY BoundsAssumption
    DEF SameSession, Keeps, Base, Fields, StateType, QueueFrom, QueueAfter, StoreOK, SeenOK
  <2> HIDE DEF s1
  <2>2. Keeps(s, Transmit(s1, GapFill(b, k)))
    BY <2>1, TransmitKeeps, KeepsTransitive DEF Keeps
  <2> QED BY <2>2 DEF GenerateSequenceReset, s1
<1> QED BY <1>1, <1>2 DEF RetransmitOrFill

\* Session::disconnect keeps a state, and leaves an empty queue.
LEMMA DisconnectKeeps ==
  ASSUME NEW s, Base(s)
  PROVE  Keeps(s, Disconnect(s)) /\ QueueAfter(Disconnect(s))
<1> DEFINE s1 == IF s.cfg.resetOnDisconnect THEN Reset(s) ELSE s
<1>1. Keeps(s, s1)
  BY ResetKeeps DEF SameSession, Keeps
<1>2. Disconnect(s) =
        [s1 EXCEPT !.responder = FALSE, !.receivedLogon = FALSE, !.sentLogon = FALSE,
                   !.sentLogout = FALSE, !.receivedReset = FALSE, !.sentReset = FALSE,
                   !.queue = <<>>, !.resendRange = <<0, 0>>]
  BY DEF Disconnect
<1> HIDE DEF s1
<1> DEFINE d == [s1 EXCEPT !.responder = FALSE, !.receivedLogon = FALSE, !.sentLogon = FALSE,
                   !.sentLogout = FALSE, !.receivedReset = FALSE, !.sentReset = FALSE,
                   !.queue = <<>>, !.resendRange = <<0, 0>>]
<1>3. DOMAIN d = Fields /\ QueueFrom(d) /\ QueueAfter(d)
  BY <1>1 DEF Keeps, Base, Fields, QueueFrom, QueueAfter
<1>4. StateType(d)
  BY <1>1 DEF Keeps, Base, Fields, StateType
<1>5. StoreOK(d) /\ SameSession(s, d) /\ (SeenOK(s) => SeenOK(d))
  BY <1>1 DEF SameSession, Keeps, Base, Fields, StoreOK, SeenOK
<1> QED BY <1>2, <1>3, <1>4, <1>5 DEF Keeps, Base

\* Session::reset keeps a state.
LEMMA ResetSessionKeeps ==
  ASSUME NEW s, Base(s)
  PROVE  Keeps(s, ResetSession(s))
<1>1. Keeps(s, GenerateLogout(s))
  BY GenerateKeeps
<1>2. Keeps(s, Disconnect(GenerateLogout(s)))
  BY <1>1, DisconnectKeeps, KeepsTransitive DEF Keeps
<1>3. Keeps(s, Reset(Disconnect(GenerateLogout(s))))
  BY <1>2, ResetKeeps, KeepsTransitive DEF Keeps
<1> QED BY <1>3 DEF ResetSession

\* Session::setResponder keeps a state.
LEMMA SetResponderKeeps ==
  ASSUME NEW s, Base(s), NEW r \in BOOLEAN
  PROVE  Keeps(s, SetResponder(s, r))
<1> DEFINE s1 == IF s.sched # "same" THEN ResetSession(s) ELSE s
<1>1. Keeps(s, s1)
  BY ResetSessionKeeps DEF SameSession, Keeps
<1>2. SetResponder(s, r) = [s1 EXCEPT !.responder = r]
  BY DEF SetResponder
<1> HIDE DEF s1
<1> QED
  BY <1>1, <1>2
  DEF SameSession, Keeps, Base, Fields, StateType, QueueFrom, QueueAfter, StoreOK, SeenOK

-----------------------------------------------------------------------------
(* Receiving *)

\* What was seen may include the expected number while its message is handled.
SeenUpTo(s) == \A n \in s.seen : n <= s.target

\* A handler starts from Ready, and ends in Done.
Ready(s) == Base(s) /\ QueueAfter(s) /\ SeenOK(s)
Done(s, t) == Base(t) /\ SeenOK(t) /\ SameSession(s, t)

\* A method that keeps a state leaves a handler where it was.
LEMMA KeepsReady ==
  ASSUME NEW s, NEW t, Ready(s), Keeps(s, t)
  PROVE  Ready(t) /\ Done(s, t)
BY DEF Ready, Done, Keeps

\* A handler may end in methods that keep the state.
LEMMA DoneThenKeeps ==
  ASSUME NEW s, NEW t, NEW u, Done(s, t), Keeps(t, u)
  PROVE  Done(s, u)
BY DEF SameSession, Done, Keeps

\* A handler may begin by changing the session it handles the message for.
LEMMA DoneAfter ==
  ASSUME NEW s, NEW t, NEW u, SameSession(s, t), Done(t, u)
  PROVE  Done(s, u)
BY DEF SameSession, Done

\* Counting the expected message may bring the queue level with the new expected
\* number, and no further.
LEMMA CountDone ==
  ASSUME NEW s, Base(s), QueueAfter(s), SeenUpTo(s)
  PROVE  Done(s, IncrTarget(s))
<1> DEFINE t == [s EXCEPT !.target = s.target + 1]
<1>1. s.target \in Nat /\ s.seen \subseteq Nat
  BY DEF Base, StateType
<1>2. \A n \in DOMAIN s.queue : n \in Nat
  BY IncomingAssumption DEF Base, StateType, Message
<1>3. DOMAIN t = Fields /\ StateType(t) /\ StoreOK(t) /\ SameSession(s, t)
  BY <1>1 DEF SameSession, Base, Fields, StateType, StoreOK
<1>4. QueueFrom(t) /\ SeenOK(t)
  BY <1>1, <1>2 DEF Base, Fields, QueueFrom, QueueAfter, SeenOK, SeenUpTo
<1> QED BY <1>3, <1>4 DEF Done, Base, IncrTarget

\* What was seen below the expected number was seen up to it.
LEMMA SeenOKUpTo ==
  ASSUME NEW s, Base(s), SeenOK(s)
  PROVE  SeenUpTo(s)
BY DEF SeenOK, SeenUpTo, Base, StateType

\* Messages of the peer.
LEMMA IncomingType ==
  ASSUME NEW m \in Incoming
  PROVE  /\ m \in Message /\ m.seq \in Nat \ {0} /\ m.num \in Nat /\ m.hb \in Nat
         /\ m.flag \in BOOLEAN
BY IncomingAssumption DEF Message

\* generateReject counts the message only if it is the expected one.
LEMMA GenerateRejectDone ==
  ASSUME NEW s, Base(s), QueueAfter(s), SeenUpTo(s), NEW m \in Incoming,
         SeenOK(s) \/ (m.type = "App" /\ m.seq = s.target)
  PROVE  Done(s, GenerateReject(s, m))
<1> DEFINE s1 == [s EXCEPT !.sinceSent = 0]
           s2 == IF m.type \notin {"Logon", "SequenceReset"} /\ m.seq = s.target
                 THEN IncrTarget(s1) ELSE s1
<1>1. Base(s1) /\ QueueAfter(s1) /\ SeenUpTo(s1) /\ SameSession(s, s1) /\ (SeenOK(s) => SeenOK(s1))
  BY BoundsAssumption
  DEF SameSession, Base, Fields, StateType, QueueFrom, QueueAfter, StoreOK, SeenOK, SeenUpTo
<1> HIDE DEF s1
<1>2. Done(s, s2)
  <2>1. Done(s, IncrTarget(s1))
    BY <1>1, CountDone DEF SameSession, Done
  <2>2. SeenOK(s) => Done(s, s1)
    BY <1>1 DEF Done
  <2> QED BY <2>1, <2>2
<1> HIDE DEF s2
<1>3. NewMessage("Reject") \in Message
  BY NewMessageType DEF MsgTypes, AdminTypes
<1>4. Done(s, SendRaw(s2, NewMessage("Reject")))
  BY <1>2, <1>3, SendRawKeeps, DoneThenKeeps DEF Done
<1> QED BY <1>2, <1>4 DEF GenerateReject, s1, s2

\* generateBusinessReject counts the message, which is the expected one.
LEMMA GenerateBusinessRejectDone ==
  ASSUME NEW s, Base(s), QueueAfter(s), SeenUpTo(s), NEW m
  PROVE  Done(s, GenerateBusinessReject(s, m))
<1>1. Done(s, IncrTarget(s))
  BY CountDone
<1>2. Done(s, SendApp(IncrTarget(s), BusinessReject))
  BY <1>1, SendAppKeeps, DoneThenKeeps DEF Done, Bodies
<1> QED BY <1>2 DEF GenerateBusinessReject

\* A message above the expected number may be queued.
LEMMA QueueKeeps ==
  ASSUME NEW s, Base(s), NEW m \in Incoming, m.seq > s.target
  PROVE  Keeps(s, Queue(s, m))
<1> DEFINE q == [n \in DOMAIN s.queue \cup {m.seq} |-> IF n = m.seq THEN m ELSE s.queue[n]]
<1>1. \A n \in DOMAIN q : q[n] \in Incoming /\ q[n].seq = n
  BY DEF Base, StateType
<1>2. DOMAIN q = DOMAIN s.queue \cup {m.seq}
  OBVIOUS
<1>3. s.target \in Nat /\ m.seq \in Nat /\ Queue(s, m) = [s EXCEPT !.queue = q]
  BY IncomingType DEF Base, StateType, Queue
<1> HIDE DEF q
<1> QED
  BY <1>1, <1>2, <1>3
  DEF SameSession, Keeps, Base, Fields, StateType, QueueFrom, QueueAfter, StoreOK, SeenOK

\* doTargetTooHigh queues the message, and perhaps asks for a resend.
LEMMA DoTargetTooHighKeeps ==
  ASSUME NEW s, Base(s), NEW m \in Incoming, m.seq > s.target
  PROVE  Keeps(s, DoTargetTooHigh(s, m))
<1>1. Keeps(s, Queue(s, m))
  BY QueueKeeps
<1>2. Keeps(s, GenerateResendRequest(Queue(s, m), m.seq))
  BY <1>1, IncomingType, GenerateResendRequestKeeps, KeepsTransitive DEF Keeps
<1> QED BY <1>1, <1>2 DEF DoTargetTooHigh

\* verify() rejecting a message is a handler.
LEMMA RejectInVerifyDone ==
  ASSUME NEW s, Ready(s), NEW m \in Incoming, NEW thenLogout
  PROVE  Done(s, RejectInVerify(s, m, thenLogout))
<1>1. Done(s, GenerateReject(s, m))
  BY GenerateRejectDone, SeenOKUpTo DEF Ready
<1>2. Done(s, Disconnect(GenerateReject(s, m)))
  BY <1>1, DisconnectKeeps, DoneThenKeeps DEF Done
<1>3. Done(s, GenerateLogout(GenerateReject(s, m)))
  BY <1>1, GenerateKeeps, DoneThenKeeps DEF Done
<1> QED BY <1>1, <1>2, <1>3 DEF RejectInVerify

\* A Logout followed by a disconnect keeps a state.
LEMMA LogoutDisconnectKeeps ==
  ASSUME NEW s, Base(s)
  PROVE  Keeps(s, Disconnect(GenerateLogout(s)))
BY GenerateKeeps, DisconnectKeeps, KeepsTransitive DEF Keeps

\* A message verify() refuses is handled, whichever check it fails.
LEMMA VerifyFailedDone ==
  ASSUME NEW s, Ready(s), NEW m \in Incoming, NEW high, NEW low,
         VerifyOutcome(s, m, high, low) # "ok"
  PROVE  Done(s, VerifyFailed(s, m, VerifyOutcome(s, m, high, low)))
<1> DEFINE o == VerifyOutcome(s, m, high, low)
<1>1. /\ o \in {"badState", "badHeader", "tooHigh", "tooLow"}
      /\ o = "tooHigh" => m.seq > s.target
  BY DEF VerifyOutcome
<1>2. Done(s, Disconnect(s))
  BY DisconnectKeeps, KeepsReady DEF Ready
<1>3. Done(s, RejectInVerify(s, m, TRUE))
  BY RejectInVerifyDone
<1>4. m.seq > s.target => Done(s, DoTargetTooHigh(s, m))
  BY DoTargetTooHighKeeps, KeepsReady DEF Ready
<1>5. Done(s, DoTargetTooLow(s, m))
  <2>1. Done(s, Disconnect(GenerateLogout(s)))
    BY LogoutDisconnectKeeps, KeepsReady DEF Ready
  <2>2. Done(s, s)
    BY DEF SameSession, Done, Ready
  <2>3. Done(s, DoPossDup(s, m))
    BY <2>2, RejectInVerifyDone DEF DoPossDup
  <2> QED BY <2>1, <2>3 DEF DoTargetTooLow
<1> HIDE DEF o
<1>6. Done(s, VerifyFailed(s, m, o))
  BY <1>1, <1>2, <1>3, <1>4, <1>5 DEF VerifyFailed
<1> QED BY <1>6 DEF o

\* A message that passes: only an application message is seen, and then it has the
\* expected number.
LEMMA VerifyPassedState ==
  ASSUME NEW s, Ready(s), NEW m \in Incoming, NEW checked,
         m.type = "App" => m.seq = s.target
  PROVE  LET t == VerifyPassed(s, m, checked) IN
           /\ Base(t) /\ QueueAfter(t) /\ SeenUpTo(t) /\ SameSession(s, t) /\ t.target = s.target
           /\ m.type # "App" => Keeps(s, t)
<1> DEFINE r == IF checked /\ ResendRequested(s) /\ m.seq >= s.resendRange[2]
                THEN <<0, 0>> ELSE s.resendRange
           g == IF m.type = "App" THEN Append(s.got, m.body) ELSE s.got
           v == IF m.type = "App" THEN s.seen \cup {m.seq} ELSE s.seen
           t == [s EXCEPT !.resendRange = r, !.sinceReceived = 0, !.testRequest = 0,
                          !.got = g, !.seen = v]
<1>1. VerifyPassed(s, m, checked) = t
  BY DEF VerifyPassed
<1>2. r \in Nat \X Nat /\ v \subseteq Nat /\ s.target \in Nat
  BY IncomingType DEF Ready, Base, StateType
<1>3. (\A n \in v : n <= s.target) /\ (m.type # "App" => v = s.seen)
  BY <1>2, IncomingType, SeenOKUpTo DEF Ready, SeenUpTo
<1> HIDE DEF r, g, v
<1>4. Base(t) /\ QueueAfter(t) /\ SameSession(s, t) /\ t.target = s.target /\ t.seen = v
  BY <1>2, BoundsAssumption
  DEF SameSession, Ready, Base, Fields, StateType, QueueFrom, QueueAfter, StoreOK
<1>5. SeenUpTo(t)
  BY <1>3, <1>4 DEF SeenUpTo
<1>6. m.type # "App" => (SeenOK(s) => SeenOK(t))
  BY <1>3, <1>4 DEF SeenOK
<1> HIDE DEF t
<1> QED BY <1>1, <1>4, <1>5, <1>6 DEF Keeps

\* So is one the application refuses by throwing.
LEMMA ThrownDone ==
  ASSUME NEW s, Base(s), QueueAfter(s), SeenUpTo(s), NEW m \in Incoming,
         NEW verdict \in Verdicts(m), verdict # "accept",
         SeenOK(s) \/ (m.type = "App" /\ m.seq = s.target)
  PROVE  Done(s, Thrown(s, m, verdict))
<1>1. Done(s, GenerateReject(s, m))
  BY GenerateRejectDone
<1>2. Done(s, Disconnect(GenerateReject(s, m)))
  BY <1>1, DisconnectKeeps, DoneThenKeeps DEF Done
<1>3. Done(s, GenerateBusinessReject(s, m))
  BY GenerateBusinessRejectDone
<1>4. m.type # "App" => Done(s, Disconnect(GenerateLogout(s)))
  BY LogoutDisconnectKeeps DEF Done, Keeps
<1>5. verdict \in {"incorrectValue", "fieldNotFound", "rejectLogon"}
      /\ (verdict = "rejectLogon" => m.type # "App")
  BY DEF Verdicts
<1> QED BY <1>1, <1>2, <1>3, <1>4, <1>5 DEF Thrown

\* Together: a message that does not pass is handled.
LEMMA RefusedDone ==
  ASSUME NEW s, Ready(s), NEW m \in Incoming, NEW high, NEW low,
         NEW verdict \in Verdicts(m), m.type = "App" => high /\ low,
         ~Passes(s, m, high, low, verdict)
  PROVE  Done(s, Refused(s, m, high, low, verdict))
<1> DEFINE o == VerifyOutcome(s, m, high, low)
           t == VerifyPassed(s, m, high \/ low)
<1>1. CASE o # "ok"
  BY <1>1, VerifyFailedDone DEF Refused
<1>2. CASE o = "ok"
  <2>1. verdict # "accept"
    BY <1>2 DEF Passes
  <2>2. m.type = "App" => m.seq = s.target
    <3>1. s.target \in Nat /\ m.seq \in Nat
      BY IncomingType DEF Ready, Base, StateType
    <3> QED BY <1>2, <3>1 DEF VerifyOutcome
  <2>3. /\ Base(t) /\ QueueAfter(t) /\ SeenUpTo(t) /\ SameSession(s, t)
        /\ SeenOK(t) \/ (m.type = "App" /\ m.seq = t.target)
    BY <2>2, VerifyPassedState DEF Ready, Keeps
  <2>4. Refused(s, m, high, low, verdict) = Thrown(t, m, verdict)
    BY <1>2 DEF Refused
  <2> HIDE DEF t
  <2>5. Done(t, Thrown(t, m, verdict))
    BY <2>1, <2>3, ThrownDone
  <2> QED BY <2>3, <2>4, <2>5 DEF SameSession, Done
<1> QED BY <1>1, <1>2

\* A message other than an application's that passes leaves the session ready.
LEMMA PassedReady ==
  ASSUME NEW s, Ready(s), NEW m \in Incoming, NEW checked, m.type # "App"
  PROVE  LET t == VerifyPassed(s, m, checked) IN Ready(t) /\ SameSession(s, t)
BY VerifyPassedState, KeepsReady DEF Keeps

\* Counting after a message that was not shown to the application.
LEMMA ReadyCount ==
  ASSUME NEW s, Ready(s)
  PROVE  Done(s, IncrTarget(s))
BY CountDone, SeenOKUpTo DEF Ready

-----------------------------------------------------------------------------
(* The handlers *)

\* The rest of nextLogon after the Logon was verified and a reset applied.
LEMMA LogonAcceptedDone ==
  ASSUME NEW s, Ready(s), NEW m \in Incoming
  PROVE  Done(s, LogonAccepted(s, m))
<1> DEFINE h == [s EXCEPT !.heartBtInt = m.hb]
           answer == ~s.cfg.initiate \/ (s.receivedReset /\ ~s.sentReset)
           s1 == IF answer THEN GenerateLogonReply(h, m) ELSE s
           k == IF m.num # 0 /\ m.num < s.sender THEN m.num ELSE 0
           s2 == [s1 EXCEPT !.sentReset = FALSE, !.receivedReset = FALSE, !.tail = k]
<1> USE IncomingType
<1>1. Keeps(s, h)
  BY DEF SameSession, Ready, Keeps, Base, Fields, StateType, QueueFrom, QueueAfter, StoreOK, SeenOK
<1> HIDE DEF h
<1>2. Keeps(s, GenerateLogonReply(h, m))
  BY <1>1, GenerateLogonReplyKeeps, KeepsTransitive DEF Keeps
<1>3. Keeps(s, s1)
  BY <1>2 DEF SameSession, Ready, Keeps
<1>4. k \in Nat
  OBVIOUS
<1> HIDE DEF s1, k
<1>5. Keeps(s, s2)
  BY <1>3, <1>4 DEF SameSession, Keeps, Base, Fields, StateType, QueueFrom, QueueAfter, StoreOK, SeenOK
<1> HIDE DEF s2
<1>6. Ready(s2) /\ SameSession(s, s2)
  BY <1>5, KeepsReady DEF Keeps
<1>7. Done(s, IncrTarget(s2))
  BY <1>6, ReadyCount DEF SameSession, Done
<1>8. Done(s, Disconnect(GenerateLogout(s)))
  BY LogoutDisconnectKeeps, KeepsReady DEF Ready
<1>9. ASSUME ~(m.seq <= s2.target) PROVE Done(s, DoTargetTooHigh(s2, m))
  <2>1. m.seq > s2.target
    BY <1>6, <1>9 DEF Ready, Base, StateType
  <2>2. Keeps(s2, DoTargetTooHigh(s2, m))
    BY <1>6, <2>1, DoTargetTooHighKeeps DEF Ready
  <2> QED BY <1>6, <2>2, KeepsReady DEF SameSession, Done
<1>10. ASSUME ~(m.seq <= s2.target)
       PROVE  Done(s, [Queue(s2, m) EXCEPT !.resendRange = <<s2.target, m.seq - 1>>])
  <2> DEFINE q == Queue(s2, m)
  <2>1. m.seq > s2.target /\ s2.target \in Nat
    BY <1>6, <1>10 DEF Ready, Base, StateType
  <2>2. Keeps(s2, q)
    BY <1>6, <2>1, QueueKeeps DEF Ready
  <2>3. <<s2.target, m.seq - 1>> \in Nat \X Nat
    BY <2>1
  <2> HIDE DEF q
  <2>4. Keeps(s2, [q EXCEPT !.resendRange = <<s2.target, m.seq - 1>>])
    BY <2>2, <2>3 DEF SameSession, Keeps, Base, Fields, StateType, QueueFrom, QueueAfter, StoreOK, SeenOK
  <2> HIDE DEF q
  <2>5. Done(s2, [q EXCEPT !.resendRange = <<s2.target, m.seq - 1>>])
    BY <1>6, <2>4, KeepsReady
  <2> QED BY <1>6, <2>5, DoneAfter DEF q
<1> QED
  BY <1>7, <1>8, <1>9, <1>10 DEF LogonAccepted, s2, s1, h, k

\* nextLogon is a handler.
LEMMA NextLogonDone ==
  ASSUME NEW s, Ready(s), NEW m \in Incoming, m.type = "Logon", NEW verdict \in Verdicts(m)
  PROVE  Done(s, NextLogon(s, m, verdict))
<1> DEFINE s1 == [s EXCEPT !.receivedReset = m.flag]
           resetting == (m.flag /\ ~s1.sentReset) \/ (~s1.cfg.initiate /\ s1.cfg.resetOnLogon)
           s2 == VerifyPassed(s1, m, ~resetting)
           s3 == IF resetting THEN Reset(s2) ELSE s2
           s4 == [s3 EXCEPT !.receivedLogon = TRUE]
<1>1. Keeps(s, s1)
  BY IncomingType
  DEF SameSession, Ready, Keeps, Base, Fields, StateType, QueueFrom, QueueAfter, StoreOK, SeenOK
<1>2. Ready(s1) /\ SameSession(s, s1)
  BY <1>1, KeepsReady DEF Keeps
<1> HIDE DEF s1
<1>3. Done(s, Disconnect(s1))
  BY <1>2, DisconnectKeeps, KeepsReady DEF SameSession, Ready, Done
<1>4. ~Passes(s1, m, FALSE, ~resetting, verdict)
        => Done(s, Refused(s1, m, FALSE, ~resetting, verdict))
  <2> DEFINE low == ~resetting
  <2> HIDE DEF low
  <2>1. ~Passes(s1, m, FALSE, low, verdict) => Done(s1, Refused(s1, m, FALSE, low, verdict))
    BY <1>2, RefusedDone
  <2> QED BY <1>2, <2>1 DEF SameSession, Done, low
<1>5. Ready(s2) /\ SameSession(s, s2)
  BY <1>2, PassedReady DEF SameSession
<1> HIDE DEF s2
<1>6. Ready(s3) /\ SameSession(s, s3)
  BY <1>5, ResetKeeps, KeepsReady DEF SameSession, Ready, Keeps
<1> HIDE DEF s3
<1>7. Keeps(s3, s4)
  BY <1>6 DEF SameSession, Ready, Keeps, Base, Fields, StateType, QueueFrom, QueueAfter, StoreOK, SeenOK
<1>8. Ready(s4) /\ SameSession(s, s4)
  BY <1>6, <1>7, KeepsReady DEF SameSession, Keeps
<1> HIDE DEF s4
<1>9. Done(s, LogonAccepted(s4, m))
  BY <1>8, LogonAcceptedDone DEF SameSession, Done
<1> QED BY <1>3, <1>4, <1>9 DEF NextLogon, s4, s3, s2, s1

\* An application message that passes was the expected one, is shown and counted.
LEMMA NextAppDone ==
  ASSUME NEW s, Ready(s), NEW m \in Incoming, NEW verdict \in Verdicts(m)
  PROVE  Done(s, NextApp(s, m, verdict)) /\ Done(s, NextHeartbeat(s, m, verdict))
<1> DEFINE t == VerifyPassed(s, m, TRUE)
<1>1. CASE Passes(s, m, TRUE, TRUE, verdict)
  <2>1. m.seq = s.target
    <3>1. s.target \in Nat /\ m.seq \in Nat
      BY IncomingType DEF Ready, Base, StateType
    <3> QED BY <1>1, <3>1 DEF Passes, VerifyOutcome
  <2>2. Base(t) /\ QueueAfter(t) /\ SeenUpTo(t) /\ SameSession(s, t)
    BY <2>1, VerifyPassedState
  <2> HIDE DEF t
  <2>3. Done(s, IncrTarget(t))
    BY <2>2, CountDone DEF SameSession, Done
  <2> QED BY <1>1, <2>3 DEF NextApp, NextHeartbeat, t
<1>2. CASE ~Passes(s, m, TRUE, TRUE, verdict)
  BY <1>2, RefusedDone DEF NextApp, NextHeartbeat
<1> QED BY <1>1, <1>2

\* nextLogout counts and disconnects, which empties the queue.
LEMMA LogoutAcceptedDone ==
  ASSUME NEW s, Ready(s)
  PROVE  Done(s, LogoutAccepted(s))
<1> DEFINE l == IF s.sentLogout THEN s ELSE GenerateLogout(s)
           s1 == IncrTarget(l)
           s2 == IF s1.cfg.resetOnLogout THEN Reset(s1) ELSE s1
<1>1. Ready(l) /\ SameSession(s, l)
  BY GenerateKeeps, KeepsReady DEF SameSession, Ready, Keeps
<1> HIDE DEF l
<1>2. Done(s, s1)
  BY <1>1, ReadyCount DEF SameSession, Done
<1> HIDE DEF s1
<1>3. Done(s, s2)
  BY <1>2, ResetKeeps, DoneThenKeeps DEF Done
<1> HIDE DEF s2
<1>4. Done(s, Disconnect(s2))
  BY <1>3, DisconnectKeeps, DoneThenKeeps DEF Done
<1> QED BY <1>4 DEF LogoutAccepted, s2, s1, l

\* nextSequenceReset moves the expected number forward and drops what it skips.
LEMMA SequenceResetAcceptedDone ==
  ASSUME NEW s, Ready(s), NEW m \in Incoming
  PROVE  Done(s, SequenceResetAccepted(s, m))
<1>1. CASE m.num > s.target
  <2> DEFINE q == [k \in {j \in DOMAIN s.queue : j >= m.num} |-> s.queue[k]]
             t == [s EXCEPT !.target = m.num]
             u == [t EXCEPT !.queue = q]
  <2>1. SequenceResetAccepted(s, m) = u
    BY <1>1 DEF SequenceResetAccepted, ClearQueueUpTo, Ready, Base, Fields
  <2>2. m.num \in Nat \ {0} /\ s.target \in Nat /\ s.seen \subseteq Nat
    BY <1>1, IncomingType DEF Ready, Base, StateType
  <2>3. \A n \in DOMAIN q : q[n] \in Incoming /\ q[n].seq = n /\ n >= m.num
    BY DEF Ready, Base, StateType
  <2> HIDE DEF q
  <2>4. DOMAIN u = Fields /\ StateType(u) /\ StoreOK(u) /\ SameSession(s, u)
    BY <2>2, <2>3 DEF SameSession, Ready, Base, Fields, StateType, StoreOK
  <2>5. QueueFrom(u) /\ SeenOK(u)
    BY <1>1, <2>2, <2>3 DEF Ready, Base, Fields, QueueFrom, SeenOK
  <2> HIDE DEF u
  <2> QED BY <2>1, <2>4, <2>5 DEF Done, Base
<1>2. Done(s, GenerateReject(s, m))
  BY GenerateRejectDone, SeenOKUpTo DEF Ready
<1>3. Done(s, s)
  BY DEF SameSession, Ready, Done
<1> QED BY <1>1, <1>2, <1>3 DEF SequenceResetAccepted

\* nextResendRequest retransmits, and counts the request if it was expected.
LEMMA ResendRequestAcceptedDone ==
  ASSUME NEW s, Ready(s), NEW m \in Incoming, NEW withheld
  PROVE  Done(s, ResendRequestAccepted(s, m, withheld))
<1> DEFINE e == IF m.end = 0 \/ m.end >= s.sender THEN s.sender - 1 ELSE m.end
           s1 == RetransmitOrFill(s, m.num, e, withheld)
<1>1. Ready(s1) /\ Done(s, s1)
  BY RetransmitKeeps, KeepsReady DEF Ready
<1> HIDE DEF s1
<1>2. Done(s, IncrTarget(s1))
  BY <1>1, ReadyCount DEF SameSession, Done
<1> QED BY <1>1, <1>2 DEF ResendRequestAccepted, s1

\* Every handler next() dispatches to is one.
LEMMA DispatchDone ==
  ASSUME NEW s, Ready(s), NEW m \in Incoming, NEW verdict \in Verdicts(m), NEW withheld
  PROVE  Done(s, Dispatch(s, m, verdict, withheld))
<1>1. m.type \in MsgTypes
  BY IncomingType DEF Message
<1>2. CASE m.type = "Logon"
  BY <1>2, NextLogonDone DEF Dispatch
<1>3. CASE m.type \in {"App", "Heartbeat"}
  BY <1>3, NextAppDone DEF Dispatch
<1>4. CASE m.type = "TestRequest"
  <2> DEFINE t == VerifyPassed(s, m, TRUE)
  <2>1. Ready(t) /\ SameSession(s, t)
    BY <1>4, PassedReady
  <2> HIDE DEF t
  <2>2. Ready(GenerateHeartbeat(t)) /\ SameSession(s, GenerateHeartbeat(t))
    BY <2>1, GenerateKeeps, KeepsReady DEF SameSession, Ready, Keeps
  <2>3. Done(s, IncrTarget(GenerateHeartbeat(t)))
    BY <2>2, ReadyCount DEF SameSession, Done
  <2>4. Done(s, NextTestRequest(s, m, verdict))
    BY <1>4, <2>3, RefusedDone DEF NextTestRequest, t
  <2> QED BY <1>4, <2>4 DEF Dispatch
<1>5. CASE m.type = "SequenceReset"
  <2> DEFINE t == VerifyPassed(s, m, m.flag)
  <2>1. Ready(t) /\ SameSession(s, t)
    BY <1>5, PassedReady
  <2> HIDE DEF t
  <2>2. Done(s, SequenceResetAccepted(t, m))
    BY <2>1, SequenceResetAcceptedDone DEF SameSession, Done
  <2>3. Done(s, NextSequenceReset(s, m, verdict))
    BY <1>5, <2>2, RefusedDone DEF NextSequenceReset, t
  <2> QED BY <1>5, <2>3 DEF Dispatch
<1>6. CASE m.type = "Logout"
  <2> DEFINE t == VerifyPassed(s, m, FALSE)
  <2>1. Ready(t) /\ SameSession(s, t)
    BY <1>6, PassedReady
  <2> HIDE DEF t
  <2>2. Done(s, LogoutAccepted(t))
    BY <2>1, LogoutAcceptedDone DEF SameSession, Done
  <2>3. Done(s, NextLogout(s, m, verdict))
    BY <1>6, <2>2, RefusedDone DEF NextLogout, t
  <2> QED BY <1>6, <2>3 DEF Dispatch
<1>7. CASE m.type = "ResendRequest"
  <2> DEFINE t == VerifyPassed(s, m, FALSE)
  <2>1. Ready(t) /\ SameSession(s, t)
    BY <1>7, PassedReady
  <2> HIDE DEF t
  <2>2. Done(s, ResendRequestAccepted(t, m, withheld))
    BY <2>1, ResendRequestAcceptedDone DEF SameSession, Done
  <2>3. Done(s, NextResendRequest(s, m, verdict, withheld))
    BY <1>7, <2>2, RefusedDone DEF NextResendRequest, t
  <2> QED BY <1>7, <2>3 DEF Dispatch
<1>8. CASE m.type = "Reject"
  <2> DEFINE t == VerifyPassed(s, m, TRUE)
  <2>1. Ready(t) /\ SameSession(s, t)
    BY <1>8, PassedReady
  <2> HIDE DEF t
  <2>2. Done(s, IncrTarget(t))
    BY <2>1, ReadyCount DEF SameSession, Done
  <2>3. Done(s, NextReject(s, m, verdict))
    BY <1>8, <2>2, RefusedDone DEF NextReject, t
  <2> QED BY <1>8, <2>3 DEF Dispatch
<1> QED
  BY <1>1, <1>2, <1>3, <1>4, <1>5, <1>6, <1>7, <1>8 DEF MsgTypes, AdminTypes

\* A message that does not parse keeps a state.
LEMMA GarbledKeeps ==
  ASSUME NEW s, Base(s), NEW m
  PROVE  Keeps(s, Garbled(s, m))
<1> DEFINE s1 == IF m.type = "Logon" THEN Disconnect(s) ELSE s
           s2 == SetResponder(s1, FALSE)
<1>1. Keeps(s, s1)
  BY DisconnectKeeps DEF SameSession, Keeps
<1> HIDE DEF s1
<1>2. Keeps(s, s2)
  BY <1>1, SetResponderKeeps, KeepsTransitive DEF Keeps
<1> HIDE DEF s2
<1>3. s1.cfg.threaded => Keeps(s, [s2 EXCEPT !.conn = "none"])
  BY <1>1, <1>2 DEF SameSession, Keeps, Base, Fields, StateType, QueueFrom, QueueAfter, StoreOK, SeenOK
<1> QED BY <1>1, <1>3 DEF Garbled, s2, s1

\* A message of another version is handled.
LEMMA UnsupportedVersionDone ==
  ASSUME NEW s, Ready(s), NEW m \in Incoming, NEW verdict \in Verdicts(m)
  PROVE  Done(s, UnsupportedVersion(s, m, verdict))
<1>1. CASE m.type # "Logout"
  <2>1. Ready(GenerateLogout(s)) /\ SameSession(s, GenerateLogout(s))
    BY GenerateKeeps, KeepsReady DEF Ready, Keeps
  <2>2. Done(s, IncrTarget(GenerateLogout(s)))
    BY <2>1, ReadyCount DEF SameSession, Done
  <2> QED BY <1>1, <2>2 DEF UnsupportedVersion
<1>2. CASE m.type = "Logout"
  <2>1. Done(s, VerifyPassed(s, m, FALSE))
    BY <1>2, PassedReady DEF Ready, Done
  <2>2. Done(s, Dispatch(s, m, verdict, {}))
    BY DispatchDone
  <2>3. Done(s, NextLogout(s, m, verdict))
    BY <1>2, <2>2 DEF Dispatch
  <2> QED BY <1>2, <2>1, <2>3 DEF UnsupportedVersion
<1> QED BY <1>1, <1>2

\* next(const Message &) up to its end keeps the session's order.
LEMMA ProcessDone ==
  ASSUME NEW s, Ready(s), NEW m \in Incoming, NEW verdict \in Verdicts(m), NEW withheld
  PROVE  Done(s, Process(s, m, verdict, withheld))
<1>1. Done(s, Garbled(s, m))
  BY GarbledKeeps, KeepsReady DEF Ready
<1>2. Done(s, ResetSession(s))
  BY ResetSessionKeeps, KeepsReady DEF Ready
<1>3. Done(s, UnsupportedVersion(s, m, verdict))
  BY UnsupportedVersionDone
<1>4. Done(s, GenerateReject(s, m))
  BY GenerateRejectDone, SeenOKUpTo DEF Ready
<1>5. Done(s, Dispatch(s, m, verdict, withheld))
  BY DispatchDone
<1>6. Done(s, Thrown(s, m, "fieldNotFound"))
  <2>1. "fieldNotFound" \in Verdicts(m)
    BY DEF Verdicts
  <2> QED BY <2>1, ThrownDone, SeenOKUpTo DEF Ready
<1> QED BY <1>1, <1>2, <1>3, <1>4, <1>5, <1>6 DEF Process

-----------------------------------------------------------------------------
(* Handlers that return without draining the queue *)

\* Rejecting a message that is not the expected one counts nothing.
LEMMA GenerateRejectKeeps ==
  ASSUME NEW s, Base(s), NEW m,
         m.type \in {"Logon", "SequenceReset"} \/ m.seq # s.target
  PROVE  Keeps(s, GenerateReject(s, m))
<1> DEFINE s1 == [s EXCEPT !.sinceSent = 0]
<1>1. Keeps(s, s1)
  BY BoundsAssumption
  DEF SameSession, Keeps, Base, Fields, StateType, QueueFrom, QueueAfter, StoreOK, SeenOK
<1> HIDE DEF s1
<1>2. NewMessage("Reject") \in Message
  BY NewMessageType DEF MsgTypes, AdminTypes
<1>3. Keeps(s, SendRaw(s1, NewMessage("Reject")))
  BY <1>1, <1>2, SendRawKeeps, KeepsTransitive DEF Keeps
<1> QED BY <1>1, <1>3 DEF GenerateReject, s1

\* Once the Logout is sent the queue is no longer drained.
LEMMA LogoutSent ==
  ASSUME NEW s, Base(s)
  PROVE  QueueAfter(GenerateLogout(s))
<1> DEFINE l == SendRaw(s, NewMessage("Logout"))
<1>1. Base(l)
  BY NewMessageType, SendRawKeeps DEF Keeps, MsgTypes, AdminTypes
<1> HIDE DEF l
<1>2. [l EXCEPT !.sentLogout = TRUE].sentLogout
  BY <1>1 DEF Base, Fields
<1> QED BY <1>2 DEF GenerateLogout, QueueAfter, l

\* next() returns at once for an application message verify() refuses: the queue
\* needs no draining then.
LEMMA AppRefusedAfter ==
  ASSUME NEW s, Ready(s), NEW m \in Incoming, NEW verdict, m.type = "App",
         VerifyOutcome(s, m, TRUE, TRUE) # "ok"
  PROVE  QueueAfter(NextApp(s, m, verdict))
<1> DEFINE o == VerifyOutcome(s, m, TRUE, TRUE)
<1>1. /\ o \in {"badState", "badHeader", "tooHigh", "tooLow"}
      /\ o = "tooHigh" => m.seq > s.target
      /\ o = "tooLow" => m.seq # s.target
  <2>1. s.target \in Nat /\ m.seq \in Nat
    BY IncomingType DEF Ready, Base, StateType
  <2> QED BY <2>1 DEF VerifyOutcome
<1>2. NextApp(s, m, verdict) = VerifyFailed(s, m, o)
  BY DEF NextApp, Passes, Refused
<1>3. QueueAfter(Disconnect(s))
  BY DisconnectKeeps DEF Ready
<1>4. Base(GenerateReject(s, m))
  BY GenerateRejectDone, SeenOKUpTo DEF Ready, Done
<1>5. /\ QueueAfter(Disconnect(GenerateReject(s, m)))
      /\ QueueAfter(GenerateLogout(GenerateReject(s, m)))
  BY <1>4, DisconnectKeeps, LogoutSent
<1>6. QueueAfter(RejectInVerify(s, m, TRUE))
  BY <1>5 DEF RejectInVerify
<1>7. o = "tooHigh" => QueueAfter(DoTargetTooHigh(s, m))
  BY <1>1, DoTargetTooHighKeeps DEF Ready, Keeps
<1>8. ASSUME o = "tooLow" PROVE QueueAfter(DoTargetTooLow(s, m))
  <2>1. QueueAfter(Disconnect(GenerateLogout(s)))
    BY GenerateKeeps, DisconnectKeeps DEF Ready, Keeps
  <2>2. QueueAfter(GenerateReject(s, m))
    BY <1>1, <1>8, GenerateRejectKeeps DEF Ready, Keeps
  <2>3. ASSUME NEW l PROVE QueueAfter(RejectInVerify(s, m, l))
    BY <1>5, <2>2 DEF RejectInVerify
  <2>4. QueueAfter(DoPossDup(s, m))
    BY <2>3 DEF DoPossDup, Ready
  <2> QED BY <2>1, <2>4 DEF DoTargetTooLow
<1> HIDE DEF o
<1> QED BY <1>1, <1>2, <1>3, <1>6, <1>7, <1>8 DEF VerifyFailed

\* Whenever next() returns without draining, the queue needs no draining.
LEMMA ReturnAfter ==
  ASSUME NEW s, Ready(s), NEW m \in Incoming, NEW verdict \in Verdicts(m), NEW withheld,
         Exit(s, m, verdict) = "return"
  PROVE  QueueAfter(Process(s, m, verdict, withheld))
<1>1. CASE m.defect = "garbled"
  BY <1>1, GarbledKeeps DEF Process, Ready, Keeps
<1>2. CASE m.defect # "garbled" /\ s.sched # "same"
  BY <1>2, ResetSessionKeeps DEF Process, Ready, Keeps
<1>3. CASE m.defect = "badVersion" /\ s.sched = "same"
  <2>1. m.type = "Logout" /\ VerifyOutcome(s, m, FALSE, FALSE) = "ok" /\ verdict # "accept"
    BY <1>3 DEF Exit
  <2>2. QueueAfter(VerifyPassed(s, m, FALSE))
    BY <2>1, PassedReady DEF Ready
  <2> QED BY <1>3, <2>1, <2>2 DEF Process, UnsupportedVersion
<1>4. CASE /\ m.defect \notin {"garbled", "badVersion"} /\ s.sched = "same"
           /\ m.type = "App"
  <2>1. m.defect \notin {"invalid", "noCompID"} /\ VerifyOutcome(s, m, TRUE, TRUE) # "ok"
    BY <1>4 DEF Exit
  <2> QED BY <1>4, <2>1, AppRefusedAfter DEF Process, Dispatch
<1>5. CASE /\ m.defect \notin {"garbled", "badVersion"} /\ s.sched = "same"
           /\ m.type # "App"
  <2>1. /\ m.type = "SequenceReset" /\ m.defect \notin {"invalid", "noCompID"}
        /\ VerifyOutcome(s, m, m.flag, m.flag) = "ok" /\ verdict = "accept"
        /\ ~(m.num > s.target) /\ m.num < s.target /\ ~m.flag
    BY <1>5 DEF Exit
  <2> DEFINE t == VerifyPassed(s, m, m.flag)
  <2>2. Ready(t) /\ t.target = s.target
    BY <1>5, PassedReady, VerifyPassedState
  <2>3. NextSequenceReset(s, m, verdict) = SequenceResetAccepted(t, m)
    BY <2>1 DEF NextSequenceReset, Passes
  <2> HIDE DEF t
  <2>4. SequenceResetAccepted(t, m) = GenerateReject(t, m)
    BY <2>1, <2>2 DEF SequenceResetAccepted
  <2>5. QueueAfter(GenerateReject(t, m))
    BY <2>1, <2>2, GenerateRejectKeeps DEF Ready, Keeps
  <2> QED BY <1>5, <2>1, <2>3, <2>4, <2>5 DEF Process, Dispatch
<1> QED BY <1>1, <1>2, <1>3, <1>4, <1>5

-----------------------------------------------------------------------------
(* The timer *)

\* next(now) keeps a state.
LEMMA TimerKeeps ==
  ASSUME NEW s, Base(s)
  PROVE  Keeps(s, TimerStep(s)) /\ Keeps(s, TimerIfLoggedOn(s))
<1> DEFINE s1 == IF ~s.enabled /\ ~s.sentLogout THEN GenerateLogout(s) ELSE s
           s2 == IF LogoutTimedOut(s1) THEN Disconnect(s1) ELSE s1
<1>1. Keeps(s, s)
  BY DEF SameSession, Keeps
<1>2. Keeps(s, s1)
  BY <1>1, GenerateKeeps
<1> HIDE DEF s1
<1>3. Keeps(s, s2)
  BY <1>2, DisconnectKeeps, KeepsTransitive DEF Keeps
<1> HIDE DEF s2
<1>4. ASSUME NEW t, Base(t) PROVE Keeps(t, TimerBeforeLogon(t))
  <2>1. Keeps(t, t) /\ Keeps(t, GenerateLogon(t)) /\ Keeps(t, Disconnect(t))
    BY <1>4, GenerateLogonKeeps, DisconnectKeeps DEF SameSession, Keeps
  <2> QED BY <2>1 DEF TimerBeforeLogon
<1>5. ASSUME NEW t, Base(t) PROVE Keeps(t, TimerHeartbeat(t))
  <2> DEFINE q == GenerateTestRequest(t)
  <2>1. Keeps(t, q) /\ Keeps(t, GenerateHeartbeat(t)) /\ Keeps(t, Disconnect(t)) /\ Keeps(t, t)
    BY <1>5, GenerateKeeps, DisconnectKeeps DEF SameSession, Keeps
  <2>2. t.testRequest + 1 \in Nat
    BY <1>5 DEF Base, StateType
  <2>3. TimerHeartbeat(t) \in {t, Disconnect(t), [q EXCEPT !.testRequest = t.testRequest + 1],
                               GenerateHeartbeat(t)}
    BY DEF TimerHeartbeat
  <2> HIDE DEF q
  <2>4. Keeps(t, [q EXCEPT !.testRequest = t.testRequest + 1])
    BY <2>1, <2>2 DEF SameSession, Keeps, Base, Fields, StateType, QueueFrom, QueueAfter, StoreOK, SeenOK
  <2> QED BY <2>1, <2>3, <2>4
<1>6. Keeps(s, TimerBeforeLogon(s1))
  BY <1>2, <1>4, KeepsTransitive DEF Keeps
<1>7. Keeps(s, TimerHeartbeat(s2))
  BY <1>3, <1>5, KeepsTransitive DEF Keeps
<1>8. Keeps(s, TimerStep(s))
  BY <1>1, <1>2, <1>6, <1>7, ResetSessionKeeps DEF TimerStep, s1, s2
<1> QED BY <1>1, <1>8 DEF TimerIfLoggedOn

-----------------------------------------------------------------------------
(* The steps *)

\* Clearing what the last step sent and received keeps a state.
LEMMA FreshKeeps ==
  ASSUME NEW s, Base(s)
  PROVE  Keeps(s, Fresh(s)) /\ Fresh(s).pc = s.pc
<1> DEFINE t == [s EXCEPT !.out = <<>>, !.got = <<>>]
<1>1. Base(t) /\ SameSession(s, t)
  BY DEF SameSession, Base, Fields, StateType, QueueFrom, StoreOK
<1>2. (QueueAfter(s) => QueueAfter(t)) /\ (SeenOK(s) => SeenOK(t))
  BY DEF Base, Fields, QueueAfter, SeenOK
<1> QED BY <1>1, <1>2 DEF Fresh, Keeps, SameSession

\* The order of the session does not depend on the connection.
LEMMA ConnOrder ==
  ASSUME NEW s, Base(s), NEW c \in {"none", "open"}
  PROVE  LET t == [s EXCEPT !.conn = c] IN
           /\ Base(t) /\ t.pc = s.pc
           /\ QueueAfter(s) => QueueAfter(t)
           /\ SeenOK(s) => SeenOK(t)
BY DEF Base, Fields, StateType, QueueFrom, QueueAfter, StoreOK, SeenOK

\* The end of nextLogon sends only.
LEMMA LogonTailKeeps ==
  ASSUME NEW s, Base(s), NEW withheld
  PROVE  Keeps(s, LogonTail(s, withheld))
<1> DEFINE r == RetransmitOrFill(s, s.tail, s.sender - 1, withheld)
<1>1. Keeps(s, r)
  BY RetransmitKeeps
<1>2. LogonTail(s, withheld) \in {s, [r EXCEPT !.tail = 0]}
  BY DEF LogonTail
<1> HIDE DEF r
<1>3. Keeps(s, [r EXCEPT !.tail = 0])
  BY <1>1 DEF SameSession, Keeps, Base, Fields, StateType, QueueFrom, QueueAfter, StoreOK, SeenOK
<1> QED BY <1>2, <1>3 DEF SameSession, Keeps

\* Taking the expected message from the queue leaves only later ones.
LEMMA UnqueueReady ==
  ASSUME NEW s, Base(s), SeenOK(s)
  PROVE  Ready(Unqueue(s, s.target)) /\ Unqueue(s, s.target).pc = s.pc
<1> DEFINE q == [k \in DOMAIN s.queue \ {s.target} |-> s.queue[k]]
           t == [s EXCEPT !.queue = q]
<1>1. DOMAIN q = DOMAIN s.queue \ {s.target} /\ \A k \in DOMAIN q : q[k] = s.queue[k]
  OBVIOUS
<1>2. s.target \in Nat /\ \A n \in DOMAIN s.queue : n \in Nat
  BY IncomingAssumption DEF Base, StateType, Message
<1> HIDE DEF q
<1>3. DOMAIN t = Fields /\ StateType(t)
  BY <1>1 DEF Base, Fields, StateType
<1>4. StoreOK(t) /\ SeenOK(t) /\ SameSession(s, t)
  BY DEF SameSession, Base, Fields, StoreOK, SeenOK
<1>5. QueueFrom(t) /\ QueueAfter(t)
  BY <1>1, <1>2 DEF Base, Fields, QueueFrom, QueueAfter
<1> QED BY <1>3, <1>4, <1>5 DEF Ready, Base, Unqueue, q

-----------------------------------------------------------------------------
(* Between two connections *)

\* A session of a select transport that has no connection, and what it then has kept.
Unbound(s) == s.conn = "none" /\ ~s.cfg.threaded
Cleared(s) ==
  /\ ~s.responder /\ ~s.receivedLogon /\ ~s.sentLogon /\ ~s.sentLogout
  /\ ~s.receivedReset /\ ~s.sentReset /\ s.queue = <<>> /\ s.resendRange = <<0, 0>>
Clean(s) == Unbound(s) => s.pc = "idle" /\ Cleared(s)

\* Session::disconnect clears all there is of a connection, and a reset brings none
\* of it back.
LEMMA DisconnectClears ==
  ASSUME NEW s, Base(s)
  PROVE  Cleared(Disconnect(s)) /\ Cleared(ResetSession(s))
<1>1. ASSUME NEW t, Base(t) PROVE Cleared(Disconnect(t))
  <2> DEFINE s1 == IF t.cfg.resetOnDisconnect THEN Reset(t) ELSE t
  <2>1. DOMAIN s1 = Fields
    BY <1>1, ResetKeeps DEF Keeps, Base
  <2>2. Disconnect(t) =
          [s1 EXCEPT !.responder = FALSE, !.receivedLogon = FALSE, !.sentLogon = FALSE,
                     !.sentLogout = FALSE, !.receivedReset = FALSE, !.sentReset = FALSE,
                     !.queue = <<>>, !.resendRange = <<0, 0>>]
    BY DEF Disconnect
  <2> HIDE DEF s1
  <2> QED BY <2>1, <2>2 DEF Fields, Cleared
<1>2. Base(GenerateLogout(s))
  BY GenerateKeeps DEF Keeps
<1> DEFINE d == Disconnect(GenerateLogout(s))
<1>3. Base(d) /\ Cleared(d)
  BY <1>1, <1>2, DisconnectKeeps DEF Keeps
<1>4. ResetSession(s) = Reset(d)
  BY DEF ResetSession
<1> HIDE DEF d
<1>5. Cleared(Reset(d))
  BY <1>3 DEF Base, Fields, Reset, Cleared
<1> QED BY <1>1, <1>4, <1>5

\* An application message that is sent without a connection is stored for the next one,
\* and starts nothing.
LEMMA SendAppCleared ==
  ASSUME NEW s, Base(s), Cleared(s), NEW body
  PROVE  Cleared(SendApp(s, body))
<1> DEFINE m == [NewMessage("App") EXCEPT !.seq = s.sender, !.body = body]
<1>1. SendApp(s, body) \in {s, Persist([s EXCEPT !.sinceSent = 0], m)}
  BY DEF SendApp, IsLoggedOn, Cleared
<1> HIDE DEF m
<1>2. Cleared(Persist([s EXCEPT !.sinceSent = 0], m))
  BY DEF Base, Fields, Persist, Cleared
<1> QED BY <1>1, <1>2

-----------------------------------------------------------------------------
(* The invariant *)

\* The inductive invariant: between two handlers the queue lies above the
\* expected number; inside one it may have come level with it.
IInv == Base(st) /\ SeenOK(st) /\ (st.pc = "idle" => QueueAfter(st)) /\ Clean(st)

\* A step that keeps the state keeps the invariant.
LEMMA KeepsIInv ==
  ASSUME IInv, Keeps(st, st'), Unbound(st) => Cleared(st')
  PROVE  IInv'
<1>1. Base(st') /\ SeenOK(st') /\ (st'.pc = "idle" => QueueAfter(st')) /\ SameSession(st, st')
  BY DEF IInv, Keeps, SameSession
<1>2. Clean(st')
  BY <1>1 DEF IInv, SameSession, Clean, Unbound
<1> QED
  BY <1>1, <1>2 DEF IInv, Base, SeenOK, QueueAfter, QueueFrom, StateType, StoreOK, Clean,
     Unbound, Cleared

\* A step that ends in a state with the invariant's parts ends in the invariant.
LEMMA EndsIInv ==
  ASSUME NEW v, Base(v), SeenOK(v), v.pc = "idle" => QueueAfter(v), Clean(v), st' = v
  PROVE  IInv'
BY DEF IInv, Base, SeenOK, QueueAfter, QueueFrom, StateType, StoreOK, Clean, Unbound, Cleared

\* A session starts with an empty queue, an empty store and nothing seen.
LEMMA InitIInv == Init => IInv
<1> SUFFICES ASSUME NEW c \in Configs, NEW hb \in HeartBtInts, st = InitState(c, hb)
             PROVE  IInv
  BY DEF Init
<1>1. DOMAIN st = Fields
  BY DEF InitState, Fields
<1>2. StateType(st)
  BY BoundsAssumption DEF InitState, StateType
<1>3. QueueFrom(st) /\ QueueAfter(st) /\ StoreOK(st) /\ SeenOK(st)
  BY DEF InitState, QueueFrom, QueueAfter, StoreOK, SeenOK
<1>4. Clean(st)
  BY DEF InitState, Clean, Cleared
<1> QED BY <1>1, <1>2, <1>3, <1>4 DEF IInv, Base

\* Every step keeps the invariant.
LEMMA NextIInv == IInv /\ [Next]_st => IInv'
<1> SUFFICES ASSUME IInv, [Next]_st PROVE IInv'
  OBVIOUS
<1> DEFINE f == Fresh(st)
<1>1. Base(st) /\ SeenOK(st) /\ (st.pc = "idle" => Ready(st))
  BY DEF IInv, Ready
<1>2. Keeps(st, f) /\ Base(f) /\ SeenOK(f) /\ f.pc = st.pc
  BY <1>1, FreshKeeps DEF Keeps
<1>3. st.pc = "idle" => Ready(f)
  BY <1>1, <1>2, KeepsReady
<1>4. ASSUME NEW t, Keeps(f, t) PROVE Keeps(st, t)
  BY <1>2, <1>4, KeepsTransitive
<1>4a. /\ f.conn = st.conn /\ f.cfg = st.cfg /\ f.responder = st.responder
       /\ Unbound(st) => st.pc = "idle" /\ Cleared(f)
  BY <1>1 DEF IInv, Base, Fields, Fresh, Clean, Cleared
<1>5. CASE Connect
  <2> DEFINE t == SetResponder(f, TRUE)
  <2>1. Keeps(f, t)
    BY <1>2, SetResponderKeeps
  <2> HIDE DEF t
  <2>2. Ready(t) /\ t.pc = "idle"
    BY <1>2, <1>3, <1>5, <2>1, KeepsReady DEF Connect, MayConnect, Keeps, SameSession
  <2> DEFINE v == [t EXCEPT !.conn = "open"]
  <2>3. Base(v) /\ SeenOK(v) /\ QueueAfter(v)
    BY <2>2, ConnOrder DEF Ready
  <2>4. st' = v
    BY <1>5 DEF Connect, Connected, t
  <2>5. Clean(v)
    BY <2>2 DEF Ready, Base, Fields, Clean, Unbound
  <2> HIDE DEF v
  <2> QED BY <2>3, <2>4, <2>5, EndsIInv
<1>6. CASE ConnectionLost
  <2> DEFINE d == IF ~f.cfg.threaded \/ f.responder THEN Disconnect(f) ELSE f
             t == IF f.cfg.threaded THEN SetResponder(d, FALSE) ELSE d
  <2>7. ~f.cfg.threaded => t = Disconnect(f)
    OBVIOUS
  <2>8. Cleared(Disconnect(f))
    BY <1>2, DisconnectClears
  <2>1. Keeps(f, d)
    BY <1>2, DisconnectKeeps DEF SameSession, Keeps
  <2>2. st' = [t EXCEPT !.conn = "none"]
    BY <1>6, <1>4a DEF ConnectionLost, Ended
  <2> HIDE DEF d
  <2>3. Keeps(f, t)
    BY <2>1, SetResponderKeeps, KeepsTransitive DEF Keeps
  <2> HIDE DEF t
  <2>4. Ready(t) /\ t.pc = "idle"
    BY <1>2, <1>3, <1>6, <2>3, KeepsReady DEF ConnectionLost, MayEnd, Keeps, SameSession
  <2> DEFINE v == [t EXCEPT !.conn = "none"]
  <2>5. Base(v) /\ SeenOK(v) /\ QueueAfter(v)
    BY <2>4, ConnOrder DEF Ready
  <2>6. st' = v
    BY <2>2
  <2>9. Clean(v)
    BY <2>3, <2>4, <2>7, <2>8
    DEF Ready, Base, Fields, Keeps, SameSession, Clean, Unbound, Cleared
  <2> HIDE DEF v
  <2> QED BY <2>5, <2>6, <2>9, EndsIInv
<1>7. CASE Timer
  <2>1. ~Unbound(st)
    BY <1>7 DEF Unbound, Timer, MayTick
  <2> QED BY <1>2, <1>4, <1>7, <2>1, TimerKeeps, KeepsIInv DEF Timer, Ticked
<1>8. CASE Tick
  <2>1. ASSUME NEW a \in 0..MaxAge PROVE Older(a) \in 0..MaxAge
    BY BoundsAssumption DEF Older
  <2> DEFINE a == Older(st.sinceSent)
             b == Older(st.sinceReceived)
  <2>2. a \in 0..MaxAge /\ b \in 0..MaxAge
    BY <1>1, <2>1 DEF Base, StateType
  <2>3. st' = [f EXCEPT !.sinceSent = a, !.sinceReceived = b]
    BY <1>8 DEF Tick
  <2> HIDE DEF a, b, f
  <2>4. Keeps(f, [f EXCEPT !.sinceSent = a, !.sinceReceived = b])
    BY <1>2, <2>2 DEF SameSession, Keeps, Base, Fields, StateType, QueueFrom, QueueAfter, StoreOK, SeenOK
  <2>5. Cleared(f) => Cleared([f EXCEPT !.sinceSent = a, !.sinceReceived = b])
    BY <1>2 DEF Base, Fields, Cleared
  <2> QED BY <1>4, <1>4a, <2>3, <2>4, <2>5, KeepsIInv
<1>9. CASE DrainQueue
  <2> DEFINE m == st.queue[st.target]
             u == Unqueue(st, st.target)
             s == Fresh(u)
  <2>1. m \in Incoming
    BY <1>1, <1>9 DEF DrainQueue, MayDrain, Base, StateType
  <2>2. Ready(s) /\ s.pc = "drain"
    <3>1. Ready(u) /\ u.pc = "drain"
      BY <1>1, <1>9, UnqueueReady DEF DrainQueue, MayDrain
    <3> HIDE DEF u
    <3> QED BY <3>1, FreshKeeps, KeepsReady DEF Ready
  <2>7. ~Unbound(s)
    <3>1. ~Unbound(st)
      BY <1>9 DEF IInv, Clean, DrainQueue, MayDrain
    <3>2. s.conn = st.conn /\ s.cfg = st.cfg
      BY <1>1 DEF Base, Fields, Fresh, Unqueue
    <3> QED BY <3>1, <3>2 DEF Unbound
  <2>3. ASSUME NEW t, Done(s, t), st' = t PROVE IInv'
    <3>1. Clean(t)
      BY <2>3, <2>7 DEF SameSession, Done, Clean, Unbound
    <3> QED BY <2>2, <2>3, <3>1, EndsIInv DEF SameSession, Done
  <2>4. Done(s, IncrTarget(s))
    BY <2>2, SeenOKUpTo, CountDone DEF Ready
  <2>5. ASSUME NEW verdict \in Verdicts(m)
        PROVE  /\ Done(s, Process(s, m, verdict, {}))
               /\ Done(s, TimerIfLoggedOn(Process(s, m, verdict, {})))
    BY <2>1, <2>2, ProcessDone, TimerKeeps, DoneThenKeeps DEF Done
  <2>6. \/ st' = IncrTarget(s)
        \/ \E verdict \in Verdicts(m) :
             st' \in {Process(s, m, verdict, {}),
                      TimerIfLoggedOn(Process(s, m, verdict, {}))}
    BY <1>9 DEF DrainQueue, Drained
  <2> HIDE DEF s, m
  <2> QED BY <2>3, <2>4, <2>5, <2>6
<1>10. CASE FinishMessage
  <2>1. PICK withheld \in Withholdings(st) :
          st' = [TimerIfLoggedOn(LogonTail(f, withheld)) EXCEPT !.pc = "idle"]
    BY <1>10 DEF FinishMessage, Finished
  <2>2. QueueAfter(st)
    <3>1. st.target \in Nat /\ \A n \in DOMAIN st.queue : n \in Nat
      BY <1>1, IncomingAssumption DEF Base, StateType, Message
    <3> QED BY <1>1, <1>10, <3>1 DEF FinishMessage, MayFinish, Base, QueueFrom, QueueAfter
  <2> DEFINE l == LogonTail(f, withheld)
             t == TimerIfLoggedOn(l)
  <2>3. Keeps(f, l)
    BY <1>2, LogonTailKeeps
  <2> HIDE DEF l
  <2>4. Keeps(st, t)
    BY <1>4, <2>3, TimerKeeps, KeepsTransitive DEF Keeps
  <2> HIDE DEF t
  <2>5. Base(t) /\ QueueAfter(t) /\ SeenOK(t)
    BY <1>1, <2>2, <2>4 DEF Keeps
  <2> DEFINE v == [t EXCEPT !.pc = "idle"]
  <2>6. Base(v) /\ QueueAfter(v) /\ SeenOK(v)
    BY <2>5 DEF Base, Fields, StateType, QueueFrom, QueueAfter, StoreOK, SeenOK
  <2>7. st' = v
    BY <2>1 DEF t, l
  <2>8. Clean(v)
    <3>1. ~Unbound(st)
      BY <1>10 DEF IInv, Clean, FinishMessage, MayFinish
    <3> QED BY <2>4, <2>5, <3>1 DEF Base, Fields, Keeps, SameSession, Clean, Unbound
  <2> HIDE DEF v
  <2> QED BY <2>6, <2>7, <2>8, EndsIInv
<1>11. ASSUME NEW m \in Incoming, Receive(m) PROVE IInv'
  <2>1. Ready(f) /\ f.pc = "idle"
    BY <1>2, <1>3, <1>11 DEF Receive, MayReceive
  <2>2. PICK verdict \in Verdicts(m),
             withheld \in (IF m.type = "ResendRequest" THEN Withholdings(st) ELSE {{}}) :
          st' = [Process(f, m, verdict, withheld) EXCEPT
                   !.pc = IF Exit(f, m, verdict) = "return" THEN "idle" ELSE "drain"]
    BY <1>11 DEF Receive, Received
  <2> DEFINE t == Process(f, m, verdict, withheld)
             x == IF Exit(f, m, verdict) = "return" THEN "idle" ELSE "drain"
             v == [t EXCEPT !.pc = x]
  <2>3. Done(f, t)
    BY <2>1, ProcessDone
  <2>4. x \in {"idle", "drain"} /\ (x = "idle" => QueueAfter(t))
    BY <2>1, ReturnAfter
  <2> HIDE DEF t, x
  <2>5. Base(v) /\ SeenOK(v) /\ v.pc = x /\ (x = "idle" => QueueAfter(v))
    BY <2>3, <2>4 DEF Done, Base, Fields, StateType, QueueFrom, QueueAfter, StoreOK, SeenOK
  <2>6. st' = v
    BY <2>2 DEF t, x
  <2>7. Clean(v)
    <3>1. ~Unbound(f)
      BY <1>11, <1>4a DEF Receive, MayReceive, Unbound
    <3> QED BY <2>3, <3>1 DEF Done, Base, Fields, SameSession, Clean, Unbound
  <2> HIDE DEF v
  <2> QED BY <2>5, <2>6, <2>7, EndsIInv
<1>12. ASSUME NEW body \in Payloads, Send(body) PROVE IInv'
  <2>1. body \in Bodies
    BY DEF Bodies
  <2>2. Cleared(f) => Cleared(SendApp(f, body))
    BY <1>2, SendAppCleared
  <2> QED BY <1>2, <1>4, <1>12, <1>4a, <2>1, <2>2, SendAppKeeps, KeepsIInv DEF Send
<1>13. ASSUME NEW b \in BOOLEAN, SetEnabled(b) PROVE IInv'
  <2>1. st' = [f EXCEPT !.enabled = b]
    BY <1>13 DEF SetEnabled
  <2> HIDE DEF f
  <2>2. Keeps(f, [f EXCEPT !.enabled = b])
    BY <1>2 DEF SameSession, Keeps, Base, Fields, StateType, QueueFrom, QueueAfter, StoreOK, SeenOK
  <2>3. Cleared(f) => Cleared([f EXCEPT !.enabled = b])
    BY <1>2 DEF Base, Fields, Cleared
  <2> QED BY <1>4, <1>4a, <2>1, <2>2, <2>3, KeepsIInv
<1>14. CASE OperatorReset
  BY <1>2, <1>4, <1>14, ResetSessionKeeps, DisconnectClears, KeepsIInv DEF OperatorReset
<1>15. ASSUME NEW n \in 1..MaxSeq, SetNextTargetMsgSeqNum(n) PROVE IInv'
  <2> DEFINE k == {j \in st.seen : j < n}
             v == [f EXCEPT !.target = n, !.queue = <<>>, !.resendRange = <<0, 0>>, !.seen = k]
  <2>1. st' = v
    BY <1>15 DEF SetNextTargetMsgSeqNum
  <2>2. n \in Nat \ {0} /\ k \subseteq Nat /\ \A j \in k : j < n
    BY <1>1, BoundsAssumption DEF Base, StateType
  <2> HIDE DEF f, k
  <2>3. DOMAIN v = Fields /\ StateType(v)
    BY <1>2, <2>2 DEF Base, Fields, StateType
  <2>4. StoreOK(v) /\ SeenOK(v)
    BY <1>2, <2>2 DEF Base, Fields, StoreOK, SeenOK
  <2>5. QueueFrom(v) /\ QueueAfter(v)
    BY <1>2 DEF Base, Fields, QueueFrom, QueueAfter
  <2>6. Clean(v)
    BY <1>2, <1>4a DEF Base, Fields, Clean, Unbound, Cleared
  <2> HIDE DEF v
  <2> QED BY <2>1, <2>3, <2>4, <2>5, <2>6, EndsIInv DEF Base
<1>16. CASE SessionTimeEnds \/ SessionTimeStarts
  <2>1. PICK x \in {"same", "closed", "new"} : st' = [f EXCEPT !.sched = x]
    BY <1>16 DEF SessionTimeEnds, SessionTimeStarts
  <2> HIDE DEF f
  <2>2. Keeps(f, [f EXCEPT !.sched = x])
    BY <1>2
    DEF SameSession, Keeps, Base, Fields, StateType, QueueFrom, QueueAfter, StoreOK, SeenOK
  <2>3. Cleared(f) => Cleared([f EXCEPT !.sched = x])
    BY <1>2 DEF Base, Fields, Cleared
  <2> QED BY <1>4, <1>4a, <2>1, <2>2, <2>3, KeepsIInv
<1>17. CASE UNCHANGED st
  BY <1>17 DEF IInv, Base, SeenOK, QueueAfter, QueueFrom, StateType, StoreOK, Clean,
     Unbound, Cleared
<1> QED
  BY <1>5, <1>6, <1>7, <1>8, <1>9, <1>10, <1>11, <1>12, <1>13, <1>14, <1>15, <1>16, <1>17
  DEF Next

\* The inductive invariant holds of every behaviour.
THEOREM Inductive == Spec => []IInv
BY InitIInv, NextIInv, PTL DEF Spec

\* Every field of a session's state always has its type, whatever the peer sends.
THEOREM TypeCorrect == Spec => []TypeOK
<1>1. IInv => TypeOK
  BY DEF IInv, Base, TypeOK
<1> QED BY <1>1, Inductive, PTL

\* Nothing waits in the inbound queue at or below the expected number between two
\* handlers.
THEOREM QueueOrdered == Spec => []QueueAhead
<1>1. IInv => QueueAhead
  <2> SUFFICES ASSUME IInv PROVE QueueAhead
    OBVIOUS
  <2>1. st.target \in Nat /\ st.pc \in {"idle", "drain"} /\ \A n \in DOMAIN st.queue : n \in Nat
    BY IncomingAssumption DEF IInv, Base, StateType, Message
  <2> QED BY <2>1 DEF IInv, Base, QueueFrom, QueueAfter, QueueAhead
<1> QED BY <1>1, Inductive, PTL

\* No number is passed to the application twice in one numbering.
THEOREM DeliveredOnce == Spec => []SeenBelow
<1>1. IInv => SeenBelow
  BY DEF IInv, SeenOK, SeenBelow
<1> QED BY <1>1, Inductive, PTL

\* With PersistMessages the store holds exactly the numbers given out.
THEOREM StoreIsComplete == Spec => []StoreComplete
<1>1. IInv => StoreComplete
  BY DEF IInv, Base, StoreOK, StoreComplete
<1> QED BY <1>1, Inductive, PTL

\* A select transport's session without a connection has kept nothing of the last one.
THEOREM ConnectionIsClean == Spec => []ConnectionClean
<1>1. IInv => ConnectionClean
  BY DEF IInv, Clean, Unbound, Cleared, ConnectionClean, ResendRequested
<1> QED BY <1>1, Inductive, PTL

\* Whatever range of the numbers given out is asked for, and whatever the application
\* withholds, the answer has no hole and no overlap, and resends what was sent.
THEOREM RetransmissionCovers == Spec => []RetransmitCovers
<1>1. IInv => RetransmitCovers
  <2> SUFFICES ASSUME IInv, st.cfg.persist,
                      NEW b \in 1..(st.sender - 1), NEW e \in b..(st.sender - 1),
                      NEW w \in SUBSET DOMAIN st.store
               PROVE  LET r == Retransmits(st, b, e, w) IN
                        /\ r # <<>> /\ r[1].seq = b /\ NumberAfter(r[Len(r)]) = e + 1
                        /\ \A i \in 1..(Len(r) - 1) : NumberAfter(r[i]) = r[i + 1].seq
                        /\ \A i \in DOMAIN r :
                             r[i].type = "App" => r[i].body = st.store[r[i].seq]
    BY DEF RetransmitCovers
  <2> DEFINE r == Retransmits(st, b, e, w)
             c == Cardinality(Starts(st, b, e, w))
  <2>1. Kept(st, b, e)
    BY DEF IInv, Base, StateType, StoreOK, Kept
  <2>2. /\ c \in Nat \ {0} /\ DOMAIN r = 1..c /\ Len(r) = c
        /\ \E o \in [1..c -> b..e] : r = [i \in 1..c |-> Piece(st, b, e, w, o[i])]
        /\ r[1].seq = b /\ NumberAfter(r[c]) = e + 1
        /\ \A i \in 1..(c - 1) : NumberAfter(r[i]) = r[i + 1].seq
    BY <2>1, RetransmitsLead
  <2>3. \A n : Piece(st, b, e, w, n).type = "App"
               => Piece(st, b, e, w, n).body = st.store[Piece(st, b, e, w, n).seq]
    BY DEF Piece, Resend, GapFill, NewMessage
  <2> HIDE DEF r, c
  <2>4. \A i \in DOMAIN r : r[i].type = "App" => r[i].body = st.store[r[i].seq]
    BY <2>2, <2>3
  <2>5. r # <<>>
    BY <2>2
  <2> QED BY <2>2, <2>4, <2>5 DEF r
<1> QED BY <1>1, Inductive, PTL

-----------------------------------------------------------------------------
(* Counting each message once, in its turn *)

\* What counting depends on, and a method that counts nothing and logs nobody out.
Shape(s) == DOMAIN s = Fields /\ s.target \in Nat
Stays(s, t) ==
  /\ Shape(t) /\ t.target = s.target
  /\ t.receivedLogon = s.receivedLogon /\ t.sentLogon = s.sentLogon

\* Methods that count nothing compose.
LEMMA StaysTransitive ==
  ASSUME NEW s, NEW t, NEW u, Stays(s, t), Stays(t, u)
  PROVE  Stays(s, u)
BY DEF Stays

\* Storing and writing a message count nothing of the peer's.
LEMMA PersistStays ==
  ASSUME NEW s, Shape(s), NEW m
  PROVE  /\ Stays(s, Persist([s EXCEPT !.sinceSent = 0], m))
         /\ Stays(s, Transmit(s, m))
<1>1. Stays(s, Persist([s EXCEPT !.sinceSent = 0], m))
  BY DEF Shape, Stays, Persist, Fields
<1>2. Stays(s, Transmit(s, m))
  BY DEF Shape, Stays, Transmit, Fields
<1> QED BY <1>1, <1>2

\* Sending a message other than a Logon counts nothing of the peer's.
LEMMA SendStays ==
  ASSUME NEW s, Shape(s)
  PROVE  /\ \A m : m.type # "Logon" => Stays(s, SendRaw(s, m))
         /\ \A body : Stays(s, SendApp(s, body))
<1>1. ASSUME NEW m, m.type # "Logon" PROVE Stays(s, SendRaw(s, m))
  <2> DEFINE s1 == [s EXCEPT !.sinceSent = 0]
             m1 == [m EXCEPT !.seq = s1.sender]
             s2 == Persist(s1, m1)
  <2>1. SendRaw(s, m) \in {s2, Transmit(s2, m1)}
    BY <1>1 DEF SendRaw, LogonReset
  <2> HIDE DEF m1
  <2>2. Stays(s, s2)
    BY PersistStays
  <2> HIDE DEF s2
  <2>3. Stays(s2, Transmit(s2, m1))
    BY <2>2, PersistStays DEF Stays
  <2> QED BY <2>1, <2>2, <2>3, StaysTransitive
<1>2. ASSUME NEW body PROVE Stays(s, SendApp(s, body))
  <2> DEFINE s1 == [s EXCEPT !.sinceSent = 0]
             m == [NewMessage("App") EXCEPT !.seq = s.sender, !.body = body]
             s2 == Persist(s1, m)
  <2>1. SendApp(s, body) \in {s, s2, Transmit(s2, m)}
    BY DEF SendApp
  <2> HIDE DEF m
  <2>2. Stays(s, s2) /\ Stays(s, s)
    BY PersistStays DEF Stays
  <2> HIDE DEF s2
  <2>3. Stays(s2, Transmit(s2, m))
    BY <2>2, PersistStays DEF Stays
  <2> QED BY <2>1, <2>2, <2>3, StaysTransitive
<1> QED BY <1>1, <1>2

\* So do the answers a handler gives.
LEMMA AnswersStay ==
  ASSUME NEW s, Shape(s)
  PROVE  /\ Stays(s, GenerateHeartbeat(s)) /\ Stays(s, GenerateLogout(s))
         /\ \A n : Stays(s, GenerateResendRequest(s, n))
         /\ \A b, e, w : Stays(s, RetransmitOrFill(s, b, e, w))
<1>1. ASSUME NEW t \in MsgTypes PROVE NewMessage(t).type = t
  BY DEF NewMessage
<1>2. Stays(s, GenerateHeartbeat(s))
  BY <1>1, SendStays DEF GenerateHeartbeat, MsgTypes, AdminTypes
<1>3. Stays(s, GenerateLogout(s))
  <2> DEFINE l == SendRaw(s, NewMessage("Logout"))
  <2>1. Stays(s, l)
    BY <1>1, SendStays DEF MsgTypes, AdminTypes
  <2> HIDE DEF l
  <2>2. Stays(s, [l EXCEPT !.sentLogout = TRUE])
    BY <2>1 DEF Stays, Shape, Fields
  <2> QED BY <2>2 DEF GenerateLogout, l
<1>4. ASSUME NEW n PROVE Stays(s, GenerateResendRequest(s, n))
  <2> DEFINE m == [NewMessage("ResendRequest") EXCEPT !.num = s.target]
             l == SendRaw(s, m)
  <2>1. m.type = "ResendRequest"
    BY DEF NewMessage
  <2> HIDE DEF m
  <2>2. Stays(s, l)
    BY <2>1, SendStays
  <2>3. GenerateResendRequest(s, n) = [l EXCEPT !.resendRange = <<s.target, n - 1>>]
    BY DEF GenerateResendRequest, m
  <2> HIDE DEF l
  <2> QED BY <2>2, <2>3 DEF Stays, Shape, Fields
<1>5. ASSUME NEW b, NEW e, NEW w PROVE Stays(s, RetransmitOrFill(s, b, e, w))
  <2>1. ASSUME NEW a, NEW o PROVE Stays(s, [s EXCEPT !.sinceSent = a, !.out = o])
    BY DEF Stays, Shape, Fields
  <2>2. Stays(s, GenerateRetransmits(s, b, e, w))
    BY <2>1 DEF GenerateRetransmits
  <2> DEFINE s1 == [s EXCEPT !.sinceSent = 0]
  <2>3. Stays(s, s1)
    BY DEF Stays, Shape, Fields
  <2> HIDE DEF s1
  <2>4. ASSUME NEW k PROVE Stays(s, Transmit(s1, GapFill(b, k)))
    BY ZenonT(60), <2>3, PersistStays, StaysTransitive DEF Stays
  <2> QED BY <2>2, <2>4 DEF RetransmitOrFill, GenerateSequenceReset, s1
<1> QED BY <1>2, <1>3, <1>4, <1>5

\* Session::disconnect logs the session out.
LEMMA DisconnectLogsOut ==
  ASSUME NEW s, Shape(s)
  PROVE  ~IsLoggedOn(Disconnect(s))
<1> DEFINE s1 == IF s.cfg.resetOnDisconnect THEN Reset(s) ELSE s
<1>1. DOMAIN s1 = Fields
  BY DEF Shape, Reset, Fields
<1>2. Disconnect(s) =
        [s1 EXCEPT !.responder = FALSE, !.receivedLogon = FALSE, !.sentLogon = FALSE,
                   !.sentLogout = FALSE, !.receivedReset = FALSE, !.sentReset = FALSE,
                   !.queue = <<>>, !.resendRange = <<0, 0>>]
  BY DEF Disconnect
<1> HIDE DEF s1
<1> QED BY <1>1, <1>2 DEF Fields, IsLoggedOn

\* The message m is counted once if it is the expected one, and otherwise not at all.
Turn(s, m) == IF m.seq = s.target THEN 1 ELSE 0
Counts(s, t, m) ==
  /\ Shape(t) /\ t.target = s.target + Turn(s, m)
  /\ t.receivedLogon = s.receivedLogon /\ t.sentLogon = s.sentLogon

\* A message that is counted in its turn, or not in its turn and not counted.
LEMMA CountsCases ==
  ASSUME NEW s, Shape(s), NEW t, Stays(s, t), NEW m
  PROVE  /\ m.seq = s.target => Counts(s, IncrTarget(t), m)
         /\ m.seq # s.target => Counts(s, t, m)
<1>1. m.seq = s.target => Counts(s, IncrTarget(t), m)
  BY DEF Shape, Stays, Counts, Turn, IncrTarget, Fields
<1>2. m.seq # s.target => Counts(s, t, m)
  BY DEF Shape, Stays, Counts, Turn
<1> QED BY <1>1, <1>2

\* What follows the counting may send.
LEMMA CountsThenStays ==
  ASSUME NEW s, NEW t, NEW u, NEW m, Counts(s, t, m), Stays(t, u)
  PROVE  Counts(s, u, m)
BY DEF Counts, Stays

\* generateReject counts what it rejects if it is the expected message.
LEMMA RejectCounts ==
  ASSUME NEW s, Shape(s), s.receivedLogon, NEW m, m.type \notin {"Logon", "SequenceReset"}
  PROVE  Counts(s, GenerateReject(s, m), m)
<1> DEFINE s1 == [s EXCEPT !.sinceSent = 0]
           s2 == IF m.seq = s.target THEN IncrTarget(s1) ELSE s1
<1>1. Stays(s, s1)
  BY DEF Stays, Shape, Fields
<1>2. GenerateReject(s, m) = SendRaw(s2, NewMessage("Reject"))
  BY DEF GenerateReject, RejectThrows
<1> HIDE DEF s1
<1>3. Counts(s, s2, m)
  BY <1>1, CountsCases
<1> HIDE DEF s2
<1>4. NewMessage("Reject").type # "Logon"
  BY DEF NewMessage
<1>5. Stays(s2, SendRaw(s2, NewMessage("Reject")))
  BY <1>3, <1>4, SendStays DEF Counts
<1> QED BY <1>2, <1>3, <1>5, CountsThenStays

\* A message in its turn that passes verify() is not yet counted.
LEMMA VerifyPassedStays ==
  ASSUME NEW s, Shape(s), NEW m, NEW checked
  PROVE  Stays(s, VerifyPassed(s, m, checked))
BY DEF Stays, Shape, Fields, VerifyPassed

\* Whichever way verify() or the application refuses a message, it is counted in its
\* turn, unless the session is logged out.
LEMMA RefusedCounts ==
  ASSUME NEW s, Shape(s), s.receivedLogon, NEW m \in Incoming, NEW verdict \in Verdicts(m),
         m.type \notin {"Logon", "SequenceReset"}, NEW high, NEW low,
         m.type = "App" => high /\ low,
         ~Passes(s, m, high, low, verdict)
  PROVE  LET t == Refused(s, m, high, low, verdict) IN IsLoggedOn(t) => Counts(s, t, m)
<1> DEFINE o == VerifyOutcome(s, m, high, low)
           v == VerifyPassed(s, m, high \/ low)
           r == GenerateReject(s, m)
<1>1. s.target \in Nat /\ m.seq \in Nat
  BY IncomingType DEF Shape
<1>2. Counts(s, r, m) /\ Shape(r)
  BY RejectCounts DEF Counts
<1>3. Counts(s, GenerateLogout(r), m)
  BY <1>2, AnswersStay, CountsThenStays
<1>4. ASSUME NEW l PROVE Counts(s, RejectInVerify(s, m, l), m)
  BY <1>2, <1>3 DEF RejectInVerify, RejectThrows
<1>5. /\ ~IsLoggedOn(Disconnect(s)) /\ ~IsLoggedOn(Disconnect(GenerateLogout(s)))
  BY AnswersStay, DisconnectLogsOut DEF Stays
<1>6. CASE o = "badState"
  BY <1>5, <1>6 DEF Refused, VerifyFailed
<1>7. CASE o = "badHeader"
  BY <1>4, <1>7 DEF Refused, VerifyFailed
<1>8. CASE o = "tooHigh"
  <2>1. m.seq # s.target
    BY <1>1, <1>8 DEF VerifyOutcome
  <2> DEFINE q == Queue(s, m)
  <2>2. Stays(s, q)
    BY DEF Stays, Shape, Fields, Queue
  <2>3. DoTargetTooHigh(s, m) \in {q, GenerateResendRequest(q, m.seq)}
    BY DEF DoTargetTooHigh
  <2> HIDE DEF q
  <2>4. Stays(s, DoTargetTooHigh(s, m))
    <3>1. Stays(q, GenerateResendRequest(q, m.seq))
      BY <2>2, AnswersStay DEF Stays
    <3> QED BY <2>2, <2>3, <3>1, StaysTransitive
  <2> QED BY <1>8, <2>1, <2>4, CountsCases DEF Refused, VerifyFailed
<1>9. CASE o = "tooLow"
  <2>1. m.seq # s.target
    BY <1>1, <1>9 DEF VerifyOutcome
  <2>2. Counts(s, s, m)
    BY <2>1, CountsCases DEF Stays
  <2>3. Counts(s, DoPossDup(s, m), m)
    BY <1>4, <2>2 DEF DoPossDup
  <2> QED BY <1>5, <1>9, <2>3 DEF Refused, VerifyFailed, DoTargetTooLow
<1>10. CASE o = "ok"
  <2>1. Refused(s, m, high, low, verdict) = Thrown(v, m, verdict)
    BY <1>10 DEF Refused
  <2>2. Stays(s, v) /\ Shape(v) /\ v.receivedLogon
    <3>1. Stays(s, v)
      BY VerifyPassedStays
    <3> HIDE DEF v
    <3> QED BY <3>1, Zenon DEF Stays
  <2>3. verdict \in {"incorrectValue", "fieldNotFound", "rejectLogon"}
    BY <1>10 DEF Passes, Verdicts
  <2>4. m.type = "App" => m.seq = s.target
    BY <1>1, <1>10 DEF VerifyOutcome
  <2> HIDE DEF v
  <2>5. Counts(s, GenerateReject(v, m), m)
    <3>1. Counts(v, GenerateReject(v, m), m)
      BY <2>2, RejectCounts
    <3> QED BY <2>2, <3>1 DEF Counts, Stays, Turn
  <2>6. m.type = "App" => Counts(s, GenerateBusinessReject(v, m), m)
    <3>1. m.type = "App" => Counts(s, IncrTarget(v), m)
      BY <2>2, <2>4, CountsCases
    <3>2. m.type = "App" => Stays(IncrTarget(v), SendApp(IncrTarget(v), BusinessReject))
      BY <3>1, SendStays DEF Counts
    <3> QED BY <3>1, <3>2, CountsThenStays DEF GenerateBusinessReject
  <2>7. ~IsLoggedOn(Disconnect(GenerateLogout(v)))
    BY <2>2, AnswersStay, DisconnectLogsOut DEF Stays
  <2> QED BY <2>1, <2>3, <2>5, <2>6, <2>7 DEF Thrown
<1>11. o \in {"badState", "badHeader", "tooHigh", "tooLow", "ok"}
  BY DEF VerifyOutcome
<1> QED BY <1>6, <1>7, <1>8, <1>9, <1>10, <1>11

\* A session that is up counts each message of its own in its turn.
LEMMA ProcessCounts ==
  ASSUME NEW s, Shape(s), IsLoggedOn(s), s.sched = "same",
         NEW m \in Incoming, NEW verdict \in Verdicts(m),
         m.type \notin {"Logon", "SequenceReset"},
         m.defect \notin {"garbled", "badVersion", "noCompID"},
         m.type = "Reject" => ~(m.seq > s.target)
  PROVE  LET t == Process(s, m, verdict, {}) IN
           IsLoggedOn(t) => t.target = s.target + Turn(s, m)
<1>1. s.receivedLogon /\ s.target \in Nat /\ m.seq \in Nat /\ m.type \in MsgTypes
  BY IncomingType DEF IsLoggedOn, Shape, Message
<1> DEFINE Up(t) == IsLoggedOn(t) => Counts(s, t, m)
<1>2. CASE m.defect = "invalid"
  BY <1>1, <1>2, RejectCounts DEF Process, Counts
<1>3. CASE m.defect # "invalid"
  <2>1. Process(s, m, verdict, {}) = Dispatch(s, m, verdict, {})
    BY <1>3 DEF Process
  <2>2. ASSUME NEW high, NEW low, m.type = "App" => high /\ low,
               ~Passes(s, m, high, low, verdict)
        PROVE  Up(Refused(s, m, high, low, verdict))
    BY <1>1, <2>2, RefusedCounts
  <2>3. ASSUME Passes(s, m, TRUE, TRUE, verdict) PROVE m.seq = s.target
    BY <1>1, <2>3 DEF Passes, VerifyOutcome
  <2>4. CASE m.type \in {"App", "Heartbeat", "TestRequest"}
    <3> DEFINE v == VerifyPassed(s, m, TRUE)
    <3>1. Stays(s, v)
      BY VerifyPassedStays
    <3> HIDE DEF v
    <3>2. Stays(s, GenerateHeartbeat(v))
      BY <3>1, AnswersStay, StaysTransitive DEF Stays
    <3>3. Passes(s, m, TRUE, TRUE, verdict) =>
            Counts(s, IncrTarget(v), m) /\ Counts(s, IncrTarget(GenerateHeartbeat(v)), m)
      BY <2>3, <3>1, <3>2, CountsCases
    <3>4. Up(Dispatch(s, m, verdict, {}))
      BY <2>2, <2>4, <3>3 DEF Dispatch, NextApp, NextHeartbeat, NextTestRequest, v
    <3> QED BY <2>1, <3>4 DEF Counts
  <2>5. CASE m.type = "Reject"
    <3> DEFINE v == VerifyPassed(s, m, TRUE)
    <3>1. Stays(s, v)
      BY VerifyPassedStays
    <3> HIDE DEF v
    <3>2. Passes(s, m, FALSE, TRUE, verdict) => m.seq = s.target
      BY <1>1, <2>5 DEF Passes, VerifyOutcome
    <3>3. Passes(s, m, FALSE, TRUE, verdict) => Counts(s, IncrTarget(v), m)
      BY <3>1, <3>2, CountsCases
    <3>4. Up(Dispatch(s, m, verdict, {}))
      BY <2>2, <2>5, <3>3 DEF Dispatch, NextReject, v
    <3> QED BY <2>1, <3>4 DEF Counts
  <2>6. CASE m.type = "Logout"
    <3> DEFINE v == VerifyPassed(s, m, FALSE)
               l == IF v.sentLogout THEN v ELSE GenerateLogout(v)
               c == IncrTarget(l)
               d == IF c.cfg.resetOnLogout THEN Reset(c) ELSE c
    <3>1. Shape(v)
      BY VerifyPassedStays DEF Stays
    <3> HIDE DEF v
    <3>2. Shape(l)
      BY <3>1, AnswersStay DEF Stays
    <3> HIDE DEF l
    <3>3. Shape(c)
      BY <3>2 DEF Shape, IncrTarget, Fields
    <3> HIDE DEF c
    <3>4. Shape(d)
      BY <3>3 DEF Shape, Reset, Fields
    <3> HIDE DEF d
    <3>5. ~IsLoggedOn(LogoutAccepted(v))
      BY <3>4, DisconnectLogsOut DEF LogoutAccepted, d, c, l
    <3>6. Up(Dispatch(s, m, verdict, {}))
      BY <2>2, <2>6, <3>5 DEF Dispatch, NextLogout, v
    <3> QED BY <2>1, <3>6 DEF Counts
  <2>7. CASE m.type = "ResendRequest"
    <3> DEFINE v == VerifyPassed(s, m, FALSE)
               e == IF m.end = 0 \/ m.end >= v.sender THEN v.sender - 1 ELSE m.end
               r == RetransmitOrFill(v, m.num, e, {})
    <3>1. Stays(s, v)
      BY VerifyPassedStays
    <3> HIDE DEF v
    <3>2. Stays(s, r)
      <4>1. Shape(v)
        BY <3>1 DEF Stays
      <4>2. Stays(v, r)
        BY <4>1, AnswersStay
      <4> HIDE DEF r
      <4> QED BY <3>1, <4>2, StaysTransitive
    <3>3. ResendRequestAccepted(v, m, {}) = IF m.seq = r.target THEN IncrTarget(r) ELSE r
      BY DEF ResendRequestAccepted
    <3> HIDE DEF r
    <3>4. Counts(s, ResendRequestAccepted(v, m, {}), m)
      BY <3>2, <3>3, CountsCases DEF Stays
    <3>5. Up(Dispatch(s, m, verdict, {}))
      BY <2>2, <2>7, <3>4 DEF Dispatch, NextResendRequest, v
    <3> QED BY <2>1, <3>5 DEF Counts
  <2> QED BY <1>1, <2>4, <2>5, <2>6, <2>7 DEF MsgTypes, AdminTypes
<1> QED BY <1>2, <1>3

\* A message without a CompID is rejected before its number is looked at; an
\* application message is counted all the same.
LEMMA NoCompIDCounts ==
  ASSUME NEW s, Shape(s), IsLoggedOn(s), s.sched = "same",
         NEW m \in Incoming, NEW verdict, m.type \notin {"Logon", "SequenceReset"},
         m.defect = "noCompID"
  PROVE  Process(s, m, verdict, {}).target =
           s.target + (IF m.seq = s.target \/ m.type = "App" THEN 1 ELSE 0)
<1>1. s.receivedLogon /\ s.target \in Nat /\ m.seq \in Nat
  BY IncomingType DEF IsLoggedOn, Shape
<1>2. Process(s, m, verdict, {}) =
        IF m.type = "App" THEN GenerateBusinessReject(s, m) ELSE GenerateReject(s, m)
  BY DEF Process, Thrown
<1>3. CASE m.type = "App"
  <2> DEFINE t == IncrTarget(s)
  <2>1. Shape(t) /\ t.target = s.target + 1
    BY DEF IncrTarget, Shape, Fields
  <2> HIDE DEF t
  <2>2. SendApp(t, BusinessReject).target = t.target
    BY <2>1, SendStays DEF Stays
  <2> QED BY <1>2, <1>3, <2>1, <2>2 DEF GenerateBusinessReject, t
<1>4. CASE m.type # "App"
  BY <1>1, <1>2, <1>4, RejectCounts DEF Counts, Turn
<1> QED BY <1>3, <1>4

\* While the session is up every message is counted once if it is the expected one and
\* not otherwise, however verify(), the dictionary or the application refuses it; only
\* an application message without a CompID is counted whatever its number.
THEOREM CountedInTurn == Spec => []CountsExpected
<1>1. IInv => CountsExpected
  <2> SUFFICES ASSUME IInv, IsLoggedOn(st), st.sched = "same",
                      NEW m \in Incoming, NEW verdict \in Verdicts(m),
                      m.type \notin {"Logon", "SequenceReset"},
                      m.defect \notin {"garbled", "badVersion"},
                      ~(m.type = "Reject" /\ m.seq > st.target),
                      IsLoggedOn(Process(st, m, verdict, {}))
               PROVE  Process(st, m, verdict, {}).target = st.target +
                        (IF m.seq = st.target \/ (m.type = "App" /\ m.defect = "noCompID")
                         THEN 1 ELSE 0)
    BY DEF CountsExpected
  <2>1. Shape(st)
    BY DEF IInv, Base, StateType, Shape
  <2>2. CASE m.defect = "noCompID"
    BY <2>1, <2>2, NoCompIDCounts
  <2>3. CASE m.defect # "noCompID"
    BY <2>1, <2>3, ProcessCounts DEF Turn
  <2> QED BY <2>2, <2>3
<1> QED BY <1>1, Inductive, PTL

-----------------------------------------------------------------------------
(* A Logon that is refused *)

\* A method that does not take the numbers back.
Numbered(s) == DOMAIN s = Fields /\ s.target \in Nat /\ s.sender \in Nat
Grows(s, t) ==
  /\ Numbered(t) /\ t.target >= s.target /\ t.sender >= s.sender
  /\ t.cfg = s.cfg /\ t.sched = s.sched

\* Such methods compose.
LEMMA GrowsTransitive ==
  ASSUME NEW s, Numbered(s), NEW t, NEW u, Grows(s, t), Grows(t, u)
  PROVE  Grows(s, u)
BY DEF Numbered, Grows

\* Sending a message other than a Logon, and disconnecting without ResetOnDisconnect,
\* are such methods.
LEMMA SendGrows ==
  ASSUME NEW s, Numbered(s)
  PROVE  /\ \A m : m.type # "Logon" => Grows(s, SendRaw(s, m))
         /\ Grows(s, GenerateLogout(s))
         /\ ~s.cfg.resetOnDisconnect => Grows(s, Disconnect(s))
         /\ Grows(s, IncrTarget(s)) /\ Grows(s, s)
<1>1. ASSUME NEW m, m.type # "Logon" PROVE Grows(s, SendRaw(s, m))
  <2> DEFINE s1 == [s EXCEPT !.sinceSent = 0]
             m1 == [m EXCEPT !.seq = s1.sender]
             s2 == Persist(s1, m1)
  <2>1. SendRaw(s, m) \in {s2, Transmit(s2, m1)}
    BY <1>1 DEF SendRaw, LogonReset
  <2> HIDE DEF m1
  <2>2. Grows(s, s2)
    BY DEF Numbered, Grows, Persist, Fields
  <2> HIDE DEF s2
  <2>3. Grows(s, Transmit(s2, m1))
    BY <2>2 DEF Numbered, Grows, Transmit, Fields
  <2> QED BY <2>1, <2>2, <2>3
<1>2. Grows(s, GenerateLogout(s))
  <2> DEFINE l == SendRaw(s, NewMessage("Logout"))
  <2>1. NewMessage("Logout").type # "Logon"
    BY DEF NewMessage
  <2>2. Grows(s, l)
    BY <1>1, <2>1
  <2> HIDE DEF l
  <2>3. Grows(s, [l EXCEPT !.sentLogout = TRUE])
    BY <2>2 DEF Grows, Numbered, Fields
  <2> QED BY <2>3 DEF GenerateLogout, l
<1>3. ~s.cfg.resetOnDisconnect => Grows(s, Disconnect(s))
  BY DEF Disconnect, Grows, Numbered, Fields
<1>4. Grows(s, IncrTarget(s)) /\ Grows(s, s)
  BY DEF IncrTarget, Grows, Numbered, Fields
<1> QED BY <1>1, <1>2, <1>3, <1>4

\* So is rejecting a message.
LEMMA RejectGrows ==
  ASSUME NEW s, Numbered(s), NEW m
  PROVE  Grows(s, GenerateReject(s, m))
<1> DEFINE s1 == [s EXCEPT !.sinceSent = 0]
           s2 == IF m.type \notin {"Logon", "SequenceReset"} /\ m.seq = s.target
                 THEN IncrTarget(s1) ELSE s1
<1>1. Grows(s, s1)
  BY DEF Grows, Numbered, Fields
<1>2. GenerateReject(s, m) \in {s2, SendRaw(s2, NewMessage("Reject"))}
  BY DEF GenerateReject
<1> HIDE DEF s1
<1>3. Grows(s, s2)
  BY <1>1, SendGrows, GrowsTransitive DEF Grows
<1> HIDE DEF s2
<1>4. NewMessage("Reject").type # "Logon"
  BY DEF NewMessage
<1>5. Grows(s2, SendRaw(s2, NewMessage("Reject")))
  BY <1>3, <1>4, SendGrows DEF Grows
<1> QED BY <1>2, <1>3, <1>5, GrowsTransitive

\* The two together: a refusal that ends in a disconnect.
LEMMA RefusalsGrow ==
  ASSUME NEW s, Numbered(s), ~s.cfg.resetOnDisconnect, NEW m
  PROVE  /\ Grows(s, Disconnect(GenerateLogout(s)))
         /\ Grows(s, Disconnect(GenerateReject(s, m)))
         /\ Grows(s, GenerateLogout(GenerateReject(s, m)))
<1> DEFINE l == GenerateLogout(s)
           r == GenerateReject(s, m)
<1>1. Grows(s, l) /\ Grows(s, r)
  BY SendGrows, RejectGrows
<1> HIDE DEF l, r
<1>2. Grows(l, Disconnect(l)) /\ Grows(r, Disconnect(r)) /\ Grows(r, GenerateLogout(r))
  BY <1>1, SendGrows DEF Grows
<1>3. Grows(s, Disconnect(l)) /\ Grows(s, Disconnect(r)) /\ Grows(s, GenerateLogout(r))
  BY <1>1, <1>2, GrowsTransitive
<1> QED BY <1>3 DEF l, r

\* A Logon that verify() or the application refuses takes no number back.
LEMMA RefusedLogonGrows ==
  ASSUME NEW s, Numbered(s), ~s.cfg.resetOnDisconnect,
         NEW m \in Incoming, m.type = "Logon", NEW verdict \in Verdicts(m), NEW low,
         ~Passes(s, m, FALSE, low, verdict)
  PROVE  Grows(s, Refused(s, m, FALSE, low, verdict))
<1> DEFINE o == VerifyOutcome(s, m, FALSE, low)
           v == VerifyPassed(s, m, FALSE \/ low)
<1>1. /\ Grows(s, s) /\ Grows(s, Disconnect(s)) /\ Grows(s, GenerateReject(s, m))
      /\ Grows(s, Disconnect(GenerateLogout(s)))
      /\ Grows(s, Disconnect(GenerateReject(s, m)))
      /\ Grows(s, GenerateLogout(GenerateReject(s, m)))
  BY SendGrows, RejectGrows, RefusalsGrow
<1>2. ASSUME NEW l PROVE Grows(s, RejectInVerify(s, m, l))
  BY <1>1 DEF RejectInVerify
<1>3. Grows(s, DoTargetTooLow(s, m))
  BY <1>1, <1>2 DEF DoTargetTooLow, DoPossDup
<1>4. CASE o \in {"badState", "badHeader", "tooLow"}
  BY <1>1, <1>2, <1>3, <1>4 DEF Refused, VerifyFailed
<1>5. CASE o = "ok"
  <2>1. Refused(s, m, FALSE, low, verdict) = Thrown(v, m, verdict)
    BY <1>5 DEF Refused
  <2>2. Grows(s, v)
    BY DEF VerifyPassed, Grows, Numbered, Fields
  <2>3. verdict \in {"incorrectValue", "fieldNotFound", "rejectLogon"}
    BY <1>5 DEF Passes, Verdicts
  <2> HIDE DEF v
  <2>4. /\ Grows(v, GenerateReject(v, m)) /\ Grows(v, Disconnect(GenerateReject(v, m)))
        /\ Grows(v, Disconnect(GenerateLogout(v)))
    BY <2>2, RejectGrows, RefusalsGrow DEF Grows
  <2>5. /\ Grows(s, GenerateReject(v, m)) /\ Grows(s, Disconnect(GenerateReject(v, m)))
        /\ Grows(s, Disconnect(GenerateLogout(v)))
    BY <2>2, <2>4, GrowsTransitive
  <2> QED BY <2>1, <2>3, <2>5 DEF Thrown
<1>6. o \in {"badState", "badHeader", "tooLow", "ok"}
  BY DEF VerifyOutcome
<1> QED BY <1>4, <1>5, <1>6

\* A session that has taken a Logon.
TookLogon(s) == DOMAIN s = Fields /\ s.receivedLogon = TRUE

\* It keeps the Logon through what nextLogon then sends.
LEMMA SendKeepsLogon ==
  ASSUME NEW s, TookLogon(s), NEW m
  PROVE  TookLogon(SendRaw(s, m))
<1> DEFINE s0 == [s EXCEPT !.sinceSent = 0]
           s1 == LogonReset(s0, m)
           m1 == [m EXCEPT !.seq = s1.sender]
           s2 == Persist(s1, m1)
<1>1. TookLogon(s0)
  BY DEF TookLogon, Fields
<1>2. SendRaw(s, m) \in {s2, Transmit(s2, m1)}
  BY DEF SendRaw
<1> HIDE DEF s0, m1
<1>3. TookLogon(s1)
  BY <1>1 DEF TookLogon, LogonReset, Reset, Fields
<1> HIDE DEF s1
<1>4. TookLogon(s2)
  BY <1>3 DEF TookLogon, Persist, Fields
<1> HIDE DEF s2
<1>5. TookLogon(Transmit(s2, m1))
  BY <1>4 DEF TookLogon, Transmit, Fields
<1> QED BY <1>2, <1>4, <1>5

\* nextLogon refuses a Logon it has verified only for its NextExpectedMsgSeqNum.
LEMMA LogonAcceptedTakes ==
  ASSUME NEW s, TookLogon(s), NEW m, ~(m.num # 0 /\ m.num > s.sender)
  PROVE  TookLogon(LogonAccepted(s, m))
<1> DEFINE h == [s EXCEPT !.heartBtInt = m.hb]
           n == [NewMessage("Logon") EXCEPT
                   !.flag = h.receivedReset, !.hb = m.hb,
                   !.num = IF h.cfg.nextExpected THEN h.target + 1 ELSE 0]
           r == SendRaw(h, n)
           answer == ~s.cfg.initiate \/ (s.receivedReset /\ ~s.sentReset)
           s1 == IF answer THEN GenerateLogonReply(h, m) ELSE s
           k == IF m.num # 0 /\ m.num < s.sender THEN m.num ELSE 0
           s2 == [s1 EXCEPT !.sentReset = FALSE, !.receivedReset = FALSE, !.tail = k]
           q == Queue(s2, m)
<1>1. TookLogon(h)
  BY DEF TookLogon, Fields
<1>2. GenerateLogonReply(h, m) = [r EXCEPT !.sentLogon = TRUE]
  BY DEF GenerateLogonReply
<1>3. LogonAccepted(s, m) \in
        {IncrTarget(s2), [q EXCEPT !.resendRange = <<s2.target, m.seq - 1>>],
         DoTargetTooHigh(s2, m)}
  BY DEF LogonAccepted
<1> HIDE DEF h, n
<1>4. TookLogon(r)
  BY <1>1, SendKeepsLogon
<1> HIDE DEF r
<1>5. TookLogon(s1)
  BY <1>2, <1>4 DEF TookLogon, Fields
<1> HIDE DEF s1, k
<1>6. TookLogon(s2)
  BY <1>5 DEF TookLogon, Fields
<1> HIDE DEF s2
<1>7. TookLogon(IncrTarget(s2)) /\ TookLogon(q)
  BY <1>6 DEF TookLogon, IncrTarget, Queue, Fields
<1>8. DoTargetTooHigh(s2, m) \in {q, GenerateResendRequest(q, m.seq)}
  BY DEF DoTargetTooHigh
<1> HIDE DEF q
<1>9. TookLogon([q EXCEPT !.resendRange = <<s2.target, m.seq - 1>>])
  BY <1>7 DEF TookLogon, Fields
<1>10. TookLogon(GenerateResendRequest(q, m.seq))
  <2> DEFINE p == [NewMessage("ResendRequest") EXCEPT !.num = q.target]
             l == SendRaw(q, p)
  <2>1. GenerateResendRequest(q, m.seq) = [l EXCEPT !.resendRange = <<q.target, m.seq - 1>>]
    BY DEF GenerateResendRequest
  <2> HIDE DEF p
  <2>2. TookLogon(l)
    BY <1>7, SendKeepsLogon
  <2> HIDE DEF l
  <2> QED BY <2>1, <2>2 DEF TookLogon, Fields
<1> QED BY <1>3, <1>7, <1>8, <1>9, <1>10

\* What next() does with a Logon: it is taken, or the numbers are not taken back.
LEMMA LogonTakenOrGrows ==
  ASSUME NEW s, Base(s), s.sched = "same", ~s.cfg.resetOnDisconnect,
         NEW m \in Incoming, m.type = "Logon", NEW verdict \in Verdicts(m), NEW withheld,
         ~(/\ m.num > 1 /\ (m.flag \/ s.cfg.resetOnLogon)
           /\ m.defect \in {"none", "noOrig", "lateOrig"} /\ verdict = "accept")
  PROVE  LET t == Process(s, m, verdict, withheld) IN TookLogon(t) \/ Grows(s, t)
<1>1. Numbered(s) /\ s.cfg \in Configs
  BY DEF Base, StateType, Numbered
<1>2. CASE m.defect = "garbled"
  <2> DEFINE d == Disconnect(s)
             n == SetResponder(d, FALSE)
  <2>1. Grows(s, d)
    BY <1>1, SendGrows
  <2>2. Process(s, m, verdict, withheld) \in {d, [n EXCEPT !.conn = "none"]}
    BY <1>2 DEF Process, Garbled
  <2> HIDE DEF d
  <2>3. Grows(s, [n EXCEPT !.conn = "none"])
    BY <2>1 DEF SetResponder, Grows, Numbered, Fields
  <2> QED BY <2>1, <2>2, <2>3
<1>3. CASE m.defect = "badVersion"
  <2> DEFINE l == GenerateLogout(s)
  <2>1. Process(s, m, verdict, withheld) = IncrTarget(l)
    BY <1>3 DEF Process, UnsupportedVersion
  <2>2. Grows(s, l)
    BY <1>1, SendGrows
  <2> HIDE DEF l
  <2>3. Grows(l, IncrTarget(l))
    BY <2>2, SendGrows DEF Grows
  <2> QED BY <1>1, <2>1, <2>2, <2>3, GrowsTransitive
<1>4. CASE m.defect = "invalid"
  BY <1>1, <1>4, RejectGrows DEF Process
<1>5. CASE m.defect = "noCompID"
  BY <1>1, <1>5, RefusalsGrow DEF Process, Thrown
<1>6. CASE m.defect \notin {"garbled", "badVersion", "invalid", "noCompID"}
  <2> DEFINE s1 == [s EXCEPT !.receivedReset = m.flag]
             resetting == (m.flag /\ ~s1.sentReset) \/ (~s1.cfg.initiate /\ s1.cfg.resetOnLogon)
             s2 == VerifyPassed(s1, m, ~resetting)
             s3 == IF resetting THEN Reset(s2) ELSE s2
             s4 == [s3 EXCEPT !.receivedLogon = TRUE]
  <2>1. Process(s, m, verdict, withheld) = NextLogon(s, m, verdict)
    BY <1>6 DEF Process, Dispatch
  <2>2. Grows(s, s1) /\ Numbered(s1)
    BY <1>1 DEF Grows, Numbered, Fields
  <2>3. resetting => m.flag \/ (~s.cfg.initiate /\ s.cfg.resetOnLogon)
    BY <2>2 DEF Grows
  <2>4. resetting /\ Passes(s1, m, FALSE, ~resetting, verdict) => ~(m.num > 1)
    <3>1. ASSUME Passes(s1, m, FALSE, ~resetting, verdict)
          PROVE  m.defect # "badHeader" /\ verdict = "accept"
      BY <3>1 DEF Passes, VerifyOutcome
    <3>2. m.defect \in Defects
      BY IncomingType DEF Message
    <3> QED BY <1>6, <2>3, <3>1, <3>2 DEF Defects
  <2>5. \/ NextLogon(s, m, verdict) = Disconnect(s1)
        \/ /\ NextLogon(s, m, verdict) = Refused(s1, m, FALSE, ~resetting, verdict)
           /\ ~Passes(s1, m, FALSE, ~resetting, verdict)
        \/ /\ NextLogon(s, m, verdict) = LogonAccepted(s4, m)
           /\ Passes(s1, m, FALSE, ~resetting, verdict)
    BY DEF NextLogon
  <2> HIDE DEF s1
  <2>6. Grows(s, Disconnect(s1))
    <3>1. Grows(s1, Disconnect(s1))
      BY <2>2, SendGrows DEF Grows
    <3> QED BY <1>1, <2>2, <3>1, GrowsTransitive
  <2>7. ~Passes(s1, m, FALSE, ~resetting, verdict)
          => Grows(s, Refused(s1, m, FALSE, ~resetting, verdict))
    <3> DEFINE low == ~resetting
    <3> HIDE DEF low
    <3>1. ~Passes(s1, m, FALSE, low, verdict) => Grows(s1, Refused(s1, m, FALSE, low, verdict))
      BY <2>2, RefusedLogonGrows DEF Grows
    <3>2. ~Passes(s1, m, FALSE, low, verdict) => Grows(s, Refused(s1, m, FALSE, low, verdict))
      BY <1>1, <2>2, <3>1, GrowsTransitive
    <3> QED BY <3>2 DEF low
  <2>8. ASSUME Passes(s1, m, FALSE, ~resetting, verdict)
        PROVE  TookLogon(LogonAccepted(s4, m)) \/ Grows(s, LogonAccepted(s4, m))
    <3>1. Grows(s1, s2) /\ Numbered(s2) /\ s2.cfg = s1.cfg
      BY <2>2 DEF VerifyPassed, Grows, Numbered, Fields
    <3> HIDE DEF s2
    <3>2. CASE m.num # 0 /\ m.num > s4.sender
      <4>1. ~resetting
        <5>1. ASSUME resetting PROVE s4.sender = 1
          BY <3>1, <5>1 DEF Reset, Numbered, Fields
        <5>2. m.num \in Nat
          BY IncomingType
        <5> QED BY <2>4, <2>8, <3>2, <5>1, <5>2
      <4>2. s4 = [s2 EXCEPT !.receivedLogon = TRUE]
        BY <4>1
      <4>3. LogonAccepted(s4, m) = Disconnect(GenerateLogout(s4))
        BY <3>2 DEF LogonAccepted
      <4> HIDE DEF s4, s3
      <4>4. Grows(s, s4) /\ Numbered(s4)
        <5>1. Grows(s2, s4)
          BY <3>1, <4>2 DEF Grows, Numbered, Fields
        <5>2. Grows(s, s2)
          BY <1>1, <2>2, <3>1, GrowsTransitive
        <5> QED BY <1>1, <5>1, <5>2, GrowsTransitive DEF Grows
      <4>5. Grows(s4, Disconnect(GenerateLogout(s4)))
        BY <4>4, RefusalsGrow DEF Grows
      <4> QED BY <1>1, <4>3, <4>4, <4>5, GrowsTransitive
    <3>3. CASE ~(m.num # 0 /\ m.num > s4.sender)
      <4>1. DOMAIN s3 = Fields
        BY <3>1 DEF Reset, Numbered
      <4> HIDE DEF s3
      <4>2. TookLogon(s4)
        BY <4>1 DEF TookLogon, Fields
      <4> HIDE DEF s4
      <4> QED BY <3>3, <4>2, LogonAcceptedTakes
    <3> QED BY <3>2, <3>3
  <2> QED BY <2>1, <2>5, <2>6, <2>7, <2>8
<1> QED BY <1>2, <1>3, <1>4, <1>5, <1>6

\* nextLogon starts the numbers over only for a Logon it takes, whichever check of
\* next(), verify() or the application refuses the others; all but the check of
\* NextExpectedMsgSeqNum, which nextLogon makes after its reset.
THEOREM RefusedLogonLeavesNumbers == Spec => []RefusedBeforeReset
<1>1. IInv => RefusedBeforeReset
  <2> SUFFICES ASSUME IInv, st.sched = "same", ~st.cfg.resetOnDisconnect,
                      NEW m \in Incoming, m.type = "Logon", NEW verdict \in Verdicts(m),
                      ~(/\ m.num > 1 /\ (m.flag \/ st.cfg.resetOnLogon)
                        /\ m.defect \in {"none", "noOrig", "lateOrig"} /\ verdict = "accept")
               PROVE  LET r == Received(st, m, verdict, {}) IN
                        r.receivedLogon \/ (r.target >= st.target /\ r.sender >= st.sender)
    BY DEF RefusedBeforeReset, TakenOrKept
  <2> DEFINE f == Fresh(st)
             t == Process(f, m, verdict, {})
             x == IF Exit(f, m, verdict) = "return" THEN "idle" ELSE "drain"
  <2>1. Base(f) /\ f.sched = "same" /\ f.cfg = st.cfg
        /\ f.target = st.target /\ f.sender = st.sender
    <3>1. Base(st)
      BY DEF IInv
    <3>2. Base(f)
      BY <3>1, FreshKeeps DEF Keeps
    <3> QED BY <3>1, <3>2 DEF Fresh, Base, Fields
  <2>2. Received(st, m, verdict, {}) = [t EXCEPT !.pc = x]
    BY DEF Received
  <2> HIDE DEF f
  <2>3. TookLogon(t) \/ Grows(f, t)
    BY <2>1, LogonTakenOrGrows
  <2> HIDE DEF t, x
  <2>4. CASE TookLogon(t)
    BY <2>2, <2>4 DEF TookLogon, Fields
  <2>5. CASE Grows(f, t)
    BY <2>1, <2>2, <2>5 DEF Grows, Numbered, Fields
  <2> QED BY <2>3, <2>4, <2>5
<1> QED BY <1>1, Inductive, PTL

=============================================================================
