-------------------------- MODULE SessionHandlers --------------------------
(***************************************************************************)
(* What one FIX session does: src/C++/Session.cpp and SessionState.h.  The *)
(* whole state of a session is one record, and every method of Session     *)
(* that changes state is an operator from a state to a state, so that a    *)
(* handler reads as the composition of the methods it calls.               *)
(*                                                                         *)
(* One handler, from the call of next() to its return, is one step, except *)
(* that the loop of nextQueued takes one step per queued message, between  *)
(* which application threads may send.                                     *)
(***************************************************************************)
EXTENDS Integers, Sequences, FiniteSets, SequencesExt

CONSTANTS
  BusinessReject, \* the body of a BusinessMessageReject, an application message
  NoBody          \* "body" of an administrative message

\* The settings of a session: SessionSettings read by SessionFactory, and the
\* kind of transport (threaded: ThreadedSocketAcceptor and -Initiator).
Config == [initiate : BOOLEAN, resetOnLogon : BOOLEAN, resetOnLogout : BOOLEAN,
           resetOnDisconnect : BOOLEAN, persist : BOOLEAN, nextExpected : BOOLEAN,
           redundant : BOOLEAN, threaded : BOOLEAN,
           logonTimeout : Nat \ {0}, logoutTimeout : Nat \ {0}]

AdminTypes == {"Logon", "Heartbeat", "TestRequest", "ResendRequest", "Reject",
               "SequenceReset", "Logout"}
MsgTypes == AdminTypes \cup {"App"}

(***************************************************************************)
(* A message.  "flag" is ResetSeqNumFlag of a Logon and GapFillFlag of a   *)
(* SequenceReset; "num" is NextExpectedMsgSeqNum of a Logon (0: absent),   *)
(* NewSeqNo of a SequenceReset and BeginSeqNo of a ResendRequest; "end" is *)
(* EndSeqNo (0: infinity); "hb" is HeartBtInt of a Logon.  "defect" is     *)
(* what is wrong with it:                                                  *)
(*   garbled     it does not parse: InvalidMessage                         *)
(*   noCompID    SenderCompID or TargetCompID is missing                   *)
(*   badVersion  the BeginString of another version                        *)
(*   invalid     the data dictionary refuses it                            *)
(*   badHeader   SendingTime too far off, or wrong CompIDs                 *)
(*   noOrig      a possible duplicate without OrigSendingTime              *)
(*   lateOrig    a possible duplicate with OrigSendingTime > SendingTime   *)
(***************************************************************************)
Defects == {"none", "garbled", "noCompID", "badVersion", "invalid", "badHeader", "noOrig", "lateOrig"}

\* Session::newMessage: a message of a type, without fields.
NewMessage(type) ==
  [type |-> type, seq |-> 0, possDup |-> FALSE, flag |-> FALSE, num |-> 0,
   end |-> 0, hb |-> 0, body |-> NoBody, defect |-> "none"]

\* What the application's fromAdmin or fromApp does with a message: return, or
\* throw IncorrectTagValue, FieldNotFound (UnsupportedMessageType is handled
\* alike) or RejectLogon.
Verdicts(m) == {"accept", "incorrectValue", "fieldNotFound"}
                 \cup IF m.type = "App" THEN {} ELSE {"rejectLogon"}

(***************************************************************************)
(* The fields of a state.  sched places now against the session's          *)
(* schedule: "same" (checkSessionTime is true), "closed" (outside the      *)
(* session's hours) or "new" (inside them, with a store created in an      *)
(* earlier session).  enabled is m_enabled and isLogonTime(now).  conn is  *)
(* "open" while the transport has a connection bound to the session, which *)
(* the session may already have disconnected: then responder is FALSE and  *)
(* the transport is still passing on what it had read.  sender, target,    *)
(* store are the MessageStore.  out and got are what the current step sent *)
(* and passed to fromApp; seen is the numbers passed to fromApp since the  *)
(* numbering last started over.  tail is the BeginSeqNo nextLogon has yet  *)
(* to retransmit from (0: nothing).                                        *)
(***************************************************************************)
InitState(c, hb) ==
  [cfg |-> c, enabled |-> TRUE, sched |-> "same", conn |-> "none",
   responder |-> FALSE, receivedLogon |-> FALSE, sentLogon |-> FALSE,
   sentLogout |-> FALSE, receivedReset |-> FALSE, sentReset |-> FALSE,
   testRequest |-> 0, resendRange |-> <<0, 0>>, heartBtInt |-> hb,
   sinceSent |-> 0, sinceReceived |-> 0, queue |-> <<>>,
   sender |-> 1, target |-> 1, store |-> <<>>,
   out |-> <<>>, got |-> <<>>, seen |-> {}, pc |-> "idle", tail |-> 0]

-----------------------------------------------------------------------------
(* SessionState.h *)

IsLoggedOn(s) == s.receivedLogon /\ s.sentLogon
ShouldSendLogon(s) == s.cfg.initiate /\ ~s.sentLogon
AlreadySentLogon(s) == s.cfg.initiate /\ s.sentLogon

\* The timer conditions of SessionState.h; 1.2 and 2.4 heartbeat
\* intervals are kept exact by scaling both sides by ten.
LogonTimedOut(s) == s.sinceReceived >= s.cfg.logonTimeout
LogoutTimedOut(s) == s.sentLogout /\ s.sinceSent >= s.cfg.logoutTimeout
WithinHeartBeat(s) == s.sinceSent < s.heartBtInt /\ s.sinceReceived < s.heartBtInt
TimedOutPutOff(s) == \* mutant: each test request puts the end off
  10 * s.sinceReceived >= 24 * (s.testRequest + 1) * s.heartBtInt
TimedOut(s) == 10 * s.sinceReceived >= 24 * s.heartBtInt
NeedHeartbeat(s) == s.sinceSent >= s.heartBtInt /\ s.testRequest = 0
NeedTestRequest(s) == 10 * s.sinceReceived >= 12 * (s.testRequest + 1) * s.heartBtInt

ResendRequested(s) == s.resendRange # <<0, 0>>

\* SessionState::queue, ::retrieve (its erase) and ::clearQueueUpTo.
Queue(s, m) ==
  [s EXCEPT !.queue = [n \in DOMAIN s.queue \cup {m.seq} |->
                         IF n = m.seq THEN m ELSE s.queue[n]]]
Unqueue(s, n) == [s EXCEPT !.queue = [k \in DOMAIN s.queue \ {n} |-> s.queue[k]]]
ClearQueueUpToNothing(s, n) == s \* mutant: skipped messages stay queued
ClearQueueUpTo(s, n) ==
  [s EXCEPT !.queue = [k \in {j \in DOMAIN s.queue : j >= n} |-> s.queue[k]]]

IncrTarget(s) == [s EXCEPT !.target = s.target + 1]

\* SessionState::reset: a store created now, and with it the inbound queue and
\* the resend range.
Reset(s) ==
  [s EXCEPT !.sender = 1, !.target = 1, !.store = <<>>, !.queue = <<>>,
            !.resendRange = <<0, 0>>, !.seen = {},
            !.sched = IF s.sched = "closed" THEN "closed" ELSE "same"]

-----------------------------------------------------------------------------
(* Sending *)

\* Session::send(const std::string &): nothing leaves without a responder.
Transmit(s, m) == IF s.responder THEN [s EXCEPT !.out = Append(s.out, m)] ELSE s

\* Mutant of Persist: only application messages are stored.
PersistBodies(s, m) ==
  [s EXCEPT !.store = IF m.body = NoBody THEN s.store ELSE
                        [n \in DOMAIN s.store \cup {m.seq} |->
                           IF n = m.seq THEN m.body ELSE s.store[n]],
            !.sender = s.sender + 1]

\* Session::persist.
Persist(s, m) ==
  [s EXCEPT !.store = IF s.cfg.persist
                      THEN [n \in DOMAIN s.store \cup {m.seq} |->
                              IF n = m.seq THEN m.body ELSE s.store[n]]
                      ELSE s.store,
            !.sender = s.sender + 1]

ShouldSendReset(s) ==
  /\ s.cfg.resetOnLogon \/ s.cfg.resetOnLogout \/ s.cfg.resetOnDisconnect
  /\ s.sender = 1 /\ s.target = 1

SentBeforeLogon == {"Logon", "Logout", "ResendRequest", "SequenceReset"}

\* sendSequenced's own work on a Logon: one that carries ResetSeqNumFlag starts
\* the numbering over, unless it answers the peer's.
LogonReset(s, m) ==
  IF m.type # "Logon" \/ s.receivedReset THEN s
  ELSE [(IF m.flag THEN Reset(s) ELSE s) EXCEPT !.sentReset = m.flag]

\* sendRaw and sendSequenced of an administrative message without a number of
\* its own.
SendRaw(s, m) ==
  LET s1 == LogonReset([s EXCEPT !.sinceSent = 0], m)
      m1 == [m EXCEPT !.seq = s1.sender]
      s2 == Persist(s1, m1)
  IN IF m.type \in SentBeforeLogon \/ IsLoggedOn(s2) THEN Transmit(s2, m1) ELSE s2

\* sendRaw and sendSequenced of an application message: refused while it would
\* only be cleared by the reset of the coming Logon.
SendApp(s, body) ==
  LET s1 == [s EXCEPT !.sinceSent = 0]
      m == [NewMessage("App") EXCEPT !.seq = s.sender, !.body = body]
      s2 == Persist(s1, m)
  IN IF ~IsLoggedOn(s) /\ ShouldSendReset(s) THEN s
     ELSE IF IsLoggedOn(s) THEN Transmit(s2, m) ELSE s2

GenerateHeartbeat(s) == SendRaw(s, NewMessage("Heartbeat"))
GenerateTestRequest(s) == SendRaw(s, NewMessage("TestRequest"))

GenerateLogout(s) ==
  [SendRaw(s, NewMessage("Logout")) EXCEPT !.sentLogout = TRUE]

\* generateLogon(): the initiator's own Logon.
GenerateLogon(s) ==
  LET s1 == IF s.cfg.resetOnLogon THEN Reset(s) ELSE s
      m == [NewMessage("Logon") EXCEPT
              !.flag = ShouldSendReset(s1), !.hb = s1.heartBtInt,
              !.num = IF s1.cfg.nextExpected THEN s1.target ELSE 0]
  IN SendRaw([s1 EXCEPT !.sinceReceived = 0, !.testRequest = 0, !.sentLogon = TRUE], m)

\* generateLogon(const Message &): the answer to a Logon, whose own number has
\* not been counted yet.
GenerateLogonReply(s, logon) ==
  LET m == [NewMessage("Logon") EXCEPT
              !.flag = s.receivedReset, !.hb = logon.hb,
              !.num = IF s.cfg.nextExpected THEN s.target + 1 ELSE 0]
  IN [SendRaw(s, m) EXCEPT !.sentLogon = TRUE]

GenerateResendRequest(s, n) ==
  [SendRaw(s, [NewMessage("ResendRequest") EXCEPT !.num = s.target])
     EXCEPT !.resendRange = <<s.target, n - 1>>]

GapFillShort(b, e) == \* mutant: NewSeqNo is the last number of the gap
  [NewMessage("SequenceReset") EXCEPT !.seq = b, !.num = e - 1, !.flag = TRUE, !.possDup = TRUE]
GapFillLong(b, e) == \* mutant: NewSeqNo is one past the number after the gap
  [NewMessage("SequenceReset") EXCEPT !.seq = b, !.num = e + 1, !.flag = TRUE, !.possDup = TRUE]
GapFill(b, e) ==
  [NewMessage("SequenceReset") EXCEPT !.seq = b, !.num = e, !.flag = TRUE, !.possDup = TRUE]

\* generateSequenceReset: a gap fill has the number of the gap; it is neither
\* numbered nor stored.
GenerateSequenceReset(s, b, e) == Transmit([s EXCEPT !.sinceSent = 0], GapFill(b, e))

\* generateReject counts the refused message if it was the expected one, and
\* throws rather than send a Reject before the Logon.
RejectThrows(s) == ~s.receivedLogon
GenerateRejectUncounted(s, m) == \* mutant: never counts what it rejects
  IF RejectThrows(s) THEN s ELSE SendRaw(s, NewMessage("Reject"))
GenerateReject(s, m) ==
  LET s1 == [s EXCEPT !.sinceSent = 0]
      s2 == IF m.type \notin {"Logon", "SequenceReset"} /\ m.seq = s.target
            THEN IncrTarget(s1) ELSE s1
  IN IF RejectThrows(s) THEN s2 ELSE SendRaw(s2, NewMessage("Reject"))

GenerateBusinessReject(s, m) == SendApp(IncrTarget(s), BusinessReject)

-----------------------------------------------------------------------------
(* Retransmission *)

\* The elements of a finite set of numbers, in ascending order.
Ascending(S) ==
  [i \in 1..Cardinality(S) |-> CHOOSE n \in S : Cardinality({k \in S : k < n}) = i - 1]

\* The messages generateRetransmits sends for b..e: each stored application
\* message the application does not withhold, with PossDupFlag, and a gap fill
\* over every run of others; its begin of 0 stands for no gap.
Retransmits(s, b, e, withheld) ==
  LET nums == {n \in DOMAIN s.store : b <= n /\ n <= e}
      resent == {n \in nums : s.store[n] # NoBody /\ n \notin withheld}
      last == IF nums = {} THEN 0 ELSE Max(nums)
      first == IF b = 0 THEN 1 ELSE b
      gaps == {n \in first..last : n \notin resent /\ (n = first \/ n - 1 \in resent)}
      resend(n) == [NewMessage("App") EXCEPT
                      !.seq = n, !.body = s.store[n], !.possDup = TRUE]
      fill(n) == GapFill(n, Min({k \in resent : k > n} \cup {last + 1}))
      order == Ascending(resent \cup gaps)
  IN [i \in DOMAIN order |->
        IF order[i] \in resent THEN resend(order[i]) ELSE fill(order[i])]
     \o (IF e <= last THEN <<>>
         ELSE <<GapFill(IF last # 0 /\ last \in resent THEN last + 1 ELSE b,
                        IF e + 1 > s.sender THEN s.sender ELSE e + 1)>>)

\* The number after the last one that a retransmitted message stands for.
NumberAfter(m) == IF m.type = "SequenceReset" THEN m.num ELSE m.seq + 1

\* The retransmission leaves in one piece; only its gap fills count as sent for
\* the heartbeat timer.
GenerateRetransmits(s, b, e, withheld) ==
  LET r == Retransmits(s, b, e, withheld)
      filled == \E i \in DOMAIN r : r[i].type = "SequenceReset"
  IN [s EXCEPT !.sinceSent = IF filled THEN 0 ELSE s.sinceSent,
               !.out = IF s.responder THEN s.out \o r ELSE s.out]

\* The common end of nextResendRequest and of nextLogon: the messages b..e, or
\* one gap fill when messages are not kept.
RetransmitOrFill(s, b, e, withheld) ==
  IF s.cfg.persist THEN GenerateRetransmits(s, b, e, withheld)
  ELSE GenerateSequenceReset(s, b, IF e + 1 > s.sender THEN s.sender ELSE e + 1)

-----------------------------------------------------------------------------
(* Disconnecting *)

\* Mutant of Disconnect: the reset flags outlive the connection.
DisconnectKeepsFlags(s) ==
  [s EXCEPT !.responder = FALSE, !.receivedLogon = FALSE, !.sentLogon = FALSE,
            !.sentLogout = FALSE, !.queue = <<>>, !.resendRange = <<0, 0>>]

Disconnect(s) ==
  LET s1 == IF s.cfg.resetOnDisconnect THEN Reset(s) ELSE s
  IN [s1 EXCEPT !.responder = FALSE, !.receivedLogon = FALSE, !.sentLogon = FALSE,
                !.sentLogout = FALSE, !.receivedReset = FALSE, !.sentReset = FALSE,
                !.queue = <<>>, !.resendRange = <<0, 0>>]

\* Session::reset.
ResetSession(s) == Reset(Disconnect(GenerateLogout(s)))

\* setResponder: a session outside its time is reset first.
SetResponder(s, r) ==
  [(IF s.sched # "same" THEN ResetSession(s) ELSE s) EXCEPT !.responder = r]

-----------------------------------------------------------------------------
(* Verifying *)

ValidLogonState(s, type) ==
  \/ s.receivedReset
  \/ type = "Logon" /\ (s.sentReset \/ ~s.receivedLogon)
  \/ type # "Logon" /\ s.receivedLogon
  \/ type = "Logout" /\ s.sentLogon
  \/ type # "Logout" /\ s.sentLogout
  \/ type \in {"SequenceReset", "Reject"}

\* The check of verify() a message stops at; "ok" when it passes them all.
VerifyOutcomeNoTooHigh(s, m, checkTooHigh, checkTooLow) == \* mutant: no gap is seen
  IF ~ValidLogonState(s, m.type) THEN "badState"
  ELSE IF m.defect = "badHeader" THEN "badHeader"
  ELSE IF checkTooLow /\ m.seq < s.target THEN "tooLow"
  ELSE "ok"
VerifyOutcome(s, m, checkTooHigh, checkTooLow) ==
  IF ~ValidLogonState(s, m.type) THEN "badState"
  ELSE IF m.defect = "badHeader" THEN "badHeader"
  ELSE IF checkTooHigh /\ m.seq > s.target THEN "tooHigh"
  ELSE IF checkTooLow /\ m.seq < s.target THEN "tooLow"
  ELSE "ok"

\* doTargetTooHigh: the message waits in the queue, and the gap before it is
\* requested unless a request that covers its beginning is outstanding.
DoTargetTooHighUnasked(s, m) == Queue(s, m) \* mutant: waits, and asks for nothing
DoTargetTooHigh(s, m) ==
  LET s1 == Queue(s, m)
  IN IF ResendRequested(s1) /\ ~s1.cfg.redundant /\ m.seq >= s1.resendRange[1]
     THEN s1
     ELSE GenerateResendRequest(s1, m.seq)

\* A Reject inside verify(): what generateReject throws before the Logon makes
\* verify() disconnect; otherwise the Logout of doBadTime, doBadCompID and
\* doPossDup follows if asked for.
RejectInVerify(s, m, thenLogout) ==
  LET s1 == GenerateReject(s, m)
  IN IF RejectThrows(s) THEN Disconnect(s1)
     ELSE IF thenLogout THEN GenerateLogout(s1) ELSE s1

DoPossDup(s, m) ==
  IF m.type = "SequenceReset" \/ m.defect \notin {"noOrig", "lateOrig"} THEN s
  ELSE RejectInVerify(s, m, m.defect = "lateOrig")

DoTargetTooLow(s, m) ==
  IF m.possDup THEN DoPossDup(s, m) ELSE Disconnect(GenerateLogout(s))

VerifyFailed(s, m, outcome) ==
  CASE outcome = "badState" -> Disconnect(s)
    [] outcome = "badHeader" -> RejectInVerify(s, m, TRUE)
    [] outcome = "tooHigh" -> DoTargetTooHigh(s, m)
    [] outcome = "tooLow" -> DoTargetTooLow(s, m)

\* What verify() does with a message that passes: a resend request it satisfies
\* is over, and the application sees the message.
VerifyPassed(s, m, checked) ==
  LET satisfied == checked /\ ResendRequested(s) /\ m.seq >= s.resendRange[2]
      app == m.type = "App"
  IN [s EXCEPT !.resendRange = IF satisfied THEN <<0, 0>> ELSE s.resendRange,
               !.sinceReceived = 0, !.testRequest = 0,
               !.got = IF app THEN Append(s.got, m.body) ELSE s.got,
               !.seen = IF app THEN s.seen \cup {m.seq} ELSE s.seen]

\* The handlers of next() for what the application throws.
Thrown(s, m, verdict) ==
  CASE verdict = "rejectLogon" -> Disconnect(GenerateLogout(s))
    [] verdict = "incorrectValue" -> GenerateReject(s, m)
    [] verdict = "fieldNotFound" ->
         IF m.type = "App" THEN GenerateBusinessReject(s, m)
         ELSE IF m.type = "Logon" THEN Disconnect(GenerateReject(s, m))
         ELSE GenerateReject(s, m)

\* verify() returns true: the message passes and the application returns.
Passes(s, m, checkTooHigh, checkTooLow, verdict) ==
  VerifyOutcome(s, m, checkTooHigh, checkTooLow) = "ok" /\ verdict = "accept"

\* The rest of next() for a message that does not pass.
Refused(s, m, checkTooHigh, checkTooLow, verdict) ==
  LET outcome == VerifyOutcome(s, m, checkTooHigh, checkTooLow)
  IN IF outcome # "ok" THEN VerifyFailed(s, m, outcome)
     ELSE Thrown(VerifyPassed(s, m, checkTooHigh \/ checkTooLow), m, verdict)

-----------------------------------------------------------------------------
(* The handlers of one message *)

\* nextLogon from the peer's NextExpectedMsgSeqNum on; s.receivedLogon is set.
LogonAccepted(s, m) ==
  LET behind == m.num # 0 /\ m.num < s.sender
      answer == ~s.cfg.initiate \/ (s.receivedReset /\ ~s.sentReset)
      s1 == IF answer THEN GenerateLogonReply([s EXCEPT !.heartBtInt = m.hb], m) ELSE s
      s2 == [s1 EXCEPT !.sentReset = FALSE, !.receivedReset = FALSE,
                       !.tail = IF behind THEN m.num ELSE 0]
  IN IF m.num # 0 /\ m.num > s.sender THEN Disconnect(GenerateLogout(s))
     ELSE IF m.seq <= s2.target \/ m.flag THEN IncrTarget(s2)
     ELSE IF s2.cfg.nextExpected
     THEN [Queue(s2, m) EXCEPT !.resendRange = <<s2.target, m.seq - 1>>]
     ELSE DoTargetTooHigh(s2, m)

\* The reset a Logon asks for, or the acceptor's ResetOnLogon, is applied after
\* verify(); the too-low check waits for it.
NextLogonResetsFirst(s, m, verdict) == \* mutant: resets before it verifies
  LET s1 == [(IF m.flag THEN Reset(s) ELSE s) EXCEPT !.receivedReset = m.flag]
  IN IF ~s.enabled \/ (ShouldSendLogon(s1) /\ ~m.flag) THEN Disconnect(s1)
     ELSE IF Passes(s1, m, FALSE, TRUE, verdict)
     THEN LogonAccepted([VerifyPassed(s1, m, TRUE) EXCEPT !.receivedLogon = TRUE], m)
     ELSE Refused(s1, m, FALSE, TRUE, verdict)
NextLogon(s, m, verdict) ==
  LET s1 == [s EXCEPT !.receivedReset = m.flag]
      resetting == (m.flag /\ ~s1.sentReset) \/ (~s1.cfg.initiate /\ s1.cfg.resetOnLogon)
      s2 == VerifyPassed(s1, m, ~resetting)
      s3 == IF resetting THEN Reset(s2) ELSE s2
  IN IF ~s.enabled \/ (ShouldSendLogon(s1) /\ ~m.flag) THEN Disconnect(s1)
     ELSE IF Passes(s1, m, FALSE, ~resetting, verdict)
     THEN LogonAccepted([s3 EXCEPT !.receivedLogon = TRUE], m)
     ELSE Refused(s1, m, FALSE, ~resetting, verdict)

\* nextHeartbeat, and next() for an application message.
NextHeartbeat(s, m, verdict) ==
  IF Passes(s, m, TRUE, TRUE, verdict) THEN IncrTarget(VerifyPassed(s, m, TRUE))
  ELSE Refused(s, m, TRUE, TRUE, verdict)
NextApp(s, m, verdict) ==
  IF Passes(s, m, TRUE, TRUE, verdict) THEN IncrTarget(VerifyPassed(s, m, TRUE))
  ELSE Refused(s, m, TRUE, TRUE, verdict)

NextTestRequest(s, m, verdict) ==
  IF Passes(s, m, TRUE, TRUE, verdict)
  THEN IncrTarget(GenerateHeartbeat(VerifyPassed(s, m, TRUE)))
  ELSE Refused(s, m, TRUE, TRUE, verdict)

NextReject(s, m, verdict) ==
  IF Passes(s, m, FALSE, TRUE, verdict) THEN IncrTarget(VerifyPassed(s, m, TRUE))
  ELSE Refused(s, m, FALSE, TRUE, verdict)

\* The number of a Logout is not compared with the expected one, and the
\* expected one is counted all the same.
LogoutAccepted(s) ==
  LET s1 == IncrTarget(IF s.sentLogout THEN s ELSE GenerateLogout(s))
  IN Disconnect(IF s1.cfg.resetOnLogout THEN Reset(s1) ELSE s1)
NextLogout(s, m, verdict) ==
  IF Passes(s, m, FALSE, FALSE, verdict) THEN LogoutAccepted(VerifyPassed(s, m, FALSE))
  ELSE Refused(s, m, FALSE, FALSE, verdict)

\* Messages queued below the new expected number were skipped by the peer.
SequenceResetAcceptedBack(s, m) == \* mutant: the numbers may also go back
  ClearQueueUpTo([s EXCEPT !.target = m.num], m.num)
SequenceResetAccepted(s, m) ==
  IF m.num > s.target THEN ClearQueueUpTo([s EXCEPT !.target = m.num], m.num)
  ELSE IF m.num < s.target /\ ~m.flag THEN GenerateReject(s, m)
  ELSE s
NextSequenceReset(s, m, verdict) ==
  IF Passes(s, m, m.flag, m.flag, verdict)
  THEN SequenceResetAccepted(VerifyPassed(s, m, m.flag), m)
  ELSE Refused(s, m, m.flag, m.flag, verdict)

ResendRequestAccepted(s, m, withheld) ==
  LET e == IF m.end = 0 \/ m.end >= s.sender THEN s.sender - 1 ELSE m.end
      s1 == RetransmitOrFill(s, m.num, e, withheld)
  IN IF m.seq = s1.target THEN IncrTarget(s1) ELSE s1
NextResendRequest(s, m, verdict, withheld) ==
  IF Passes(s, m, FALSE, FALSE, verdict)
  THEN ResendRequestAccepted(VerifyPassed(s, m, FALSE), m, withheld)
  ELSE Refused(s, m, FALSE, FALSE, verdict)

Dispatch(s, m, verdict, withheld) ==
  CASE m.type = "Logon" -> NextLogon(s, m, verdict)
    [] m.type = "Heartbeat" -> NextHeartbeat(s, m, verdict)
    [] m.type = "TestRequest" -> NextTestRequest(s, m, verdict)
    [] m.type = "SequenceReset" -> NextSequenceReset(s, m, verdict)
    [] m.type = "Logout" -> NextLogout(s, m, verdict)
    [] m.type = "ResendRequest" -> NextResendRequest(s, m, verdict, withheld)
    [] m.type = "Reject" -> NextReject(s, m, verdict)
    [] m.type = "App" -> NextApp(s, m, verdict)

\* A message of another version: a Logout is answered as ever, anything else
\* with a Logout, and counted.  Here nothing catches what the application throws.
UnsupportedVersion(s, m, verdict) ==
  IF m.type # "Logout" THEN IncrTarget(GenerateLogout(s))
  ELSE IF VerifyOutcome(s, m, FALSE, FALSE) = "ok" /\ verdict # "accept"
  THEN VerifyPassed(s, m, FALSE)
  ELSE NextLogout(s, m, verdict)

\* A message that does not parse is dropped; a Logon, or any before the Logon,
\* costs the connection, which a threaded transport retires at once.
Garbled(s, m) ==
  LET s1 == IF m.type = "Logon" THEN Disconnect(s) ELSE s
  IN IF s1.cfg.threaded /\ ~IsLoggedOn(s1)
     THEN [SetResponder(s1, FALSE) EXCEPT !.conn = "none"] ELSE s1

\* next(const Message &) up to the end of its handlers.  A CompID that is missing is
\* noticed before anything else of the message, and answered as a field that the
\* application misses: a business reject counts whatever number the message has.
Process(s, m, verdict, withheld) ==
  IF m.defect = "garbled" THEN Garbled(s, m)
  ELSE IF s.sched # "same" THEN ResetSession(s)
  ELSE IF m.defect = "noCompID" THEN Thrown(s, m, "fieldNotFound")
  ELSE IF m.defect = "badVersion" THEN UnsupportedVersion(s, m, verdict)
  ELSE IF m.defect = "invalid" THEN GenerateReject(s, m)
  ELSE Dispatch(s, m, verdict, withheld)

\* How next() goes on from there.  "return": it returns, or an exception leaves
\* it.  "nested": the handler has drained the queue itself.  "next": it drains
\* the queue and then runs the timer.
Exit(s, m, verdict) ==
  LET app == m.type = "App"
      outcome == VerifyOutcome(s, m, m.type # "Reject", TRUE)
      resetOutcome == VerifyOutcome(s, m, m.flag, m.flag)
  IN IF m.defect = "garbled" \/ s.sched # "same" THEN "return"
     ELSE IF m.defect = "badVersion" THEN
       IF m.type = "Logout" /\ VerifyOutcome(s, m, FALSE, FALSE) = "ok" /\ verdict # "accept"
       THEN "return" ELSE "next"
     ELSE IF m.defect \in {"noCompID", "invalid"} THEN "next"
     ELSE IF app THEN IF outcome = "ok" THEN "next" ELSE "return"
     ELSE IF m.type = "SequenceReset" THEN
       IF resetOutcome # "ok" \/ verdict # "accept" THEN "next"
       ELSE IF m.num > s.target THEN "nested"
       ELSE IF m.num < s.target /\ ~m.flag /\ RejectThrows(s) THEN "return" ELSE "next"
     ELSE IF m.type \in {"Heartbeat", "TestRequest", "Reject"}
             /\ outcome = "ok" /\ verdict = "accept" THEN "nested"
     ELSE "next"

-----------------------------------------------------------------------------
(* The timer: next(const UtcTimeStamp &) *)

TimerBeforeLogonUntimed(s) == \* mutant: waits for the answer for ever
  IF ShouldSendLogon(s) THEN GenerateLogon(s) ELSE s
TimerBeforeLogon(s) ==
  IF ShouldSendLogon(s) THEN GenerateLogon(s)
  ELSE IF AlreadySentLogon(s) /\ LogonTimedOut(s) THEN Disconnect(s)
  ELSE s

TimerHeartbeat(s) ==
  IF WithinHeartBeat(s) THEN s
  ELSE IF TimedOut(s) THEN Disconnect(s)
  ELSE IF NeedTestRequest(s)
  THEN [GenerateTestRequest(s) EXCEPT !.testRequest = s.testRequest + 1]
  ELSE IF NeedHeartbeat(s) THEN GenerateHeartbeat(s)
  ELSE s

TimerStep(s) ==
  LET s1 == IF ~s.enabled /\ ~s.sentLogout THEN GenerateLogout(s) ELSE s
      s2 == IF LogoutTimedOut(s1) THEN Disconnect(s1) ELSE s1
  IN IF s.sched # "same" THEN ResetSession(s)
     ELSE IF ~s.enabled /\ ~IsLoggedOn(s) THEN s
     ELSE IF ~s1.receivedLogon THEN TimerBeforeLogon(s1)
     ELSE IF s1.heartBtInt = 0 THEN s1
     ELSE TimerHeartbeat(s2)

TimerIfLoggedOn(s) == IF IsLoggedOn(s) THEN TimerStep(s) ELSE s

\* The end of nextLogon: the messages the peer's NextExpectedMsgSeqNum says it
\* has missed.
LogonTail(s, withheld) ==
  IF s.tail = 0 THEN s
  ELSE [RetransmitOrFill(s, s.tail, s.sender - 1, withheld) EXCEPT !.tail = 0]

-----------------------------------------------------------------------------
(* The steps of a session: each from a state in which it may be taken *)

Fresh(s) == [s EXCEPT !.out = <<>>, !.got = <<>>]

\* The transport binds a new connection to the session.
MayConnect(s) == s.pc = "idle" /\ s.conn = "none"
Connected(s) == [SetResponder(Fresh(s), TRUE) EXCEPT !.conn = "open"]

\* The connection ends.  A select transport's onDisconnect disconnects the
\* session; a threaded one does so unless its socket was already shut down,
\* and its destructor then takes the responder away.
MayEnd(s) == s.pc = "idle" /\ s.conn = "open"
Ended(s) ==
  LET s1 == IF ~s.cfg.threaded \/ s.responder THEN Disconnect(Fresh(s)) ELSE Fresh(s)
  IN [(IF s.cfg.threaded THEN SetResponder(s1, FALSE) ELSE s1) EXCEPT !.conn = "none"]

\* next(const std::string &) for a message from the wire.
MayReceive(s) == s.pc = "idle" /\ s.conn = "open"
Received(s, m, verdict, withheld) ==
  [Process(Fresh(s), m, verdict, withheld)
     EXCEPT !.pc = IF Exit(Fresh(s), m, verdict) = "return" THEN "idle" ELSE "drain"]

\* One round of nextQueued's loop.  A queued Logon or ResendRequest was handled
\* when it came; it is only counted.
MayDrain(s) == s.pc = "drain" /\ s.target \in DOMAIN s.queue
Drained(s, verdict) ==
  LET m == s.queue[s.target]
      s1 == Fresh(Unqueue(s, s.target))
      s2 == Process(s1, m, verdict, {})
  IN IF m.type \in {"Logon", "ResendRequest"} THEN IncrTarget(s1)
     ELSE IF Exit(s1, m, verdict) = "next" THEN TimerIfLoggedOn(s2)
     ELSE s2

\* The queue is drained: what nextLogon has left to do, and the timer.
MayFinish(s) == s.pc = "drain" /\ s.target \notin DOMAIN s.queue
Finished(s, withheld) ==
  [TimerIfLoggedOn(LogonTail(Fresh(s), withheld)) EXCEPT !.pc = "idle"]

\* The transport calls next(now) about once a second, also for a session that has
\* disconnected and whose connection it has not taken down yet.
MayTick(s) == s.pc = "idle" /\ s.conn = "open"
Ticked(s) == TimerStep(Fresh(s))

=============================================================================
