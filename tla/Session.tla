------------------------------ MODULE Session ------------------------------
(***************************************************************************)
(* One FIX session, in any of a set of settings: the steps of              *)
(* SessionHandlers as actions.  The peer is arbitrary: any message of      *)
(* Incoming may arrive at any time, and the application may refuse it.     *)
(***************************************************************************)
EXTENDS SessionHandlers

CONSTANTS
  Configs,        \* the settings a session may be created with
  Payloads,       \* application message bodies
  HeartBtInts,    \* heartbeat intervals, in seconds; 0 switches the timers off
  Events,         \* the operator's and the calendar's part in this instance
  Incoming,       \* the messages a peer may send
  MaxSeq,         \* bound: no new stimulus once the expected number is above it
  MaxSent,        \* bound: nor once the next number to send is above this
  MaxAge          \* bound: ages of the last sent and received message stop here

Bodies == Payloads \cup {BusinessReject}

ASSUME ConfigsAssumption == Configs \subseteq Config
ASSUME BodiesAssumption == NoBody \notin Bodies
ASSUME BoundsAssumption ==
  /\ HeartBtInts \subseteq Nat /\ HeartBtInts # {}
  /\ MaxSeq \in Nat \ {0} /\ MaxSent \in Nat /\ MaxAge \in Nat

Message == [type : MsgTypes, seq : Nat, possDup : BOOLEAN, flag : BOOLEAN,
            num : Nat, end : Nat, hb : Nat, body : Bodies \cup {NoBody},
            defect : Defects]

\* Sequence numbers start at 1, and an application message has a body.
ASSUME IncomingAssumption ==
  /\ Incoming \subseteq {m \in Message : m.seq # 0}
  /\ \A m \in Incoming : m.type = "App" <=> m.body # NoBody

VARIABLE st

-----------------------------------------------------------------------------
(* Actions *)

\* Bound: the environment starts nothing new once the numbers are this high.
Room == st.sender <= MaxSent /\ st.target <= MaxSeq

\* What the application withholds of a retransmission (DoNotSend).
Withholdings(s) == {{}, DOMAIN s.store}

\* The transport binds a connection to the session, and the connection ends.
Connect == MayConnect(st) /\ Room /\ st' = Connected(st)
ConnectionLost == MayEnd(st) /\ st' = Ended(st)

\* The session is passed a message.
Receive(m) ==
  /\ MayReceive(st) /\ Room
  /\ \E verdict \in Verdicts(m),
        withheld \in IF m.type = "ResendRequest" THEN Withholdings(st) ELSE {{}} :
          st' = Received(st, m, verdict, withheld)

\* The rest of the handler: rounds of nextQueued, and the end.
DrainQueue ==
  /\ MayDrain(st)
  /\ \E verdict \in Verdicts(st.queue[st.target]) : st' = Drained(st, verdict)
FinishMessage ==
  MayFinish(st) /\ \E withheld \in Withholdings(st) : st' = Finished(st, withheld)

\* The session's timer runs.  Bound: that of a session which has disconnected starts
\* no more Logons than there is room for.
Timer == MayTick(st) /\ (st.responder \/ Room) /\ st' = Ticked(st)

\* An application thread sends.
Send(body) ==
  /\ Room
  /\ st' = SendApp(Fresh(st), body)

\* Session::logon and ::logout, and the limits of the logon time.
SetEnabled(b) ==
  /\ "enable" \in Events /\ st.pc = "idle" /\ st.enabled # b
  /\ st' = [Fresh(st) EXCEPT !.enabled = b]

\* Session::reset, called by an operator.
OperatorReset ==
  /\ "reset" \in Events /\ st.pc = "idle" /\ Room
  /\ st' = ResetSession(Fresh(st))

\* Session::setNextTargetMsgSeqNum, called by an operator.
SetNextTargetMsgSeqNum(n) ==
  /\ "setTarget" \in Events /\ st.pc = "idle"
  /\ st' = [Fresh(st) EXCEPT !.target = n, !.queue = <<>>, !.resendRange = <<0, 0>>,
                             !.seen = {k \in st.seen : k < n}]

Older(age) == IF age < MaxAge THEN age + 1 ELSE age
Tick ==
  /\ st.pc = "idle"
  /\ st' = [Fresh(st) EXCEPT !.sinceSent = Older(st.sinceSent),
                             !.sinceReceived = Older(st.sinceReceived)]

\* The session's hours end, and begin again.
SessionTimeEnds ==
  /\ "calendar" \in Events /\ st.pc = "idle" /\ st.sched # "closed"
  /\ st' = [Fresh(st) EXCEPT !.sched = "closed"]
SessionTimeStarts ==
  /\ "calendar" \in Events /\ st.pc = "idle" /\ st.sched = "closed"
  /\ st' = [Fresh(st) EXCEPT !.sched = "new"]

Init == \E c \in Configs, hb \in HeartBtInts : st = InitState(c, hb)

Next ==
  \/ Connect \/ ConnectionLost \/ Timer \/ Tick
  \/ DrainQueue \/ FinishMessage
  \/ \E m \in Incoming : Receive(m)
  \/ \E body \in Payloads : Send(body)
  \/ \E b \in BOOLEAN : SetEnabled(b)
  \/ OperatorReset
  \/ \E n \in 1..MaxSeq : SetNextTargetMsgSeqNum(n)
  \/ SessionTimeEnds \/ SessionTimeStarts

Spec == Init /\ [][Next]_st

\* A handler in progress goes on.  The clock runs, whatever the peer sends; the
\* select transports run the session's timer once a wall-clock second and report
\* a connection the session has dropped before they wait for more messages.
Fairness ==
  /\ WF_st(DrainQueue) /\ WF_st(FinishMessage)
  /\ SF_st(Tick) /\ SF_st(Timer) /\ SF_st(~st.responder /\ ConnectionLost)
FairSpec == Spec /\ Fairness

-----------------------------------------------------------------------------
(* Properties *)

\* The types of a session's state; the queue holds messages of the peer under
\* their own numbers.
StateType(s) ==
  /\ s.cfg \in Configs
  /\ s.enabled \in BOOLEAN /\ s.responder \in BOOLEAN
  /\ s.receivedLogon \in BOOLEAN /\ s.sentLogon \in BOOLEAN /\ s.sentLogout \in BOOLEAN
  /\ s.receivedReset \in BOOLEAN /\ s.sentReset \in BOOLEAN
  /\ s.sched \in {"same", "closed", "new"} /\ s.conn \in {"none", "open"}
  /\ s.pc \in {"idle", "drain"} /\ s.tail \in Nat
  /\ s.sender \in Nat \ {0} /\ s.target \in Nat \ {0}
  /\ s.testRequest \in Nat /\ s.heartBtInt \in Nat
  /\ s.sinceSent \in 0..MaxAge /\ s.sinceReceived \in 0..MaxAge
  /\ s.resendRange \in Nat \X Nat
  /\ \A n \in DOMAIN s.queue : s.queue[n] \in Incoming /\ s.queue[n].seq = n
  /\ \A n \in DOMAIN s.store : s.store[n] \in Bodies \cup {NoBody}
  /\ s.seen \subseteq Nat

\* Every field of the session's state has its type.
TypeOK == StateType(st)

\* A message waits in the queue only while one before it is missing: between two
\* handlers every queued number is above the expected one, so nothing queued is
\* overtaken, left behind, or delivered under a later numbering (the loop of
\* nextQueued, clearQueueUpTo, the clears of reset, disconnect and
\* setNextTargetMsgSeqNum).  A session that has sent its Logout is exempt: next()
\* returns without draining after an application message with a bad SendingTime,
\* which it has counted, and only the disconnect clears the queue.
QueueAhead ==
  st.sentLogout \/
    \A n \in DOMAIN st.queue : n > st.target \/ (st.pc = "drain" /\ n = st.target)

\* No number is passed to fromApp twice in one numbering: whatever was passed is
\* below the number expected next, and a message is passed only with that number.
SeenBelow == \A n \in st.seen : n < st.target

\* With PersistMessages every number given out since the numbering started can be
\* found again, and none above: persist() stores before it counts, and every
\* reset clears both.
StoreComplete == st.cfg.persist => DOMAIN st.store = 1..(st.sender - 1)

\* What generateRetransmits answers to any range of numbers given out leads the
\* peer from the first to one past the last without a hole or an overlap,
\* whatever the application withholds, and resends each message as it was stored.
RetransmitCovers ==
  st.cfg.persist =>
    \A b \in 1..(st.sender - 1) : \A e \in b..(st.sender - 1) :
      \A w \in SUBSET DOMAIN st.store :
        LET r == Retransmits(st, b, e, w) IN
          /\ r # <<>> /\ r[1].seq = b /\ NumberAfter(r[Len(r)]) = e + 1
          /\ \A i \in 1..(Len(r) - 1) : NumberAfter(r[i]) = r[i + 1].seq
          /\ \A i \in DOMAIN r : r[i].type = "App" => r[i].body = st.store[r[i].seq]

\* A session whose connection has gone keeps nothing of it: neither a logon, nor a
\* queue or a resend range that the next connection would take for its own.  A
\* select transport always ends a connection through Session::disconnect.
ConnectionClean ==
  (st.conn = "none" /\ ~st.cfg.threaded) =>
    /\ ~st.receivedLogon /\ ~st.sentLogon /\ ~st.sentLogout
    /\ ~st.receivedReset /\ ~st.sentReset
    /\ st.queue = <<>> /\ ~ResendRequested(st)

\* What a Logon does to the numbering: the session takes it, or the numbers do not
\* go back.  (ResetOnDisconnect starts them over whenever a Logon is refused.)
TakenOrKept(m, verdict) ==
  LET t == Received(st, m, verdict, {})
  IN \/ t.receivedLogon \/ st.cfg.resetOnDisconnect
     \/ t.target >= st.target /\ t.sender >= st.sender

\* However a Logon is refused by next(), verify() or the application, it does not
\* start the numbering over, as the comment of nextLogon says of every refusal.  The
\* one refusal after the reset, against that comment, is of a Logon which these accept
\* and whose NextExpectedMsgSeqNum is above the 1 the reset has left.
RefusedBeforeReset ==
  (MayReceive(st) /\ st.sched = "same") =>
    \A m \in Incoming : m.type = "Logon" =>
      \A verdict \in Verdicts(m) :
        \/ /\ m.num > 1 /\ (m.flag \/ st.cfg.resetOnLogon)
           /\ m.defect \in {"none", "noOrig", "lateOrig"} /\ verdict = "accept"
        \/ TakenOrKept(m, verdict)

\* While the session is up each message is counted in its turn and never twice,
\* however it is refused (the error paths of next, verify and generateReject): one
\* refused without being counted would be requested again for ever, one counted
\* out of turn hides a gap.  generateBusinessReject does not look at the number:
\* an application message without a CompID is counted whenever it comes.  A Logon
\* and a SequenceReset have rules of their own; a Reject above the expected number
\* and a message of another version are counted out of turn.
CountsExpected ==
  (st.pc = "idle" /\ IsLoggedOn(st) /\ st.sched = "same") =>
    \A m \in Incoming : \A verdict \in Verdicts(m) :
      LET t == Process(st, m, verdict, {})
          unlooked == m.type = "App" /\ m.defect = "noCompID"
          counted == IF m.seq = st.target \/ unlooked THEN 1 ELSE 0
      IN \/ m.type \in {"Logon", "SequenceReset"}
         \/ m.defect \in {"garbled", "badVersion"}
         \/ m.type = "Reject" /\ m.seq > st.target
         \/ IsLoggedOn(t) => t.target = st.target + counted

\* A peer that has fallen silent is noticed: a logged-on session with heartbeats
\* is disconnected unless a message it accepts arrives, however much it sends.
PeerWatched ==
  (IsLoggedOn(st) /\ st.heartBtInt # 0) ~> (~IsLoggedOn(st) \/ st.sinceReceived = 0)

\* An initiator whose Logon is not answered gives up after LogonTimeout, unless it
\* has been disabled meanwhile (next(now) then returns before it looks) or a
\* message got past verify(), which starts the wait again.
LogonTimesOut ==
  (AlreadySentLogon(st) /\ ~st.receivedLogon)
    ~> (~st.sentLogon \/ st.receivedLogon \/ ~st.enabled \/ st.sinceReceived = 0)

=============================================================================
