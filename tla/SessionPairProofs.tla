------------------------- MODULE SessionPairProofs -------------------------
(***************************************************************************)
(* Proofs about SessionPair, for every set of scenarios whose sessions     *)
(* keep their messages and never start the numbers over (PlainScenarios),  *)
(* and so for any number of messages, connections, restarts and Logouts:   *)
(* the pair implements OrderedDelivery in both directions, and a side that *)
(* expects the number the other gives out next has delivered everything.   *)
(*                                                                         *)
(* The invariant, PInv, says of each direction, from s to r, that s stores *)
(* the messages of its application in the order they were sent, that       *)
(* whatever is under way to r or waits in its queue stands for what s has  *)
(* stored under those numbers (Genuine), and that r has delivered exactly  *)
(* what s stored below the number r expects.  The last only holds while no *)
(* Logout overtakes missing messages; and for a Logout that does not       *)
(* overtake to be counted at its own number, a Logout under way has to lie *)
(* above everything sent before it, which UnderWay adds.                   *)
(*                                                                         *)
(* The argument follows the code in two halves.  Sent(o, t) is what the    *)
(* methods between states o and t may do as a sender: store administrative *)
(* messages under new numbers and transmit what is genuine.  Same(s, t)    *)
(* and Handled(s, t, m) are what they may do as a receiver: nothing, or    *)
(* deliver and count m, or queue it.  The lemmas whose names begin with    *)
(* Dir turn these into preservation of one direction.                      *)
(***************************************************************************)
EXTENDS SessionPair, RetransmitProofs, SequenceTheorems

\* The fields of a session's state.
Fields == {"cfg", "enabled", "sched", "conn", "responder", "receivedLogon", "sentLogon",
           "sentLogout", "receivedReset", "sentReset", "testRequest", "resendRange",
           "heartBtInt", "sinceSent", "sinceReceived", "queue", "sender", "target",
           "store", "out", "got", "seen", "pc", "tail"}

\* Settings that keep every message and never start the numbers over.
Plain(c) == c.persist /\ ~c.resetOnLogon /\ ~c.resetOnLogout /\ ~c.resetOnDisconnect

\* The messages two such sessions exchange.
Wire == {m \in [type : MsgTypes \ {"Reject"}, seq : Nat \ {0}, possDup : BOOLEAN, flag : BOOLEAN,
         num : Nat, end : {0}, hb : Nat, body : Nat \cup {NoBody}, defect : {"none"}] :
  /\ m.type = "Logon" => ~m.flag
  /\ m.type = "SequenceReset" => m.flag
  /\ m.type = "ResendRequest" => m.num # 0}

\* A session with such settings.
Sound(s) ==
  /\ DOMAIN s = Fields /\ Plain(s.cfg) /\ s.sched = "same"
  /\ s.receivedReset = FALSE /\ s.sentReset = FALSE
  /\ s.sender \in Nat \ {0} /\ s.target \in Nat \ {0} /\ s.tail \in Nat /\ s.heartBtInt \in Nat
  /\ DOMAIN s.store = 1..(s.sender - 1)
  /\ \A n \in DOMAIN s.store : s.store[n] \in Nat \cup {NoBody}
  /\ s.out \in Seq(Wire)

\* m is a message that s may have sent: it stands for what s keeps under its number.
Genuine(s, m) ==
  /\ m \in Wire
  /\ m.type = "App" =>
       m.seq < s.sender /\ m.body = s.store[m.seq] /\ m.body # NoBody
  /\ m.type = "SequenceReset" =>
       m.num <= s.sender /\ \A n \in m.seq..(m.num - 1) : s.store[n] = NoBody
  /\ m.type \notin {"App", "SequenceReset"} =>
       m.seq < s.sender /\ s.store[m.seq] = NoBody

\* s has stored the N messages of its application, each once and in the order they
\* were sent.
Numbering(s, N) ==
  /\ \A n \in DOMAIN s.store : s.store[n] \in (1..N) \cup {NoBody}
  /\ \A k \in 1..N : \E n \in DOMAIN s.store : s.store[n] = k
  /\ \A m, n \in DOMAIN s.store :
       m < n /\ s.store[m] # NoBody /\ s.store[n] # NoBody => s.store[m] < s.store[n]

\* The last message delivered (0: none).
LastOf(got) == IF got = <<>> THEN 0 ELSE got[Len(got)]

\* r has delivered what s stored below the number r expects, and nothing from there
\* on; once a Logout has overtaken, some of it may be missing.
Caught(s, r, N, got, over) ==
  /\ got \in Seq(Nat) /\ LastOf(got) \in 0..N
  /\ r.target <= s.sender
  /\ \A n \in DOMAIN s.store :
       /\ n >= r.target /\ s.store[n] # NoBody => s.store[n] > LastOf(got)
       /\ ~over /\ n < r.target /\ s.store[n] # NoBody => s.store[n] <= LastOf(got)
  /\ ~over => Len(got) = LastOf(got) /\ \A i \in 1..Len(got) : got[i] = i

\* What waits in the queue of r came from s, and is no Logout.
Waiting(s, r) ==
  \A n \in DOMAIN r.queue :
    Genuine(s, r.queue[n]) /\ r.queue[n].seq = n /\ r.queue[n].type # "Logout"

\* So does what is under way, and a Logout has a number above everything before it.
UnderWay(s, r, ch) ==
  /\ ch \in Seq(Wire)
  /\ \A i \in 1..Len(ch) : Genuine(s, ch[i])
  /\ \A j \in 1..Len(ch) : ch[j].type = "Logout" =>
       /\ r.target <= ch[j].seq
       /\ \A i \in 1..(j - 1) : NumberAfter(ch[i]) <= ch[j].seq
       /\ \A n \in DOMAIN r.queue : NumberAfter(r.queue[n]) <= ch[j].seq

\* The direction from s to r over ch: N messages sent, got delivered.
Dir(s, r, ch, N, got, over) ==
  /\ N \in Nat /\ Numbering(s, N) /\ Caught(s, r, N, got, over)
  /\ Waiting(s, r) /\ UnderWay(s, r, ch)

\* The invariant of the pair.
PInv ==
  /\ Sound(a) /\ Sound(b) /\ overtaken \in BOOLEAN
  /\ sentA = [i \in 1..Len(sentA) |-> i] /\ sentB = [i \in 1..Len(sentB) |-> i]
  /\ Dir(a, b, ab, Len(sentA), gotB, overtaken)
  /\ Dir(b, a, ba, Len(sentB), gotA, overtaken)

-----------------------------------------------------------------------------
(* What a session sends *)

\* The messages under way are genuine, and a Logout is numbered above everything
\* sent before it.
OutOK(o, s) ==
  /\ \A i \in 1..Len(s.out) : Genuine(s, s.out[i])
  /\ \A j \in 1..Len(s.out) : s.out[j].type = "Logout" =>
       /\ o.sender <= s.out[j].seq
       /\ \A i \in 1..(j - 1) : NumberAfter(s.out[i]) <= s.out[j].seq

\* s keeps what o kept and has only given out numbers for administrative messages since.
Grown(o, s) ==
  /\ o.sender \in Nat \ {0} /\ o.sender <= s.sender
  /\ \A n \in 1..(o.sender - 1) : s.store[n] = o.store[n]
  /\ \A n \in o.sender..(s.sender - 1) : s.store[n] = NoBody

\* s is what methods that only send have made of o.
Sent(o, s) == Sound(s) /\ Grown(o, s) /\ OutOK(o, s)

\* t expects and has passed on what s did, and has no more in its queue.
Same(s, t) ==
  /\ t.target = s.target /\ t.got = s.got
  /\ DOMAIN t.queue \subseteq DOMAIN s.queue
  /\ \A n \in DOMAIN t.queue : t.queue[n] = s.queue[n]

\* t differs from s in nothing that matters for what was sent.
Alike(s, t) ==
  /\ DOMAIN t = Fields /\ t.cfg = s.cfg /\ t.sched = s.sched
  /\ t.receivedReset = FALSE /\ t.sentReset = FALSE
  /\ t.sender = s.sender /\ t.store = s.store /\ t.out = s.out
  /\ t.target \in Nat \ {0} /\ t.tail \in Nat /\ t.heartBtInt \in Nat

\* Same composes.
LEMMA SameTransitive ==
  ASSUME NEW s, NEW t, NEW u, Same(s, t), Same(t, u)
  PROVE  Same(s, u)
BY DEF Same

\* A method that does nothing.
LEMMA SameReflexive ==
  ASSUME NEW s
  PROVE  Same(s, s)
BY DEF Same

\* A message stays genuine while the store grows.
LEMMA GenuineGrows ==
  ASSUME NEW s, NEW t, s.sender \in Nat \ {0}, t.sender \in Nat \ {0}, s.sender <= t.sender,
         \A n \in 1..(s.sender - 1) : t.store[n] = s.store[n],
         NEW m, Genuine(s, m)
  PROVE  Genuine(t, m)
<1>1. m.seq \in Nat \ {0} /\ m.num \in Nat
  BY DEF Genuine, Wire
<1> QED BY <1>1 DEF Genuine

\* A genuine message stands for numbers that were given out.
LEMMA GenuineBelow ==
  ASSUME NEW s, s.sender \in Nat \ {0}, NEW m, Genuine(s, m)
  PROVE  NumberAfter(m) \in Nat /\ NumberAfter(m) <= s.sender
<1>1. m.seq \in Nat \ {0} /\ m.num \in Nat
  BY DEF Genuine, Wire
<1> QED BY <1>1 DEF Genuine, NumberAfter

\* Fields that do not matter.
LEMMA SentAlike ==
  ASSUME NEW o, NEW s, NEW t, Sent(o, s), Alike(s, t)
  PROVE  Sent(o, t)
<1>1. Sound(t)
  BY DEF Sent, Sound, Alike
<1>2. Grown(o, t)
  BY DEF Sent, Grown, Alike
<1>3. \A m : Genuine(s, m) => Genuine(t, m)
  BY DEF Alike, Genuine
<1>4. OutOK(o, t)
  BY <1>3 DEF Sent, OutOK, Alike
<1> QED BY <1>1, <1>2, <1>4 DEF Sent

\* Writing a message to the responder.
LEMMA TransmitSent ==
  ASSUME NEW o, NEW s, Sent(o, s), NEW m, Genuine(s, m),
         m.type = "Logout" =>
           /\ o.sender <= m.seq
           /\ \A i \in 1..Len(s.out) : NumberAfter(s.out[i]) <= m.seq
  PROVE  Sent(o, Transmit(s, m)) /\ Same(s, Transmit(s, m))
<1> DEFINE x == Append(s.out, m)
           t == [s EXCEPT !.out = x]
<1>1. CASE ~s.responder
  BY <1>1, SameReflexive DEF Transmit
<1>2. CASE s.responder
  <2>1. Transmit(s, m) = t
    BY <1>2 DEF Transmit
  <2>2. m \in Wire /\ s.out \in Seq(Wire)
    BY DEF Genuine, Sent, Sound
  <2>3. /\ x \in Seq(Wire) /\ Len(x) = Len(s.out) + 1 /\ Len(s.out) \in Nat
        /\ \A i \in 1..Len(s.out) : x[i] = s.out[i]
        /\ x[Len(s.out) + 1] = m
    BY <2>2
  <2> HIDE DEF x
  <2>4. /\ DOMAIN t = Fields /\ t.out = x /\ t.sender = s.sender /\ t.store = s.store
        /\ t.cfg = s.cfg /\ t.sched = s.sched /\ t.target = s.target /\ t.tail = s.tail
        /\ t.heartBtInt = s.heartBtInt /\ t.queue = s.queue /\ t.got = s.got
        /\ t.receivedReset = s.receivedReset /\ t.sentReset = s.sentReset
    BY DEF Sent, Sound, Fields
  <2> HIDE DEF t
  <2>5. Sound(t)
    BY <2>3, <2>4 DEF Sent, Sound
  <2>6. Grown(o, t)
    BY <2>4 DEF Sent, Grown
  <2>7. \A y : Genuine(s, y) => Genuine(t, y)
    BY <2>4 DEF Genuine
  <2>8. OutOK(o, t)
    <3>1. \A i \in 1..Len(x) : i \in 1..Len(s.out) \/ i = Len(s.out) + 1
      BY <2>3
    <3>2. \A i \in 1..Len(x) : Genuine(t, x[i])
      BY <2>3, <2>7, <3>1 DEF Sent, OutOK
    <3>3. ASSUME NEW j \in 1..Len(x), x[j].type = "Logout"
          PROVE  o.sender <= x[j].seq /\ \A i \in 1..(j - 1) : NumberAfter(x[i]) <= x[j].seq
      <4>1. CASE j \in 1..Len(s.out)
        <5>1. \A i \in 1..(j - 1) : i \in 1..Len(s.out)
          BY <2>3, <4>1
        <5> QED BY <2>3, <3>3, <4>1, <5>1 DEF Sent, OutOK
      <4>2. CASE j = Len(s.out) + 1
        <5>1. 1..(j - 1) = 1..Len(s.out)
          BY <2>3, <4>2
        <5> QED BY <2>3, <3>3, <4>2, <5>1
      <4> QED BY <3>1, <4>1, <4>2
    <3> QED BY <2>4, <3>2, <3>3 DEF OutOK
  <2>9. Same(s, t)
    BY <2>4 DEF Same
  <2> QED BY <2>1, <2>5, <2>6, <2>8, <2>9 DEF Sent
<1> QED BY <1>1, <1>2

\* Storing an administrative message under the next number.
LEMMA PersistSent ==
  ASSUME NEW o, NEW s, Sent(o, s), NEW m, m.seq = s.sender, m.body = NoBody
  PROVE  LET t == Persist(s, m) IN
           /\ Sent(o, t) /\ Same(s, t)
           /\ t.sender = s.sender + 1 /\ t.store[s.sender] = NoBody /\ t.out = s.out
           /\ t.responder = s.responder /\ t.receivedLogon = s.receivedLogon
           /\ t.sentLogon = s.sentLogon
<1> DEFINE grown == [n \in DOMAIN s.store \cup {m.seq} |->
                       IF n = m.seq THEN m.body ELSE s.store[n]]
           t == [s EXCEPT !.store = grown, !.sender = s.sender + 1]
<1>1. Persist(s, m) = t
  BY DEF Persist, Sent, Sound, Plain
<1>2. s.sender \in Nat \ {0} /\ DOMAIN s.store = 1..(s.sender - 1)
  BY DEF Sent, Sound
<1>3. /\ DOMAIN grown = 1..s.sender /\ grown[s.sender] = NoBody
      /\ \A n \in 1..(s.sender - 1) : grown[n] = s.store[n]
      /\ \A n \in DOMAIN grown : grown[n] \in Nat \cup {NoBody}
  BY <1>2 DEF Sent, Sound
<1> HIDE DEF grown
<1>4. /\ DOMAIN t = Fields /\ t.out = s.out /\ t.sender = s.sender + 1 /\ t.store = grown
      /\ t.cfg = s.cfg /\ t.sched = s.sched /\ t.target = s.target /\ t.tail = s.tail
      /\ t.heartBtInt = s.heartBtInt /\ t.queue = s.queue /\ t.got = s.got
      /\ t.receivedReset = s.receivedReset /\ t.sentReset = s.sentReset
      /\ t.responder = s.responder /\ t.receivedLogon = s.receivedLogon
      /\ t.sentLogon = s.sentLogon
  BY DEF Sent, Sound, Fields
<1> HIDE DEF t
<1>5. Sound(t)
  BY <1>2, <1>3, <1>4 DEF Sent, Sound
<1>6. Grown(o, t)
  <2>1. o.sender \in Nat \ {0} /\ o.sender <= s.sender
    BY DEF Sent, Grown
  <2>2. \A n \in 1..(o.sender - 1) : t.store[n] = o.store[n]
    BY <1>2, <1>3, <1>4, <2>1 DEF Sent, Grown
  <2>3. \A n \in o.sender..(t.sender - 1) : t.store[n] = NoBody
    <3> SUFFICES ASSUME NEW n \in o.sender..(t.sender - 1) PROVE t.store[n] = NoBody
      OBVIOUS
    <3>1. n = s.sender \/ n \in o.sender..(s.sender - 1)
      BY <1>2, <1>4, <2>1
    <3>2. n \in o.sender..(s.sender - 1) => n \in 1..(s.sender - 1)
      BY <1>2, <2>1
    <3> QED BY <1>3, <1>4, <3>1, <3>2 DEF Sent, Grown
  <2> QED BY <1>2, <1>4, <2>1, <2>2, <2>3 DEF Grown
<1>7. \A x : Genuine(s, x) => Genuine(t, x)
  <2>1. /\ t.sender \in Nat \ {0} /\ s.sender <= t.sender
        /\ \A n \in 1..(s.sender - 1) : t.store[n] = s.store[n]
    BY <1>2, <1>3, <1>4
  <2> QED BY <1>2, <2>1, GenuineGrows
<1>8. OutOK(o, t)
  BY <1>4, <1>7 DEF Sent, OutOK
<1>9. Same(s, t)
  BY <1>4 DEF Same
<1> QED BY <1>1, <1>3, <1>4, <1>5, <1>6, <1>8, <1>9 DEF Sent

\* An administrative message that has no number yet.
Draft(m) ==
  /\ m \in [type : MsgTypes \ {"Reject", "App", "SequenceReset"}, seq : Nat, possDup : BOOLEAN,
            flag : BOOLEAN, num : Nat, end : {0}, hb : Nat, body : {NoBody}, defect : {"none"}]
  /\ m.type = "Logon" => m.flag = FALSE
  /\ m.type = "ResendRequest" => m.num # 0

\* With a number, it is a message on the wire.
LEMMA DraftNumbered ==
  ASSUME NEW m, Draft(m), NEW k \in Nat \ {0}
  PROVE  LET n == [m EXCEPT !.seq = k] IN
           n \in Wire /\ n.seq = k /\ n.body = NoBody /\ n.type = m.type
BY DEF Draft, Wire

\* Sending an administrative message.
LEMMA SendRawSent ==
  ASSUME NEW o, NEW s, Sent(o, s), NEW m, Draft(m)
  PROVE  Sent(o, SendRaw(s, m)) /\ Same(s, SendRaw(s, m))
<1> DEFINE s0 == [s EXCEPT !.sinceSent = 0]
           s1 == LogonReset(s0, m)
           m1 == [m EXCEPT !.seq = s1.sender]
           s2 == Persist(s1, m1)
<1>1. Sent(o, s1) /\ Same(s, s1)
  <2>1. /\ DOMAIN s0 = Fields /\ s0.receivedReset = FALSE /\ s0.sentReset = FALSE
        /\ s0.cfg = s.cfg /\ s0.sched = s.sched /\ s0.sender = s.sender /\ s0.store = s.store
        /\ s0.out = s.out /\ s0.target = s.target /\ s0.tail = s.tail
        /\ s0.heartBtInt = s.heartBtInt /\ s0.queue = s.queue /\ s0.got = s.got
    BY DEF Sent, Sound, Fields
  <2> HIDE DEF s0
  <2>2. s1 = s0 \/ s1 = [s0 EXCEPT !.sentReset = FALSE]
    BY <2>1 DEF LogonReset, Draft
  <2>3. /\ DOMAIN s1 = Fields /\ s1.receivedReset = FALSE /\ s1.sentReset = FALSE
        /\ s1.cfg = s0.cfg /\ s1.sched = s0.sched /\ s1.sender = s0.sender
        /\ s1.store = s0.store
        /\ s1.out = s0.out /\ s1.target = s0.target /\ s1.tail = s0.tail
        /\ s1.heartBtInt = s0.heartBtInt /\ s1.queue = s0.queue /\ s1.got = s0.got
    BY <2>1, <2>2 DEF Fields
  <2> HIDE DEF s1
  <2>4. Alike(s, s1)
    BY <2>1, <2>3 DEF Alike, Sent, Sound
  <2>5. Same(s, s1)
    BY <2>1, <2>3 DEF Same
  <2> QED BY <2>4, <2>5, SentAlike
<1> HIDE DEF s0, s1
<1>2. s1.sender \in Nat \ {0}
  BY <1>1 DEF Sent, Sound
<1>3. m1 \in Wire /\ m1.seq = s1.sender /\ m1.body = NoBody /\ m1.type = m.type
  BY <1>2, DraftNumbered
<1>4. m1.type \notin {"App", "SequenceReset"}
  BY <1>3 DEF Draft
<1> HIDE DEF m1
<1>5. /\ Sent(o, s2) /\ Same(s1, s2) /\ s2.sender = s1.sender + 1
      /\ s2.store[s1.sender] = NoBody /\ s2.out = s1.out
  BY <1>1, <1>3, PersistSent
<1> HIDE DEF s2
<1>6. Genuine(s2, m1)
  BY <1>2, <1>3, <1>4, <1>5 DEF Genuine
<1>7. o.sender <= m1.seq /\ \A i \in 1..Len(s2.out) : NumberAfter(s2.out[i]) <= m1.seq
  <2>1. \A i \in 1..Len(s1.out) : Genuine(s1, s1.out[i])
    BY <1>1 DEF Sent, OutOK
  <2>2. \A i \in 1..Len(s1.out) : NumberAfter(s1.out[i]) <= s1.sender
    BY <1>2, <2>1, GenuineBelow
  <2> QED BY <1>1, <1>3, <1>5, <2>2 DEF Sent, Grown
<1>8. Sent(o, Transmit(s2, m1)) /\ Same(s2, Transmit(s2, m1))
  BY <1>5, <1>6, <1>7, TransmitSent
<1>9. Same(s, s2)
  BY <1>1, <1>5, SameTransitive
<1>10. Same(s, Transmit(s2, m1))
  BY <1>8, <1>9, SameTransitive
<1> QED BY <1>5, <1>8, <1>9, <1>10 DEF SendRaw, s0, s1, m1, s2

\* The administrative messages without fields of their own.
LEMMA DraftTypes ==
  ASSUME NEW t \in {"Heartbeat", "TestRequest", "Logout"}
  PROVE  Draft(NewMessage(t))
BY DEF Draft, NewMessage, MsgTypes, AdminTypes

\* Heartbeats, test requests and Logouts are sent as any administrative message.
LEMMA GenerateSent ==
  ASSUME NEW o, NEW s, Sent(o, s)
  PROVE  /\ Sent(o, GenerateHeartbeat(s)) /\ Same(s, GenerateHeartbeat(s))
         /\ Sent(o, GenerateTestRequest(s)) /\ Same(s, GenerateTestRequest(s))
         /\ Sent(o, GenerateLogout(s)) /\ Same(s, GenerateLogout(s))
<1>1. \A t \in {"Heartbeat", "TestRequest", "Logout"} :
        Sent(o, SendRaw(s, NewMessage(t))) /\ Same(s, SendRaw(s, NewMessage(t)))
  BY DraftTypes, SendRawSent
<1> DEFINE l == SendRaw(s, NewMessage("Logout"))
           t == [l EXCEPT !.sentLogout = TRUE]
<1>2. Sent(o, l) /\ Same(s, l)
  BY <1>1
<1> HIDE DEF l
<1>3. Alike(l, t)
  BY <1>2 DEF Alike, Sent, Sound, Fields
<1>4. Same(l, t)
  BY <1>2 DEF Same, Sent, Sound, Fields
<1> HIDE DEF t
<1>5. Sent(o, t) /\ Same(s, t)
  BY <1>2, <1>3, <1>4, SentAlike, SameTransitive
<1> QED BY <1>1, <1>5 DEF GenerateHeartbeat, GenerateTestRequest, GenerateLogout, l, t

\* A Logon without a reset.
LEMMA DraftLogon ==
  ASSUME NEW f, f = FALSE, NEW h \in Nat, NEW n \in Nat
  PROVE  Draft([NewMessage("Logon") EXCEPT !.flag = f, !.hb = h, !.num = n])
BY DEF Draft, NewMessage, MsgTypes, AdminTypes

\* The initiator's Logon carries no reset.
LEMMA GenerateLogonSent ==
  ASSUME NEW o, NEW s, Sent(o, s)
  PROVE  Sent(o, GenerateLogon(s)) /\ Same(s, GenerateLogon(s))
<1> DEFINE n == IF s.cfg.nextExpected THEN s.target ELSE 0
           m == [NewMessage("Logon") EXCEPT !.flag = ShouldSendReset(s), !.hb = s.heartBtInt,
                                            !.num = n]
           s1 == [s EXCEPT !.sinceReceived = 0, !.testRequest = 0, !.sentLogon = TRUE]
<1>1. GenerateLogon(s) = SendRaw(s1, m)
  BY DEF GenerateLogon, Sent, Sound, Plain
<1>2. ShouldSendReset(s) = FALSE
  BY DEF ShouldSendReset, Sent, Sound, Plain
<1>3. n \in Nat /\ s.heartBtInt \in Nat
  BY DEF Sent, Sound
<1> HIDE DEF n
<1>4. Draft(m)
  BY <1>2, <1>3, DraftLogon
<1>5. Alike(s, s1) /\ Same(s, s1)
  BY DEF Alike, Same, Sent, Sound, Fields
<1> HIDE DEF s1, m
<1>6. Sent(o, s1)
  BY <1>5, SentAlike
<1>7. Sent(o, SendRaw(s1, m)) /\ Same(s1, SendRaw(s1, m))
  BY <1>4, <1>6, SendRawSent
<1> QED BY <1>1, <1>5, <1>7, SameTransitive

\* Nor does the answer to a Logon.
LEMMA GenerateLogonReplySent ==
  ASSUME NEW o, NEW s, Sent(o, s), NEW logon \in Wire
  PROVE  Sent(o, GenerateLogonReply(s, logon)) /\ Same(s, GenerateLogonReply(s, logon))
<1> DEFINE n == IF s.cfg.nextExpected THEN s.target + 1 ELSE 0
           m == [NewMessage("Logon") EXCEPT !.flag = s.receivedReset, !.hb = logon.hb, !.num = n]
           r == SendRaw(s, m)
           t == [r EXCEPT !.sentLogon = TRUE]
<1>1. GenerateLogonReply(s, logon) = t
  BY DEF GenerateLogonReply
<1>2. n \in Nat /\ logon.hb \in Nat /\ s.receivedReset = FALSE
  BY DEF Sent, Sound, Wire
<1> HIDE DEF n
<1>3. Draft(m)
  BY <1>2, DraftLogon
<1>4. Sent(o, r) /\ Same(s, r)
  BY <1>3, SendRawSent
<1> HIDE DEF r
<1>5. Alike(r, t) /\ Same(r, t)
  BY <1>4 DEF Alike, Same, Sent, Sound, Fields
<1> HIDE DEF t
<1>6. Sent(o, t) /\ Same(s, t)
  BY <1>4, <1>5, SentAlike, SameTransitive
<1> QED BY <1>1, <1>6

\* A resend request names the expected number.
LEMMA GenerateResendRequestSent ==
  ASSUME NEW o, NEW s, Sent(o, s), NEW n
  PROVE  Sent(o, GenerateResendRequest(s, n)) /\ Same(s, GenerateResendRequest(s, n))
<1> DEFINE m == [NewMessage("ResendRequest") EXCEPT !.num = s.target]
           r == SendRaw(s, m)
           t == [r EXCEPT !.resendRange = <<s.target, n - 1>>]
<1>1. GenerateResendRequest(s, n) = t
  BY DEF GenerateResendRequest
<1>2. s.target \in Nat \ {0}
  BY DEF Sent, Sound
<1>3. Draft(m)
  BY <1>2 DEF Draft, NewMessage, MsgTypes, AdminTypes
<1>4. Sent(o, r) /\ Same(s, r)
  BY <1>3, SendRawSent
<1> HIDE DEF r
<1>5. Alike(r, t) /\ Same(r, t)
  BY <1>4 DEF Alike, Same, Sent, Sound, Fields
<1> HIDE DEF t
<1>6. Sent(o, t) /\ Same(s, t)
  BY <1>4, <1>5, SentAlike, SameTransitive
<1> QED BY <1>1, <1>6

\* Session::disconnect, without a reset.
LEMMA DisconnectSent ==
  ASSUME NEW o, NEW s, Sent(o, s)
  PROVE  Sent(o, Disconnect(s)) /\ Same(s, Disconnect(s))
<1> DEFINE t == [s EXCEPT !.responder = FALSE, !.receivedLogon = FALSE, !.sentLogon = FALSE,
                          !.sentLogout = FALSE, !.receivedReset = FALSE, !.sentReset = FALSE,
                          !.queue = <<>>, !.resendRange = <<0, 0>>]
<1>1. Disconnect(s) = t
  BY DEF Disconnect, Sent, Sound, Plain
<1>2. Alike(s, t)
  BY DEF Alike, Sent, Sound, Fields
<1>3. Same(s, t)
  BY DEF Same, Sent, Sound, Fields
<1> HIDE DEF t
<1> QED BY <1>1, <1>2, <1>3, SentAlike

\* A gap fill and a resent message are messages on the wire.
LEMMA FillOnWire ==
  ASSUME NEW n \in Nat \ {0}, NEW u \in Nat
  PROVE  LET g == GapFill(n, u) IN
           g \in Wire /\ g.type = "SequenceReset" /\ g.seq = n /\ g.num = u
BY DEF GapFill, NewMessage, Wire, MsgTypes, AdminTypes

\* The retransmission of a stored application message.
LEMMA ResentOnWire ==
  ASSUME NEW n \in Nat \ {0}, NEW s, s.store[n] \in Nat
  PROVE  LET g == Resend(s, n) IN
           g \in Wire /\ g.type = "App" /\ g.seq = n /\ g.body = s.store[n]
<1> DEFINE x == s.store[n]
           g == [NewMessage("App") EXCEPT !.seq = n, !.body = x, !.possDup = TRUE]
<1>1. x \in Nat
  OBVIOUS
<1> HIDE DEF x
<1>2. g \in Wire /\ g.type = "App" /\ g.seq = n /\ g.body = x
  BY <1>1 DEF NewMessage, Wire, MsgTypes, AdminTypes
<1> QED BY <1>2 DEF Resend, x

\* A retransmission of what is kept consists of genuine messages.
LEMMA RetransmitsGenuine ==
  ASSUME NEW s, Sound(s), NEW k \in Nat \ {0}
  PROVE  LET r == Retransmits(s, k, s.sender - 1, {}) IN
           /\ r \in Seq(Wire)
           /\ \A i \in 1..Len(r) : Genuine(s, r[i]) /\ r[i].type # "Logout"
<1> DEFINE e == s.sender - 1
           r == Retransmits(s, k, e, {})
<1>1. /\ s.sender \in Nat \ {0} /\ DOMAIN s.store = 1..e /\ e \in Nat /\ e + 1 = s.sender
      /\ \A n \in DOMAIN s.store : s.store[n] \in Nat \cup {NoBody}
  BY DEF Sound
<1> SUFFICES /\ r \in Seq(Wire)
             /\ \A i \in 1..Len(r) : Genuine(s, r[i]) /\ r[i].type # "Logout"
  OBVIOUS
<1> HIDE DEF e
<1>2. CASE k <= e
  <2> DEFINE c == Cardinality(Starts(s, k, e, {}))
             P(n) == Piece(s, k, e, {}, n)
  <2>1. Kept(s, k, e)
    BY <1>1, <1>2 DEF Kept
  <2>2. /\ c \in Nat \ {0} /\ DOMAIN r = 1..c /\ Len(r) = c
        /\ \E o \in [1..c -> k..e] : r = [i \in 1..c |-> P(o[i])]
    BY <2>1, RetransmitsLead
  <2>3. ASSUME NEW n \in k..e
        PROVE  Genuine(s, P(n)) /\ P(n).type # "Logout"
    <3>0. n \in Nat \ {0} /\ n < s.sender /\ n \in DOMAIN s.store
      BY <1>1
    <3>1. CASE n \in Resent(s, k, e, {})
      <4>1. P(n) = Resend(s, n)
        BY <3>1 DEF Piece
      <4>2. s.store[n] \in Nat /\ s.store[n] # NoBody
        BY <1>1, <3>0, <3>1 DEF Resent
      <4> HIDE DEF P
      <4>3. P(n) \in Wire /\ P(n).type = "App" /\ P(n).seq = n /\ P(n).body = s.store[n]
        <5>1. LET g == Resend(s, n) IN
                g \in Wire /\ g.type = "App" /\ g.seq = n /\ g.body = s.store[n]
          BY Zenon, <3>0, <4>2, ResentOnWire
        <5> QED BY Zenon, <4>1, <5>1
      <4> QED BY <3>0, <4>2, <4>3 DEF Genuine
    <3>2. CASE n \notin Resent(s, k, e, {})
      <4> DEFINE u == Until(s, k, e, {}, n)
      <4>1. P(n) = GapFill(n, u)
        BY <3>2 DEF Piece
      <4>2. u \in (n + 1)..(e + 1) /\ \A j \in n..(u - 1) : j \notin Resent(s, k, e, {})
        BY <2>1, <3>2, GapReaches
      <4> HIDE DEF P, u
      <4>3. /\ P(n) \in Wire /\ P(n).type = "SequenceReset" /\ P(n).seq = n /\ P(n).num = u
            /\ u \in Nat /\ u <= s.sender
        <5>1. u \in Nat /\ u <= s.sender
          BY <1>1, <3>0, <4>2
        <5> QED BY <3>0, <4>1, <5>1, FillOnWire
      <4>4. \A j \in n..(u - 1) : s.store[j] = NoBody
        <5> SUFFICES ASSUME NEW j \in n..(u - 1) PROVE s.store[j] = NoBody
          OBVIOUS
        <5>1. j \in k..e
          BY <1>1, <3>0, <4>2, <4>3
        <5> QED BY <4>2, <5>1 DEF Resent
      <4> QED BY <4>3, <4>4 DEF Genuine
    <3> QED BY <3>1, <3>2
  <2> HIDE DEF c, r, P
  <2>4. \A i \in 1..c : Genuine(s, r[i]) /\ r[i].type # "Logout"
    BY <2>2, <2>3
  <2>5. \A i \in 1..c : r[i] \in Wire
    BY <2>4 DEF Genuine
  <2>6. r \in Seq(Wire)
    BY <2>2, <2>5
  <2> QED BY <2>2, <2>4, <2>6
<1>3. CASE k > e
  <2>1. {n \in DOMAIN s.store : k <= n /\ n <= e} = {}
    BY <1>1, <1>3
  <2>2. k..0 = {} /\ k # 0
    OBVIOUS
  <2> DEFINE g == GapFill(k, s.sender)
             R == {n \in {} : s.store[n] # NoBody /\ n \notin {}}
             G == {n \in {} : n \notin R /\ (n = k \/ n - 1 \in R)}
             o == Ascending(R \cup G)
             h(i) == IF o[i] \in R THEN Resend(s, o[i])
                     ELSE GapFill(o[i], Min({j \in R : j > o[i]} \cup {0 + 1}))
             y == IF e <= 0 THEN <<>> ELSE <<g>>
  <2>3. r = [i \in DOMAIN o |-> h(i)] \o y
    <3>1. (IF e + 1 > s.sender THEN s.sender ELSE e + 1) = s.sender
      BY <1>1
    <3> QED BY <2>1, <2>2, <3>1 DEF Retransmits, Resend
  <2>4. DOMAIN o = 1..0
    BY FS_EmptySet DEF Ascending
  <2> HIDE DEF o, h, g, r
  <2>5. r = <<>> \/ r = <<g>>
    <3>1. [i \in DOMAIN o |-> h(i)] = <<>>
      BY <2>4
    <3> QED BY <2>3, <3>1
  <2>6. /\ g \in Wire /\ g.type = "SequenceReset" /\ g.seq = k /\ g.num = s.sender
    BY <1>1, FillOnWire DEF g
  <2>7. k..(s.sender - 1) = {} /\ s.sender <= s.sender
    BY <1>1, <1>3
  <2>8. Genuine(s, g) /\ g.type # "Logout"
    BY <2>6, <2>7 DEF Genuine
  <2>9. CASE r = <<>>
    BY <2>9
  <2>10. CASE r = <<g>>
    BY <2>6, <2>8, <2>10
  <2> QED BY <2>5, <2>9, <2>10
<1> QED BY <1>1, <1>2, <1>3

\* A retransmission gives out no numbers.
LEMMA RetransmitSent ==
  ASSUME NEW o, NEW s, Sent(o, s), NEW k \in Nat \ {0}
  PROVE  LET t == RetransmitOrFill(s, k, s.sender - 1, {}) IN Sent(o, t) /\ Same(s, t)
<1> DEFINE r == Retransmits(s, k, s.sender - 1, {})
           age == IF \E i \in DOMAIN r : r[i].type = "SequenceReset" THEN 0 ELSE s.sinceSent
           x == IF s.responder THEN s.out \o r ELSE s.out
           t == [s EXCEPT !.sinceSent = age, !.out = x]
<1>1. RetransmitOrFill(s, k, s.sender - 1, {}) = t
  BY DEF RetransmitOrFill, GenerateRetransmits, Sent, Sound, Plain
<1>2. r \in Seq(Wire) /\ \A i \in 1..Len(r) : Genuine(s, r[i]) /\ r[i].type # "Logout"
  BY RetransmitsGenuine DEF Sent
<1>3. s.out \in Seq(Wire)
  BY DEF Sent, Sound
<1> HIDE DEF r, age
<1>4. /\ x \in Seq(Wire) /\ Len(s.out) \in Nat /\ Len(r) \in Nat /\ Len(x) \in Nat
      /\ \A i \in 1..Len(s.out) : x[i] = s.out[i]
      /\ \A i \in 1..Len(x) : i \in 1..Len(s.out) \/ \E j \in 1..Len(r) : x[i] = r[j]
  <2>1. CASE ~s.responder
    BY <1>2, <1>3, <2>1
  <2>2. CASE s.responder
    <3>1. x = s.out \o r
      BY <2>2
    <3>2. /\ x \in Seq(Wire) /\ Len(s.out) \in Nat /\ Len(r) \in Nat
          /\ Len(x) = Len(s.out) + Len(r)
          /\ \A i \in 1..Len(x) : x[i] = IF i <= Len(s.out) THEN s.out[i] ELSE r[i - Len(s.out)]
      BY <1>2, <1>3, <3>1, ConcatProperties
    <3> HIDE DEF x
    <3>3. \A i \in 1..Len(s.out) : x[i] = s.out[i]
      BY <3>2
    <3>4. ASSUME NEW i \in 1..Len(x), i \notin 1..Len(s.out)
          PROVE  i - Len(s.out) \in 1..Len(r) /\ x[i] = r[i - Len(s.out)]
      BY <3>2, <3>4
    <3> QED BY <3>2, <3>3, <3>4
  <2> QED BY <2>1, <2>2
<1> HIDE DEF x
<1>5. /\ DOMAIN t = Fields /\ t.out = x /\ t.sender = s.sender /\ t.store = s.store
      /\ t.cfg = s.cfg /\ t.sched = s.sched /\ t.target = s.target /\ t.tail = s.tail
      /\ t.heartBtInt = s.heartBtInt /\ t.queue = s.queue /\ t.got = s.got
      /\ t.receivedReset = s.receivedReset /\ t.sentReset = s.sentReset
  BY DEF Sent, Sound, Fields
<1> HIDE DEF t
<1>6. Sound(t)
  BY <1>4, <1>5 DEF Sent, Sound
<1>7. Grown(o, t)
  BY <1>5 DEF Sent, Grown
<1>8. \A y : Genuine(s, y) => Genuine(t, y)
  BY <1>5 DEF Genuine
<1>9. OutOK(o, t)
  <2>1. \A i \in 1..Len(x) : Genuine(t, x[i])
    BY <1>2, <1>4, <1>8 DEF Sent, OutOK
  <2>2. ASSUME NEW j \in 1..Len(x), x[j].type = "Logout"
        PROVE  o.sender <= x[j].seq /\ \A i \in 1..(j - 1) : NumberAfter(x[i]) <= x[j].seq
    <3>1. j \in 1..Len(s.out)
      BY <1>2, <1>4, <2>2
    <3>2. \A i \in 1..(j - 1) : i \in 1..Len(s.out)
      BY <1>4, <3>1
    <3> QED BY <1>4, <2>2, <3>1, <3>2 DEF Sent, OutOK
  <2> QED BY <1>5, <2>1, <2>2 DEF OutOK
<1>10. Same(s, t)
  BY <1>5 DEF Same
<1> QED BY <1>1, <1>6, <1>7, <1>9, <1>10 DEF Sent

\* The timer sends, or ends the connection.
LEMMA TimerSent ==
  ASSUME NEW o, NEW s, Sent(o, s)
  PROVE  /\ Sent(o, TimerStep(s)) /\ Same(s, TimerStep(s))
         /\ Sent(o, TimerIfLoggedOn(s)) /\ Same(s, TimerIfLoggedOn(s))
<1> DEFINE s1 == IF ~s.enabled /\ ~s.sentLogout THEN GenerateLogout(s) ELSE s
           s2 == IF LogoutTimedOut(s1) THEN Disconnect(s1) ELSE s1
           t == TimerStep(s)
<1>1. Sent(o, s1) /\ Same(s, s1)
  BY GenerateSent, SameReflexive
<1>2. \/ t = s \/ t = s1 \/ t = TimerBeforeLogon(s1) \/ t = TimerHeartbeat(s2)
  BY DEF TimerStep, Sent, Sound
<1> HIDE DEF s1
<1>3. Sent(o, s2) /\ Same(s, s2)
  BY <1>1, DisconnectSent, SameTransitive
<1> HIDE DEF s2, t
<1>4. Sent(o, TimerBeforeLogon(s1)) /\ Same(s, TimerBeforeLogon(s1))
  BY <1>1, GenerateLogonSent, DisconnectSent, SameTransitive DEF TimerBeforeLogon
<1>5. Sent(o, TimerHeartbeat(s2)) /\ Same(s, TimerHeartbeat(s2))
  <2> DEFINE q == GenerateTestRequest(s2)
             v == [q EXCEPT !.testRequest = s2.testRequest + 1]
  <2>1. /\ Sent(o, q) /\ Same(s2, q)
        /\ Sent(o, GenerateHeartbeat(s2)) /\ Same(s2, GenerateHeartbeat(s2))
        /\ Sent(o, Disconnect(s2)) /\ Same(s2, Disconnect(s2))
    BY <1>3, GenerateSent, DisconnectSent
  <2>2. TimerHeartbeat(s2) \in {s2, Disconnect(s2), v, GenerateHeartbeat(s2)}
    BY DEF TimerHeartbeat
  <2> HIDE DEF q
  <2>3. Alike(q, v) /\ Same(q, v)
    BY <2>1 DEF Alike, Same, Sent, Sound, Fields
  <2> HIDE DEF v
  <2>4. Sent(o, v) /\ Same(s2, v)
    BY <2>1, <2>3, SentAlike, SameTransitive
  <2>5. Same(s, v) /\ Same(s, Disconnect(s2)) /\ Same(s, GenerateHeartbeat(s2))
    BY <1>3, <2>1, <2>4, SameTransitive
  <2> QED BY <1>3, <2>1, <2>2, <2>4, <2>5
<1>6. Sent(o, t) /\ Same(s, t)
  BY <1>1, <1>2, <1>4, <1>5, SameReflexive
<1> QED BY <1>6, SameReflexive DEF TimerIfLoggedOn, t

\* The end of nextLogon retransmits.
LEMMA LogonTailSent ==
  ASSUME NEW o, NEW s, Sent(o, s)
  PROVE  Sent(o, LogonTail(s, {})) /\ Same(s, LogonTail(s, {}))
<1>1. CASE s.tail = 0
  BY <1>1, SameReflexive DEF LogonTail
<1>2. CASE s.tail # 0
  <2> DEFINE r == RetransmitOrFill(s, s.tail, s.sender - 1, {})
             t == [r EXCEPT !.tail = 0]
  <2>1. s.tail \in Nat \ {0}
    BY <1>2 DEF Sent, Sound
  <2>2. Sent(o, r) /\ Same(s, r)
    BY <2>1, RetransmitSent
  <2>3. LogonTail(s, {}) = t
    BY <1>2 DEF LogonTail
  <2> HIDE DEF r
  <2>4. Alike(r, t) /\ Same(r, t)
    BY <2>2 DEF Alike, Same, Sent, Sound, Fields
  <2> HIDE DEF t
  <2> QED BY <2>2, <2>3, <2>4, SentAlike, SameTransitive
<1> QED BY <1>1, <1>2

-----------------------------------------------------------------------------
(* What a session makes of a message *)

\* t may have m in its queue, besides what s has in its own.
Queues(s, t, m) ==
  \A n \in DOMAIN t.queue :
    \/ n \in DOMAIN s.queue /\ t.queue[n] = s.queue[n]
    \/ n = m.seq /\ t.queue[n] = m /\ m.type # "Logout"

\* The application has seen m.
Passed(s, t, m) ==
  /\ t.target = s.target
  /\ DOMAIN t.queue \subseteq DOMAIN s.queue
  /\ \A n \in DOMAIN t.queue : t.queue[n] = s.queue[n]
  /\ t.got = IF m.type = "App" THEN Append(s.got, m.body) ELSE s.got

\* m has been counted: only a Logout may be counted with another number than the
\* expected one.
Counted(s, t, m) ==
  /\ m.type # "Logout" => m.seq = s.target /\ t.target = NumberAfter(m)
  /\ m.type = "Logout" => t.target = s.target + 1
  /\ t.target > s.target
  /\ t.got = IF m.type = "App" THEN Append(s.got, m.body) ELSE s.got

\* From s to t, m was counted, or it waits, or it left no trace.
Handled(s, t, m) ==
  /\ Queues(s, t, m)
  /\ (t.target = s.target /\ t.got = s.got) \/ Counted(s, t, m)

\* A message that left no trace.
LEMMA SameHandled ==
  ASSUME NEW s, NEW t, NEW m, Same(s, t)
  PROVE  Handled(s, t, m)
BY DEF Same, Handled, Queues

\* Handling a message composes with what does not handle one, after it and before it.
LEMMA HandledThenSame ==
  ASSUME NEW s, NEW t, NEW u, NEW m, Handled(s, t, m), Same(t, u)
  PROVE  Handled(s, u, m)
BY DEF Same, Handled, Queues, Counted

\* Handling after methods that receive nothing.
LEMMA SameThenHandled ==
  ASSUME NEW s, NEW t, NEW u, NEW m, Same(s, t), Handled(t, u, m)
  PROVE  Handled(s, u, m)
BY DEF Same, Handled, Queues, Counted

\* Passing a message on composes with them too.
LEMMA PassedThenSame ==
  ASSUME NEW s, NEW t, NEW u, NEW m, Passed(s, t, m), Same(t, u)
  PROVE  Passed(s, u, m)
BY DEF Same, Passed

\* fromAdmin receives nothing for the application.
LEMMA PassedSame ==
  ASSUME NEW s, NEW t, NEW m, Passed(s, t, m), m.type # "App"
  PROVE  Same(s, t)
BY DEF Same, Passed

\* Counting the expected message.
LEMMA CountHandled ==
  ASSUME NEW o, NEW s, NEW t, NEW m \in Wire, Sent(o, t), Passed(s, t, m), m.seq = s.target,
         m.type \notin {"SequenceReset", "Logout"}
  PROVE  Sent(o, IncrTarget(t)) /\ Handled(s, IncrTarget(t), m)
<1> DEFINE u == [t EXCEPT !.target = t.target + 1]
<1>1. t.target \in Nat \ {0}
  BY DEF Sent, Sound
<1>2. Alike(t, u) /\ u.target = t.target + 1 /\ u.queue = t.queue /\ u.got = t.got
  BY <1>1 DEF Alike, Sent, Sound, Fields
<1> HIDE DEF u
<1>3. Sent(o, u)
  BY <1>2, SentAlike
<1>4. Handled(s, u, m)
  BY <1>1, <1>2 DEF Handled, Queues, Counted, Passed, NumberAfter
<1> QED BY <1>3, <1>4 DEF IncrTarget, u

\* verify() passes the message on.
LEMMA VerifyPassedSent ==
  ASSUME NEW o, NEW s, NEW m, Sent(o, s), NEW checked
  PROVE  LET t == VerifyPassed(s, m, checked) IN
           /\ Sent(o, t) /\ Passed(s, t, m)
           /\ t.sentLogout = s.sentLogout
<1> DEFINE rr == IF checked /\ ResendRequested(s) /\ m.seq >= s.resendRange[2]
                 THEN <<0, 0>> ELSE s.resendRange
           g == IF m.type = "App" THEN Append(s.got, m.body) ELSE s.got
           z == IF m.type = "App" THEN s.seen \cup {m.seq} ELSE s.seen
           t == [s EXCEPT !.resendRange = rr, !.sinceReceived = 0, !.testRequest = 0,
                          !.got = g, !.seen = z]
<1>1. VerifyPassed(s, m, checked) = t
  BY DEF VerifyPassed
<1>5. g = IF m.type = "App" THEN Append(s.got, m.body) ELSE s.got
  OBVIOUS
<1> HIDE DEF rr, g, z
<1>2. Alike(s, t)
  BY DEF Alike, Sent, Sound, Fields
<1>3. t.got = g /\ t.target = s.target /\ t.queue = s.queue /\ t.sentLogout = s.sentLogout
  BY DEF Sent, Sound, Fields
<1> HIDE DEF t
<1>4. Sent(o, t)
  BY <1>2, SentAlike
<1> QED BY <1>1, <1>3, <1>4, <1>5 DEF Passed

\* A message above the expected number is queued, and its gap asked for.
LEMMA QueueSent ==
  ASSUME NEW o, NEW s, NEW m, Sent(o, s), m.type # "Logout"
  PROVE  Sent(o, Queue(s, m)) /\ Handled(s, Queue(s, m), m)
<1> DEFINE q == [n \in DOMAIN s.queue \cup {m.seq} |-> IF n = m.seq THEN m ELSE s.queue[n]]
           t == [s EXCEPT !.queue = q]
<1>1. \A n \in DOMAIN q : (n \in DOMAIN s.queue /\ q[n] = s.queue[n]) \/ (n = m.seq /\ q[n] = m)
  OBVIOUS
<1> HIDE DEF q
<1>2. Alike(s, t)
  BY DEF Alike, Sent, Sound, Fields
<1>3. t.queue = q /\ t.got = s.got /\ t.target = s.target
  BY DEF Sent, Sound, Fields
<1> HIDE DEF t
<1>4. Handled(s, t, m)
  BY <1>1, <1>3 DEF Handled, Queues
<1>5. Sent(o, t)
  BY <1>2, SentAlike
<1> QED BY <1>4, <1>5 DEF Queue, t, q

\* doTargetTooHigh queues the message, with or without a request.
LEMMA TooHighHandled ==
  ASSUME NEW o, NEW s, NEW m, Sent(o, s), m.type # "Logout"
  PROVE  Sent(o, DoTargetTooHigh(s, m)) /\ Handled(s, DoTargetTooHigh(s, m), m)
<1> DEFINE q == Queue(s, m)
           r == GenerateResendRequest(q, m.seq)
<1>1. Sent(o, q) /\ Handled(s, q, m)
  BY QueueSent
<1>2. DoTargetTooHigh(s, m) \in {q, r}
  BY DEF DoTargetTooHigh
<1> HIDE DEF q
<1>3. Sent(o, r) /\ Same(q, r)
  BY <1>1, GenerateResendRequestSent
<1>4. Handled(s, r, m)
  BY <1>1, <1>3, HandledThenSame
<1> QED BY <1>1, <1>2, <1>3, <1>4

\* Ending the session for a message that should not have come.
LEMMA LogoutDisconnectSent ==
  ASSUME NEW o, NEW s, Sent(o, s)
  PROVE  LET t == Disconnect(GenerateLogout(s)) IN Sent(o, t) /\ Same(s, t)
<1> DEFINE l == GenerateLogout(s)
<1>1. Sent(o, l) /\ Same(s, l)
  BY GenerateSent
<1> HIDE DEF l
<1>2. Sent(o, Disconnect(l)) /\ Same(l, Disconnect(l))
  BY <1>1, DisconnectSent
<1>3. Same(s, Disconnect(l))
  BY <1>1, <1>2, SameTransitive
<1> QED BY <1>2, <1>3 DEF l

\* A message that does not pass.
LEMMA RefusedHandled ==
  ASSUME NEW o, NEW s, NEW m \in Wire, Sent(o, s), NEW hi \in BOOLEAN, NEW lo \in BOOLEAN,
         hi => m.type # "Logout", ~Passes(s, m, hi, lo, "accept")
  PROVE  LET t == Refused(s, m, hi, lo, "accept") IN Sent(o, t) /\ Handled(s, t, m)
<1> DEFINE x == VerifyOutcome(s, m, hi, lo)
           t == Refused(s, m, hi, lo, "accept")
<1>1. m.defect = "none"
  BY DEF Wire
<1>2. x \in {"badState", "tooHigh", "tooLow"} /\ (x = "tooHigh" => hi)
  BY <1>1 DEF Passes, VerifyOutcome
<1>3. t = VerifyFailed(s, m, x)
  BY <1>2 DEF Refused
<1> SUFFICES Sent(o, t) /\ Handled(s, t, m)
  OBVIOUS
<1> HIDE DEF x, t
<1>4. CASE x = "badState"
  <2>1. t = Disconnect(s)
    BY <1>3, <1>4 DEF VerifyFailed
  <2> QED BY <2>1, DisconnectSent, SameHandled
<1>5. CASE x = "tooHigh"
  <2>1. t = DoTargetTooHigh(s, m)
    BY <1>3, <1>5 DEF VerifyFailed
  <2> QED BY <1>2, <1>5, <2>1, TooHighHandled
<1>6. CASE x = "tooLow"
  <2>1. t = DoTargetTooLow(s, m)
    BY <1>3, <1>6 DEF VerifyFailed
  <2>2. t = s \/ t = Disconnect(GenerateLogout(s))
    BY <1>1, <2>1 DEF DoTargetTooLow, DoPossDup
  <2> QED BY <2>2, LogoutDisconnectSent, SameReflexive, SameHandled
<1> QED BY <1>2, <1>4, <1>5, <1>6

\* One that passes both checks of its number has the expected one.
LEMMA PassesExpected ==
  ASSUME NEW s, NEW m \in Wire, s.target \in Nat, Passes(s, m, TRUE, TRUE, "accept")
  PROVE  m.seq = s.target
<1>1. m.seq \in Nat
  BY DEF Wire
<1>2. ~(m.seq > s.target) /\ ~(m.seq < s.target)
  BY DEF Passes, VerifyOutcome
<1> QED BY <1>1, <1>2

\* The handlers of one message, for an application that accepts it.
LEMMA NextExpectedHandled ==
  ASSUME NEW o, NEW s, NEW m \in Wire, Sent(o, s), m.type \in {"Heartbeat", "App"}
  PROVE  LET t == NextHeartbeat(s, m, "accept") IN Sent(o, t) /\ Handled(s, t, m)
<1> DEFINE v == VerifyPassed(s, m, TRUE)
<1>1. CASE Passes(s, m, TRUE, TRUE, "accept")
  <2>1. m.seq = s.target
    BY <1>1, PassesExpected DEF Sent, Sound
  <2>2. Sent(o, v) /\ Passed(s, v, m)
    BY VerifyPassedSent
  <2> HIDE DEF v
  <2>3. Sent(o, IncrTarget(v)) /\ Handled(s, IncrTarget(v), m)
    BY <2>1, <2>2, CountHandled
  <2> QED BY <1>1, <2>3 DEF NextHeartbeat, v
<1>2. CASE ~Passes(s, m, TRUE, TRUE, "accept")
  <2>1. LET t == Refused(s, m, TRUE, TRUE, "accept") IN Sent(o, t) /\ Handled(s, t, m)
    BY <1>2, RefusedHandled
  <2> QED BY <1>2, <2>1 DEF NextHeartbeat
<1> QED BY <1>1, <1>2

\* nextTestRequest answers before it counts.
LEMMA NextTestRequestHandled ==
  ASSUME NEW o, NEW s, NEW m \in Wire, Sent(o, s), m.type = "TestRequest"
  PROVE  LET t == NextTestRequest(s, m, "accept") IN Sent(o, t) /\ Handled(s, t, m)
<1> DEFINE v == VerifyPassed(s, m, TRUE)
           h == GenerateHeartbeat(v)
<1>1. CASE Passes(s, m, TRUE, TRUE, "accept")
  <2>1. m.seq = s.target
    BY <1>1, PassesExpected DEF Sent, Sound
  <2>2. Sent(o, v) /\ Passed(s, v, m)
    BY VerifyPassedSent
  <2> HIDE DEF v
  <2>3. Sent(o, h) /\ Same(v, h)
    BY <2>2, GenerateSent
  <2>4. Passed(s, h, m)
    BY <2>2, <2>3, PassedThenSame
  <2> HIDE DEF h
  <2>5. Sent(o, IncrTarget(h)) /\ Handled(s, IncrTarget(h), m)
    BY <2>1, <2>3, <2>4, CountHandled
  <2> QED BY <1>1, <2>5 DEF NextTestRequest, v, h
<1>2. CASE ~Passes(s, m, TRUE, TRUE, "accept")
  <2>1. LET t == Refused(s, m, TRUE, TRUE, "accept") IN Sent(o, t) /\ Handled(s, t, m)
    BY <1>2, RefusedHandled
  <2> QED BY <1>2, <2>1 DEF NextTestRequest
<1> QED BY <1>1, <1>2

\* nextLogout counts the expected number, whatever the number of the Logout.
LEMMA NextLogoutHandled ==
  ASSUME NEW o, NEW s, NEW m \in Wire, Sent(o, s), m.type = "Logout"
  PROVE  LET t == NextLogout(s, m, "accept") IN Sent(o, t) /\ Handled(s, t, m)
<1> DEFINE v == VerifyPassed(s, m, FALSE)
           l == IF v.sentLogout THEN v ELSE GenerateLogout(v)
           i == [l EXCEPT !.target = l.target + 1]
<1>1. CASE Passes(s, m, FALSE, FALSE, "accept")
  <2>1. Sent(o, v) /\ Passed(s, v, m)
    BY VerifyPassedSent
  <2>2. NextLogout(s, m, "accept") = LogoutAccepted(v)
    BY <1>1 DEF NextLogout
  <2> HIDE DEF v
  <2>3. Sent(o, l) /\ Same(v, l)
    BY <2>1, GenerateSent, SameReflexive
  <2>4. Passed(s, l, m)
    BY <2>1, <2>3, PassedThenSame
  <2>5. LogoutAccepted(v) = Disconnect(IF i.cfg.resetOnLogout THEN Reset(i) ELSE i)
    BY DEF LogoutAccepted, IncrTarget
  <2> HIDE DEF l
  <2>6. l.target \in Nat \ {0}
    BY <2>3 DEF Sent, Sound
  <2>7. Alike(l, i) /\ i.target = l.target + 1 /\ i.queue = l.queue /\ i.got = l.got
        /\ i.cfg = l.cfg
    BY <2>3, <2>6 DEF Alike, Sent, Sound, Fields
  <2> HIDE DEF i
  <2>8. Sent(o, i)
    BY <2>3, <2>7, SentAlike
  <2>9. ~i.cfg.resetOnLogout
    BY <2>8 DEF Sent, Sound, Plain
  <2>10. Handled(s, i, m)
    BY <2>4, <2>6, <2>7 DEF Handled, Queues, Counted, Passed
  <2>11. Sent(o, Disconnect(i)) /\ Same(i, Disconnect(i))
    BY <2>8, DisconnectSent
  <2>12. Handled(s, Disconnect(i), m)
    BY <2>10, <2>11, HandledThenSame
  <2> QED BY <2>2, <2>5, <2>9, <2>11, <2>12
<1>2. CASE ~Passes(s, m, FALSE, FALSE, "accept")
  <2>1. LET t == Refused(s, m, FALSE, FALSE, "accept") IN Sent(o, t) /\ Handled(s, t, m)
    BY <1>2, RefusedHandled
  <2> QED BY <1>2, <2>1 DEF NextLogout
<1> QED BY <1>1, <1>2

\* nextSequenceReset moves the expected number to the end of the gap.
LEMMA NextSequenceResetHandled ==
  ASSUME NEW o, NEW s, NEW m \in Wire, Sent(o, s), m.type = "SequenceReset"
  PROVE  LET t == NextSequenceReset(s, m, "accept") IN Sent(o, t) /\ Handled(s, t, m)
<1> DEFINE v == VerifyPassed(s, m, TRUE)
<1>0. m.flag = TRUE /\ m.num \in Nat
  BY DEF Wire
<1>1. CASE Passes(s, m, TRUE, TRUE, "accept")
  <2>1. m.seq = s.target
    BY <1>1, PassesExpected DEF Sent, Sound
  <2>2. Sent(o, v) /\ Passed(s, v, m)
    BY VerifyPassedSent
  <2>3. NextSequenceReset(s, m, "accept") = SequenceResetAccepted(v, m)
    BY <1>0, <1>1 DEF NextSequenceReset
  <2> HIDE DEF v
  <2>4. CASE m.num > v.target
    <3> DEFINE n == [v EXCEPT !.target = m.num]
               q == [k \in {j \in DOMAIN n.queue : j >= m.num} |-> n.queue[k]]
               t == [n EXCEPT !.queue = q]
    <3>1. SequenceResetAccepted(v, m) = t
      BY <2>4 DEF SequenceResetAccepted, ClearQueueUpTo
    <3>2. v.target \in Nat \ {0}
      BY <2>2 DEF Sent, Sound
    <3>3. Alike(v, n) /\ n.target = m.num /\ n.queue = v.queue /\ n.got = v.got
      BY <1>0, <2>2, <2>4, <3>2 DEF Alike, Sent, Sound, Fields
    <3> HIDE DEF n
    <3>4. DOMAIN q \subseteq DOMAIN n.queue /\ \A k \in DOMAIN q : q[k] = n.queue[k]
      OBVIOUS
    <3> HIDE DEF q
    <3>5. Alike(n, t) /\ t.target = m.num /\ t.queue = q /\ t.got = n.got
      BY <1>0, <3>3 DEF Alike, Fields
    <3> HIDE DEF t
    <3>6. Sent(o, t)
      BY <2>2, <3>3, <3>5, SentAlike
    <3>7. Queues(s, t, m)
      BY <2>2, <3>3, <3>4, <3>5 DEF Queues, Passed
    <3>8. Counted(s, t, m)
      BY <2>1, <2>2, <2>4, <3>3, <3>5 DEF Counted, Passed, NumberAfter
    <3> QED BY <2>3, <3>1, <3>6, <3>7, <3>8 DEF Handled
  <2>5. CASE ~(m.num > v.target)
    <3>1. SequenceResetAccepted(v, m) = v
      BY <1>0, <2>5 DEF SequenceResetAccepted
    <3>2. Handled(s, v, m)
      BY <2>2, PassedSame, SameHandled
    <3> QED BY <2>2, <2>3, <3>1, <3>2
  <2> QED BY <2>4, <2>5
<1>2. CASE ~Passes(s, m, TRUE, TRUE, "accept")
  <2>1. LET t == Refused(s, m, TRUE, TRUE, "accept") IN Sent(o, t) /\ Handled(s, t, m)
    BY <1>2, RefusedHandled
  <2> QED BY <1>0, <1>2, <2>1 DEF NextSequenceReset
<1> QED BY <1>1, <1>2

\* nextResendRequest answers at any number, and counts only the expected one.
LEMMA NextResendRequestHandled ==
  ASSUME NEW o, NEW s, NEW m \in Wire, Sent(o, s), m.type = "ResendRequest"
  PROVE  LET t == NextResendRequest(s, m, "accept", {}) IN Sent(o, t) /\ Handled(s, t, m)
<1> DEFINE v == VerifyPassed(s, m, FALSE)
           r == RetransmitOrFill(v, m.num, v.sender - 1, {})
<1>0. m.num \in Nat \ {0} /\ m.end = 0
  BY DEF Wire
<1>1. CASE Passes(s, m, FALSE, FALSE, "accept")
  <2>1. Sent(o, v) /\ Passed(s, v, m)
    BY VerifyPassedSent
  <2>2. NextResendRequest(s, m, "accept", {}) = ResendRequestAccepted(v, m, {})
    BY <1>1 DEF NextResendRequest
  <2> HIDE DEF v
  <2>3. ResendRequestAccepted(v, m, {}) = IF m.seq = r.target THEN IncrTarget(r) ELSE r
    BY <1>0 DEF ResendRequestAccepted
  <2>4. Sent(o, r) /\ Same(v, r)
    BY <1>0, <2>1, RetransmitSent
  <2>5. Passed(s, r, m)
    BY <2>1, <2>4, PassedThenSame
  <2> HIDE DEF r
  <2>6. Handled(s, r, m)
    BY <2>5, PassedSame, SameHandled
  <2>7. m.seq = r.target => Sent(o, IncrTarget(r)) /\ Handled(s, IncrTarget(r), m)
    BY <2>4, <2>5, CountHandled DEF Passed
  <2> QED BY <2>2, <2>3, <2>4, <2>6, <2>7
<1>2. CASE ~Passes(s, m, FALSE, FALSE, "accept")
  <2>1. LET t == Refused(s, m, FALSE, FALSE, "accept") IN Sent(o, t) /\ Handled(s, t, m)
    BY <1>2, RefusedHandled
  <2> QED BY <1>2, <2>1 DEF NextResendRequest
<1> QED BY <1>1, <1>2

\* nextLogon once the Logon has been accepted.
LEMMA LogonAcceptedHandled ==
  ASSUME NEW o, NEW s, NEW m \in Wire, Sent(o, s), m.type = "Logon", m.seq >= s.target
  PROVE  LET t == LogonAccepted(s, m) IN Sent(o, t) /\ Handled(s, t, m)
<1> DEFINE h == [s EXCEPT !.heartBtInt = m.hb]
           s1 == IF ~s.cfg.initiate \/ (s.receivedReset /\ ~s.sentReset)
                 THEN GenerateLogonReply(h, m) ELSE s
           k == IF m.num # 0 /\ m.num < s.sender THEN m.num ELSE 0
           s2 == [s1 EXCEPT !.sentReset = FALSE, !.receivedReset = FALSE, !.tail = k]
           q == Queue(s2, m)
           qr == [q EXCEPT !.resendRange = <<s2.target, m.seq - 1>>]
           t == LogonAccepted(s, m)
<1>0. m.num \in Nat /\ m.hb \in Nat /\ m.seq \in Nat \ {0} /\ m.flag = FALSE
  BY DEF Wire
<1>1. \/ t = Disconnect(GenerateLogout(s))
      \/ t = IncrTarget(s2) /\ m.seq <= s2.target
      \/ t = qr
      \/ t = DoTargetTooHigh(s2, m)
  BY <1>0 DEF LogonAccepted
<1>2. k \in Nat
  BY <1>0
<1>3. Alike(s, h) /\ Same(s, h)
  BY <1>0 DEF Alike, Same, Sent, Sound, Fields
<1> HIDE DEF h, k
<1>4. Sent(o, s1) /\ Same(s, s1)
  BY <1>3, SentAlike, GenerateLogonReplySent, SameReflexive, SameTransitive
<1> HIDE DEF s1
<1>5. Alike(s1, s2) /\ Same(s1, s2)
  BY <1>2, <1>4 DEF Alike, Same, Sent, Sound, Fields
<1> HIDE DEF s2
<1>6. Sent(o, s2) /\ Same(s, s2)
  BY <1>4, <1>5, SentAlike, SameTransitive
<1>7. Sent(o, q) /\ Handled(s2, q, m)
  BY <1>6, QueueSent
<1> HIDE DEF q
<1>8. Alike(q, qr) /\ Same(q, qr)
  BY <1>7 DEF Alike, Same, Sent, Sound, Fields
<1> HIDE DEF qr
<1>9. Sent(o, qr) /\ Handled(s2, qr, m)
  BY <1>7, <1>8, SentAlike, HandledThenSame
<1>10. Handled(s, qr, m)
  BY <1>6, <1>9, SameThenHandled
<1> SUFFICES Sent(o, t) /\ Handled(s, t, m)
  OBVIOUS
<1> HIDE DEF t
<1>11. CASE t = Disconnect(GenerateLogout(s))
  BY <1>11, LogoutDisconnectSent, SameHandled
<1>12. CASE t = IncrTarget(s2) /\ m.seq <= s2.target
  <2>1. Passed(s, s2, m)
    BY <1>6 DEF Passed, Same
  <2>2. m.seq = s.target
    BY <1>0, <1>6, <1>12 DEF Sent, Sound, Same
  <2> QED BY <1>6, <1>12, <2>1, <2>2, CountHandled
<1>13. CASE t = qr
  BY <1>9, <1>10, <1>13
<1>14. CASE t = DoTargetTooHigh(s2, m)
  <2>1. Sent(o, t) /\ Handled(s2, t, m)
    BY <1>6, <1>14, TooHighHandled
  <2> QED BY <1>6, <2>1, SameThenHandled
<1> QED BY <1>1, <1>11, <1>12, <1>13, <1>14

\* nextLogon of a Logon without ResetSeqNumFlag.
LEMMA NextLogonHandled ==
  ASSUME NEW o, NEW s, NEW m \in Wire, Sent(o, s), m.type = "Logon"
  PROVE  LET t == NextLogon(s, m, "accept") IN Sent(o, t) /\ Handled(s, t, m)
<1> DEFINE s1 == [s EXCEPT !.receivedReset = m.flag]
           v == VerifyPassed(s1, m, TRUE)
           l == [v EXCEPT !.receivedLogon = TRUE]
           t == NextLogon(s, m, "accept")
<1>0. m.flag = FALSE /\ m.seq \in Nat
  BY DEF Wire
<1>1. Alike(s, s1) /\ Same(s, s1) /\ s1.cfg = s.cfg
  BY <1>0 DEF Alike, Same, Sent, Sound, Fields
<1>2. \/ t = Disconnect(s1)
      \/ t = LogonAccepted(l, m) /\ Passes(s1, m, FALSE, TRUE, "accept")
      \/ t = Refused(s1, m, FALSE, TRUE, "accept") /\ ~Passes(s1, m, FALSE, TRUE, "accept")
  <2>1. ((m.flag /\ ~s1.sentReset) \/ (~s1.cfg.initiate /\ s1.cfg.resetOnLogon)) = FALSE
    BY <1>0, <1>1 DEF Sent, Sound, Plain
  <2> HIDE DEF s1
  <2> QED BY <2>1 DEF NextLogon, s1
<1> HIDE DEF s1
<1>3. Sent(o, s1)
  BY <1>1, SentAlike
<1>4. Sent(o, v) /\ Passed(s1, v, m)
  BY <1>3, VerifyPassedSent
<1>5. Same(s1, v)
  BY <1>4, PassedSame
<1> HIDE DEF v
<1>6. Alike(v, l) /\ Same(v, l)
  BY <1>4 DEF Alike, Same, Sent, Sound, Fields
<1> HIDE DEF l
<1>7. Sent(o, l) /\ Same(s1, l)
  BY <1>4, <1>5, <1>6, SentAlike, SameTransitive
<1>8. Same(s, l)
  BY <1>1, <1>7, SameTransitive
<1> SUFFICES Sent(o, t) /\ Handled(s, t, m)
  OBVIOUS
<1> HIDE DEF t
<1>9. CASE t = Disconnect(s1)
  <2>1. Sent(o, t) /\ Same(s1, t)
    BY <1>3, <1>9, DisconnectSent
  <2> QED BY <1>1, <2>1, SameTransitive, SameHandled
<1>10. CASE t = LogonAccepted(l, m) /\ Passes(s1, m, FALSE, TRUE, "accept")
  <2>1. ~(m.seq < s1.target)
    BY <1>10 DEF Passes, VerifyOutcome
  <2>2. m.seq >= l.target
    BY SMTT(60), <1>0, <1>3, <1>7, <2>1 DEF Same, Sent, Sound
  <2>3. Sent(o, t) /\ Handled(l, t, m)
    BY <1>7, <1>10, <2>2, LogonAcceptedHandled
  <2> QED BY <1>8, <2>3, SameThenHandled
<1>11. CASE t = Refused(s1, m, FALSE, TRUE, "accept") /\ ~Passes(s1, m, FALSE, TRUE, "accept")
  <2>1. Sent(o, t) /\ Handled(s1, t, m)
    BY <1>3, <1>11, RefusedHandled
  <2> QED BY <1>1, <2>1, SameThenHandled
<1> QED BY <1>2, <1>9, <1>10, <1>11

\* next(const Message &).
LEMMA ProcessHandled ==
  ASSUME NEW o, NEW s, NEW m \in Wire, Sent(o, s)
  PROVE  LET t == Process(s, m, "accept", {}) IN Sent(o, t) /\ Handled(s, t, m)
<1> DEFINE t == Process(s, m, "accept", {})
<1>1. m.defect = "none" /\ m.type \in {"Logon", "Heartbeat", "TestRequest", "ResendRequest",
                                        "SequenceReset", "Logout", "App"}
  BY DEF Wire, MsgTypes, AdminTypes
<1>2. t = Dispatch(s, m, "accept", {})
  BY <1>1 DEF Process, Sent, Sound
<1> SUFFICES Sent(o, t) /\ Handled(s, t, m)
  OBVIOUS
<1> HIDE DEF t
<1>3. CASE m.type = "Logon"
  BY <1>2, <1>3, NextLogonHandled DEF Dispatch
<1>4. CASE m.type \in {"Heartbeat", "App"}
  <2>1. t = NextHeartbeat(s, m, "accept")
    BY <1>2, <1>4 DEF Dispatch, NextApp, NextHeartbeat
  <2> QED BY <1>4, <2>1, NextExpectedHandled
<1>5. CASE m.type = "TestRequest"
  BY <1>2, <1>5, NextTestRequestHandled DEF Dispatch
<1>6. CASE m.type = "ResendRequest"
  BY <1>2, <1>6, NextResendRequestHandled DEF Dispatch
<1>7. CASE m.type = "SequenceReset"
  BY <1>2, <1>7, NextSequenceResetHandled DEF Dispatch
<1>8. CASE m.type = "Logout"
  BY <1>2, <1>8, NextLogoutHandled DEF Dispatch
<1> QED BY <1>1, <1>3, <1>4, <1>5, <1>6, <1>7, <1>8

-----------------------------------------------------------------------------
(* The steps of a session *)

\* A step starts with nothing sent and nothing passed on.
LEMMA FreshSent ==
  ASSUME NEW s, Sound(s)
  PROVE  LET t == Fresh(s) IN
           /\ Sent(s, t) /\ t.target = s.target /\ t.queue = s.queue /\ t.got = <<>>
           /\ t.out = <<>> /\ t.sender = s.sender /\ t.store = s.store /\ t.cfg = s.cfg
<1> DEFINE t == [s EXCEPT !.out = <<>>, !.got = <<>>]
<1>1. /\ DOMAIN t = Fields /\ t.cfg = s.cfg /\ t.sched = s.sched /\ t.target = s.target
      /\ t.tail = s.tail /\ t.heartBtInt = s.heartBtInt /\ t.queue = s.queue /\ t.got = <<>>
      /\ t.out = <<>> /\ t.sender = s.sender /\ t.store = s.store
      /\ t.receivedReset = s.receivedReset /\ t.sentReset = s.sentReset
  BY DEF Sound, Fields
<1>2. t = Fresh(s)
  BY DEF Fresh
<1> HIDE DEF t
<1>3. Sound(t)
  BY <1>1 DEF Sound
<1>4. Grown(s, t)
  BY <1>1 DEF Grown, Sound
<1>5. OutOK(s, t)
  BY <1>1 DEF OutOK
<1> QED BY <1>1, <1>2, <1>3, <1>4, <1>5 DEF Sent

\* A change of pc, conn, responder or enabled at the end of a step.
LEMMA MarkSent ==
  ASSUME NEW o, NEW s, Sent(o, s), NEW x
  PROVE  /\ \A t \in {[s EXCEPT !.pc = x], [s EXCEPT !.conn = x], [s EXCEPT !.responder = x],
                      [s EXCEPT !.enabled = x]} : Sent(o, t) /\ Same(s, t)
<1>1. \A t \in {[s EXCEPT !.pc = x], [s EXCEPT !.conn = x], [s EXCEPT !.responder = x],
                [s EXCEPT !.enabled = x]} : Alike(s, t) /\ Same(s, t)
  BY DEF Alike, Same, Sent, Sound, Fields
<1> QED BY <1>1, SentAlike

\* next(const std::string &).
LEMMA ReceivedHandled ==
  ASSUME NEW s, Sound(s), NEW m \in Wire
  PROVE  LET t == Received(s, m, "accept", {}) IN Sent(s, t) /\ Handled(Fresh(s), t, m)
<1> DEFINE f == Fresh(s)
           p == Process(f, m, "accept", {})
           x == IF Exit(f, m, "accept") = "return" THEN "idle" ELSE "drain"
           t == [p EXCEPT !.pc = x]
<1>1. Sent(s, f)
  BY FreshSent
<1>2. Received(s, m, "accept", {}) = t
  BY DEF Received
<1> HIDE DEF f
<1>3. Sent(s, p) /\ Handled(f, p, m)
  BY <1>1, ProcessHandled
<1> HIDE DEF p, x
<1>4. Sent(s, t) /\ Same(p, t)
  BY <1>3, MarkSent
<1>5. Handled(f, t, m)
  BY <1>3, <1>4, HandledThenSame
<1> QED BY <1>2, <1>4, <1>5 DEF f

\* One round of nextQueued.
LEMMA DrainedHandled ==
  ASSUME NEW s, Sound(s), s.target \in DOMAIN s.queue,
         s.queue[s.target] \in Wire, s.queue[s.target].seq = s.target,
         s.queue[s.target].type # "Logout"
  PROVE  LET t == Drained(s, "accept") IN
           Sent(s, t) /\ Handled(Fresh(s), t, s.queue[s.target])
<1> DEFINE m == s.queue[s.target]
           f == Fresh(s)
           q == [k \in DOMAIN s.queue \ {s.target} |-> s.queue[k]]
           u == [s EXCEPT !.queue = q]
           s1 == Fresh(u)
           s2 == Process(s1, m, "accept", {})
           t == Drained(s, "accept")
<1>1. \/ t = IncrTarget(s1) /\ m.type \in {"Logon", "ResendRequest"}
      \/ t = TimerIfLoggedOn(s2) \/ t = s2
  BY DEF Drained, Unqueue
<1>2. DOMAIN q \subseteq DOMAIN s.queue /\ \A k \in DOMAIN q : q[k] = s.queue[k]
  OBVIOUS
<1>3. m \in Wire /\ m.seq = s.target
  OBVIOUS
<1> HIDE DEF q, m
<1>4. /\ DOMAIN u = Fields /\ u.cfg = s.cfg /\ u.sched = s.sched /\ u.target = s.target
      /\ u.tail = s.tail /\ u.heartBtInt = s.heartBtInt /\ u.queue = q
      /\ u.out = s.out /\ u.sender = s.sender /\ u.store = s.store
      /\ u.receivedReset = s.receivedReset /\ u.sentReset = s.sentReset
  BY DEF Sound, Fields
<1> HIDE DEF u
<1>5. Sound(u)
  BY <1>4 DEF Sound
<1>6. Sent(u, s1) /\ s1.target = u.target /\ s1.queue = u.queue /\ s1.got = <<>>
  BY <1>5, FreshSent
<1>7. f.target = s.target /\ f.queue = s.queue /\ f.got = <<>>
  BY FreshSent
<1> HIDE DEF f, s1
<1>8. Sent(s, s1)
  BY <1>4, <1>6 DEF Sent, Grown, OutOK
<1>9. Same(f, s1)
  BY <1>2, <1>4, <1>6, <1>7 DEF Same
<1>10. Sent(s, s2) /\ Handled(s1, s2, m)
  BY <1>3, <1>8, ProcessHandled
<1> HIDE DEF s2
<1>11. Sent(s, TimerIfLoggedOn(s2)) /\ Handled(s1, TimerIfLoggedOn(s2), m)
  BY <1>10, TimerSent, HandledThenSame
<1> SUFFICES Sent(s, t) /\ Handled(f, t, m)
  BY DEF f, m
<1> HIDE DEF t
<1>12. CASE t = IncrTarget(s1) /\ m.type \in {"Logon", "ResendRequest"}
  <2>1. Passed(s1, s1, m) /\ m.seq = s1.target
    BY <1>3, <1>4, <1>6, <1>12 DEF Passed
  <2>2. Sent(s, t) /\ Handled(s1, t, m)
    BY <1>3, <1>8, <1>12, <2>1, CountHandled
  <2> QED BY <1>9, <2>2, SameThenHandled
<1>13. CASE t = TimerIfLoggedOn(s2) \/ t = s2
  BY <1>9, <1>10, <1>11, <1>13, SameThenHandled
<1> QED BY <1>1, <1>12, <1>13

\* The steps that take no message: the end of a handler, the timer, a connection
\* that begins or ends, a heartbeat, the operator.
LEMMA StepsSame ==
  ASSUME NEW s, Sound(s)
  PROVE  /\ LET t == Finished(s, {}) IN Sent(s, t) /\ Same(Fresh(s), t)
         /\ LET t == Ticked(s) IN Sent(s, t) /\ Same(Fresh(s), t)
         /\ LET t == Connected(s) IN Sent(s, t) /\ Same(Fresh(s), t)
         /\ LET t == Ended(s) IN Sent(s, t) /\ Same(Fresh(s), t)
         /\ LET t == GenerateHeartbeat(Fresh(s)) IN Sent(s, t) /\ Same(Fresh(s), t)
         /\ LET t == [Fresh(s) EXCEPT !.enabled = ~s.enabled] IN
              Sent(s, t) /\ Same(Fresh(s), t)
<1> DEFINE f == Fresh(s)
<1>1. Sent(s, f) /\ f.cfg = s.cfg
  BY FreshSent
<1>2. \A t : Sent(s, t) => \A x : SetResponder(t, x) = [t EXCEPT !.responder = x]
  BY DEF SetResponder, Sent, Sound
<1>3. Finished(s, {}) = [TimerIfLoggedOn(LogonTail(f, {})) EXCEPT !.pc = "idle"]
  BY DEF Finished
<1>4. Ticked(s) = TimerStep(f)
  BY DEF Ticked
<1>5. Connected(s) = [SetResponder(f, TRUE) EXCEPT !.conn = "open"]
  BY DEF Connected
<1> DEFINE e == IF ~s.cfg.threaded \/ s.responder THEN Disconnect(f) ELSE f
           g == IF s.cfg.threaded THEN SetResponder(e, FALSE) ELSE e
<1>6. Ended(s) = [g EXCEPT !.conn = "none"]
  BY DEF Ended
<1> HIDE DEF f
<1>7. LET t == Finished(s, {}) IN Sent(s, t) /\ Same(f, t)
  <2> DEFINE l == LogonTail(f, {})
             i == TimerIfLoggedOn(l)
             t == [i EXCEPT !.pc = "idle"]
  <2>1. Sent(s, l) /\ Same(f, l)
    BY <1>1, LogonTailSent
  <2> HIDE DEF l
  <2>2. Sent(s, i) /\ Same(l, i)
    BY <2>1, TimerSent
  <2> HIDE DEF i
  <2>3. Sent(s, t) /\ Same(i, t)
    BY <2>2, MarkSent
  <2>4. Same(f, i)
    BY <2>1, <2>2, SameTransitive
  <2>5. Same(f, t)
    BY <2>3, <2>4, SameTransitive
  <2> QED BY <1>3, <2>3, <2>5 DEF i, l
<1>8. LET t == Ticked(s) IN Sent(s, t) /\ Same(f, t)
  BY <1>1, <1>4, TimerSent
<1>9. LET t == Connected(s) IN Sent(s, t) /\ Same(f, t)
  <2> DEFINE r == [f EXCEPT !.responder = TRUE]
             t == [r EXCEPT !.conn = "open"]
  <2>1. Sent(s, r) /\ Same(f, r)
    BY <1>1, MarkSent
  <2>2. Connected(s) = t
    BY <1>1, <1>2, <1>5
  <2> HIDE DEF r
  <2>3. Sent(s, t) /\ Same(r, t)
    BY <2>1, MarkSent
  <2>4. Same(f, t)
    BY <2>1, <2>3, SameTransitive
  <2> QED BY <2>2, <2>3, <2>4
<1>10. LET t == Ended(s) IN Sent(s, t) /\ Same(f, t)
  <2>1. Sent(s, e) /\ Same(f, e)
    BY <1>1, DisconnectSent, SameReflexive
  <2> HIDE DEF e
  <2>2. Sent(s, g) /\ Same(e, g)
    <3> DEFINE x == [e EXCEPT !.responder = FALSE]
    <3>1. g = x \/ g = e
      BY <1>2, <2>1
    <3>2. Sent(s, x) /\ Same(e, x)
      BY <2>1, MarkSent
    <3> HIDE DEF x, g
    <3> QED BY <2>1, <3>1, <3>2, SameReflexive
  <2> HIDE DEF g
  <2> DEFINE t == [g EXCEPT !.conn = "none"]
  <2>3. Sent(s, t) /\ Same(g, t)
    BY <2>2, MarkSent
  <2>4. Same(f, g)
    BY <2>1, <2>2, SameTransitive
  <2>5. Same(f, t)
    BY <2>3, <2>4, SameTransitive
  <2> QED BY <1>6, <2>3, <2>5
<1>11. LET t == GenerateHeartbeat(f) IN Sent(s, t) /\ Same(f, t)
  BY <1>1, GenerateSent
<1>12. LET t == [f EXCEPT !.enabled = ~s.enabled] IN Sent(s, t) /\ Same(f, t)
  <2> DEFINE x == ~s.enabled
  <2> HIDE DEF x
  <2>1. LET t == [f EXCEPT !.enabled = x] IN Sent(s, t) /\ Same(f, t)
    BY <1>1, MarkSent
  <2> QED BY <2>1 DEF x
<1> QED BY <1>7, <1>8, <1>9, <1>10, <1>11, <1>12 DEF f

\* A process that dies and starts again keeps the numbers and the messages.
LEMMA RestartSame ==
  ASSUME NEW s, Sound(s)
  PROVE  LET t == Reopened(s) IN Sent(s, t) /\ Same(Fresh(s), t)
<1> DEFINE t == Reopened(s)
           f == Fresh(s)
<1>1. /\ DOMAIN t = Fields /\ t.cfg = s.cfg /\ t.sched = "same" /\ t.target = s.target
      /\ t.tail = 0 /\ t.heartBtInt = 1 /\ t.queue = <<>> /\ t.got = <<>>
      /\ t.out = <<>> /\ t.sender = s.sender /\ t.store = s.store
      /\ t.receivedReset = FALSE /\ t.sentReset = FALSE
  BY DEF Reopened, InitState, HeartBtInt, Fields
<1>2. f.target = s.target /\ f.got = <<>>
  BY FreshSent
<1> HIDE DEF t, f
<1>3. Sound(t)
  BY <1>1 DEF Sound
<1>4. Grown(s, t)
  BY <1>1 DEF Grown, Sound
<1>5. OutOK(s, t)
  BY <1>1 DEF OutOK
<1>6. Same(f, t)
  BY <1>1, <1>2 DEF Same
<1> QED BY <1>3, <1>4, <1>5, <1>6 DEF Sent, f, t

\* One that dies inside a handler keeps what the handler has stored and sent, and
\* expects what it expected before.
LEMMA UndoneSame ==
  ASSUME NEW s, Sound(s), NEW p, Sent(s, p)
  PROVE  LET t == Undone(s, p) IN Sent(s, t) /\ Same(Fresh(s), t) /\ t.out = p.out
<1> DEFINE t == Undone(s, p)
           f == Fresh(s)
<1>1. /\ DOMAIN t = Fields /\ t.cfg = p.cfg /\ t.sched = "same" /\ t.target = s.target
      /\ t.tail = 0 /\ t.heartBtInt = 1 /\ t.queue = <<>> /\ t.got = <<>>
      /\ t.out = p.out /\ t.sender = p.sender /\ t.store = p.store
      /\ t.receivedReset = FALSE /\ t.sentReset = FALSE
  BY DEF Undone, Reopened, InitState, HeartBtInt, Fields
<1>2. f.target = s.target /\ f.got = <<>>
  BY FreshSent
<1> HIDE DEF t, f
<1>3. Alike(p, t)
  BY <1>1 DEF Alike, Sent, Sound
<1>4. Sent(s, t)
  BY <1>3, SentAlike
<1>5. Same(f, t)
  BY <1>1, <1>2 DEF Same
<1> QED BY <1>1, <1>4, <1>5 DEF f, t

-----------------------------------------------------------------------------
(* One direction: s sends, r receives *)

\* s sends administrative messages and retransmits.
LEMMA DirSent ==
  ASSUME NEW s, NEW t, NEW r, NEW ch, NEW ch2, NEW N, NEW got, NEW over,
         Sound(s), Sound(r), Sent(s, t), Dir(s, r, ch, N, got, over),
         ch2 \in {<<>>, ch, ch \o t.out}
  PROVE  Dir(t, r, ch2, N, got, over)
<1>1. /\ s.sender \in Nat \ {0} /\ t.sender \in Nat \ {0} /\ s.sender <= t.sender
      /\ DOMAIN s.store = 1..(s.sender - 1) /\ DOMAIN t.store = 1..(t.sender - 1)
      /\ \A n \in 1..(s.sender - 1) : t.store[n] = s.store[n]
      /\ \A n \in s.sender..(t.sender - 1) : t.store[n] = NoBody
      /\ t.out \in Seq(Wire) /\ r.target \in Nat
  BY DEF Sent, Sound, Grown
<1>2. \A m : Genuine(s, m) => Genuine(t, m)
  BY <1>1, GenuineGrows
<1>3. \A n \in DOMAIN t.store :
        \/ n \in DOMAIN s.store /\ t.store[n] = s.store[n]
        \/ n \notin DOMAIN s.store /\ t.store[n] = NoBody
  BY <1>1
<1>4. DOMAIN s.store \subseteq DOMAIN t.store /\ \A n \in DOMAIN s.store : t.store[n] = s.store[n]
  BY <1>1
<1>5. N \in Nat /\ NoBody \notin 1..N
  BY NoBodyAssumption DEF Dir
<1>6. Numbering(t, N)
  BY <1>3, <1>4, <1>5 DEF Dir, Numbering
<1>7. Caught(t, r, N, got, over)
  BY SMTT(60), <1>1, <1>3 DEF Dir, Caught
<1>8. Waiting(t, r)
  BY <1>2 DEF Dir, Waiting
<1>9. UnderWay(t, r, ch2)
  <2>1. CASE ch2 = <<>>
    BY <2>1 DEF UnderWay
  <2>2. CASE ch2 = ch
    BY <1>2, <2>2 DEF Dir, UnderWay
  <2>3. CASE ch2 = ch \o t.out
    <3> DEFINE w == t.out
    <3>1. ch \in Seq(Wire) /\ w \in Seq(Wire)
      BY <1>1 DEF Dir, UnderWay
    <3>2. /\ \A i \in 1..Len(w) : Genuine(t, w[i])
          /\ \A j \in 1..Len(w) : w[j].type = "Logout" =>
               /\ s.sender <= w[j].seq
               /\ \A i \in 1..(j - 1) : NumberAfter(w[i]) <= w[j].seq
      BY DEF Sent, OutOK
    <3> HIDE DEF w
    <3>3. /\ ch2 \in Seq(Wire) /\ Len(ch) \in Nat /\ Len(w) \in Nat
          /\ Len(ch2) = Len(ch) + Len(w)
          /\ \A i \in 1..Len(ch2) : ch2[i] = IF i <= Len(ch) THEN ch[i] ELSE w[i - Len(ch)]
      BY <2>3, <3>1, ConcatProperties DEF w
    <3>4. \A i \in 1..Len(ch) : i \in 1..Len(ch2) /\ ch2[i] = ch[i]
      BY <3>3
    <3>5. \A i \in 1..Len(ch2) : \/ i \in 1..Len(ch)
                                 \/ i - Len(ch) \in 1..Len(w) /\ ch2[i] = w[i - Len(ch)]
      BY <3>3
    <3>6. \A i \in 1..Len(ch2) : Genuine(t, ch2[i])
      BY <1>2, <3>2, <3>4, <3>5 DEF Dir, UnderWay
    <3>7. ASSUME NEW j \in 1..Len(ch2), ch2[j].type = "Logout"
          PROVE  /\ r.target <= ch2[j].seq
                 /\ \A i \in 1..(j - 1) : NumberAfter(ch2[i]) <= ch2[j].seq
                 /\ \A n \in DOMAIN r.queue : NumberAfter(r.queue[n]) <= ch2[j].seq
      <4>1. CASE j \in 1..Len(ch)
        <5>1. \A i \in 1..(j - 1) : i \in 1..Len(ch)
          BY <3>3, <4>1
        <5> QED BY <3>4, <3>7, <4>1, <5>1 DEF Dir, UnderWay
      <4>2. CASE j - Len(ch) \in 1..Len(w) /\ ch2[j] = w[j - Len(ch)]
        <5>1. s.sender <= ch2[j].seq /\ ch2[j].seq \in Nat
          BY <3>2, <3>6, <3>7, <4>2 DEF Genuine, Wire
        <5>2. \A m : Genuine(s, m) => NumberAfter(m) <= ch2[j].seq
          <6>1. \A m : Genuine(s, m) => NumberAfter(m) \in Nat /\ NumberAfter(m) <= s.sender
            BY <1>1, GenuineBelow
          <6> QED BY <1>1, <5>1, <6>1
        <5>3. r.target <= ch2[j].seq
          BY <1>1, <5>1 DEF Dir, Caught
        <5>4. \A n \in DOMAIN r.queue : NumberAfter(r.queue[n]) <= ch2[j].seq
          BY <5>2 DEF Dir, Waiting
        <5>5. ASSUME NEW i \in 1..(j - 1)
              PROVE  NumberAfter(ch2[i]) <= ch2[j].seq
          <6>1. i \in 1..Len(ch2)
            BY <3>3
          <6>2. CASE i \in 1..Len(ch)
            BY <3>4, <5>2, <6>2 DEF Dir, UnderWay
          <6>3. CASE i - Len(ch) \in 1..Len(w) /\ ch2[i] = w[i - Len(ch)]
            <7>1. i - Len(ch) \in 1..((j - Len(ch)) - 1)
              BY <3>3, <6>3
            <7> QED BY <3>2, <3>7, <4>2, <6>3, <7>1
          <6> QED BY <3>5, <6>1, <6>2, <6>3
        <5> QED BY <5>3, <5>4, <5>5
      <4> QED BY <3>5, <4>1, <4>2
    <3> QED BY <3>3, <3>6, <3>7 DEF UnderWay
  <2> QED BY <2>1, <2>2, <2>3
<1> QED BY <1>5, <1>6, <1>7, <1>8, <1>9 DEF Dir

\* r takes a step without a message, and what is under way to it may be lost.
LEMMA DirSame ==
  ASSUME NEW s, NEW r, NEW u, NEW ch, NEW ch2, NEW N, NEW got, NEW over,
         Sound(r), Same(Fresh(r), u), Dir(s, r, ch, N, got, over), ch2 \in {<<>>, ch}
  PROVE  Dir(s, u, ch2, N, got \o u.got, over) /\ got \o u.got = got /\ u.got = <<>>
<1>1. /\ u.target = r.target /\ u.got = <<>> /\ DOMAIN u.queue \subseteq DOMAIN r.queue
      /\ \A n \in DOMAIN u.queue : u.queue[n] = r.queue[n]
  BY FreshSent DEF Same
<1>2. got \o u.got = got
  <2>1. got \in Seq(Nat)
    BY DEF Dir, Caught
  <2> QED BY <1>1, <2>1
<1>3. Caught(s, u, N, got, over)
  BY <1>1 DEF Dir, Caught
<1>4. Waiting(s, u)
  BY <1>1 DEF Dir, Waiting
<1>5. UnderWay(s, u, ch2)
  <2>1. CASE ch2 = <<>>
    BY <2>1 DEF UnderWay
  <2>2. CASE ch2 = ch
    BY <1>1, <2>2 DEF Dir, UnderWay
  <2> QED BY <2>1, <2>2
<1> QED BY <1>1, <1>2, <1>3, <1>4, <1>5 DEF Dir

\* Once a Logout has overtaken something, less is asked.
LEMMA DirOvertaken ==
  ASSUME NEW s, NEW r, NEW ch, NEW N, NEW got, NEW over, NEW over2,
         Dir(s, r, ch, N, got, over), over => over2
  PROVE  Dir(s, r, ch, N, got, over2)
BY DEF Dir, Caught

\* What the application of a receiver may see of a handler: nothing, or the message
\* that comes next.
Delivery(N, got, more, over, over2) ==
  \/ more = <<>>
  \/ /\ over2 = over
     /\ \E k \in 1..N : /\ k > LastOf(got) /\ (over \/ k = LastOf(got) + 1)
                        /\ more = <<k>>

\* r handles a message of s: what it counts without passing on is no application
\* message, unless a Logout overtakes, and what it passes on comes next.
LEMMA DirHandled ==
  ASSUME NEW s, NEW r, NEW u, NEW m, NEW ch, NEW ch2, NEW N, NEW got, NEW over \in BOOLEAN,
         NEW over2, Sound(s), Sound(r), Sound(u), Dir(s, r, ch, N, got, over),
         Genuine(s, m), m.type = "Logout" => r.target <= m.seq,
         Handled(Fresh(r), u, m), UnderWay(s, r, ch2),
         \A j \in 1..Len(ch2) : ch2[j].type = "Logout" => NumberAfter(m) <= ch2[j].seq,
         over2 = (over \/ Overtakes(r, m))
  PROVE  /\ Dir(s, u, ch2, N, got \o u.got, over2)
         /\ Delivery(N, got, u.got, over, over2)
<1> DEFINE L == LastOf(got)
<1>1. /\ r.target \in Nat \ {0} /\ u.target \in Nat \ {0} /\ s.sender \in Nat \ {0}
      /\ DOMAIN s.store = 1..(s.sender - 1)
      /\ m \in Wire /\ m.seq \in Nat \ {0} /\ m.num \in Nat
      /\ N \in Nat /\ got \in Seq(Nat) /\ L \in 0..N /\ NoBody \notin Nat
  BY NoBodyAssumption DEF Sound, Genuine, Wire, Dir, Caught
<1>2. /\ \A n \in DOMAIN u.queue :
           \/ n \in DOMAIN r.queue /\ u.queue[n] = r.queue[n]
           \/ n = m.seq /\ u.queue[n] = m /\ m.type # "Logout"
      /\ \/ u.target = r.target /\ u.got = <<>>
         \/ Counted(Fresh(r), u, m)
      /\ Fresh(r).target = r.target /\ Fresh(r).got = <<>>
  BY FreshSent DEF Handled, Queues
<1>3. Waiting(s, u)
  BY <1>2 DEF Dir, Waiting
<1>4. u.target = r.target \/ u.target <= NumberAfter(m)
  BY <1>1, <1>2 DEF Counted, NumberAfter
<1>5. UnderWay(s, u, ch2)
  <2> SUFFICES ASSUME NEW j \in 1..Len(ch2), ch2[j].type = "Logout"
               PROVE  /\ u.target <= ch2[j].seq
                      /\ \A n \in DOMAIN u.queue : NumberAfter(u.queue[n]) <= ch2[j].seq
    BY DEF UnderWay
  <2>1. /\ r.target <= ch2[j].seq /\ NumberAfter(m) <= ch2[j].seq
        /\ \A n \in DOMAIN r.queue : NumberAfter(r.queue[n]) <= ch2[j].seq
        /\ Genuine(s, ch2[j])
    BY DEF UnderWay
  <2>2. ch2[j].seq \in Nat /\ NumberAfter(m) \in Nat
    BY <1>1, <2>1, GenuineBelow DEF Genuine, Wire
  <2>3. u.target <= ch2[j].seq
    BY <1>1, <1>4, <2>1, <2>2
  <2> QED BY <1>2, <2>1, <2>3
<1> HIDE DEF L
<1>6. /\ r.target <= s.sender
      /\ \A n \in DOMAIN s.store :
           /\ n >= r.target /\ s.store[n] # NoBody => s.store[n] > L
           /\ ~over /\ n < r.target /\ s.store[n] # NoBody => s.store[n] <= L
      /\ ~over => Len(got) = L /\ \A i \in 1..Len(got) : got[i] = i
  BY DEF Dir, Caught, L
<1>7. CASE u.got = <<>> /\ r.target <= u.target /\ u.target <= s.sender
           /\ (~over2 => \A n \in r.target..(u.target - 1) : s.store[n] = NoBody)
  <2>1. got \o u.got = got
    BY <1>1, <1>7
  <2>2. ~over2 => ~over
    OBVIOUS
  <2>3. ASSUME NEW n \in DOMAIN s.store
        PROVE  /\ n >= u.target /\ s.store[n] # NoBody => s.store[n] > L
               /\ ~over2 /\ n < u.target /\ s.store[n] # NoBody => s.store[n] <= L
    <3>1. n \in Nat
      BY <1>1
    <3>2. n >= u.target => n >= r.target
      BY <1>1, <1>7, <3>1
    <3>3. n < u.target => n < r.target \/ n \in r.target..(u.target - 1)
      BY <1>1, <1>7, <3>1
    <3> QED BY <1>6, <1>7, <2>2, <3>2, <3>3
  <2>4. Caught(s, u, N, got, over2)
    BY <1>1, <1>6, <1>7, <2>2, <2>3 DEF Caught, L
  <2>5. Dir(s, u, ch2, N, got, over2)
    BY <1>3, <1>5, <2>4 DEF Dir
  <2> QED BY <1>7, <2>1, <2>5 DEF Delivery
<1>8. CASE u.target = r.target /\ u.got = <<>>
  BY <1>1, <1>6, <1>7, <1>8
<1>9. CASE Counted(Fresh(r), u, m) /\ m.type # "App"
  <2>1. u.got = <<>> /\ r.target <= u.target
    BY <1>1, <1>2, <1>9 DEF Counted
  <2>2. CASE m.type = "Logout"
    <3>1. m.seq < s.sender /\ s.store[m.seq] = NoBody /\ u.target = r.target + 1
          /\ r.target <= m.seq
      BY <1>2, <1>9, <2>2 DEF Genuine, Counted
    <3>2. ~over2 => m.seq = r.target
      <4>1. ~over2 => ~(m.seq > r.target)
        BY <2>2, Zenon DEF Overtakes
      <4> QED BY <1>1, <3>1, <4>1
    <3>3. u.target <= s.sender /\ r.target..(u.target - 1) = {r.target}
      BY <1>1, <3>1
    <3> QED BY <1>7, <2>1, <3>1, <3>2, <3>3
  <2>3. CASE m.type = "SequenceReset"
    <3>1. m.num <= s.sender /\ \A n \in m.seq..(m.num - 1) : s.store[n] = NoBody
      BY <2>3 DEF Genuine
    <3>2. m.seq = r.target /\ u.target = m.num
      BY <1>2, <1>9, <2>3 DEF Counted, NumberAfter
    <3> QED BY <1>7, <2>1, <3>1, <3>2
  <2>4. CASE m.type \notin {"Logout", "SequenceReset"}
    <3>1. m.seq < s.sender /\ s.store[m.seq] = NoBody
      BY <1>9, <2>4 DEF Genuine
    <3>2. m.seq = r.target /\ u.target = m.seq + 1
      BY <1>2, <1>9, <2>4 DEF Counted, NumberAfter
    <3>3. u.target <= s.sender /\ r.target..(u.target - 1) = {r.target}
      BY <1>1, <3>1, <3>2
    <3> QED BY <1>7, <2>1, <3>1, <3>2, <3>3
  <2> QED BY <2>2, <2>3, <2>4
<1>10. CASE Counted(Fresh(r), u, m) /\ m.type = "App"
  <2> DEFINE k == m.body
             got2 == Append(got, k)
  <2>1. /\ m.seq < s.sender /\ k = s.store[m.seq] /\ k # NoBody
    BY <1>10 DEF Genuine
  <2>2. m.seq = r.target /\ u.target = m.seq + 1 /\ u.got = <<k>>
    BY <1>2, <1>10 DEF Counted, NumberAfter
  <2>3. over2 = over
    BY <1>10 DEF Overtakes
  <2>4. m.seq \in DOMAIN s.store
    BY <1>1, <2>1
  <2>5. k \in 1..N
    BY <2>1, <2>4 DEF Dir, Numbering
  <2>6. k > L
    BY <1>1, <1>6, <2>1, <2>2, <2>4
  <2> HIDE DEF k
  <2>7. /\ got2 \in Seq(Nat) /\ Len(got2) = Len(got) + 1 /\ Len(got) \in Nat
        /\ got2[Len(got) + 1] = k /\ \A i \in 1..Len(got) : got2[i] = got[i]
    BY <1>1, <2>5
  <2>8. got \o u.got = got2
    BY <1>1, <2>2, <2>5
  <2>13. got2 # <<>>
    BY <2>7
  <2>14. LastOf(got2) = k
    BY <2>7, <2>13 DEF LastOf
  <2> HIDE DEF got2
  <2>9. \A n \in DOMAIN s.store : s.store[n] # NoBody =>
          /\ s.store[n] \in 1..N
          /\ n > m.seq => s.store[n] > k
          /\ n < m.seq => s.store[n] < k
    BY <2>1, <2>4 DEF Dir, Numbering
  <2>10. ~over => k = L + 1
    <3> SUFFICES ASSUME ~over, k # L + 1 PROVE FALSE
      OBVIOUS
    <3>1. L + 1 \in 1..N /\ k > L + 1
      BY <1>1, <2>5, <2>6
    <3>2. PICK n \in DOMAIN s.store : s.store[n] = L + 1
      BY <3>1 DEF Dir, Numbering
    <3>3. n \in Nat /\ s.store[n] # NoBody
      BY <1>1, <3>2
    <3>4. ~(n < m.seq)
      BY <1>1, <1>6, <2>2, <3>2, <3>3
    <3>5. ~(n > m.seq)
      BY <1>1, <2>5, <2>9, <3>1, <3>2, <3>3
    <3> QED BY <1>1, <2>1, <3>1, <3>2, <3>3, <3>4, <3>5
  <2>11. ASSUME NEW n \in DOMAIN s.store
         PROVE  /\ n >= u.target /\ s.store[n] # NoBody => s.store[n] > k
                /\ n < u.target /\ s.store[n] # NoBody => s.store[n] <= k
    <3>1. n \in Nat
      BY <1>1
    <3>2. (n >= u.target => n > m.seq) /\ (n < u.target => n < m.seq \/ n = m.seq)
      BY <1>1, <2>2, <3>1
    <3> QED BY <2>1, <2>5, <2>9, <3>2
  <2>12. Caught(s, u, N, got2, over2)
    <3>1. u.target <= s.sender
      BY <1>1, <2>1, <2>2
    <3>2. ASSUME ~over
          PROVE  Len(got2) = k /\ \A i \in 1..Len(got2) : got2[i] = i
      <4>1. Len(got) = L /\ k = L + 1 /\ \A i \in 1..Len(got) : got[i] = i
        BY <1>6, <2>10, <3>2
      <4>2. \A i \in 1..Len(got2) : i \in 1..Len(got) \/ i = Len(got) + 1
        BY <2>7
      <4> QED BY <2>7, <4>1, <4>2
    <3> QED BY <2>3, <2>5, <2>7, <2>11, <2>14, <3>1, <3>2 DEF Caught
  <2>15. Dir(s, u, ch2, N, got2, over2)
    BY <1>3, <1>5, <2>12 DEF Dir
  <2>16. Delivery(N, got, u.got, over, over2)
    BY <2>2, <2>3, <2>5, <2>6, <2>10 DEF Delivery, L
  <2> QED BY <2>8, <2>15, <2>16
<1> QED BY <1>2, <1>8, <1>9, <1>10

\* The application of s sends its message N + 1.
LEMMA SendAppSent ==
  ASSUME NEW s, Sound(s), NEW N \in Nat
  PROVE  LET t == SendApp(Fresh(s), N + 1) IN
           /\ Sound(t) /\ Same(Fresh(s), t)
           /\ t.sender = s.sender + 1 /\ t.store[s.sender] = N + 1
           /\ \A n \in 1..(s.sender - 1) : t.store[n] = s.store[n]
           /\ \/ t.out = <<>>
              \/ \E m \in Wire : /\ m.type = "App" /\ m.seq = s.sender /\ m.body = N + 1
                                 /\ t.out = <<m>>
<1> DEFINE f == Fresh(s)
           k == N + 1
           e == s.sender
           m == [NewMessage("App") EXCEPT !.seq = e, !.body = k]
           g == [f EXCEPT !.sinceSent = 0]
           p == [n \in DOMAIN g.store \cup {m.seq} |-> IF n = m.seq THEN m.body ELSE g.store[n]]
           h == [g EXCEPT !.store = p, !.sender = g.sender + 1]
           x == [h EXCEPT !.out = Append(h.out, m)]
           t == SendApp(f, k)
<1>1. k \in Nat /\ e \in Nat \ {0}
  BY DEF Sound
<1>2. /\ Sent(s, f) /\ f.target = s.target /\ f.queue = s.queue /\ f.got = <<>>
      /\ f.out = <<>> /\ f.sender = e /\ f.store = s.store /\ f.cfg = s.cfg
  BY FreshSent
<1> HIDE DEF f, k, e
<1>3. m \in Wire /\ m.type = "App" /\ m.seq = e /\ m.body = k
  BY <1>1 DEF NewMessage, Wire, MsgTypes, AdminTypes
<1>4. /\ DOMAIN g = Fields /\ g.cfg = f.cfg /\ g.sched = f.sched /\ g.target = f.target
      /\ g.tail = f.tail /\ g.heartBtInt = f.heartBtInt /\ g.queue = f.queue /\ g.got = f.got
      /\ g.out = <<>> /\ g.sender = e /\ g.store = s.store
      /\ g.receivedReset = f.receivedReset /\ g.sentReset = f.sentReset
  BY <1>2 DEF Sent, Sound, Fields
<1>5. t \in {h, x}
  <2>1. ~ShouldSendReset(f)
    BY <1>2 DEF ShouldSendReset, Sound, Plain
  <2>2. Persist(g, m) = h
    BY <1>2, <1>4 DEF Persist, Sound, Plain
  <2>3. t \in {Persist(g, m), Transmit(Persist(g, m), m)}
    BY <1>2, <2>1 DEF SendApp
  <2> HIDE DEF h, m, g, t
  <2> QED BY <2>2, <2>3 DEF Transmit
<1> HIDE DEF m, g
<1>6. /\ DOMAIN p = 1..e /\ p[e] = k /\ \A n \in 1..(e - 1) : p[n] = s.store[n]
      /\ \A n \in DOMAIN p : p[n] \in Nat \cup {NoBody}
  BY <1>1, <1>3, <1>4 DEF Sound, e
<1> HIDE DEF p
<1>7. /\ DOMAIN h = Fields /\ h.cfg = f.cfg /\ h.sched = f.sched /\ h.target = f.target
      /\ h.tail = f.tail /\ h.heartBtInt = f.heartBtInt /\ h.queue = f.queue /\ h.got = f.got
      /\ h.out = <<>> /\ h.sender = e + 1 /\ h.store = p
      /\ h.receivedReset = f.receivedReset /\ h.sentReset = f.sentReset
  BY <1>4 DEF Fields
<1> HIDE DEF h
<1>8. /\ DOMAIN x = Fields /\ x.cfg = f.cfg /\ x.sched = f.sched /\ x.target = f.target
      /\ x.tail = f.tail /\ x.heartBtInt = f.heartBtInt /\ x.queue = f.queue /\ x.got = f.got
      /\ x.out = <<m>> /\ x.sender = e + 1 /\ x.store = p
      /\ x.receivedReset = f.receivedReset /\ x.sentReset = f.sentReset
  <2>1. x.out = Append(h.out, m)
    BY <1>7 DEF Fields
  <2>2. Append(<<>>, m) = <<m>>
    OBVIOUS
  <2> QED BY <1>7, <2>1, <2>2 DEF Fields
<1> HIDE DEF x
<1>9. /\ DOMAIN t = Fields /\ t.cfg = f.cfg /\ t.sched = f.sched /\ t.target = f.target
      /\ t.tail = f.tail /\ t.heartBtInt = f.heartBtInt /\ t.queue = f.queue /\ t.got = f.got
      /\ t.sender = e + 1 /\ t.store = p
      /\ t.receivedReset = f.receivedReset /\ t.sentReset = f.sentReset
  BY <1>5, <1>7, <1>8
<1>10. t.out = <<>> \/ t.out = <<m>>
  BY <1>5, <1>7, <1>8
<1> HIDE DEF t
<1>11. t.out \in Seq(Wire)
  <2>1. <<>> \in Seq(Wire) /\ <<m>> \in Seq(Wire)
    BY <1>3
  <2> QED BY <1>10, <2>1
<1>12. DOMAIN t.store = 1..(t.sender - 1)
  BY <1>1, <1>6, <1>9
<1>13. Sound(t)
  BY <1>1, <1>2, <1>6, <1>9, <1>11, <1>12 DEF Sent, Sound
<1>14. Same(f, t)
  BY <1>9 DEF Same
<1> QED BY <1>3, <1>6, <1>9, <1>10, <1>13, <1>14 DEF f, k, e, t

\* A message that is sent, or stored while no connection will take it, comes last.
LEMMA DirSendApp ==
  ASSUME NEW s, NEW r, NEW ch, NEW ch2, NEW N, NEW got, NEW over,
         Sound(s), Sound(r), Dir(s, r, ch, N, got, over),
         ch2 \in {<<>>, ch \o SendApp(Fresh(s), N + 1).out}
  PROVE  Dir(SendApp(Fresh(s), N + 1), r, ch2, N + 1, got, over)
<1> DEFINE t == SendApp(Fresh(s), N + 1)
<1>0. N \in Nat
  BY DEF Dir
<1>1. /\ Sound(t) /\ t.sender = s.sender + 1 /\ t.store[s.sender] = N + 1
      /\ \A n \in 1..(s.sender - 1) : t.store[n] = s.store[n]
      /\ \/ t.out = <<>>
         \/ \E m \in Wire : /\ m.type = "App" /\ m.seq = s.sender /\ m.body = N + 1
                            /\ t.out = <<m>>
  BY <1>0, SendAppSent
<1>2. ch2 \in {<<>>, ch \o t.out}
  OBVIOUS
<1> HIDE DEF t
<1>3. /\ s.sender \in Nat \ {0} /\ t.sender \in Nat \ {0} /\ s.sender <= t.sender
      /\ DOMAIN s.store = 1..(s.sender - 1) /\ DOMAIN t.store = 1..s.sender
      /\ r.target \in Nat /\ NoBody \notin Nat
  BY SMTT(60), <1>1, NoBodyAssumption DEF Sound
<1>4. \A m : Genuine(s, m) => Genuine(t, m)
  BY <1>1, <1>3, GenuineGrows
<1>5. \A n \in DOMAIN t.store :
        \/ n \in DOMAIN s.store /\ n < s.sender /\ t.store[n] = s.store[n]
        \/ n = s.sender /\ t.store[n] = N + 1
  <2>1. \A n \in 1..s.sender : (n \in 1..(s.sender - 1) /\ n < s.sender) \/ n = s.sender
    BY <1>3
  <2> QED BY <1>1, <1>3, <2>1
<1>6. /\ DOMAIN s.store \subseteq DOMAIN t.store
      /\ \A n \in DOMAIN s.store : n \in Nat /\ t.store[n] = s.store[n]
      /\ s.sender \in DOMAIN t.store
  BY <1>1, <1>3
<1>7. Numbering(t, N + 1)
  <2>1. \A n \in DOMAIN s.store : s.store[n] \in (1..N) \cup {NoBody}
    BY DEF Dir, Numbering
  <2>2. \A n \in DOMAIN t.store : t.store[n] \in (1..(N + 1)) \cup {NoBody}
    BY <1>0, <1>5, <2>1
  <2>3. ASSUME NEW k \in 1..(N + 1)
        PROVE  \E n \in DOMAIN t.store : t.store[n] = k
    <3>1. k \in 1..N \/ k = N + 1
      BY <1>0
    <3> QED BY <1>1, <1>6, <3>1 DEF Dir, Numbering
  <2>4. ASSUME NEW m \in DOMAIN t.store, NEW n \in DOMAIN t.store, m < n,
               t.store[m] # NoBody, t.store[n] # NoBody
        PROVE  t.store[m] < t.store[n]
    <3>1. m \in Nat /\ n \in Nat
      BY <1>3
    <3>2. m \in DOMAIN s.store /\ t.store[m] = s.store[m]
      BY <1>3, <1>5, <2>4, <3>1
    <3>3. CASE n \in DOMAIN s.store /\ t.store[n] = s.store[n]
      BY <2>4, <3>2, <3>3 DEF Dir, Numbering
    <3>4. CASE t.store[n] = N + 1
      BY <1>0, <2>1, <2>4, <3>2, <3>4
    <3> QED BY <1>5, <3>3, <3>4
  <2> QED BY <2>2, <2>3, <2>4 DEF Numbering
<1>8. Caught(t, r, N + 1, got, over)
  <2>1. LastOf(got) \in 0..N /\ r.target <= s.sender
    BY DEF Dir, Caught
  <2>2. ASSUME NEW n \in DOMAIN t.store
        PROVE  /\ n >= r.target /\ t.store[n] # NoBody => t.store[n] > LastOf(got)
               /\ ~over /\ n < r.target /\ t.store[n] # NoBody => t.store[n] <= LastOf(got)
    <3>1. CASE n \in DOMAIN s.store /\ n < s.sender /\ t.store[n] = s.store[n]
      BY <3>1 DEF Dir, Caught
    <3>2. CASE n = s.sender /\ t.store[n] = N + 1
      BY <1>0, <1>3, <2>1, <3>2
    <3> QED BY <1>5, <3>1, <3>2
  <2>3. LastOf(got) \in 0..(N + 1) /\ r.target <= t.sender
    BY <1>0, <1>3, <2>1
  <2> QED BY <2>2, <2>3 DEF Dir, Caught
<1>9. Waiting(t, r)
  BY <1>4 DEF Dir, Waiting
<1>10. UnderWay(t, r, ch)
  BY <1>4 DEF Dir, UnderWay
<1>11. UnderWay(t, r, ch2)
  <2>1. CASE ch2 = <<>>
    BY <2>1 DEF UnderWay
  <2>2. CASE ch2 = ch \o t.out /\ t.out = <<>>
    <3>1. ch \in Seq(Wire)
      BY <1>10 DEF UnderWay
    <3>2. ch2 = ch
      BY <2>2, <3>1
    <3> QED BY <1>10, <3>2
  <2>3. ASSUME NEW m \in Wire, m.type = "App", m.seq = s.sender, m.body = N + 1,
               ch2 = ch \o <<m>>
        PROVE  UnderWay(t, r, ch2)
    <3>1. ch \in Seq(Wire)
      BY <1>10 DEF UnderWay
    <3>2. /\ ch2 \in Seq(Wire) /\ Len(ch) \in Nat /\ Len(ch2) = Len(ch) + 1
          /\ ch2[Len(ch) + 1] = m /\ \A i \in 1..Len(ch) : ch2[i] = ch[i]
      BY <2>3, <3>1
    <3>3. N + 1 \in Nat
      BY <1>0
    <3>4. Genuine(t, m)
      BY <1>1, <1>3, <2>3, <3>3 DEF Genuine
    <3>5. \A i \in 1..Len(ch2) : i \in 1..Len(ch) \/ i = Len(ch) + 1
      BY <3>2
    <3>6. \A i \in 1..Len(ch2) : Genuine(t, ch2[i])
      BY <1>10, <3>2, <3>4, <3>5 DEF UnderWay
    <3>7. ASSUME NEW j \in 1..Len(ch2), ch2[j].type = "Logout"
          PROVE  j \in 1..Len(ch) /\ \A i \in 1..(j - 1) : i \in 1..Len(ch)
      BY <2>3, <3>2, <3>5, <3>7
    <3> QED BY <1>10, <3>2, <3>6, <3>7 DEF UnderWay
  <2> QED BY <1>1, <1>2, <2>1, <2>2, <2>3
<1> QED BY <1>0, <1>7, <1>8, <1>9, <1>11 DEF Dir, t

-----------------------------------------------------------------------------
(* The pair *)

\* Both directions: s sends on out and takes from in.
Both(s, r, out, in, N, M, gotR, gotS, over) ==
  Sound(s) /\ Sound(r) /\ Dir(s, r, out, N, gotR, over) /\ Dir(r, s, in, M, gotS, over)

\* s takes the next message from the connection.
LEMMA SideReceived ==
  ASSUME NEW s, NEW t, NEW r, NEW out, NEW out2, NEW in, NEW N, NEW M, NEW gotS,
         NEW gotR, NEW over, NEW over2, over \in BOOLEAN, over2 \in BOOLEAN,
         Both(s, r, out, in, N, M, gotR, gotS, over),
         in # <<>>, over2 <=> (over \/ Overtakes(s, Head(in))),
         t = Received(s, Head(in), "accept", {}), out2 \in {<<>>, out \o t.out}
  PROVE  /\ Both(t, r, out2, Tail(in), N, M, gotR, gotS \o t.got, over2)
         /\ Delivery(M, gotS, t.got, over, over2)
<1> DEFINE m == Head(in)
           in2 == Tail(in)
<1> USE DEF Both
<1>1. /\ in \in Seq(Wire) /\ Len(in) \in Nat \ {0} /\ m = in[1] /\ in2 \in Seq(Wire)
      /\ Len(in2) = Len(in) - 1 /\ \A i \in 1..Len(in2) : in2[i] = in[i + 1]
  <2>1. in \in Seq(Wire)
    BY DEF Dir, UnderWay
  <2> QED BY <2>1, HeadTailProperties
<1>2. Genuine(r, m) /\ m \in Wire /\ (m.type = "Logout" => s.target <= m.seq)
  BY <1>1 DEF Dir, UnderWay, Genuine
<1>3. Sent(s, t) /\ Handled(Fresh(s), t, m)
  BY <1>2, ReceivedHandled
<1>4. out2 \in {<<>>, out, out \o t.out}
  OBVIOUS
<1>12. over2 = (over \/ Overtakes(s, m)) /\ (over => over2)
  BY Zenon
<1> HIDE DEF m, in2
<1>6. \A i \in 1..Len(in2) : i + 1 \in 1..Len(in) /\ in2[i] = in[i + 1]
  BY <1>1
<1>7. \A j \in 1..Len(in2) : in2[j].type = "Logout" => NumberAfter(m) <= in2[j].seq
  <2>1. \A j \in 1..Len(in2) : 1 \in 1..((j + 1) - 1)
    BY <1>1
  <2> QED BY <1>1, <1>6, <2>1 DEF Dir, UnderWay
<1>8. UnderWay(r, s, in2)
  <2>1. \A j \in 1..Len(in2) : \A i \in 1..(j - 1) :
          i + 1 \in 1..((j + 1) - 1) /\ in2[i] = in[i + 1]
    BY <1>1
  <2> QED BY <1>1, <1>6, <2>1 DEF Dir, UnderWay
<1>9. Dir(r, t, in2, M, gotS \o t.got, over2) /\ Delivery(M, gotS, t.got, over, over2)
  <2>1. Sound(t)
    BY <1>3 DEF Sent
  <2> QED BY <1>2, <1>3, <1>7, <1>8, <1>12, <2>1, DirHandled
<1>10. Dir(t, r, out2, N, gotR, over)
  BY <1>3, <1>4, DirSent
<1>11. Dir(t, r, out2, N, gotR, over2)
  BY <1>10, <1>12, DirOvertaken
<1> QED BY <1>3, <1>9, <1>11 DEF Sent, m, in2

\* The rest of a handler, and the timer.
LEMMA SideGoes ==
  ASSUME NEW s, NEW t, NEW r, NEW out, NEW out2, NEW in, NEW N, NEW M, NEW gotS,
         NEW gotR, NEW over, over \in BOOLEAN,
         Both(s, r, out, in, N, M, gotR, gotS, over),
         Goes(s, t), out2 \in {<<>>, out \o t.out}
  PROVE  /\ Both(t, r, out2, in, N, M, gotR, gotS \o t.got, over)
         /\ Delivery(M, gotS, t.got, over, over)
<1> USE DEF Both
<1>1. out2 \in {<<>>, out, out \o t.out} /\ in \in {<<>>, in}
  OBVIOUS
<1>2. CASE MayDrain(s) /\ t = Drained(s, "accept")
  <2> DEFINE m == s.queue[s.target]
  <2>1. s.target \in DOMAIN s.queue
    BY <1>2 DEF MayDrain
  <2>2. Genuine(r, m) /\ m \in Wire /\ m.seq = s.target /\ m.type # "Logout"
    BY <2>1 DEF Dir, Waiting, Genuine
  <2>3. Sent(s, t) /\ Handled(Fresh(s), t, m)
    BY <1>2, <2>1, <2>2, DrainedHandled
  <2>4. UnderWay(r, s, in)
    BY DEF Dir
  <2>5. \A j \in 1..Len(in) : in[j].type = "Logout" => NumberAfter(m) <= in[j].seq
    BY <2>1, <2>4 DEF UnderWay
  <2> HIDE DEF m
  <2>6. over = (over \/ Overtakes(s, m))
    BY <2>2, Zenon DEF Overtakes
  <2>7. Sound(t)
    BY <2>3 DEF Sent
  <2>8. Dir(r, t, in, M, gotS \o t.got, over) /\ Delivery(M, gotS, t.got, over, over)
    BY <2>2, <2>3, <2>4, <2>5, <2>6, <2>7, DirHandled
  <2>9. Dir(t, r, out2, N, gotR, over)
    BY <1>1, <2>3, DirSent
  <2> QED BY <2>7, <2>8, <2>9
<1>3. ASSUME Sent(s, t), Same(Fresh(s), t)
      PROVE  /\ Sound(t) /\ Dir(t, r, out2, N, gotR, over)
             /\ Dir(r, t, in, M, gotS \o t.got, over)
             /\ Delivery(M, gotS, t.got, over, over)
  <2>1. Dir(t, r, out2, N, gotR, over)
    BY <1>1, <1>3, DirSent
  <2>2. Dir(r, t, in, M, gotS \o t.got, over) /\ t.got = <<>>
    BY <1>1, <1>3, DirSame
  <2> QED BY <1>3, <2>1, <2>2 DEF Delivery, Sent
<1>4. CASE t = Finished(s, {}) \/ t = Ticked(s)
  <2>1. Sent(s, t) /\ Same(Fresh(s), t)
    BY <1>4, StepsSame
  <2> QED BY <1>3, <2>1
<1> QED BY <1>2, <1>4 DEF Goes

\* t is what is left of s when its process dies in a handler that would have made p.
Dying(s, in, p, t) ==
  \E m \in Handling(s, in) : p = Process(Fresh(s), m, "accept", {}) /\ t = Undone(s, p)

\* The process dies inside a handler: the peer's messages are as if the handler had
\* never run, but the application may have seen the one that comes next.
LEMMA SideDies ==
  ASSUME NEW s, NEW t, NEW r, NEW p, NEW out, NEW out2, NEW in, NEW N, NEW M, NEW gotS,
         NEW gotR, NEW over, over \in BOOLEAN,
         Both(s, r, out, in, N, M, gotR, gotS, over),
         Dying(s, in, p, t), out2 \in {<<>>, out \o t.out}
  PROVE  /\ Both(t, r, out2, <<>>, N, M, gotR, gotS, over)
         /\ \E over2 : Delivery(M, gotS, p.got, over, over2)
<1> USE DEF Both
<1> PICK m \in Handling(s, in) : p = Process(Fresh(s), m, "accept", {}) /\ t = Undone(s, p)
  BY DEF Dying
<1>1. Genuine(r, m) /\ m \in Wire /\ (m.type = "Logout" => s.target <= m.seq)
  <2>1. CASE m \in Range(in) /\ m = Head(in)
    <3>1. in \in Seq(Wire) /\ in # <<>>
      BY <2>1 DEF Dir, UnderWay, Range
    <3>2. Len(in) \in Nat \ {0} /\ m = in[1]
      BY <2>1, <3>1, HeadTailProperties
    <3> QED BY <3>2 DEF Dir, UnderWay, Genuine
  <2>2. CASE \E k \in DOMAIN s.queue : m = s.queue[k]
    BY <2>2 DEF Dir, Waiting, Genuine
  <2> QED BY <2>1, <2>2 DEF Handling
<1>2. Sent(s, Fresh(s))
  BY FreshSent
<1>3. Sent(s, p) /\ Handled(Fresh(s), p, m)
  BY <1>1, <1>2, ProcessHandled
<1>4. Sent(s, t) /\ Same(Fresh(s), t)
  BY <1>3, UndoneSame
<1>5. Dir(t, r, out2, N, gotR, over)
  <2>1. out2 \in {<<>>, out, out \o t.out}
    OBVIOUS
  <2> QED BY <1>4, <2>1, DirSent
<1>6. Dir(r, t, <<>>, M, gotS, over)
  <2>1. Dir(r, t, <<>>, M, gotS \o t.got, over) /\ gotS \o t.got = gotS
    BY <1>4, DirSame
  <2> QED BY <2>1
<1>7. \E over2 : Delivery(M, gotS, p.got, over, over2)
  <2> DEFINE over2 == over \/ Overtakes(s, m)
             ch == <<>>
  <2>1. UnderWay(r, s, ch) /\ Len(ch) = 0
    BY DEF UnderWay
  <2>2. Sound(p)
    BY <1>3 DEF Sent
  <2> HIDE DEF over2, ch
  <2>3. over2 = (over \/ Overtakes(s, m))
    BY Zenon DEF over2
  <2>4. Delivery(M, gotS, p.got, over, over2)
    BY <1>1, <1>3, <2>1, <2>2, <2>3, DirHandled
  <2> QED BY <2>4
<1> QED BY <1>4, <1>5, <1>6, <1>7 DEF Sent

\* One more message sent.
LEMMA CountedOn ==
  ASSUME NEW q, Len(q) \in Nat, q = [i \in 1..Len(q) |-> i]
  PROVE  LET p == Append(q, Len(q) + 1) IN
           Len(p) = Len(q) + 1 /\ p = [i \in 1..Len(p) |-> i]
<1> DEFINE n == Len(q)
           p == Append(q, n + 1)
<1>1. n \in Nat /\ q = [i \in 1..n |-> i]
  OBVIOUS
<1>2. q \in Seq(Nat)
  <2> HIDE DEF n
  <2>1. [i \in 1..n |-> i] \in Seq(Nat)
    BY <1>1
  <2> QED BY <1>1, <2>1
<1>3. /\ p \in Seq(Nat) /\ Len(p) = n + 1 /\ p[n + 1] = n + 1
      /\ \A i \in 1..n : p[i] = q[i]
  BY <1>1, <1>2
<1> HIDE DEF n, p
<1>4. \A i \in 1..(n + 1) : i \in 1..n \/ i = n + 1
  BY <1>1
<1>5. \A i \in 1..(n + 1) : p[i] = i
  BY <1>1, <1>3, <1>4
<1>6. p = [i \in 1..Len(p) |-> p[i]]
  BY <1>3
<1>7. p = [i \in 1..Len(p) |-> i]
  BY <1>3, <1>5, <1>6
<1> QED BY <1>3, <1>7 DEF n, p

\* What a step shows of one direction: a step of OrderedDelivery, or none.
Progress(N, N2, got, got2, cut, cut2, over, over2) ==
  \/ N2 = N + 1 /\ got2 = got /\ cut2 = cut /\ over2 = over
  \/ N2 = N /\ got2 = got /\ cut2 = cut /\ over2 \in {over, TRUE}
  \/ /\ N2 = N /\ over2 = over
     /\ \E k \in 1..N : /\ k > LastOf(got) /\ (over \/ k = LastOf(got) + 1)
                        /\ \/ got2 = Append(got, k) /\ cut2 = 0
                           \/ got2 = got /\ cut2 = k

\* The same for both directions of the pair.
PStep ==
  /\ Progress(Len(sentA), Len(sentA'), gotB, gotB', cutB, cutB', overtaken, overtaken')
  /\ Progress(Len(sentB), Len(sentB'), gotA, gotA', cutA, cutA', overtaken, overtaken')

\* A handler that runs to its end delivers, or not.
LEMMA DeliveryProgress ==
  ASSUME NEW N, NEW got, N \in Nat, got \in Seq(Nat), NEW more, NEW cut,
         NEW over, NEW over2, over \in BOOLEAN, over2 \in BOOLEAN, over => over2,
         Delivery(N, got, more, over, over2)
  PROVE  Progress(N, N, got, got \o more, cut, IF more = <<>> THEN cut ELSE 0, over, over2)
<1> DEFINE got2 == got \o more
           cut2 == IF more = <<>> THEN cut ELSE 0
<1>1. over2 \in {over, TRUE}
  BY Zenon
<1>2. CASE more = <<>>
  <2>1. got2 = got /\ cut2 = cut
    BY <1>2
  <2> QED BY <1>1, <2>1, Zenon DEF Progress
<1>3. ASSUME NEW k \in 1..N, k > LastOf(got), over \/ k = LastOf(got) + 1, more = <<k>>,
             over2 = over
      PROVE  Progress(N, N, got, got2, cut, cut2, over, over2)
  <2>1. got \o <<k>> = Append(got, k) /\ <<k>> # <<>>
    OBVIOUS
  <2> QED BY <1>3, <2>1 DEF Progress
<1> QED BY <1>2, <1>3 DEF Delivery

\* One that dies may have delivered, or not.
LEMMA CutProgress ==
  ASSUME NEW N, NEW got, NEW more, NEW cut, NEW cut2, NEW over, NEW over2,
         Delivery(N, got, more, over, over2), cut2 = IF more = <<>> THEN cut ELSE more[1]
  PROVE  Progress(N, N, got, got, cut, cut2, over, over)
<1>1. CASE more = <<>>
  BY <1>1 DEF Progress
<1>2. ASSUME NEW k \in 1..N, k > LastOf(got), over \/ k = LastOf(got) + 1, more = <<k>>
      PROVE  Progress(N, N, got, got, cut, cut2, over, over)
  BY <1>2 DEF Progress
<1> QED BY <1>1, <1>2 DEF Delivery

\* The hypothesis of the theorems: every message is kept and the numbers are never
\* started over.  A reset discards what was not delivered, on purpose, and without
\* PersistMessages a resend is one gap fill.
PlainScenarios == \A x \in Scenarios : Plain(x.a) /\ Plain(x.b)

\* A session whose store is new.
LEMMA InitSound ==
  ASSUME NEW c, Plain(c)
  PROVE  LET s == InitState(c, HeartBtInt) IN
           /\ Sound(s) /\ s.store = <<>> /\ s.target = 1 /\ s.sender = 1 /\ s.queue = <<>>
<1> DEFINE s == InitState(c, HeartBtInt)
<1>1. /\ DOMAIN s = Fields /\ s.cfg = c /\ s.sched = "same" /\ s.target = 1
      /\ s.tail = 0 /\ s.heartBtInt = 1 /\ s.queue = <<>> /\ s.got = <<>>
      /\ s.out = <<>> /\ s.sender = 1 /\ s.store = <<>>
      /\ s.receivedReset = FALSE /\ s.sentReset = FALSE
  BY DEF InitState, HeartBtInt, Fields
<1> HIDE DEF s
<1>2. Sound(s)
  BY <1>1 DEF Sound
<1> QED BY <1>1, <1>2 DEF s

\* The invariant holds of a new pair.
LEMMA PInit ==
  ASSUME PlainScenarios, Init
  PROVE  PInv
<1>1. /\ Sound(a) /\ a.store = <<>> /\ a.target = 1 /\ a.sender = 1 /\ a.queue = <<>>
      /\ Sound(b) /\ b.store = <<>> /\ b.target = 1 /\ b.sender = 1 /\ b.queue = <<>>
  BY InitSound DEF Init, PlainScenarios
<1>2. \A s, r : /\ s.store = <<>> /\ s.sender = 1 /\ r.target = 1 /\ r.queue = <<>>
                => Dir(s, r, <<>>, 0, <<>>, FALSE)
  BY DEF Dir, Numbering, Caught, Waiting, UnderWay, LastOf
<1>3. Len(<<>>) = 0 /\ <<>> = [i \in 1..0 |-> i]
  OBVIOUS
<1> QED BY ZenonT(60), <1>1, <1>2, <1>3 DEF Init, PInv

\* Every step preserves the invariant and shows a step of OrderedDelivery.
LEMMA PNext ==
  ASSUME PInv, [Next]_vars
  PROVE  PInv' /\ PStep
<1>1. /\ Sound(a) /\ Sound(b) /\ overtaken \in BOOLEAN
      /\ Dir(a, b, ab, Len(sentA), gotB, overtaken)
      /\ Dir(b, a, ba, Len(sentB), gotA, overtaken)
      /\ sentA = [i \in 1..Len(sentA) |-> i] /\ sentB = [i \in 1..Len(sentB) |-> i]
      /\ Len(sentA) \in Nat /\ Len(sentB) \in Nat
      /\ gotA \in Seq(Nat) /\ gotB \in Seq(Nat)
  BY DEF PInv, Dir, Caught
<1>2. FlowA => /\ ab' \in {<<>>, ab \o a'.out} /\ gotA' = gotA \o a'.got
               /\ cutA' = IF a'.got = <<>> THEN cutA ELSE 0
  BY DEF FlowA
<1>3. FlowB => /\ ba' \in {<<>>, ba \o b'.out} /\ gotB' = gotB \o b'.got
               /\ cutB' = IF b'.got = <<>> THEN cutB ELSE 0
  BY DEF FlowB
<1>4. ASSUME ASend PROVE PInv' /\ PStep
  <2>1. /\ a' = SendApp(Fresh(a), Len(sentA) + 1) /\ sentA' = Append(sentA, Len(sentA) + 1)
        /\ ab' \in {<<>>, ab \o a'.out} /\ gotA' = gotA \o a'.got
        /\ cutA' = (IF a'.got = <<>> THEN cutA ELSE 0) /\ cutB' = cutB
        /\ b' = b /\ sentB' = sentB /\ gotB' = gotB /\ ba' = ba /\ overtaken' = overtaken
    BY <1>2, <1>4 DEF ASend, OnlyA
  <2>2. Len(sentA') = Len(sentA) + 1 /\ sentA' = [i \in 1..Len(sentA') |-> i]
    BY <1>1, <2>1, CountedOn
  <2>3. Sound(a') /\ Same(Fresh(a), a')
    BY <1>1, <2>1, SendAppSent
  <2>4. Dir(a', b, ab', Len(sentA) + 1, gotB, overtaken)
    BY <1>1, <2>1, DirSendApp
  <2>5. Dir(b, a', ba, Len(sentB), gotA', overtaken) /\ gotA' = gotA /\ cutA' = cutA
    <3>1. /\ Dir(b, a', ba, Len(sentB), gotA \o a'.got, overtaken)
          /\ gotA \o a'.got = gotA /\ a'.got = <<>>
      <4>1. ba \in {<<>>, ba}
        OBVIOUS
      <4> QED BY <1>1, <2>3, <4>1, DirSame
    <3> QED BY <2>1, <3>1
  <2>6. PInv'
    BY <1>1, <2>1, <2>2, <2>3, <2>4, <2>5 DEF PInv
  <2>7. PStep
    BY <2>1, <2>2, <2>5 DEF PStep, Progress
  <2> QED BY <2>6, <2>7
<1>5. ASSUME BSend PROVE PInv' /\ PStep
  <2>1. /\ b' = SendApp(Fresh(b), Len(sentB) + 1) /\ sentB' = Append(sentB, Len(sentB) + 1)
        /\ ba' \in {<<>>, ba \o b'.out} /\ gotB' = gotB \o b'.got
        /\ cutB' = (IF b'.got = <<>> THEN cutB ELSE 0) /\ cutA' = cutA
        /\ a' = a /\ sentA' = sentA /\ gotA' = gotA /\ ab' = ab /\ overtaken' = overtaken
    BY <1>3, <1>5 DEF BSend, OnlyB
  <2>2. Len(sentB') = Len(sentB) + 1 /\ sentB' = [i \in 1..Len(sentB') |-> i]
    BY <1>1, <2>1, CountedOn
  <2>3. Sound(b') /\ Same(Fresh(b), b')
    BY <1>1, <2>1, SendAppSent
  <2>4. Dir(b', a, ba', Len(sentB) + 1, gotA, overtaken)
    BY <1>1, <2>1, DirSendApp
  <2>5. Dir(a, b', ab, Len(sentA), gotB', overtaken) /\ gotB' = gotB /\ cutB' = cutB
    <3>1. /\ Dir(a, b', ab, Len(sentA), gotB \o b'.got, overtaken)
          /\ gotB \o b'.got = gotB /\ b'.got = <<>>
      <4>1. ab \in {<<>>, ab}
        OBVIOUS
      <4> QED BY <1>1, <2>3, <4>1, DirSame
    <3> QED BY <2>1, <3>1
  <2>6. PInv'
    BY <1>1, <2>1, <2>2, <2>3, <2>4, <2>5 DEF PInv
  <2>7. PStep
    BY <2>1, <2>2, <2>5 DEF PStep, Progress
  <2> QED BY <2>6, <2>7
<1>6. ASSUME AReceive PROVE PInv' /\ PStep
  <2>1. /\ ba # <<>> /\ a' = Received(a, Head(ba), "accept", {}) /\ ba' = Tail(ba)
        /\ overtaken' = (overtaken \/ Overtakes(a, Head(ba)))
        /\ ab' \in {<<>>, ab \o a'.out} /\ gotA' = gotA \o a'.got
        /\ cutA' = (IF a'.got = <<>> THEN cutA ELSE 0) /\ cutB' = cutB
        /\ b' = b /\ sentB' = sentB /\ gotB' = gotB /\ sentA' = sentA
    BY <1>2, <1>6 DEF AReceive, OnlyA
  <2>2. /\ Sound(a') /\ Dir(a', b, ab', Len(sentA), gotB, overtaken')
        /\ Dir(b, a', ba', Len(sentB), gotA', overtaken')
        /\ Delivery(Len(sentB), gotA, a'.got, overtaken, overtaken') /\ overtaken' \in BOOLEAN
    <3>1. /\ ba # <<>> /\ ab' \in {<<>>, ab \o a'.out}
          /\ a' = Received(a, Head(ba), "accept", {})
      BY <2>1
    <3>2. /\ overtaken \in BOOLEAN /\ overtaken' \in BOOLEAN
          /\ overtaken' <=> (overtaken \/ Overtakes(a, Head(ba)))
      BY <1>1, <2>1, Zenon
    <3>3. Both(a, b, ab, ba, Len(sentA), Len(sentB), gotB, gotA, overtaken)
      BY <1>1 DEF Both
    <3>4. /\ Both(a', b, ab', Tail(ba), Len(sentA), Len(sentB), gotB, gotA \o a'.got, overtaken')
          /\ Delivery(Len(sentB), gotA, a'.got, overtaken, overtaken')
      BY <3>1, <3>2, <3>3, SideReceived
    <3> QED BY <2>1, <3>2, <3>4 DEF Both
  <2>3. PInv'
    BY <1>1, <2>1, <2>2 DEF PInv
  <2>4. Progress(Len(sentB), Len(sentB), gotA, gotA', cutA, cutA', overtaken, overtaken')
    <3>1. /\ overtaken' \in BOOLEAN /\ (overtaken => overtaken')
          /\ Delivery(Len(sentB), gotA, a'.got, overtaken, overtaken')
      BY <1>1, <2>1, <2>2, Zenon
    <3>2. gotA' = gotA \o a'.got /\ cutA' = IF a'.got = <<>> THEN cutA ELSE 0
      BY <2>1
    <3>3. overtaken \in BOOLEAN /\ Len(sentB) \in Nat /\ gotA \in Seq(Nat)
      BY <1>1
    <3>4. Progress(Len(sentB), Len(sentB), gotA, gotA \o a'.got, cutA,
                   IF a'.got = <<>> THEN cutA ELSE 0, overtaken, overtaken')
      BY <3>1, <3>3, DeliveryProgress
    <3> QED BY <3>2, <3>4
  <2>5. Progress(Len(sentA), Len(sentA), gotB, gotB, cutB, cutB, overtaken, overtaken')
    BY <1>1, <2>1, <2>2, Zenon DEF Progress
  <2>6. PStep
    BY <2>1, <2>4, <2>5 DEF PStep
  <2> QED BY <2>3, <2>6
<1>7. ASSUME BReceive PROVE PInv' /\ PStep
  <2>1. /\ ab # <<>> /\ b' = Received(b, Head(ab), "accept", {}) /\ ab' = Tail(ab)
        /\ overtaken' = (overtaken \/ Overtakes(b, Head(ab)))
        /\ ba' \in {<<>>, ba \o b'.out} /\ gotB' = gotB \o b'.got
        /\ cutB' = (IF b'.got = <<>> THEN cutB ELSE 0) /\ cutA' = cutA
        /\ a' = a /\ sentA' = sentA /\ gotA' = gotA /\ sentB' = sentB
    BY <1>3, <1>7 DEF BReceive, OnlyB
  <2>2. /\ Sound(b') /\ Dir(b', a, ba', Len(sentB), gotA, overtaken')
        /\ Dir(a, b', ab', Len(sentA), gotB', overtaken')
        /\ Delivery(Len(sentA), gotB, b'.got, overtaken, overtaken') /\ overtaken' \in BOOLEAN
    <3>1. /\ ab # <<>> /\ ba' \in {<<>>, ba \o b'.out}
          /\ b' = Received(b, Head(ab), "accept", {})
      BY <2>1
    <3>2. /\ overtaken \in BOOLEAN /\ overtaken' \in BOOLEAN
          /\ overtaken' <=> (overtaken \/ Overtakes(b, Head(ab)))
      BY <1>1, <2>1, Zenon
    <3>3. Both(b, a, ba, ab, Len(sentB), Len(sentA), gotA, gotB, overtaken)
      BY <1>1 DEF Both
    <3>4. /\ Both(b', a, ba', Tail(ab), Len(sentB), Len(sentA), gotA, gotB \o b'.got, overtaken')
          /\ Delivery(Len(sentA), gotB, b'.got, overtaken, overtaken')
      BY <3>1, <3>2, <3>3, SideReceived
    <3> QED BY <2>1, <3>2, <3>4 DEF Both
  <2>3. PInv'
    BY <1>1, <2>1, <2>2 DEF PInv
  <2>4. Progress(Len(sentA), Len(sentA), gotB, gotB', cutB, cutB', overtaken, overtaken')
    <3>1. /\ overtaken' \in BOOLEAN /\ (overtaken => overtaken')
          /\ Delivery(Len(sentA), gotB, b'.got, overtaken, overtaken')
      BY <1>1, <2>1, <2>2, Zenon
    <3>2. gotB' = gotB \o b'.got /\ cutB' = IF b'.got = <<>> THEN cutB ELSE 0
      BY <2>1
    <3>3. overtaken \in BOOLEAN /\ Len(sentA) \in Nat /\ gotB \in Seq(Nat)
      BY <1>1
    <3>4. Progress(Len(sentA), Len(sentA), gotB, gotB \o b'.got, cutB,
                   IF b'.got = <<>> THEN cutB ELSE 0, overtaken, overtaken')
      BY <3>1, <3>3, DeliveryProgress
    <3> QED BY <3>2, <3>4
  <2>5. Progress(Len(sentB), Len(sentB), gotA, gotA, cutA, cutA, overtaken, overtaken')
    BY <1>1, <2>1, <2>2, Zenon DEF Progress
  <2>6. PStep
    BY <2>1, <2>4, <2>5 DEF PStep
  <2> QED BY <2>3, <2>6
<1>8. ASSUME AStep PROVE PInv' /\ PStep
  <2>1. /\ Goes(a, a') /\ ab' \in {<<>>, ab \o a'.out} /\ gotA' = gotA \o a'.got
        /\ cutA' = (IF a'.got = <<>> THEN cutA ELSE 0) /\ cutB' = cutB
        /\ b' = b /\ sentB' = sentB /\ gotB' = gotB /\ sentA' = sentA /\ ba' = ba
        /\ overtaken' = overtaken
    BY <1>2, <1>8 DEF AStep, OnlyA
  <2>2. /\ Sound(a') /\ Dir(a', b, ab', Len(sentA), gotB, overtaken)
        /\ Dir(b, a', ba, Len(sentB), gotA', overtaken)
        /\ Delivery(Len(sentB), gotA, a'.got, overtaken, overtaken)
    <3>1. Goes(a, a') /\ ab' \in {<<>>, ab \o a'.out}
      BY <2>1
    <3>2. overtaken \in BOOLEAN
      BY <1>1
    <3>3. Both(a, b, ab, ba, Len(sentA), Len(sentB), gotB, gotA, overtaken)
      BY <1>1 DEF Both
    <3>4. /\ Both(a', b, ab', ba, Len(sentA), Len(sentB), gotB, gotA \o a'.got, overtaken)
          /\ Delivery(Len(sentB), gotA, a'.got, overtaken, overtaken)
      BY <3>1, <3>2, <3>3, SideGoes
    <3> QED BY <2>1, <3>4 DEF Both
  <2>3. PInv'
    BY <1>1, <2>1, <2>2 DEF PInv
  <2>4. Progress(Len(sentB), Len(sentB), gotA, gotA', cutA, cutA', overtaken, overtaken)
    <3>1. /\ overtaken \in BOOLEAN /\ (overtaken => overtaken)
          /\ Delivery(Len(sentB), gotA, a'.got, overtaken, overtaken)
      BY <1>1, <2>1, <2>2, Zenon
    <3>2. gotA' = gotA \o a'.got /\ cutA' = IF a'.got = <<>> THEN cutA ELSE 0
      BY <2>1
    <3>3. overtaken \in BOOLEAN /\ Len(sentB) \in Nat /\ gotA \in Seq(Nat)
      BY <1>1
    <3>4. Progress(Len(sentB), Len(sentB), gotA, gotA \o a'.got, cutA,
                   IF a'.got = <<>> THEN cutA ELSE 0, overtaken, overtaken)
      BY <3>1, <3>3, DeliveryProgress
    <3> QED BY <3>2, <3>4
  <2>5. Progress(Len(sentA), Len(sentA), gotB, gotB, cutB, cutB, overtaken, overtaken)
    BY <1>1, <2>1, <2>2, Zenon DEF Progress
  <2>6. PStep
    BY <2>1, <2>4, <2>5 DEF PStep
  <2> QED BY <2>3, <2>6
<1>9. ASSUME BStep PROVE PInv' /\ PStep
  <2>1. /\ Goes(b, b') /\ ba' \in {<<>>, ba \o b'.out} /\ gotB' = gotB \o b'.got
        /\ cutB' = (IF b'.got = <<>> THEN cutB ELSE 0) /\ cutA' = cutA
        /\ a' = a /\ sentA' = sentA /\ gotA' = gotA /\ sentB' = sentB /\ ab' = ab
        /\ overtaken' = overtaken
    BY <1>3, <1>9 DEF BStep, OnlyB
  <2>2. /\ Sound(b') /\ Dir(b', a, ba', Len(sentB), gotA, overtaken)
        /\ Dir(a, b', ab, Len(sentA), gotB', overtaken)
        /\ Delivery(Len(sentA), gotB, b'.got, overtaken, overtaken)
    <3>1. Goes(b, b') /\ ba' \in {<<>>, ba \o b'.out}
      BY <2>1
    <3>2. overtaken \in BOOLEAN
      BY <1>1
    <3>3. Both(b, a, ba, ab, Len(sentB), Len(sentA), gotA, gotB, overtaken)
      BY <1>1 DEF Both
    <3>4. /\ Both(b', a, ba', ab, Len(sentB), Len(sentA), gotA, gotB \o b'.got, overtaken)
          /\ Delivery(Len(sentA), gotB, b'.got, overtaken, overtaken)
      BY <3>1, <3>2, <3>3, SideGoes
    <3> QED BY <2>1, <3>4 DEF Both
  <2>3. PInv'
    BY <1>1, <2>1, <2>2 DEF PInv
  <2>4. Progress(Len(sentA), Len(sentA), gotB, gotB', cutB, cutB', overtaken, overtaken)
    <3>1. /\ overtaken \in BOOLEAN /\ (overtaken => overtaken)
          /\ Delivery(Len(sentA), gotB, b'.got, overtaken, overtaken)
      BY <1>1, <2>1, <2>2, Zenon
    <3>2. gotB' = gotB \o b'.got /\ cutB' = IF b'.got = <<>> THEN cutB ELSE 0
      BY <2>1
    <3>3. overtaken \in BOOLEAN /\ Len(sentA) \in Nat /\ gotB \in Seq(Nat)
      BY <1>1
    <3>4. Progress(Len(sentA), Len(sentA), gotB, gotB \o b'.got, cutB,
                   IF b'.got = <<>> THEN cutB ELSE 0, overtaken, overtaken)
      BY <3>1, <3>3, DeliveryProgress
    <3> QED BY <3>2, <3>4
  <2>5. Progress(Len(sentB), Len(sentB), gotA, gotA, cutA, cutA, overtaken, overtaken)
    BY <1>1, <2>1, <2>2, Zenon DEF Progress
  <2>6. PStep
    BY <2>1, <2>4, <2>5 DEF PStep
  <2> QED BY <2>3, <2>6
<1>10. ASSUME Sent(a, a'), Same(Fresh(a), a'), b' = b, ab' \in {<<>>, ab, ab \o a'.out},
              ba' \in {<<>>, ba}, gotA' = gotA \o a'.got \/ gotA' = gotA,
              cutA' = (IF a'.got = <<>> THEN cutA ELSE 0) \/ cutA' = cutA, cutB' = cutB,
              sentA' = sentA, sentB' = sentB, gotB' = gotB, overtaken' = overtaken
       PROVE  PInv' /\ PStep
  <2>1. Sound(a') /\ Dir(a', b, ab', Len(sentA), gotB, overtaken)
    BY <1>1, <1>10, DirSent DEF Sent
  <2>2. Dir(b, a', ba', Len(sentB), gotA, overtaken) /\ gotA \o a'.got = gotA /\ a'.got = <<>>
    <3>1. /\ Dir(b, a', ba', Len(sentB), gotA \o a'.got, overtaken)
          /\ gotA \o a'.got = gotA /\ a'.got = <<>>
      BY <1>1, <1>10, DirSame
    <3> QED BY <3>1
  <2>3. gotA' = gotA /\ cutA' = cutA
    BY <1>10, <2>2
  <2>4. PInv'
    BY <1>1, <1>10, <2>1, <2>2, <2>3 DEF PInv
  <2>5. PStep
    BY <1>10, <2>3 DEF PStep, Progress
  <2> QED BY <2>4, <2>5
<1>11. ASSUME Sent(b, b'), Same(Fresh(b), b'), a' = a, ba' \in {<<>>, ba, ba \o b'.out},
              ab' \in {<<>>, ab}, gotB' = gotB \o b'.got \/ gotB' = gotB,
              cutB' = (IF b'.got = <<>> THEN cutB ELSE 0) \/ cutB' = cutB, cutA' = cutA,
              sentB' = sentB, sentA' = sentA, gotA' = gotA, overtaken' = overtaken
       PROVE  PInv' /\ PStep
  <2>1. Sound(b') /\ Dir(b', a, ba', Len(sentB), gotA, overtaken)
    BY <1>1, <1>11, DirSent DEF Sent
  <2>2. Dir(a, b', ab', Len(sentA), gotB, overtaken) /\ gotB \o b'.got = gotB /\ b'.got = <<>>
    <3>1. /\ Dir(a, b', ab', Len(sentA), gotB \o b'.got, overtaken)
          /\ gotB \o b'.got = gotB /\ b'.got = <<>>
      BY <1>1, <1>11, DirSame
    <3> QED BY <3>1
  <2>3. gotB' = gotB /\ cutB' = cutB
    BY <1>11, <2>2
  <2>4. PInv'
    BY <1>1, <1>11, <2>1, <2>2, <2>3 DEF PInv
  <2>5. PStep
    BY <1>11, <2>3 DEF PStep, Progress
  <2> QED BY <2>4, <2>5
<1>12. ASSUME AHeartbeat PROVE PInv' /\ PStep
  <2>1. Sent(a, a') /\ Same(Fresh(a), a')
    BY <1>1, <1>12, StepsSame DEF AHeartbeat
  <2> QED BY <1>2, <1>10, <1>12, <2>1 DEF AHeartbeat, OnlyA
<1>13. ASSUME BHeartbeat PROVE PInv' /\ PStep
  <2>1. Sent(b, b') /\ Same(Fresh(b), b')
    BY <1>1, <1>13, StepsSame DEF BHeartbeat
  <2> QED BY <1>3, <1>11, <1>13, <2>1 DEF BHeartbeat, OnlyB
<1>14. ASSUME Connect PROVE PInv' /\ PStep
  <2>1. Sent(a, a') /\ Same(Fresh(a), a') /\ Sent(b, b') /\ Same(Fresh(b), b')
    BY <1>1, <1>14, StepsSame DEF Connect
  <2>2. /\ ab' = <<>> /\ ba' = <<>> /\ sentA' = sentA /\ sentB' = sentB /\ gotA' = gotA
        /\ gotB' = gotB /\ cutA' = cutA /\ cutB' = cutB /\ overtaken' = overtaken
    BY <1>14 DEF Connect
  <2>3. Sound(a') /\ Sound(b')
    BY <2>1 DEF Sent
  <2>4. /\ Dir(a', b, <<>>, Len(sentA), gotB, overtaken)
        /\ Dir(b', a, <<>>, Len(sentB), gotA, overtaken)
    BY <1>1, <2>1, DirSent
  <2>5. gotA \o a'.got = gotA /\ gotB \o b'.got = gotB
    BY <1>1, <2>1, DirSame
  <2>6. Dir(a', b', <<>>, Len(sentA), gotB, overtaken)
    <3>1. Dir(a', b', <<>>, Len(sentA), gotB \o b'.got, overtaken)
      BY <1>1, <2>1, <2>4, DirSame
    <3> QED BY <2>5, <3>1
  <2>7. Dir(b', a', <<>>, Len(sentB), gotA, overtaken)
    <3>1. Dir(b', a', <<>>, Len(sentB), gotA \o a'.got, overtaken)
      BY <1>1, <2>1, <2>4, DirSame
    <3> QED BY <2>5, <3>1
  <2>8. PInv'
    BY <1>1, <2>2, <2>3, <2>6, <2>7 DEF PInv
  <2>9. PStep
    BY <2>2 DEF PStep, Progress
  <2> QED BY <2>8, <2>9
<1>15. ASSUME ALost PROVE PInv' /\ PStep
  <2>1. Sent(a, a') /\ Same(Fresh(a), a')
    BY <1>1, <1>15, StepsSame DEF ALost
  <2> QED BY <1>10, <1>15, <2>1 DEF ALost, OnlyA
<1>16. ASSUME BLost PROVE PInv' /\ PStep
  <2>1. Sent(b, b') /\ Same(Fresh(b), b')
    BY <1>1, <1>16, StepsSame DEF BLost
  <2> QED BY <1>11, <1>16, <2>1 DEF BLost, OnlyB
<1>17. ASSUME ARestart PROVE PInv' /\ PStep
  <2>1. Sent(a, a') /\ Same(Fresh(a), a')
    BY <1>1, <1>17, RestartSame DEF ARestart
  <2> QED BY <1>10, <1>17, <2>1 DEF ARestart
<1>18. ASSUME BRestart PROVE PInv' /\ PStep
  <2>1. Sent(b, b') /\ Same(Fresh(b), b')
    BY <1>1, <1>18, RestartSame DEF BRestart
  <2> QED BY <1>11, <1>18, <2>1 DEF BRestart
<1>21. ASSUME ADies PROVE PInv' /\ PStep
  <2> DEFINE P(m) == Process(Fresh(a), m, "accept", {})
  <2>1. PICK m \in Handling(a, ba) :
          a' = Undone(a, P(m)) /\ cutA' = IF P(m).got = <<>> THEN cutA ELSE P(m).got[1]
    BY <1>21 DEF ADies
  <2>2. /\ ab' \in {<<>>, ab \o a'.out} /\ ba' = <<>> /\ b' = b /\ sentA' = sentA
        /\ sentB' = sentB /\ gotA' = gotA /\ gotB' = gotB /\ cutB' = cutB
        /\ overtaken' = overtaken
    BY <1>21 DEF ADies
  <2>3. Both(a, b, ab, ba, Len(sentA), Len(sentB), gotB, gotA, overtaken)
    BY <1>1 DEF Both
  <2> DEFINE p == P(m)
  <2>4. Dying(a, ba, p, a')
    BY <2>1 DEF Dying
  <2>10. cutA' = IF p.got = <<>> THEN cutA ELSE p.got[1]
    BY <2>1
  <2> HIDE DEF p
  <2>9. ab' \in {<<>>, ab \o a'.out}
    BY <2>2
  <2>5. /\ Both(a', b, ab', <<>>, Len(sentA), Len(sentB), gotB, gotA, overtaken)
        /\ \E over2 : Delivery(Len(sentB), gotA, p.got, overtaken, over2)
    <3>1. overtaken \in BOOLEAN
      BY <1>1
    <3> QED BY <2>3, <2>4, <2>9, <3>1, SideDies
  <2>6. Progress(Len(sentB), Len(sentB), gotA, gotA, cutA, cutA', overtaken, overtaken)
    BY <2>5, <2>10, CutProgress
  <2>7. PInv'
    BY <1>1, <2>2, <2>5 DEF PInv, Both
  <2>8. PStep
    BY <2>2, <2>6 DEF PStep, Progress
  <2> QED BY <2>7, <2>8
<1>22. ASSUME BDies PROVE PInv' /\ PStep
  <2> DEFINE P(m) == Process(Fresh(b), m, "accept", {})
  <2>1. PICK m \in Handling(b, ab) :
          b' = Undone(b, P(m)) /\ cutB' = IF P(m).got = <<>> THEN cutB ELSE P(m).got[1]
    BY <1>22 DEF BDies
  <2>2. /\ ba' \in {<<>>, ba \o b'.out} /\ ab' = <<>> /\ a' = a /\ sentA' = sentA
        /\ sentB' = sentB /\ gotA' = gotA /\ gotB' = gotB /\ cutA' = cutA
        /\ overtaken' = overtaken
    BY <1>22 DEF BDies
  <2>3. Both(b, a, ba, ab, Len(sentB), Len(sentA), gotA, gotB, overtaken)
    BY <1>1 DEF Both
  <2> DEFINE p == P(m)
  <2>4. Dying(b, ab, p, b')
    BY <2>1 DEF Dying
  <2>10. cutB' = IF p.got = <<>> THEN cutB ELSE p.got[1]
    BY <2>1
  <2> HIDE DEF p
  <2>9. ba' \in {<<>>, ba \o b'.out}
    BY <2>2
  <2>5. /\ Both(b', a, ba', <<>>, Len(sentB), Len(sentA), gotA, gotB, overtaken)
        /\ \E over2 : Delivery(Len(sentA), gotB, p.got, overtaken, over2)
    <3>1. overtaken \in BOOLEAN
      BY <1>1
    <3> QED BY <2>3, <2>4, <2>9, <3>1, SideDies
  <2>6. Progress(Len(sentA), Len(sentA), gotB, gotB, cutB, cutB', overtaken, overtaken)
    BY <2>5, <2>10, CutProgress
  <2>7. PInv'
    BY <1>1, <2>2, <2>5 DEF PInv, Both
  <2>8. PStep
    BY <2>2, <2>6 DEF PStep, Progress
  <2> QED BY <2>7, <2>8
<1>19. ASSUME ASetEnabled PROVE PInv' /\ PStep
  <2>1. Sent(a, a') /\ Same(Fresh(a), a')
    BY <1>1, <1>19, StepsSame DEF ASetEnabled
  <2> QED BY <1>10, <1>19, <2>1 DEF ASetEnabled, OnlyA
<1>20. ASSUME UNCHANGED vars PROVE PInv' /\ PStep
  <2>1. PInv'
    BY <1>1, <1>20 DEF vars, PInv
  <2>2. PStep
    BY <1>20 DEF vars, PStep, Progress, Delivery
  <2> QED BY <2>1, <2>2
<1> QED BY <1>4, <1>5, <1>6, <1>7, <1>8, <1>9, <1>12, <1>13, <1>14, <1>15, <1>16, <1>17,
           <1>18, <1>19, <1>20, <1>21, <1>22 DEF Next

\* PInv is an invariant: what Session::next, ::send and the timer of both sides do,
\* in any interleaving with lost connections and restarts, keeps each store, queue
\* and channel consistent with what the other side has delivered.
THEOREM PairInvariant ==
  ASSUME PlainScenarios
  PROVE  Spec => []PInv
<1>1. Init => PInv
  BY PInit
<1>2. PInv /\ [Next]_vars => PInv'
  BY PNext
<1> QED BY <1>1, <1>2, PTL DEF Spec

\* A step of the pair is, in each direction, a step of OrderedDelivery or none.
LEMMA StepDelivers ==
  ASSUME PInv, [Next]_vars
  PROVE  /\ [AtoB!Next]_<<Len(sentA), gotB, cutB, overtaken>>
         /\ [BtoA!Next]_<<Len(sentB), gotA, cutA, overtaken>>
<1>1. PStep /\ Len(sentA) \in Nat /\ Len(sentB) \in Nat
  BY PNext DEF PInv, Dir
<1>2. AtoB!Last = LastOf(gotB) /\ BtoA!Last = LastOf(gotA)
  BY DEF AtoB!Last, BtoA!Last, LastOf
<1>3. LastOf(gotA) \in Nat /\ LastOf(gotB) \in Nat
  BY DEF PInv, Dir, Caught
<1>4. [AtoB!Next]_<<Len(sentA), gotB, cutB, overtaken>>
  <2>1. CASE /\ Len(sentA') = Len(sentA) + 1 /\ gotB' = gotB /\ cutB' = cutB
             /\ overtaken' = overtaken
    BY <2>1 DEF AtoB!Next, AtoB!Send
  <2>2. CASE Len(sentA') = Len(sentA) /\ gotB' = gotB /\ cutB' = cutB /\ overtaken' = TRUE
    BY <2>2 DEF AtoB!Next, AtoB!Overtake
  <2>3. CASE Len(sentA') = Len(sentA) /\ gotB' = gotB /\ cutB' = cutB /\ overtaken' = overtaken
    BY <2>3
  <2>4. ASSUME NEW k \in 1..Len(sentA), k > LastOf(gotB),
               overtaken \/ k = LastOf(gotB) + 1,
               \/ gotB' = Append(gotB, k) /\ cutB' = 0
               \/ gotB' = gotB /\ cutB' = k,
               Len(sentA') = Len(sentA), overtaken' = overtaken
        PROVE  AtoB!Next
    <3>1. k \in (AtoB!Last + 1)..Len(sentA) /\ (overtaken \/ k = AtoB!Last + 1)
      BY <1>1, <1>2, <1>3, <2>4
    <3> QED BY <2>4, <3>1 DEF AtoB!Next, AtoB!Due, AtoB!Deliver, AtoB!CutShort
  <2> QED BY <1>1, <2>1, <2>2, <2>3, <2>4 DEF PStep, Progress
<1>5. [BtoA!Next]_<<Len(sentB), gotA, cutA, overtaken>>
  <2>1. CASE /\ Len(sentB') = Len(sentB) + 1 /\ gotA' = gotA /\ cutA' = cutA
             /\ overtaken' = overtaken
    BY <2>1 DEF BtoA!Next, BtoA!Send
  <2>2. CASE Len(sentB') = Len(sentB) /\ gotA' = gotA /\ cutA' = cutA /\ overtaken' = TRUE
    BY <2>2 DEF BtoA!Next, BtoA!Overtake
  <2>3. CASE Len(sentB') = Len(sentB) /\ gotA' = gotA /\ cutA' = cutA /\ overtaken' = overtaken
    BY <2>3
  <2>4. ASSUME NEW k \in 1..Len(sentB), k > LastOf(gotA),
               overtaken \/ k = LastOf(gotA) + 1,
               \/ gotA' = Append(gotA, k) /\ cutA' = 0
               \/ gotA' = gotA /\ cutA' = k,
               Len(sentB') = Len(sentB), overtaken' = overtaken
        PROVE  BtoA!Next
    <3>1. k \in (BtoA!Last + 1)..Len(sentB) /\ (overtaken \/ k = BtoA!Last + 1)
      BY <1>1, <1>2, <1>3, <2>4
    <3> QED BY <2>4, <3>1 DEF BtoA!Next, BtoA!Due, BtoA!Deliver, BtoA!CutShort
  <2> QED BY <1>1, <2>1, <2>2, <2>3, <2>4 DEF PStep, Progress
<1> QED BY <1>4, <1>5

\* The pair implements OrderedDelivery in both directions: fromApp is called for the
\* messages of the other side in order, for none twice but the one over which the
\* process died before counting it, and with none left out until a Logout overtakes
\* what is missing.
THEOREM PairDelivers ==
  ASSUME PlainScenarios
  PROVE  Spec => Delivers
<1>1. Init => AtoB!Init /\ BtoA!Init
  BY DEF Init, AtoB!Init, BtoA!Init
<1>2. PInv /\ [Next]_vars => /\ [AtoB!Next]_<<Len(sentA), gotB, cutB, overtaken>>
                             /\ [BtoA!Next]_<<Len(sentB), gotA, cutA, overtaken>>
  BY StepDelivers
<1> QED BY <1>1, <1>2, PairInvariant, PTL DEF Spec, Delivers, AtoB!Spec, BtoA!Spec

\* A side that expects the number the other gives out next has delivered all the
\* other's application sent: neither a gap fill, a resend nor the queue ever counts
\* an application message without delivering it.
THEOREM PairCatchesUp ==
  ASSUME PlainScenarios
  PROVE  Spec => []CaughtUp
<1>1. PInv => CaughtUp
  <2> SUFFICES ASSUME PInv, ~overtaken PROVE /\ a.sender = b.target => gotB = sentA
                                             /\ b.sender = a.target => gotA = sentB
    BY DEF CaughtUp
  <2>1. ASSUME NEW s, NEW r, NEW ch, NEW q, NEW got, Sound(s), s.sender = r.target,
               Dir(s, r, ch, Len(q), got, FALSE), q = [i \in 1..Len(q) |-> i]
        PROVE  got = q
    <3>1. /\ got \in Seq(Nat) /\ Len(got) \in 0..Len(q) /\ Len(q) \in Nat
          /\ \A i \in 1..Len(got) : got[i] = i
          /\ Len(got) = LastOf(got)
      BY <2>1 DEF Dir, Caught
    <3>2. Len(got) = Len(q)
      <4> SUFFICES ASSUME Len(got) # Len(q) PROVE FALSE
        OBVIOUS
      <4>1. Len(q) \in 1..Len(q) /\ Len(got) < Len(q)
        BY <3>1
      <4>2. PICK n \in DOMAIN s.store : s.store[n] = Len(q)
        BY <2>1, <4>1 DEF Dir, Numbering
      <4>3. n < r.target /\ s.store[n] # NoBody
        BY <2>1, <3>1, <4>2, NoBodyAssumption DEF Sound
      <4>4. s.store[n] <= LastOf(got)
        BY <2>1, <4>3 DEF Dir, Caught
      <4> QED BY <3>1, <4>1, <4>2, <4>4
    <3>3. got = [i \in 1..Len(got) |-> got[i]]
      BY <3>1
    <3>4. got = [i \in 1..Len(q) |-> i]
      BY <3>1, <3>2, <3>3
    <3> QED BY <2>1, <3>4
  <2>2. /\ Sound(a) /\ Sound(b) /\ overtaken = FALSE
        /\ Dir(a, b, ab, Len(sentA), gotB, overtaken)
        /\ Dir(b, a, ba, Len(sentB), gotA, overtaken)
        /\ sentA = [i \in 1..Len(sentA) |-> i] /\ sentB = [i \in 1..Len(sentB) |-> i]
    BY DEF PInv
  <2>3. /\ Dir(a, b, ab, Len(sentA), gotB, FALSE)
        /\ Dir(b, a, ba, Len(sentB), gotA, FALSE)
    BY <2>2
  <2> QED BY <2>1, <2>2, <2>3
<1> QED BY <1>1, PairInvariant, PTL

=============================================================================
