---------------------------- MODULE SessionPair ----------------------------
(***************************************************************************)
(* Two sessions, an initiator a and an acceptor b, over one TCP            *)
(* connection at a time.  The connection is a pair of FIFO queues that     *)
(* lose what has not been read when it breaks; each side notices the       *)
(* break at a time of its own, and may read on until then.  Applications   *)
(* send whether the sessions are connected or not.                         *)
(*                                                                         *)
(* Both sides take the steps of SessionHandlers, as Session does, with an  *)
(* application that accepts every message and withholds none.  Application *)
(* messages are numbered, so that their order can be told.                 *)
(***************************************************************************)
EXTENDS SessionHandlers

CONSTANTS
  Scenarios,      \* what a run plays through: see Scenario
  MaxHeartbeat    \* bound: the highest number of a heartbeat

\* The settings of a and of b, and bounds: application messages sent by each side,
\* connections made, times a process dies and is started again, and times the
\* operator of a logs it out.
Scenario(c, d, payloads, connects, restarts, logouts) ==
  [a |-> c, b |-> d, payloads |-> payloads, connects |-> connects,
   restarts |-> restarts, logouts |-> logouts]

ASSUME ScenariosAssumption ==
  Scenarios \subseteq [a : Config, b : Config, payloads : Nat, connects : Nat,
                       restarts : Nat, logouts : Nat]
\* The body of an administrative message is no application message.
ASSUME NoBodyAssumption == NoBody \notin Nat

\* Time is left out: ages stay 0, and a heartbeat is due whenever it matters.
HeartBtInt == 1

VARIABLES
  scope,        \* the scenario
  a, b,         \* the sessions
  ab, ba,       \* what is under way to b, and to a
  sentA, sentB, \* what the applications have sent
  gotA, gotB,   \* what the applications have received and the sessions counted
  cutA, cutB,   \* what was received since, by a process that died before it counted
  connects, restarts, logouts,
  overtaken     \* a Logout was accepted ahead of messages still missing

vars == <<scope, a, b, ab, ba, sentA, sentB, gotA, gotB, cutA, cutB, connects, restarts,
          logouts, overtaken>>

Init ==
  /\ scope \in Scenarios
  /\ a = InitState(scope.a, HeartBtInt) /\ b = InitState(scope.b, HeartBtInt)
  /\ ab = <<>> /\ ba = <<>>
  /\ sentA = <<>> /\ sentB = <<>> /\ gotA = <<>> /\ gotB = <<>>
  /\ cutA = 0 /\ cutB = 0 /\ connects = 0 /\ restarts = 0 /\ logouts = 0 /\ overtaken = FALSE

\* What a step of a side sends is under way while the other side has the
\* connection; what it passes to its application is received.
FlowA ==
  /\ ab' = IF b.conn = "open" THEN ab \o a'.out ELSE <<>>
  /\ gotA' = gotA \o a'.got /\ cutA' = IF a'.got = <<>> THEN cutA ELSE 0
FlowB ==
  /\ ba' = IF a.conn = "open" THEN ba \o b'.out ELSE <<>>
  /\ gotB' = gotB \o b'.got /\ cutB' = IF b'.got = <<>> THEN cutB ELSE 0

OnlyA == UNCHANGED <<scope, b, sentB, gotB, cutB, connects, restarts>>
OnlyB == UNCHANGED <<scope, a, sentA, gotA, cutA, connects, restarts, logouts>>

Overtakes(s, m) == m.type = "Logout" /\ m.seq > s.target

ASend ==
  /\ Len(sentA) < scope.payloads
  /\ a' = SendApp(Fresh(a), Len(sentA) + 1) /\ sentA' = Append(sentA, Len(sentA) + 1)
  /\ FlowA /\ OnlyA /\ UNCHANGED <<ba, logouts, overtaken>>
BSend ==
  /\ Len(sentB) < scope.payloads
  /\ b' = SendApp(Fresh(b), Len(sentB) + 1) /\ sentB' = Append(sentB, Len(sentB) + 1)
  /\ FlowB /\ OnlyB /\ UNCHANGED <<ab, overtaken>>

AReceive ==
  /\ ba # <<>> /\ MayReceive(a)
  /\ a' = Received(a, Head(ba), "accept", {}) /\ ba' = Tail(ba)
  /\ overtaken' = (overtaken \/ Overtakes(a, Head(ba)))
  /\ FlowA /\ OnlyA /\ UNCHANGED <<sentA, logouts>>
BReceive ==
  /\ ab # <<>> /\ MayReceive(b)
  /\ b' = Received(b, Head(ab), "accept", {}) /\ ab' = Tail(ab)
  /\ overtaken' = (overtaken \/ Overtakes(b, Head(ab)))
  /\ FlowB /\ OnlyB /\ UNCHANGED sentB

\* The rest of a handler, and the timer.
Goes(s, t) ==
  \/ MayDrain(s) /\ t = Drained(s, "accept")
  \/ MayFinish(s) /\ t = Finished(s, {})
  \/ MayTick(s) /\ t = Ticked(s)
AStep ==
  /\ Goes(a, a')
  /\ FlowA /\ OnlyA /\ UNCHANGED <<ba, sentA, logouts, overtaken>>
BStep ==
  /\ Goes(b, b')
  /\ FlowB /\ OnlyB /\ UNCHANGED <<ab, sentB, overtaken>>

\* A heartbeat falls due.  Bound: only when all is quiet and the other side has
\* numbers to learn of; at any other time it is one more message on the way.
Quiet ==
  /\ IsLoggedOn(a) /\ a.pc = "idle" /\ ab = <<>>
  /\ IsLoggedOn(b) /\ b.pc = "idle" /\ ba = <<>>
AHeartbeat ==
  /\ Quiet /\ a.sender # b.target /\ a.sender <= MaxHeartbeat
  /\ a' = GenerateHeartbeat(Fresh(a))
  /\ FlowA /\ OnlyA /\ UNCHANGED <<ba, sentA, logouts, overtaken>>
BHeartbeat ==
  /\ Quiet /\ b.sender # a.target /\ b.sender <= MaxHeartbeat
  /\ b' = GenerateHeartbeat(Fresh(b))
  /\ FlowB /\ OnlyB /\ UNCHANGED <<ab, sentB, overtaken>>

Connect ==
  /\ connects < scope.connects /\ MayConnect(a) /\ MayConnect(b)
  /\ a' = Connected(a) /\ b' = Connected(b)
  /\ ab' = <<>> /\ ba' = <<>> /\ connects' = connects + 1
  /\ UNCHANGED <<scope, sentA, sentB, gotA, gotB, cutA, cutB, restarts, logouts, overtaken>>

\* A side loses the connection, with what it has not read.
ALost ==
  /\ MayEnd(a) /\ a' = Ended(a) /\ ba' = <<>>
  /\ OnlyA /\ UNCHANGED <<ab, sentA, gotA, cutA, logouts, overtaken>>
BLost ==
  /\ MayEnd(b) /\ b' = Ended(b) /\ ab' = <<>>
  /\ OnlyB /\ UNCHANGED <<ba, sentB, gotB, cutB, overtaken>>

\* A process dies and a new one opens the store: FileStore keeps the numbers and the
\* messages, and nothing else is kept.
Reopened(s) ==
  [InitState(s.cfg, HeartBtInt) EXCEPT
     !.sender = s.sender, !.target = s.target, !.store = s.store]

\* It dies between two handlers, or two rounds of nextQueued.
ARestart ==
  /\ restarts < scope.restarts /\ restarts' = restarts + 1
  /\ a' = Reopened(a) /\ ba' = <<>>
  /\ UNCHANGED <<scope, b, ab, sentA, sentB, gotA, gotB, cutA, cutB, connects, logouts, overtaken>>
BRestart ==
  /\ restarts < scope.restarts /\ restarts' = restarts + 1
  /\ b' = Reopened(b) /\ ab' = <<>>
  /\ UNCHANGED <<scope, a, ba, sentA, sentB, gotA, gotB, cutA, cutB, connects, logouts, overtaken>>

\* The message whose handler may be running: the next to be read, or the one that
\* nextQueued has taken from the queue (it does not handle a Logon again).
Handling(s, in) ==
  {m \in Range(in) : MayReceive(s) /\ m = Head(in)}
    \cup {s.queue[n] : n \in {k \in DOMAIN s.queue :
                               MayDrain(s) /\ k = s.target /\ s.queue[k].type # "Logon"}}

\* It dies inside the handler of a message, which has passed the message to the
\* application or answered it, and has yet to count it: in next() between verify()
\* and incrNextTargetMsgSeqNum, and alike in nextLogon, nextTestRequest, nextLogout.
Undone(s, t) == [Reopened(t) EXCEPT !.target = s.target, !.out = t.out]
ADies ==
  /\ restarts < scope.restarts /\ restarts' = restarts + 1
  /\ \E t \in {Process(Fresh(a), m, "accept", {}) : m \in Handling(a, ba)} :
       /\ t.target = a.target + 1 /\ a' = Undone(a, t)
       /\ cutA' = IF t.got = <<>> THEN cutA ELSE t.got[1]
  /\ ab' = (IF b.conn = "open" THEN ab \o a'.out ELSE <<>>) /\ ba' = <<>>
  /\ UNCHANGED <<scope, b, sentA, sentB, gotA, gotB, cutB, connects, logouts, overtaken>>
BDies ==
  /\ restarts < scope.restarts /\ restarts' = restarts + 1
  /\ \E t \in {Process(Fresh(b), m, "accept", {}) : m \in Handling(b, ab)} :
       /\ t.target = b.target + 1 /\ b' = Undone(b, t)
       /\ cutB' = IF t.got = <<>> THEN cutB ELSE t.got[1]
  /\ ba' = (IF a.conn = "open" THEN ba \o b'.out ELSE <<>>) /\ ab' = <<>>
  /\ UNCHANGED <<scope, a, sentA, sentB, gotA, gotB, cutA, connects, logouts, overtaken>>

\* The operator logs a out, and on again.
ASetEnabled ==
  /\ logouts < scope.logouts \/ ~a.enabled
  /\ a.pc = "idle" /\ a' = [Fresh(a) EXCEPT !.enabled = ~a.enabled]
  /\ logouts' = IF a.enabled THEN logouts + 1 ELSE logouts
  /\ OnlyA /\ UNCHANGED <<ab, ba, sentA, gotA, cutA, overtaken>>

Next ==
  \/ ASend \/ BSend \/ AReceive \/ BReceive \/ AStep \/ BStep
  \/ AHeartbeat \/ BHeartbeat
  \/ Connect \/ ALost \/ BLost \/ ASetEnabled
  \/ ARestart \/ BRestart \/ ADies \/ BDies

Spec == Init /\ [][Next]_vars
FairSpec ==
  /\ Spec
  /\ WF_vars(AReceive) /\ WF_vars(AStep) /\ WF_vars(AHeartbeat)
  /\ WF_vars(BReceive) /\ WF_vars(BStep) /\ WF_vars(BHeartbeat)

-----------------------------------------------------------------------------
(* Properties *)

LoggedOn == IsLoggedOn(a) /\ IsLoggedOn(b)
Complete == gotB = sentA /\ gotA = sentB

AtoB == INSTANCE OrderedDelivery WITH
          sent <- Len(sentA), delivered <- gotB, cut <- cutB, lossy <- overtaken
BtoA == INSTANCE OrderedDelivery WITH
          sent <- Len(sentB), delivered <- gotA, cut <- cutA, lossy <- overtaken

\* The pair delivers each side's messages in order and none twice, across lost
\* connections, restarts, offline sends, resend requests, gap fills and Logouts, but
\* for a message that fromApp was given and the process died before it was counted:
\* that one comes again, before any other.  And it leaves none out until a Logout
\* overtakes what is still missing (nextLogout counts the expected number, whatever
\* the number of the Logout): in each direction it implements OrderedDelivery.
Delivers == AtoB!Spec /\ BtoA!Spec

\* When both sides are logged on and nothing is under way, no gap is left that
\* neither side asks for: nothing waits in a queue (doTargetTooHigh's one request at
\* a time, the resend range, the NextExpectedMsgSeqNum of the Logons).
NoGapLeft == (Quiet /\ ~overtaken) => a.queue = <<>> /\ b.queue = <<>>

\* A side that expects the very number the other gives out next has delivered all
\* that the other's application ever sent, whatever the connections, resends, gap
\* fills and restarts on the way: no message was counted without being delivered.
CaughtUp ==
  ~overtaken => /\ a.sender = b.target => gotB = sentA
                /\ b.sender = a.target => gotA = sentB

\* Two sessions that stay logged on catch up, whatever was sent while they were
\* not: the requests and answers come to an end.
CatchUp == LoggedOn ~> (Complete \/ ~LoggedOn)

=============================================================================
