-------------------------- MODULE SendQueueProofs --------------------------
(***************************************************************************)
(* Proofs about SendQueue, for any number of application threads, sizes of *)
(* message, bound and socket buffer, and however many messages are sent.   *)
(*                                                                         *)
(* The invariant says who may do what.  One thread at a time has the       *)
(* writer's role (OneWriter), which is why the offset and the front of the *)
(* queue are its own and the wire continues where it ended (Stream).  A    *)
(* thread of the application in a call holds the session's lock (Locked),  *)
(* which is why one sender at a time can bring the queue past the bound    *)
(* (Past) and owe a wake-up, and why nobody is in a connection that is     *)
(* freed.  A sender gives up only when there is no connection left to send *)
(* on (Failing), and a disconnect() gets to its end only past its deadline *)
(* or with everything it owed written (Owing).                             *)
(***************************************************************************)
EXTENDS SendQueue, SequenceTheorems, TLAPS

NetPCs == {"poll", "role", "more", "giveUp", "timer", "failed", "end", "gone"}
PCs ==
  {"poll", "role", "more", "giveUp", "timer", "failed", "end", "gone", "idle", "wait", "woken",
   "bound", "release", "wake", "return", "front", "write", "pop", "disconnect", "flush",
   "shut", "shutdown"}
Locals ==
  [pc : PCs, call : {"bound", "queue", "flush"}, front : Nat, ok : BOOLEAN,
   progress : BOOLEAN, wake : BOOLEAN, queued : BOOLEAN, flush : BOOLEAN, last : BOOLEAN]

\* The types of the variables.  An application's thread is nowhere that only the
\* connection's own can be, and makes no last call; a thread in a loop of send(),
\* writeQueued() or disconnect() calls writeFront() for it.
LocalsOK == th \in [Threads -> Locals]
AppsOK == \A t \in Apps : th[t].pc \notin NetPCs /\ ~th[t].last /\ th[t].call # "queue"
CallsOK ==
  \A t \in Threads :
    /\ th[t].pc \in {"wait", "woken", "bound", "release"} => th[t].call = "bound"
    /\ th[t].pc \in {"more", "giveUp"} => th[t].call = "queue"
    /\ th[t].pc = "flush" => th[t].call = "flush"
SharedOK ==
  /\ queue \in Seq(Nat) /\ offset \in 0..Size /\ taken \in Nat
  /\ writing \in BOOLEAN /\ disc \in BOOLEAN /\ wakeup \in BOOLEAN
  /\ down \in BOOLEAN /\ responder \in BOOLEAN /\ late \in BOOLEAN
  /\ lock \in Threads \cup {None} /\ sent \in Nat /\ owed \in Nat \cup {None}
TypeOK == LocalsOK /\ AppsOK /\ CallsOK /\ SharedOK

\* A thread that has the writer's role.
Writer(t) ==
  \/ th[t].pc \in {"bound", "release", "more", "giveUp", "flush", "front", "write", "pop"}
  \/ th[t].pc = "shut" /\ th[t].flush

\* One thread at a time has the role, and m_writing says so.
OneWriter ==
  /\ \A t \in Threads : Writer(t) => writing
  /\ \A t, u \in Threads : Writer(t) /\ Writer(u) => t = u

\* An application's thread in a call holds the session's lock, and holds it in a call
\* only; a connection that is freed has given its session up.
Locked ==
  /\ \A t \in Apps : th[t].pc # "idle" <=> lock = t
  /\ lock = Net => th[Net].pc \notin NetPCs \cup {"idle"}
  /\ lock = Net /\ th[Net].pc \in {"front", "write", "pop"} => th[Net].call # "queue"
  /\ At(Net, "gone") => ~responder /\ lock = None

\* The queue holds the last messages sent in their order, the wire all before them and
\* the part of the first that m_sendOffset says; a writer works on the first.
Stream ==
  /\ Len(queue) <= sent /\ \A i \in 1..Len(queue) : queue[i] = sent - Len(queue) + i
  /\ wire \in Seq(Nat) /\ WireInOrder
  /\ Len(wire) = Size * (sent - Len(queue)) + offset
  /\ \A t \in Threads :
       /\ th[t].pc \in {"write", "pop"} => queue # <<>> /\ th[t].front = Head(queue)
       /\ th[t].pc = "pop" => offset = Size

\* A sender that has pushed a message and has not yet brought the queue below the bound.
InBound(t) ==
  \/ th[t].pc \in {"wait", "woken", "bound", "release"}
  \/ th[t].pc \in {"front", "write", "pop"} /\ th[t].call = "bound"

\* It gives up only when the socket has failed or the connection is disconnected.
Failing ==
  \A t \in Threads : InBound(t) /\ ~th[t].ok => th[t].pc = "release" /\ (disc \/ down)

\* While the socket works the queue is past the bound only in a call of send().
Past ==
  (QueueBytes > Limit /\ ~disc /\ ~down) => lock # None /\ InBound(lock)

\* A disconnect() that is about to set m_disconnect has seen what was owed written, or
\* its deadline has passed.
InDisconnect(t) ==
  \/ th[t].pc \in {"disconnect", "flush", "shut", "shutdown"}
  \/ th[t].pc \in {"front", "write", "pop"} /\ th[t].call = "flush"
Paid == Len(wire) >= Size * owed
Owing ==
  /\ owed # None => owed <= sent
  /\ \A t \in Threads : InDisconnect(t) => owed # None
  /\ \A t \in Threads :
       th[t].pc = "shut" => disc \/ late \/ down \/ Paid

IInv == TypeOK /\ OneWriter /\ Locked /\ Stream /\ Failing /\ Past /\ Owing /\ Bounded /\ WakeNotLost
-----------------------------------------------------------------------------
\* The connection's thread is a thread of its own.
LEMMA NetApart ==
  /\ Net \in Threads /\ Apps \subseteq Threads /\ Net \notin Apps
  /\ \A t \in Threads : t = Net \/ t \in Apps
BY ThreadsAssumption DEF Threads

\* Two flags of a thread keep their types.
LEMMA SetFlags ==
  ASSUME NEW f \in [Threads -> Locals], NEW t \in Threads, NEW b \in BOOLEAN, NEW c \in BOOLEAN
  PROVE  /\ [f EXCEPT ![t].last = b, ![t].flush = c] \in [Threads -> Locals]
         /\ [f EXCEPT ![t].ok = c, ![t].wake = b] \in [Threads -> Locals]
<1>1. [f EXCEPT ![t].last = b, ![t].flush = c] \in [Threads -> Locals]
  BY ZenonT(60) DEF Locals
<1>2. [f EXCEPT ![t].ok = c, ![t].wake = b] \in [Threads -> Locals]
  BY ZenonT(60) DEF Locals
<1> QED
  BY <1>1, <1>2

\* The assignments to a thread's local variables keep their types.
LEMMA SetLocals ==
  ASSUME LocalsOK, NEW t \in Threads, NEW pc \in PCs,
         NEW b \in BOOLEAN, NEW c \in BOOLEAN
  PROVE  /\ [th EXCEPT ![t].pc = pc] \in [Threads -> Locals]
         /\ [th EXCEPT ![t].pc = pc, ![t].queued = b] \in [Threads -> Locals]
         /\ [th EXCEPT ![t].pc = pc, ![t].last = b, ![t].flush = c] \in [Threads -> Locals]
         /\ [th EXCEPT ![t].pc = pc, ![t].call = "bound", ![t].ok = c, ![t].wake = b]
              \in [Threads -> Locals]
         /\ [th EXCEPT ![t].progress = TRUE, ![t].pc = pc] \in [Threads -> Locals]
         /\ [th EXCEPT ![t].pc = pc, ![t].ok = b] \in [Threads -> Locals]
         /\ [th EXCEPT ![t].pc = pc, ![t].flush = b, ![t].call = "flush"] \in [Threads -> Locals]
<1>1. [th EXCEPT ![t].pc = pc] \in [Threads -> Locals]
  BY DEF LocalsOK, Locals
<1>2. [th EXCEPT ![t].pc = pc, ![t].queued = b] \in [Threads -> Locals]
  BY ZenonT(60) DEF LocalsOK, Locals
<1>3. [th EXCEPT ![t].pc = pc, ![t].last = b, ![t].flush = c] \in [Threads -> Locals]
  <2> DEFINE f == [th EXCEPT ![t].pc = pc]
  <2>1. [th EXCEPT ![t].pc = pc, ![t].last = b, ![t].flush = c]
          = [f EXCEPT ![t].last = b, ![t].flush = c]
    BY Zenon DEF LocalsOK
  <2> QED
    BY <1>1, <2>1, SetFlags
<1>4. [th EXCEPT ![t].pc = pc, ![t].call = "bound", ![t].ok = c, ![t].wake = b]
        \in [Threads -> Locals]
  <2> DEFINE f == [th EXCEPT ![t].pc = pc, ![t].call = "bound"]
  <2>1. f \in [Threads -> Locals]
    BY ZenonT(60) DEF LocalsOK, Locals
  <2>2. [th EXCEPT ![t].pc = pc, ![t].call = "bound", ![t].ok = c, ![t].wake = b]
          = [f EXCEPT ![t].ok = c, ![t].wake = b]
    BY Zenon DEF LocalsOK
  <2> QED
    BY <2>1, <2>2, SetFlags
<1>5. [th EXCEPT ![t].progress = TRUE, ![t].pc = pc] \in [Threads -> Locals]
  BY ZenonT(60) DEF LocalsOK, Locals
<1>6. [th EXCEPT ![t].pc = pc, ![t].ok = b] \in [Threads -> Locals]
  BY ZenonT(60) DEF LocalsOK, Locals
<1>7. [th EXCEPT ![t].pc = pc, ![t].flush = b, ![t].call = "flush"] \in [Threads -> Locals]
  BY ZenonT(60) DEF LocalsOK, Locals
<1> QED
  BY <1>1, <1>2, <1>3, <1>4, <1>5, <1>6, <1>7

\* writeFront() returns to a place in its caller.
LEMMA AfterPC ==
  ASSUME LocalsOK, NEW t \in Threads, NEW ok \in BOOLEAN, NEW progress \in BOOLEAN
  PROVE  After(t, ok, progress) \in PCs
<1>1. th[t].call \in {"bound", "queue", "flush"}
  BY DEF LocalsOK, Locals
<1> QED
  BY <1>1 DEF After, PCs

\* A thread that goes on keeps the types.
LEMMA GoLocals ==
  ASSUME LocalsOK, NEW t \in Threads, NEW pc \in PCs, Go(t, pc)
  PROVE  LocalsOK'
BY SetLocals DEF Go, LocalsOK
\* So does one that returns from writeFront().
LEMMA WriteReturnsLocals ==
  ASSUME LocalsOK, NEW t \in Threads, NEW ok \in BOOLEAN, NEW progress \in BOOLEAN,
         WriteReturns(t, ok, progress)
  PROVE  LocalsOK'
BY ZenonT(60), AfterPC, SetLocals DEF WriteReturns, LocalsOK


-----------------------------------------------------------------------------
(* What the steps of a thread do to the local variables *)

\* Only thread t has moved, or only it and the threads that waited.
Alone(t) == \A u \in Threads \ {t} : th'[u] = th[u]
Notified(t) ==
  \A u \in Threads \ {t} :
    /\ th'[u].pc = IF th[u].pc = "wait" THEN "woken" ELSE th[u].pc
    /\ th'[u].call = th[u].call /\ th'[u].ok = th[u].ok /\ th'[u].wake = th[u].wake
    /\ th'[u].flush = th[u].flush /\ th'[u].front = th[u].front /\ th'[u].queued = th[u].queued

\* Everything of thread t but its place is as it was.
KeepsLocals(t) ==
  /\ th'[t].call = th[t].call /\ th'[t].ok = th[t].ok /\ th'[t].wake = th[t].wake
  /\ th'[t].flush = th[t].flush /\ th'[t].front = th[t].front /\ th'[t].queued = th[t].queued

Others == <<queue, offset, writing, disc, wakeup, Socket, lock, responder, History>>
Moved(t, pc) == Alone(t) /\ th'[t].pc = pc /\ KeepsLocals(t)

\* A writer has found a message to write; or it has returned from writeFront().
Begun(t) ==
  /\ Alone(t) /\ queue # <<>> /\ ~disc
  /\ th[t].pc = "front" /\ th'[t].pc = "write" /\ th'[t].front = Head(queue)
  /\ th'[t].call = th[t].call /\ th'[t].ok = th[t].ok /\ th'[t].wake = th[t].wake
  /\ th'[t].flush = th[t].flush /\ th'[t].queued = th[t].queued
Came(t) ==
  /\ Alone(t) /\ th[t].pc \in {"front", "write"}
  /\ th'[t].call = th[t].call /\ th'[t].wake = th[t].wake /\ th'[t].front = th[t].front
  /\ th'[t].flush = th[t].flush /\ th'[t].queued = th[t].queued
  /\ \/ th[t].call = "bound" /\ th'[t].pc = IF th'[t].ok THEN "bound" ELSE "release"
     \/ th[t].call = "queue" /\ th'[t].pc \in {"more", "giveUp"}
     \/ th[t].call = "flush" /\ th'[t].pc = "flush"
     \/ th[t].call = "flush" /\ th'[t].pc = "shut" /\ (disc \/ down \/ late \/ queue = <<>>)
  /\ ~th'[t].ok => disc \/ down

\* A thread that goes on, and one that notifies the waiting ones.
LEMMA Goes ==
  ASSUME LocalsOK, NEW t \in Threads, NEW pc, Go(t, pc)
  PROVE  Moved(t, pc)
BY DEF LocalsOK, Locals, Go, Moved, Alone, KeepsLocals

\* A step that ends with a notify wakes the threads that wait, and no thread loses what it knew.
LEMMA Notifies ==
  ASSUME LocalsOK, NEW t \in Threads, NEW pc, GoNotifying(t, pc)
  PROVE  Notified(t) /\ th'[t].pc = pc /\ KeepsLocals(t)
<1>1. th'[t].pc = pc /\ KeepsLocals(t)
  BY DEF LocalsOK, Locals, GoNotifying, KeepsLocals
<1>2. Notified(t)
  BY DEF LocalsOK, Locals, GoNotifying, Notified
<1> QED
  BY <1>1, <1>2

\* One that returns from writeFront().
LEMMA Returns ==
  ASSUME LocalsOK, NEW t \in Threads, NEW ok \in BOOLEAN, NEW progress \in BOOLEAN,
         WriteReturns(t, ok, progress), th[t].pc \in {"front", "write"},
         ~ok => disc \/ down,
         ~progress => ~ok \/ queue = <<>> \/ late \/ th[t].call = "queue"
  PROVE  Came(t)
<1>1. /\ Alone(t) /\ th'[t].pc = After(t, ok, progress) /\ th'[t].ok = ok
      /\ th'[t].call = th[t].call /\ th'[t].wake = th[t].wake /\ th'[t].flush = th[t].flush
      /\ th'[t].front = th[t].front /\ th'[t].queued = th[t].queued
  BY DEF LocalsOK, Locals, WriteReturns, Alone
<1>2. th[t].call \in {"bound", "queue", "flush"}
  BY DEF LocalsOK, Locals
<1> QED
  BY <1>1, <1>2 DEF Came, After

\* writeFront() before and after its socket_send.
LEMMA WriterReturns ==
  ASSUME LocalsOK, NEW t \in Threads, Front(t) \/ WriteFails(t) \/ WriteBlocks(t)
  PROVE  UNCHANGED Others /\ (Begun(t) \/ Came(t))
<1>1. UNCHANGED Others
  BY DEF Front, WriteFails, WriteBlocks, Others
<1> SUFFICES Begun(t) \/ Came(t)
  BY <1>1
<1>2. CASE Front(t)
  <2>1. CASE queue = <<>> \/ disc
    <3>1. WriteReturns(t, ~disc, FALSE)
      BY <1>2, <2>1 DEF Front
    <3> QED
      BY <1>2, <2>1, <3>1, Returns DEF Front, At
  <2>2. CASE ~(queue = <<>> \/ disc)
    <3>1. th' = [th EXCEPT ![t].pc = "write", ![t].front = Head(queue), ![t].progress = FALSE]
      BY <1>2, <2>2 DEF Front
    <3>2. Alone(t)
      BY <3>1 DEF LocalsOK, Alone
    <3>3. Begun(t)
      BY <1>2, <2>2, <3>1, <3>2 DEF LocalsOK, Locals, Begun, Front, At
    <3> QED
      BY <3>3
  <2> QED
    BY <2>1, <2>2
<1>3. CASE WriteFails(t)
  BY <1>3, Returns DEF WriteFails, At
<1>4. CASE WriteBlocks(t)
  <2>1. th[t].progress \in BOOLEAN
    BY DEF LocalsOK, Locals
  <2>2. CASE /\ th[t].call = "queue" \/ (th[t].call = "flush" /\ late)
             /\ WriteReturns(t, TRUE, th[t].progress)
    BY <1>4, <2>1, <2>2, Returns DEF WriteBlocks, At
  <2>3. CASE disc /\ WriteReturns(t, FALSE, FALSE)
    BY <1>4, <2>3, Returns DEF WriteBlocks, At
  <2> QED
    BY <1>4, <2>2, <2>3 DEF WriteBlocks
<1> QED
  BY <1>2, <1>3, <1>4

\* Where the loop of sendQueued() goes past the bound.
LEMMA BoundIs ==
  ASSUME NEW q, NEW d
  PROVE  /\ Bound(q, d) \in {"wake", "wait", "bound"}
         /\ Bound(q, d) = "bound" => ~writing
         /\ Bound(q, d) = "wait" => writing
         /\ Bound(q, d) = "wake" => Size * Len(q) <= Limit \/ d
BY DEF Bound

\* The first message is popped and the waiting senders are notified.
LEMMA PopDoes ==
  ASSUME LocalsOK, NEW t \in Threads, Pop(t)
  PROVE  /\ Notified(t) /\ KeepsLocals(t) /\ th[t].pc = "pop"
         /\ \/ th[t].call = "bound" /\ th'[t].pc = "bound"
            \/ th[t].call = "queue" /\ th'[t].pc = "more"
            \/ th[t].call = "flush" /\ th'[t].pc = "flush"
<1>1. Notified(t) /\ KeepsLocals(t) /\ th'[t].pc = After(t, TRUE, TRUE)
  BY Notifies DEF Pop
<1>2. th[t].call \in {"bound", "queue", "flush"}
  BY DEF LocalsOK, Locals
<1> QED
  BY <1>1, <1>2 DEF After, Pop, At

\* The loop of a flush ends, or goes on to the next message.
LEMMA FlushDoes ==
  ASSUME LocalsOK, NEW t \in Threads, Flush(t)
  PROVE  /\ UNCHANGED Others /\ th[t].pc = "flush"
         /\ \/ Moved(t, "shut") /\ (queue = <<>> \/ disc \/ late)
            \/ Moved(t, "front")
<1>1. CASE (queue = <<>> \/ disc \/ late) /\ Go(t, "shut")
  BY <1>1, Goes DEF Flush, Others, At
<1>2. CASE Go(t, "front")
  BY <1>2, Goes DEF Flush, Others, At
<1> QED
  BY <1>1, <1>2 DEF Flush

\* A sender that was notified waits again, goes on, or takes the role.
LEMMA WokenDoes ==
  ASSUME LocalsOK, NEW t \in Threads, Woken(t)
  PROVE  /\ UNCHANGED <<queue, offset, disc, wakeup, Socket, lock, responder, History>>
         /\ th[t].pc = "woken"
         /\ \/ Moved(t, "wait") /\ UNCHANGED writing
            \/ Moved(t, "wake") /\ writing' = (writing \/ FALSE) /\ (QueueBytes <= Limit \/ disc)
            \/ Moved(t, "bound") /\ ~writing /\ writing'
<1>1. CASE Go(t, "wait") /\ UNCHANGED writing
  BY <1>1, Goes DEF Woken, At
<1>2. CASE Go(t, Bound(queue, disc)) /\ writing' = (writing \/ Bound(queue, disc) = "bound")
  <2>1. Moved(t, Bound(queue, disc))
    BY <1>2, Goes
  <2> QED
    BY <1>2, <2>1 DEF Bound, Woken, At, QueueBytes
<1> QED
  BY <1>1, <1>2 DEF Woken

\* disconnect() takes the role to flush what is queued, or goes on to shut down.
LEMMA DisconnectDoes ==
  ASSUME LocalsOK, NEW t \in Threads, Disconnect(t)
  PROVE  /\ UNCHANGED <<queue, offset, disc, wakeup, Socket, lock, responder, History>>
         /\ Alone(t) /\ th[t].pc = "disconnect" /\ th'[t].wake = th[t].wake
         /\ th'[t].call = "flush" /\ th'[t].queued = th[t].queued /\ th'[t].ok = th[t].ok
         /\ \/ /\ th'[t].pc = "flush" /\ th'[t].flush /\ ~writing /\ writing'
            \/ /\ th'[t].pc = "shut" /\ ~th'[t].flush /\ writing' = (writing \/ FALSE)
               /\ disc \/ late \/ queue = <<>>
<1> DEFINE flush == ~disc /\ ~writing /\ queue # <<>>
           pc == IF flush THEN "flush" ELSE "shut"
<1>1. th' = [th EXCEPT ![t].pc = pc, ![t].flush = flush, ![t].call = "flush"]
  BY DEF Disconnect
<1>2. writing' = (writing \/ flush) /\ th[t].pc = "disconnect" /\ (disc \/ ~writing \/ late)
  BY DEF Disconnect, At
<1>3. UNCHANGED <<queue, offset, disc, wakeup, Socket, lock, responder, History>>
  BY DEF Disconnect
<1>4. flush \in BOOLEAN
  OBVIOUS
<1>5. pc = IF flush THEN "flush" ELSE "shut"
  OBVIOUS
<1>6. flush = (~disc /\ ~writing /\ queue # <<>>)
  OBVIOUS
<1> HIDE DEF flush, pc
<1>7. /\ Alone(t) /\ th'[t].wake = th[t].wake /\ th'[t].queued = th[t].queued
      /\ th'[t].ok = th[t].ok /\ th'[t].call = "flush" /\ th'[t].pc = pc
  BY <1>1 DEF LocalsOK, Locals, Alone
<1>8. th'[t].flush = flush
  BY <1>1, <1>4 DEF LocalsOK, Locals
<1>9. CASE flush
  BY <1>2, <1>3, <1>5, <1>6, <1>7, <1>8, <1>9
<1>10. CASE ~flush
  BY <1>2, <1>3, <1>5, <1>6, <1>7, <1>8, <1>10
<1> QED
  BY <1>9, <1>10

\* send() after a disconnect returns at once; else it pushes, and goes on, waits or takes the role.
LEMMA SendDoes ==
  ASSUME LocalsOK, NEW t \in Threads, Send(t)
  PROVE  /\ UNCHANGED <<offset, disc, wakeup, Socket, responder, owed, late>>
         /\ Alone(t) /\ th[t].pc \in {"idle", "timer"} /\ lock = None /\ lock' = t /\ responder
         /\ th'[t].call = "bound" /\ th'[t].ok /\ th'[t].queued = th[t].queued
         /\ \/ /\ disc /\ UNCHANGED <<queue, sent>> /\ th'[t].pc = "return"
               /\ writing' = (writing \/ FALSE)
            \/ /\ ~disc /\ queue' = Append(queue, sent + 1) /\ sent' = sent + 1
               /\ th'[t].wake = Wakes(queue)
               /\ \/ th'[t].pc = "wake" /\ writing' = (writing \/ FALSE) /\ Size * Len(queue') <= Limit
                  \/ th'[t].pc = "wait" /\ writing' = (writing \/ FALSE) /\ writing
                  \/ th'[t].pc = "bound" /\ ~writing /\ writing'
<1> DEFINE q == Append(queue, sent + 1)
           pc == IF disc THEN "return" ELSE Bound(q, FALSE)
           wake == ~disc /\ Wakes(queue)
<1>1. /\ th' = [th EXCEPT ![t].pc = pc, ![t].call = "bound", ![t].ok = TRUE, ![t].wake = wake]
      /\ queue' = IF disc THEN queue ELSE q
      /\ sent' = IF disc THEN sent ELSE sent + 1
      /\ writing' = (writing \/ pc = "bound")
  BY DEF Send
<1>2. /\ UNCHANGED <<offset, disc, wakeup, Socket, responder, owed, late>>
      /\ th[t].pc \in {"idle", "timer"} /\ lock = None /\ lock' = t /\ responder
  BY DEF Send, At
<1>3. wake \in BOOLEAN /\ wake = (~disc /\ Wakes(queue))
  OBVIOUS
<1>4. disc => pc = "return"
  OBVIOUS
<1>5. ~disc => pc = Bound(q, FALSE)
  OBVIOUS
<1> HIDE DEF wake, pc
<1>6. /\ Alone(t) /\ th'[t].queued = th[t].queued /\ th'[t].call = "bound" /\ th'[t].pc = pc
  BY <1>1 DEF LocalsOK, Locals, Alone
<1>7. th'[t].ok /\ th'[t].wake = wake
  BY <1>1, <1>3 DEF LocalsOK, Locals
<1>8. CASE disc
  BY <1>1, <1>2, <1>3, <1>4, <1>6, <1>7, <1>8
<1>9. CASE ~disc
  <2>1. th'[t].wake = Wakes(queue)
    BY <1>3, <1>7, <1>9 DEF Wakes
  <2>2. queue' = q /\ sent' = sent + 1
    BY <1>1, <1>9
  <2>3. pc = Bound(q, FALSE)
    BY <1>5, <1>9
  <2> QED
    BY <1>1, <1>2, <1>6, <1>7, <1>9, <2>1, <2>2, <2>3, BoundIs
<1> QED
  BY <1>8, <1>9

\* disconnect() begins, and notes what is owed if it is the first.
LEMMA BeginDoes ==
  ASSUME LocalsOK, NEW t \in Threads, NEW last \in BOOLEAN, Begin(t, last)
  PROVE  /\ UNCHANGED <<queue, offset, writing, disc, wakeup, Socket, responder, sent, late>>
         /\ Alone(t) /\ th'[t].pc = "disconnect" /\ ~th'[t].flush /\ th'[t].wake = th[t].wake
         /\ th'[t].call = th[t].call /\ th'[t].ok = th[t].ok /\ th'[t].queued = th[t].queued
         /\ owed' = IF owed = None THEN sent ELSE owed
<1>1. th' = [th EXCEPT ![t].pc = "disconnect", ![t].last = last, ![t].flush = FALSE]
  BY DEF Begin
<1>2. Alone(t) /\ th'[t].pc = "disconnect" /\ th'[t].call = th[t].call
  BY <1>1 DEF LocalsOK, Locals, Alone
<1>3. ~th'[t].flush /\ th'[t].wake = th[t].wake /\ th'[t].ok = th[t].ok
  BY <1>1 DEF LocalsOK, Locals
<1>4. th'[t].queued = th[t].queued
  BY <1>1 DEF LocalsOK, Locals
<1> QED
  BY <1>2, <1>3, <1>4 DEF Begin

\* Every step keeps the types of the local variables.
LEMMA LocalsStep ==
  ASSUME LocalsOK, SharedOK, [Next]_vars
  PROVE  LocalsOK'
<1> USE NetApart
<1>1. CASE Prepare
  BY <1>1, SetLocals DEF Prepare, At, Socket, History, LocalsOK, PCs
<1>2. CASE Poll
  BY <1>2 DEF Poll, At, Go, Socket, History, Locals, LocalsOK, PCs
<1>3. CASE TakeRole
  BY <1>3 DEF TakeRole, At, Go, Socket, History, Locals, LocalsOK, PCs
<1>4. CASE More
  BY <1>4 DEF More, At, Go, Socket, History, Locals, LocalsOK, PCs
<1>5. CASE GiveUp
  BY <1>5 DEF GiveUp, At, GoNotifying, Socket, History, Locals, LocalsOK, PCs
<1>6. CASE Quiet
  BY <1>6 DEF Quiet, At, Socket, History, Fresh, Locals, LocalsOK, PCs
<1>7. CASE Failed
  BY <1>7 DEF Failed, At, Go, Socket, History, Locals, LocalsOK, PCs
<1>8. CASE Delete
  BY <1>8 DEF Delete, At, Go, Socket, History, Locals, LocalsOK, PCs
<1>9. CASE StreamDisconnect
  BY <1>9, SetLocals DEF StreamDisconnect, At, Begin, Socket, LocalsOK, PCs
<1>10. CASE PeerReads
  BY <1>10 DEF PeerReads, History, LocalsOK, PCs
<1>11. CASE Breaks
  BY <1>11 DEF Breaks, History, LocalsOK, PCs
<1>12. CASE DeadlinePasses
  BY <1>12 DEF DeadlinePasses, Socket, LocalsOK, PCs
<1>13. ASSUME NEW t \in Threads, Send(t) PROVE LocalsOK'
  <2> DEFINE pc == IF disc THEN "return" ELSE Bound(Append(queue, sent + 1), FALSE)
             b == ~disc /\ Wakes(queue)
  <2>1. pc \in PCs
    BY DEF Bound, PCs
  <2>2. b \in BOOLEAN
    OBVIOUS
  <2>3. th' = [th EXCEPT ![t].pc = pc, ![t].call = "bound", ![t].ok = TRUE, ![t].wake = b]
    BY <1>13 DEF Send
  <2> HIDE DEF pc, b
  <2> QED
    BY <2>1, <2>2, <2>3, SetLocals DEF LocalsOK
<1>14. ASSUME NEW t \in Threads, SessionDisconnect(t) PROVE LocalsOK'
  BY <1>14, SetLocals DEF SessionDisconnect, At, Begin, Socket, LocalsOK, PCs
<1>15. ASSUME NEW t \in Threads, Woken(t) PROVE LocalsOK'
  BY <1>15 DEF Woken, At, Go, Socket, History, Bound, QueueBytes, Locals, LocalsOK, PCs
<1>16. ASSUME NEW t \in Threads, BoundCheck(t) PROVE LocalsOK'
  BY <1>16, SetLocals DEF BoundCheck, At, Go, Socket, History, QueueBytes, LocalsOK, PCs
<1>17. ASSUME NEW t \in Threads, Release(t) PROVE LocalsOK'
  BY <1>17 DEF Release, At, GoNotifying, Socket, History, QueueBytes, Locals, LocalsOK, PCs
<1>18. ASSUME NEW t \in Threads, Wake(t) PROVE LocalsOK'
  BY <1>18 DEF Wake, At, Go, Socket, History, Locals, LocalsOK, PCs
<1>19. ASSUME NEW t \in Threads, Return(t) PROVE LocalsOK'
  BY <1>19 DEF Return, At, Unlock, Socket, History, Fresh, Locals, LocalsOK, PCs
<1>20. ASSUME NEW t \in Threads, Front(t) PROVE LocalsOK'
  BY <1>20 DEF Front, At, Socket, History, WriteReturns, After, Locals, LocalsOK, PCs
<1>21. ASSUME NEW t \in Threads, WriteSome(t) PROVE LocalsOK'
  BY <1>21, SetLocals DEF WriteSome, At, History, Room, LocalsOK, PCs
<1>22. ASSUME NEW t \in Threads, WriteFails(t) PROVE LocalsOK'
  BY <1>22, WriteReturnsLocals DEF WriteFails
<1>23. ASSUME NEW t \in Threads, WriteBlocks(t) PROVE LocalsOK'
  <2>1. th[t].progress \in BOOLEAN
    BY DEF LocalsOK, Locals
  <2>2. WriteReturns(t, TRUE, th[t].progress) \/ WriteReturns(t, FALSE, FALSE)
    BY <1>23 DEF WriteBlocks
  <2> QED
    BY <2>1, <2>2, WriteReturnsLocals
<1>24. ASSUME NEW t \in Threads, Pop(t) PROVE LocalsOK'
  BY SMTT(60), <1>24 DEF Pop, At, GoNotifying, Socket, History, After, Locals, LocalsOK, PCs
<1>25. ASSUME NEW t \in Threads, Disconnect(t) PROVE LocalsOK'
  BY <1>25, SetLocals DEF Disconnect, At, Socket, History, LocalsOK, PCs
<1>26. ASSUME NEW t \in Threads, Flush(t) PROVE LocalsOK'
  <2>1. Go(t, "shut") \/ Go(t, "front")
    BY <1>26 DEF Flush
  <2> QED
    BY <2>1, GoLocals DEF PCs
<1>27. ASSUME NEW t \in Threads, Shut(t) PROVE LocalsOK'
  BY <1>27 DEF Shut, At, GoNotifying, Socket, History, Locals, LocalsOK, PCs
<1>28. ASSUME NEW t \in Threads, Shutdown(t) PROVE LocalsOK'
  BY <1>28 DEF Shutdown, At, Go, History, Locals, LocalsOK, PCs
<1>29. CASE UNCHANGED vars
  BY <1>29 DEF vars, LocalsOK, PCs, At, QueueBytes
<1> QED
  BY <1>1, <1>2, <1>3, <1>4, <1>5, <1>6, <1>7, <1>8, <1>9, <1>10, <1>11, <1>12, <1>13, <1>14,
     <1>15, <1>16, <1>17, <1>18, <1>19, <1>20, <1>21, <1>22, <1>23, <1>24, <1>25, <1>26, <1>27,
     <1>28, <1>29 DEF Next, NetGoesOn, Starts, GoesOn

\* Every step keeps the application's threads apart.
LEMMA AppsStep ==
  ASSUME LocalsOK, AppsOK, [Next]_vars
  PROVE  AppsOK'
<1> USE NetApart
<1>1. CASE Prepare
  BY <1>1 DEF Prepare, At, Socket, History, LocalsOK, AppsOK, Locals, NetPCs
<1>2. CASE Poll
  BY <1>2 DEF Poll, At, Go, Socket, History, LocalsOK, AppsOK, Locals, NetPCs
<1>3. CASE TakeRole
  BY <1>3 DEF TakeRole, At, Go, Socket, History, LocalsOK, AppsOK, Locals, NetPCs
<1>4. CASE More
  BY <1>4 DEF More, At, Go, Socket, History, LocalsOK, AppsOK, Locals, NetPCs
<1>5. CASE GiveUp
  BY <1>5 DEF GiveUp, At, GoNotifying, Socket, History, LocalsOK, AppsOK, Locals, NetPCs
<1>6. CASE Quiet
  BY <1>6 DEF Quiet, At, Socket, History, Fresh, LocalsOK, AppsOK, Locals, NetPCs
<1>7. CASE Failed
  BY <1>7 DEF Failed, At, Go, Socket, History, LocalsOK, AppsOK, Locals, NetPCs
<1>8. CASE Delete
  BY <1>8 DEF Delete, At, Go, Socket, History, LocalsOK, AppsOK, Locals, NetPCs
<1>9. CASE StreamDisconnect
  BY <1>9 DEF StreamDisconnect, At, Begin, Socket, LocalsOK, AppsOK, Locals, NetPCs
<1>10. CASE PeerReads
  BY <1>10 DEF PeerReads, History, LocalsOK, AppsOK, Locals, NetPCs
<1>11. CASE Breaks
  BY <1>11 DEF Breaks, History, LocalsOK, AppsOK, Locals, NetPCs
<1>12. CASE DeadlinePasses
  BY <1>12 DEF DeadlinePasses, Socket, LocalsOK, AppsOK, Locals, NetPCs
<1>13. ASSUME NEW t \in Threads, Send(t) PROVE AppsOK'
  BY <1>13 DEF Send, At, Socket, Bound, Wakes, LocalsOK, AppsOK, Locals, NetPCs
<1>14. ASSUME NEW t \in Threads, SessionDisconnect(t) PROVE AppsOK'
  BY <1>14 DEF SessionDisconnect, At, Begin, Socket, LocalsOK, AppsOK, Locals, NetPCs
<1>15. ASSUME NEW t \in Threads, Woken(t) PROVE AppsOK'
  BY SMTT(60), <1>15 DEF Woken, At, Go, Socket, History, Bound, QueueBytes, LocalsOK, AppsOK, Locals,
     NetPCs
<1>16. ASSUME NEW t \in Threads, BoundCheck(t) PROVE AppsOK'
  BY <1>16 DEF BoundCheck, At, Go, Socket, History, QueueBytes, LocalsOK, AppsOK, Locals, NetPCs
<1>17. ASSUME NEW t \in Threads, Release(t) PROVE AppsOK'
  BY <1>17 DEF Release, At, GoNotifying, Socket, History, QueueBytes, LocalsOK, AppsOK, Locals,
     NetPCs
<1>18. ASSUME NEW t \in Threads, Wake(t) PROVE AppsOK'
  BY <1>18 DEF Wake, At, Go, Socket, History, LocalsOK, AppsOK, Locals, NetPCs
<1>19. ASSUME NEW t \in Threads, Return(t) PROVE AppsOK'
  BY <1>19 DEF Return, At, Unlock, Socket, History, Fresh, LocalsOK, AppsOK, Locals, NetPCs
<1>20. ASSUME NEW t \in Threads, Front(t) PROVE AppsOK'
  BY SMTT(60), <1>20 DEF Front, At, Socket, History, WriteReturns, After, LocalsOK, AppsOK, Locals, NetPCs
<1>21. ASSUME NEW t \in Threads, WriteSome(t) PROVE AppsOK'
  BY <1>21 DEF WriteSome, At, History, Room, LocalsOK, AppsOK, Locals, NetPCs
<1>22. ASSUME NEW t \in Threads, WriteFails(t) PROVE AppsOK'
  BY <1>22 DEF WriteFails, At, Socket, History, WriteReturns, After, LocalsOK, AppsOK, Locals,
     NetPCs
<1>23. ASSUME NEW t \in Threads, WriteBlocks(t) PROVE AppsOK'
  BY <1>23 DEF WriteBlocks, At, Socket, History, WriteReturns, Room, After, LocalsOK, AppsOK,
     Locals, NetPCs
<1>24. ASSUME NEW t \in Threads, Pop(t) PROVE AppsOK'
  BY <1>24 DEF Pop, At, GoNotifying, Socket, History, After, LocalsOK, AppsOK, Locals, NetPCs
<1>25. ASSUME NEW t \in Threads, Disconnect(t) PROVE AppsOK'
  BY <1>25 DEF Disconnect, At, Socket, History, LocalsOK, AppsOK, Locals, NetPCs
<1>26. ASSUME NEW t \in Threads, Flush(t) PROVE AppsOK'
  <2>1. Go(t, "shut") \/ Go(t, "front")
    BY <1>26 DEF Flush
  <2> QED
    BY <2>1 DEF Go, LocalsOK, AppsOK, Locals, NetPCs
<1>27. ASSUME NEW t \in Threads, Shut(t) PROVE AppsOK'
  BY <1>27 DEF Shut, At, GoNotifying, Socket, History, LocalsOK, AppsOK, Locals, NetPCs
<1>28. ASSUME NEW t \in Threads, Shutdown(t) PROVE AppsOK'
  BY <1>28 DEF Shutdown, At, Go, History, LocalsOK, AppsOK, Locals, NetPCs
<1>29. CASE UNCHANGED vars
  BY <1>29 DEF vars, LocalsOK, AppsOK, Locals, NetPCs, At, QueueBytes
<1> QED
  BY <1>1, <1>2, <1>3, <1>4, <1>5, <1>6, <1>7, <1>8, <1>9, <1>10, <1>11, <1>12, <1>13, <1>14,
     <1>15, <1>16, <1>17, <1>18, <1>19, <1>20, <1>21, <1>22, <1>23, <1>24, <1>25, <1>26, <1>27,
     <1>28, <1>29 DEF Next, NetGoesOn, Starts, GoesOn

\* Every step keeps the caller of writeFront().
LEMMA CallsStep ==
  ASSUME LocalsOK, CallsOK, [Next]_vars
  PROVE  CallsOK'
<1> USE NetApart
<1>1. CASE Prepare
  BY <1>1 DEF Prepare, At, Socket, History, LocalsOK, CallsOK, Locals
<1>2. CASE Poll
  BY <1>2 DEF Poll, At, Go, Socket, History, LocalsOK, CallsOK, Locals
<1>3. CASE TakeRole
  BY <1>3 DEF TakeRole, At, Go, Socket, History, LocalsOK, CallsOK, Locals
<1>4. CASE More
  BY <1>4 DEF More, At, Go, Socket, History, LocalsOK, CallsOK, Locals
<1>5. CASE GiveUp
  BY <1>5 DEF GiveUp, At, GoNotifying, Socket, History, LocalsOK, CallsOK, Locals
<1>6. CASE Quiet
  BY <1>6 DEF Quiet, At, Socket, History, Fresh, LocalsOK, CallsOK, Locals
<1>7. CASE Failed
  BY <1>7 DEF Failed, At, Go, Socket, History, LocalsOK, CallsOK, Locals
<1>8. CASE Delete
  BY <1>8 DEF Delete, At, Go, Socket, History, LocalsOK, CallsOK, Locals
<1>9. CASE StreamDisconnect
  BY <1>9 DEF StreamDisconnect, At, Begin, Socket, LocalsOK, CallsOK, Locals
<1>10. CASE PeerReads
  BY <1>10 DEF PeerReads, History, LocalsOK, CallsOK, Locals
<1>11. CASE Breaks
  BY <1>11 DEF Breaks, History, LocalsOK, CallsOK, Locals
<1>12. CASE DeadlinePasses
  BY <1>12 DEF DeadlinePasses, Socket, LocalsOK, CallsOK, Locals
<1>13. ASSUME NEW t \in Threads, Send(t) PROVE CallsOK'
  BY <1>13 DEF Send, At, Socket, Bound, Wakes, LocalsOK, CallsOK, Locals
<1>14. ASSUME NEW t \in Threads, SessionDisconnect(t) PROVE CallsOK'
  BY <1>14 DEF SessionDisconnect, At, Begin, Socket, LocalsOK, CallsOK, Locals
<1>15. ASSUME NEW t \in Threads, Woken(t) PROVE CallsOK'
  BY <1>15 DEF Woken, At, Go, Socket, History, Bound, QueueBytes, LocalsOK, CallsOK, Locals
<1>16. ASSUME NEW t \in Threads, BoundCheck(t) PROVE CallsOK'
  BY <1>16 DEF BoundCheck, At, Go, Socket, History, QueueBytes, LocalsOK, CallsOK, Locals
<1>17. ASSUME NEW t \in Threads, Release(t) PROVE CallsOK'
  BY <1>17 DEF Release, At, GoNotifying, Socket, History, QueueBytes, LocalsOK, CallsOK, Locals
<1>18. ASSUME NEW t \in Threads, Wake(t) PROVE CallsOK'
  BY <1>18 DEF Wake, At, Go, Socket, History, LocalsOK, CallsOK, Locals
<1>19. ASSUME NEW t \in Threads, Return(t) PROVE CallsOK'
  BY <1>19 DEF Return, At, Unlock, Socket, History, Fresh, LocalsOK, CallsOK, Locals
<1>20. ASSUME NEW t \in Threads, Front(t) PROVE CallsOK'
  BY <1>20, WriterReturns DEF Begun, Came, Alone, CallsOK
<1>21. ASSUME NEW t \in Threads, WriteSome(t) PROVE CallsOK'
  BY <1>21 DEF WriteSome, At, History, Room, LocalsOK, CallsOK, Locals
<1>22. ASSUME NEW t \in Threads, WriteFails(t) PROVE CallsOK'
  BY <1>22, WriterReturns DEF Begun, Came, Alone, CallsOK
<1>23. ASSUME NEW t \in Threads, WriteBlocks(t) PROVE CallsOK'
  BY <1>23, WriterReturns DEF Begun, Came, Alone, CallsOK
<1>24. ASSUME NEW t \in Threads, Pop(t) PROVE CallsOK'
  BY <1>24 DEF Pop, At, GoNotifying, Socket, History, After, LocalsOK, CallsOK, Locals
<1>25. ASSUME NEW t \in Threads, Disconnect(t) PROVE CallsOK'
  BY <1>25 DEF Disconnect, At, Socket, History, LocalsOK, CallsOK, Locals
<1>26. ASSUME NEW t \in Threads, Flush(t) PROVE CallsOK'
  BY <1>26 DEF Flush, At, Go, Socket, History, LocalsOK, CallsOK, Locals
<1>27. ASSUME NEW t \in Threads, Shut(t) PROVE CallsOK'
  BY <1>27 DEF Shut, At, GoNotifying, Socket, History, LocalsOK, CallsOK, Locals
<1>28. ASSUME NEW t \in Threads, Shutdown(t) PROVE CallsOK'
  BY <1>28 DEF Shutdown, At, Go, History, LocalsOK, CallsOK, Locals
<1>29. CASE UNCHANGED vars
  BY <1>29 DEF vars, LocalsOK, CallsOK, Locals, At, QueueBytes
<1> QED
  BY <1>1, <1>2, <1>3, <1>4, <1>5, <1>6, <1>7, <1>8, <1>9, <1>10, <1>11, <1>12, <1>13, <1>14,
     <1>15, <1>16, <1>17, <1>18, <1>19, <1>20, <1>21, <1>22, <1>23, <1>24, <1>25, <1>26, <1>27,
     <1>28, <1>29 DEF Next, NetGoesOn, Starts, GoesOn

\* Every step keeps the types of the shared variables.
LEMMA SharedStep ==
  ASSUME TypeOK, Stream, [Next]_vars
  PROVE  SharedOK'
<1> USE NetApart
<1>1. CASE Prepare
  BY <1>1 DEF Prepare, At, Socket, History, TypeOK, SharedOK, LocalsOK, Locals
<1>2. CASE Poll
  BY <1>2 DEF Poll, At, Go, Socket, History, TypeOK, SharedOK, LocalsOK, Locals
<1>3. CASE TakeRole
  BY <1>3 DEF TakeRole, At, Go, Socket, History, TypeOK, SharedOK, LocalsOK, Locals
<1>4. CASE More
  BY <1>4 DEF More, At, Go, Socket, History, TypeOK, SharedOK, LocalsOK, Locals
<1>5. CASE GiveUp
  BY <1>5 DEF GiveUp, At, GoNotifying, Socket, History, TypeOK, SharedOK, LocalsOK, Locals
<1>6. CASE Quiet
  BY <1>6 DEF Quiet, At, Socket, History, Fresh, TypeOK, SharedOK, LocalsOK, Locals
<1>7. CASE Failed
  BY <1>7 DEF Failed, At, Go, Socket, History, TypeOK, SharedOK, LocalsOK, Locals
<1>8. CASE Delete
  BY <1>8 DEF Delete, At, Go, Socket, History, TypeOK, SharedOK, LocalsOK, Locals
<1>9. CASE StreamDisconnect
  BY <1>9 DEF StreamDisconnect, At, Begin, Socket, TypeOK, SharedOK, LocalsOK, Locals
<1>10. CASE PeerReads
  BY <1>10 DEF PeerReads, History, TypeOK, SharedOK, LocalsOK, Locals
<1>11. CASE Breaks
  BY <1>11 DEF Breaks, History, TypeOK, SharedOK, LocalsOK, Locals
<1>12. CASE DeadlinePasses
  BY <1>12 DEF DeadlinePasses, Socket, TypeOK, SharedOK, LocalsOK, Locals
<1>13. ASSUME NEW t \in Threads, Send(t) PROVE SharedOK'
  BY <1>13 DEF Send, At, Socket, Bound, Wakes, TypeOK, SharedOK, LocalsOK, Locals
<1>14. ASSUME NEW t \in Threads, SessionDisconnect(t) PROVE SharedOK'
  BY <1>14 DEF SessionDisconnect, At, Begin, Socket, TypeOK, SharedOK, LocalsOK, Locals
<1>15. ASSUME NEW t \in Threads, Woken(t) PROVE SharedOK'
  BY <1>15 DEF Woken, At, Go, Socket, History, Bound, QueueBytes, TypeOK, SharedOK, LocalsOK,
     Locals
<1>16. ASSUME NEW t \in Threads, BoundCheck(t) PROVE SharedOK'
  BY <1>16 DEF BoundCheck, At, Go, Socket, History, QueueBytes, TypeOK, SharedOK, LocalsOK,
     Locals
<1>17. ASSUME NEW t \in Threads, Release(t) PROVE SharedOK'
  BY <1>17 DEF Release, At, GoNotifying, Socket, History, QueueBytes, TypeOK, SharedOK,
     LocalsOK, Locals
<1>18. ASSUME NEW t \in Threads, Wake(t) PROVE SharedOK'
  BY <1>18 DEF Wake, At, Go, Socket, History, TypeOK, SharedOK, LocalsOK, Locals
<1>19. ASSUME NEW t \in Threads, Return(t) PROVE SharedOK'
  BY <1>19 DEF Return, At, Unlock, Socket, History, Fresh, TypeOK, SharedOK, LocalsOK, Locals
<1>20. ASSUME NEW t \in Threads, Front(t) PROVE SharedOK'
  BY <1>20 DEF Front, At, Socket, History, WriteReturns, After, TypeOK, SharedOK, LocalsOK,
     Locals
<1>21. ASSUME NEW t \in Threads, WriteSome(t) PROVE SharedOK'
  <2>1. PICK k \in 1..Size : k <= Size - offset /\ offset' = offset + k
    BY <1>21 DEF WriteSome
  <2>2. offset' \in 0..Size
    BY <2>1, SizesAssumption DEF TypeOK, SharedOK
  <2> QED
    BY <1>21, <2>2 DEF WriteSome, History, TypeOK, SharedOK
<1>22. ASSUME NEW t \in Threads, WriteFails(t) PROVE SharedOK'
  BY <1>22 DEF WriteFails, At, Socket, History, WriteReturns, After, TypeOK, SharedOK, LocalsOK,
     Locals
<1>23. ASSUME NEW t \in Threads, WriteBlocks(t) PROVE SharedOK'
  BY <1>23 DEF WriteBlocks, At, Socket, History, WriteReturns, Room, After, TypeOK, SharedOK,
     LocalsOK, Locals
<1>24. ASSUME NEW t \in Threads, Pop(t) PROVE SharedOK'
  BY <1>24, SizesAssumption DEF Pop, At, GoNotifying, Socket, History, After, Stream, TypeOK,
     SharedOK, LocalsOK, Locals
<1>25. ASSUME NEW t \in Threads, Disconnect(t) PROVE SharedOK'
  BY <1>25 DEF Disconnect, At, Socket, History, TypeOK, SharedOK, LocalsOK, Locals
<1>26. ASSUME NEW t \in Threads, Flush(t) PROVE SharedOK'
  BY <1>26 DEF Flush, At, Go, Socket, History, TypeOK, SharedOK, LocalsOK, Locals
<1>27. ASSUME NEW t \in Threads, Shut(t) PROVE SharedOK'
  BY <1>27 DEF Shut, At, GoNotifying, Socket, History, TypeOK, SharedOK, LocalsOK, Locals
<1>28. ASSUME NEW t \in Threads, Shutdown(t) PROVE SharedOK'
  BY <1>28 DEF Shutdown, At, Go, History, TypeOK, SharedOK, LocalsOK, Locals
<1>29. CASE UNCHANGED vars
  BY <1>29 DEF vars, TypeOK, SharedOK, LocalsOK, Locals, At, QueueBytes
<1> QED
  BY <1>1, <1>2, <1>3, <1>4, <1>5, <1>6, <1>7, <1>8, <1>9, <1>10, <1>11, <1>12, <1>13, <1>14,
     <1>15, <1>16, <1>17, <1>18, <1>19, <1>20, <1>21, <1>22, <1>23, <1>24, <1>25, <1>26, <1>27,
     <1>28, <1>29 DEF Next, NetGoesOn, Starts, GoesOn

\* The bytes queued change with the queue only.
LEMMA BytesKept == queue' = queue => QueueBytes' = QueueBytes
BY DEF QueueBytes

\* What is owed is written when the queue is empty, and stays so.
LEMMA PaidKept == wire' = wire /\ owed' = owed => Paid' = Paid
BY DEF Paid
\* Over an empty queue a debt is paid: there is nothing left to write.
LEMMA PaidEmpty == TypeOK /\ Stream /\ Owing /\ owed # None /\ queue = <<>> => Paid
<1> SUFFICES ASSUME TypeOK, Stream, Owing, owed # None, queue = <<>>
             PROVE  Paid
  OBVIOUS
<1>1. Len(queue) = 0 /\ owed \in Nat /\ owed <= sent /\ sent \in Nat
  BY DEF TypeOK, SharedOK, Owing
<1>2. Len(wire) = Size * sent + offset /\ offset \in Nat
  BY <1>1, SizesAssumption DEF Stream, TypeOK, SharedOK
<1>3. Size * owed <= Size * sent
  BY <1>1, SizesAssumption
<1> QED
  BY <1>1, <1>2, <1>3, SizesAssumption DEF Paid

\* pollQueued() looks at the queue before it waits, so it knows of all that was queued.
LEMMA PrepareKeeps ==
  ASSUME IInv, TypeOK', Prepare
  PROVE  IInv'
<1> USE DEF IInv
<1>1. /\ UNCHANGED Others /\ Alone(Net) /\ th[Net].pc = "idle" /\ th'[Net].pc = "poll"
      /\ th'[Net].call = th[Net].call /\ th'[Net].ok = th[Net].ok /\ th'[Net].wake = th[Net].wake
      /\ th'[Net].flush = th[Net].flush /\ th'[Net].queued = (queue # <<>>)
  <2> DEFINE q == (queue # <<>>)
  <2>1. th' = [th EXCEPT ![Net].pc = "poll", ![Net].queued = q] /\ q \in BOOLEAN
    BY DEF Prepare
  <2>2. UNCHANGED Others /\ th[Net].pc = "idle"
    BY DEF Prepare, Others, At
  <2> HIDE DEF q
  <2>3. /\ Alone(Net) /\ th'[Net].pc = "poll" /\ th'[Net].call = th[Net].call
        /\ th'[Net].ok = th[Net].ok /\ th'[Net].wake = th[Net].wake
        /\ th'[Net].flush = th[Net].flush /\ th'[Net].queued = q
    BY <2>1, NetApart DEF TypeOK, LocalsOK, Locals, Alone
  <2> QED
    BY <2>2, <2>3 DEF q
<1>2. OneWriter'
  BY <1>1, NetApart DEF Alone, Others, Socket, History, TypeOK, SharedOK, OneWriter, Writer
<1>3. Locked'
  BY <1>1, NetApart, ThreadsAssumption DEF Alone, Others, Socket, History, TypeOK, AppsOK,
     CallsOK, SharedOK, Locked, NetPCs, At
<1>4. Stream'
  BY <1>1, NetApart, SizesAssumption DEF Alone, Others, Socket, History, TypeOK, SharedOK,
     Stream, WireInOrder
<1>5. Failing'
  BY <1>1, NetApart DEF Alone, Others, Socket, History, TypeOK, CallsOK, SharedOK, Failing,
     InBound
<1>6. (Past /\ Bounded)'
  BY <1>1, NetApart, BytesKept, ThreadsAssumption DEF Alone, Others, Socket, History, TypeOK,
     CallsOK, SharedOK, Past, Bounded, InBound, Failing, Locked
<1>7. WakeNotLost'
  BY <1>1, NetApart DEF Alone, Others, Socket, History, TypeOK, CallsOK, SharedOK, Locked,
     AppsOK, Failing, InBound, WakeNotLost, At, Wakes
<1>8. Owing'
  BY <1>1, NetApart, PaidKept, PaidEmpty DEF Alone, Others, Socket, History, TypeOK, CallsOK,
     SharedOK, Owing, InDisconnect
<1> QED
  BY <1>2, <1>3, <1>4, <1>5, <1>6, <1>7, <1>8

\* poll() returns, and the wake-up is used up.
LEMMA PollKeeps ==
  ASSUME IInv, TypeOK', Poll
  PROVE  IInv'
<1> USE DEF IInv
<1>1. /\ UNCHANGED <<queue, offset, writing, disc, Socket, lock, responder, History>> /\ ~wakeup'
      /\ th[Net].pc = "poll" /\ (Moved(Net, "role") \/ Moved(Net, "failed"))
  BY NetApart, Goes DEF Poll, At, TypeOK
<1>2. OneWriter'
  BY <1>1, NetApart DEF Moved, Socket, History, Alone, KeepsLocals, TypeOK, SharedOK, OneWriter,
     Writer
<1>3. Locked'
  BY <1>1, NetApart, ThreadsAssumption DEF Moved, Socket, History, Alone, KeepsLocals, TypeOK,
     AppsOK, CallsOK, SharedOK, Locked, NetPCs, At
<1>4. Stream'
  BY <1>1, NetApart, SizesAssumption DEF Moved, Socket, History, Alone, KeepsLocals, TypeOK,
     SharedOK, Stream, WireInOrder
<1>5. Failing'
  BY <1>1, NetApart DEF Moved, Socket, History, Alone, KeepsLocals, TypeOK, CallsOK, SharedOK,
     Failing, InBound
<1>6. (Past /\ Bounded)'
  BY <1>1, NetApart, BytesKept, ThreadsAssumption DEF Moved, Socket, History, Alone,
     KeepsLocals, TypeOK, CallsOK, SharedOK, Past, Bounded, InBound, Failing, Locked
<1>7. WakeNotLost'
  BY <1>1, NetApart DEF Moved, Socket, History, Alone, KeepsLocals, TypeOK, CallsOK, SharedOK,
     Locked, AppsOK, Failing, InBound, WakeNotLost, At, Wakes
<1>8. Owing'
  BY <1>1, NetApart, PaidKept, PaidEmpty DEF Moved, Socket, History, Alone, KeepsLocals, TypeOK,
     CallsOK, SharedOK, Owing, InDisconnect
<1> QED
  BY <1>2, <1>3, <1>4, <1>5, <1>6, <1>7, <1>8

\* writeQueued() takes the role if nobody has it.
LEMMA TakeRoleKeeps ==
  ASSUME IInv, TypeOK', TakeRole
  PROVE  IInv'
<1> USE DEF IInv
<1>1. /\ UNCHANGED <<queue, offset, disc, wakeup, Socket, lock, responder, History>>
      /\ th[Net].pc = "role" /\ Alone(Net)
      /\ \/ th'[Net].pc = "timer" /\ KeepsLocals(Net) /\ writing /\ writing'
         \/ /\ th'[Net].pc = "more" /\ th'[Net].call = "queue" /\ th'[Net].flush = th[Net].flush
            /\ ~writing /\ writing'
  <2>1. /\ UNCHANGED <<queue, offset, disc, wakeup, Socket, lock, responder, History>>
        /\ th[Net].pc = "role"
    BY DEF TakeRole, At
  <2>2. CASE writing
    BY <2>1, <2>2, NetApart, Goes DEF TakeRole, Moved, TypeOK
  <2>3. CASE ~writing
    <3>1. /\ th' = [th EXCEPT ![Net].pc = "more", ![Net].call = "queue", ![Net].ok = TRUE]
          /\ writing'
      BY <2>3 DEF TakeRole
    <3>2. /\ Alone(Net) /\ th'[Net].pc = "more" /\ th'[Net].call = "queue"
          /\ th'[Net].flush = th[Net].flush
      BY <3>1, NetApart DEF TypeOK, LocalsOK, Locals, Alone
    <3> QED
      BY <2>1, <2>3, <3>1, <3>2
  <2> QED
    BY <2>2, <2>3
<1>2. OneWriter'
  BY <1>1, NetApart DEF Alone, KeepsLocals, Socket, History, TypeOK, SharedOK, OneWriter, Writer
<1>3. Locked'
  BY <1>1, NetApart, ThreadsAssumption DEF Alone, KeepsLocals, Socket, History, TypeOK, AppsOK,
     CallsOK, SharedOK, Locked, NetPCs, At
<1>4. Stream'
  BY <1>1, NetApart, SizesAssumption DEF Alone, KeepsLocals, Socket, History, TypeOK, SharedOK,
     Stream, WireInOrder
<1>5. Failing'
  BY <1>1, NetApart DEF Alone, KeepsLocals, Socket, History, TypeOK, CallsOK, SharedOK, Failing,
     InBound
<1>6. (Past /\ Bounded)'
  BY <1>1, NetApart, BytesKept, ThreadsAssumption DEF Alone, KeepsLocals, Socket, History,
     TypeOK, CallsOK, SharedOK, Past, Bounded, InBound, Failing, Locked
<1>7. WakeNotLost'
  BY <1>1, NetApart DEF Alone, KeepsLocals, Socket, History, TypeOK, CallsOK, SharedOK, Locked,
     AppsOK, Failing, InBound, WakeNotLost, At, Wakes
<1>8. Owing'
  BY <1>1, NetApart, PaidKept, PaidEmpty DEF Alone, KeepsLocals, Socket, History, TypeOK,
     CallsOK, SharedOK, Owing, InDisconnect
<1> QED
  BY <1>2, <1>3, <1>4, <1>5, <1>6, <1>7, <1>8

\* writeQueued() between two messages.
LEMMA MoreKeeps ==
  ASSUME IInv, TypeOK', More
  PROVE  IInv'
<1> USE DEF IInv
<1>1. /\ UNCHANGED Others /\ th[Net].pc = "more"
      /\ Moved(Net, "front") \/ Moved(Net, "giveUp")
  BY NetApart, Goes DEF More, Others, At, TypeOK
<1>2. OneWriter'
  BY <1>1, NetApart DEF Moved, Others, Alone, KeepsLocals, Socket, History, TypeOK, SharedOK,
     OneWriter, Writer
<1>3. Locked'
  BY <1>1, NetApart, ThreadsAssumption DEF Moved, Others, Alone, KeepsLocals, Socket, History,
     TypeOK, AppsOK, CallsOK, SharedOK, Locked, NetPCs, At
<1>4. Stream'
  BY <1>1, NetApart, SizesAssumption DEF Moved, Others, Alone, KeepsLocals, Socket, History,
     TypeOK, SharedOK, Stream, WireInOrder
<1>5. Failing'
  BY <1>1, NetApart DEF Moved, Others, Alone, KeepsLocals, Socket, History, TypeOK, CallsOK,
     SharedOK, Failing, InBound
<1>6. (Past /\ Bounded)'
  BY <1>1, NetApart, BytesKept, ThreadsAssumption DEF Moved, Others, Alone, KeepsLocals, Socket,
     History, TypeOK, CallsOK, SharedOK, Past, Bounded, InBound, Failing, Locked
<1>7. WakeNotLost'
  BY <1>1, NetApart DEF Moved, Others, Alone, KeepsLocals, Socket, History, TypeOK, CallsOK,
     SharedOK, Locked, AppsOK, Failing, InBound, WakeNotLost, At, Wakes
<1>8. Owing'
  BY <1>1, NetApart, PaidKept, PaidEmpty DEF Moved, Others, Alone, KeepsLocals, Socket, History,
     TypeOK, CallsOK, SharedOK, Owing, InDisconnect
<1> QED
  BY <1>2, <1>3, <1>4, <1>5, <1>6, <1>7, <1>8

\* writeQueued() gives the role back, failed or not.
LEMMA GiveUpKeeps ==
  ASSUME IInv, TypeOK', GiveUp
  PROVE  IInv'
<1> USE DEF IInv
<1>1. /\ UNCHANGED <<queue, offset, disc, wakeup, Socket, lock, responder, History>> /\ ~writing'
      /\ th[Net].pc = "giveUp" /\ Notified(Net) /\ KeepsLocals(Net)
      /\ th'[Net].pc \in {"timer", "failed"}
  BY NetApart, Notifies DEF GiveUp, At, TypeOK
<1>2. OneWriter'
  BY <1>1, NetApart DEF KeepsLocals, Notified, Socket, History, TypeOK, SharedOK, OneWriter,
     Writer
<1>3. Locked'
  BY <1>1, NetApart, ThreadsAssumption DEF KeepsLocals, Notified, Socket, History, TypeOK,
     AppsOK, CallsOK, SharedOK, Locked, NetPCs, At
<1>4. Stream'
  BY <1>1, NetApart, SizesAssumption DEF KeepsLocals, Notified, Socket, History, TypeOK,
     SharedOK, Stream, WireInOrder
<1>5. Failing'
  BY <1>1, NetApart DEF KeepsLocals, Notified, Socket, History, TypeOK, CallsOK, SharedOK,
     Failing, InBound
<1>6. (Past /\ Bounded)'
  BY <1>1, NetApart, BytesKept, ThreadsAssumption DEF KeepsLocals, Notified, Socket, History,
     TypeOK, CallsOK, SharedOK, Past, Bounded, InBound, Failing, Locked
<1>7. WakeNotLost'
  BY <1>1, NetApart DEF KeepsLocals, Notified, Socket, History, TypeOK, CallsOK, SharedOK,
     Locked, AppsOK, Failing, InBound, WakeNotLost, At, Wakes
<1>8. Owing'
  BY <1>1, NetApart, PaidKept, PaidEmpty DEF KeepsLocals, Notified, Socket, History, TypeOK,
     CallsOK, SharedOK, Owing, InDisconnect
<1> QED
  BY <1>2, <1>3, <1>4, <1>5, <1>6, <1>7, <1>8

\* The timer has nothing to send.
LEMMA QuietKeeps ==
  ASSUME IInv, TypeOK', Quiet
  PROVE  IInv'
<1> USE DEF IInv
<1>1. /\ UNCHANGED Others /\ th[Net].pc = "timer" /\ Alone(Net)
      /\ th'[Net].pc = "idle" /\ ~th'[Net].wake /\ ~th'[Net].flush
  BY NetApart DEF Quiet, Others, At, Fresh, TypeOK, LocalsOK, Alone
<1>2. OneWriter'
  BY <1>1, NetApart DEF Alone, Others, Socket, History, TypeOK, SharedOK, OneWriter, Writer
<1>3. Locked'
  BY <1>1, NetApart, ThreadsAssumption DEF Alone, Others, Socket, History, TypeOK, AppsOK,
     CallsOK, SharedOK, Locked, NetPCs, At
<1>4. Stream'
  BY <1>1, NetApart, SizesAssumption DEF Alone, Others, Socket, History, TypeOK, SharedOK,
     Stream, WireInOrder
<1>5. Failing'
  BY <1>1, NetApart DEF Alone, Others, Socket, History, TypeOK, CallsOK, SharedOK, Failing,
     InBound
<1>6. (Past /\ Bounded)'
  BY <1>1, NetApart, BytesKept, ThreadsAssumption DEF Alone, Others, Socket, History, TypeOK,
     CallsOK, SharedOK, Past, Bounded, InBound, Failing, Locked
<1>7. WakeNotLost'
  BY <1>1, NetApart DEF Alone, Others, Socket, History, TypeOK, CallsOK, SharedOK, Locked,
     AppsOK, Failing, InBound, WakeNotLost, At, Wakes
<1>8. Owing'
  BY <1>1, NetApart, PaidKept, PaidEmpty DEF Alone, Others, Socket, History, TypeOK, CallsOK,
     SharedOK, Owing, InDisconnect
<1> QED
  BY <1>2, <1>3, <1>4, <1>5, <1>6, <1>7, <1>8

\* read() has failed on a connection that was disconnected.
LEMMA FailedKeeps ==
  ASSUME IInv, TypeOK', Failed
  PROVE  IInv'
<1> USE DEF IInv
<1>1. UNCHANGED Others /\ th[Net].pc = "failed" /\ Moved(Net, "end")
  BY NetApart, Goes DEF Failed, Others, At, TypeOK
<1>2. OneWriter'
  BY <1>1, NetApart DEF Moved, Others, Alone, KeepsLocals, Socket, History, TypeOK, SharedOK,
     OneWriter, Writer
<1>3. Locked'
  BY <1>1, NetApart, ThreadsAssumption DEF Moved, Others, Alone, KeepsLocals, Socket, History,
     TypeOK, AppsOK, CallsOK, SharedOK, Locked, NetPCs, At
<1>4. Stream'
  BY <1>1, NetApart, SizesAssumption DEF Moved, Others, Alone, KeepsLocals, Socket, History,
     TypeOK, SharedOK, Stream, WireInOrder
<1>5. Failing'
  BY <1>1, NetApart DEF Moved, Others, Alone, KeepsLocals, Socket, History, TypeOK, CallsOK,
     SharedOK, Failing, InBound
<1>6. (Past /\ Bounded)'
  BY <1>1, NetApart, BytesKept, ThreadsAssumption DEF Moved, Others, Alone, KeepsLocals, Socket,
     History, TypeOK, CallsOK, SharedOK, Past, Bounded, InBound, Failing, Locked
<1>7. WakeNotLost'
  BY <1>1, NetApart DEF Moved, Others, Alone, KeepsLocals, Socket, History, TypeOK, CallsOK,
     SharedOK, Locked, AppsOK, Failing, InBound, WakeNotLost, At, Wakes
<1>8. Owing'
  BY <1>1, NetApart, PaidKept, PaidEmpty DEF Moved, Others, Alone, KeepsLocals, Socket, History,
     TypeOK, CallsOK, SharedOK, Owing, InDisconnect
<1> QED
  BY <1>2, <1>3, <1>4, <1>5, <1>6, <1>7, <1>8

\* The destructor needs the lock, so no sender is in the connection.
LEMMA DeleteKeeps ==
  ASSUME IInv, TypeOK', Delete
  PROVE  IInv'
<1> USE DEF IInv
<1>1. /\ UNCHANGED <<queue, offset, writing, disc, wakeup, Socket, lock, History>>
      /\ th[Net].pc = "end" /\ lock = None /\ ~responder' /\ Moved(Net, "gone")
  BY NetApart, Goes DEF Delete, At, TypeOK
<1>2. OneWriter'
  BY <1>1, NetApart DEF Moved, Socket, History, Alone, KeepsLocals, TypeOK, SharedOK, OneWriter,
     Writer
<1>3. Locked'
  BY <1>1, NetApart, ThreadsAssumption DEF Moved, Socket, History, Alone, KeepsLocals, TypeOK,
     AppsOK, CallsOK, SharedOK, Locked, NetPCs, At
<1>4. Stream'
  BY <1>1, NetApart, SizesAssumption DEF Moved, Socket, History, Alone, KeepsLocals, TypeOK,
     SharedOK, Stream, WireInOrder
<1>5. Failing'
  BY <1>1, NetApart DEF Moved, Socket, History, Alone, KeepsLocals, TypeOK, CallsOK, SharedOK,
     Failing, InBound
<1>6. (Past /\ Bounded)'
  BY <1>1, NetApart, BytesKept, ThreadsAssumption DEF Moved, Socket, History, Alone,
     KeepsLocals, TypeOK, CallsOK, SharedOK, Past, Bounded, InBound, Failing, Locked
<1>7. WakeNotLost'
  BY <1>1, NetApart DEF Moved, Socket, History, Alone, KeepsLocals, TypeOK, CallsOK, SharedOK,
     Locked, AppsOK, Failing, InBound, WakeNotLost, At, Wakes
<1>8. Owing'
  BY <1>1, NetApart, PaidKept, PaidEmpty DEF Moved, Socket, History, Alone, KeepsLocals, TypeOK,
     CallsOK, SharedOK, Owing, InDisconnect
<1> QED
  BY <1>2, <1>3, <1>4, <1>5, <1>6, <1>7, <1>8

\* A disconnect() without the lock of the session.
LEMMA StreamDisconnectKeeps ==
  ASSUME IInv, TypeOK', StreamDisconnect
  PROVE  IInv'
<1> USE DEF IInv
<1>1. /\ UNCHANGED <<queue, offset, writing, disc, wakeup, Socket, responder, sent, late>>
      /\ Alone(Net) /\ th'[Net].pc = "disconnect" /\ ~th'[Net].flush /\ th'[Net].wake = th[Net].wake
      /\ th'[Net].call = th[Net].call /\ th'[Net].ok = th[Net].ok /\ th'[Net].queued = th[Net].queued
      /\ owed' = IF owed = None THEN sent ELSE owed
      /\ th[Net].pc = "timer" /\ lock' = lock
  BY NetApart, BeginDoes DEF StreamDisconnect, At, TypeOK
<1>2. OneWriter'
  BY <1>1, NetApart DEF Alone, Socket, TypeOK, SharedOK, OneWriter, Writer
<1>3. Locked'
  BY <1>1, NetApart, ThreadsAssumption DEF Alone, Socket, TypeOK, AppsOK, CallsOK, SharedOK,
     Locked, NetPCs, At
<1>4. Stream'
  BY <1>1, NetApart, SizesAssumption DEF Alone, Socket, TypeOK, SharedOK, Stream, WireInOrder
<1>5. Failing'
  BY <1>1, NetApart DEF Alone, Socket, TypeOK, CallsOK, SharedOK, Failing, InBound
<1>6. (Past /\ Bounded)'
  BY <1>1, NetApart, BytesKept, ThreadsAssumption DEF Alone, Socket, TypeOK, CallsOK, SharedOK,
     Past, Bounded, InBound, Failing, Locked
<1>7. WakeNotLost'
  BY <1>1, NetApart DEF Alone, Socket, TypeOK, CallsOK, SharedOK, Locked, AppsOK, Failing,
     InBound, WakeNotLost, At, Wakes
<1>8. Owing'
  <2>1. (owed # None => owed' = owed) /\ (owed = None => owed' = sent) /\ owed' # None
    BY <1>1, ThreadsAssumption DEF TypeOK, SharedOK
  <2>2. sent \in Nat /\ (owed' <= sent)
    BY <2>1 DEF TypeOK, SharedOK, Owing
  <2>3. owed # None => Paid' = Paid
    BY <1>1, <2>1, PaidKept DEF Socket
  <2> QED
    BY <1>1, <2>1, <2>2, <2>3, NetApart DEF Owing, InDisconnect, Alone, Socket
<1> QED
  BY <1>2, <1>3, <1>4, <1>5, <1>6, <1>7, <1>8

\* The peer reads.
LEMMA PeerReadsKeeps ==
  ASSUME IInv, TypeOK', PeerReads
  PROVE  IInv'
<1> USE DEF IInv
<1>2. OneWriter'
  BY DEF PeerReads, Socket, History, TypeOK, SharedOK, OneWriter, Writer
<1>3. Locked'
  BY NetApart, ThreadsAssumption DEF PeerReads, Socket, History, TypeOK, AppsOK, CallsOK,
     SharedOK, Locked, NetPCs, At
<1>4. Stream'
  BY SizesAssumption DEF PeerReads, Socket, History, TypeOK, SharedOK, Stream, WireInOrder
<1>5. Failing'
  BY DEF PeerReads, Socket, History, TypeOK, CallsOK, SharedOK, Failing, InBound
<1>6. (Past /\ Bounded)'
  BY BytesKept, ThreadsAssumption DEF PeerReads, Socket, History, TypeOK, CallsOK, SharedOK,
     Past, Bounded, InBound, Failing, Locked
<1>7. WakeNotLost'
  BY NetApart DEF PeerReads, Socket, History, TypeOK, CallsOK, SharedOK, Locked, AppsOK,
     Failing, InBound, WakeNotLost, At, Wakes
<1>8. Owing'
  BY PaidKept, PaidEmpty DEF PeerReads, Socket, History, TypeOK, CallsOK, SharedOK, Owing,
     InDisconnect
<1> QED
  BY <1>2, <1>3, <1>4, <1>5, <1>6, <1>7, <1>8

\* The socket fails.
LEMMA BreaksKeeps ==
  ASSUME IInv, TypeOK', Breaks
  PROVE  IInv'
<1> USE DEF IInv
<1>2. OneWriter'
  BY DEF Breaks, Socket, History, TypeOK, SharedOK, OneWriter, Writer
<1>3. Locked'
  BY NetApart, ThreadsAssumption DEF Breaks, Socket, History, TypeOK, AppsOK, CallsOK, SharedOK,
     Locked, NetPCs, At
<1>4. Stream'
  BY SizesAssumption DEF Breaks, Socket, History, TypeOK, SharedOK, Stream, WireInOrder
<1>5. Failing'
  BY DEF Breaks, Socket, History, TypeOK, CallsOK, SharedOK, Failing, InBound
<1>6. (Past /\ Bounded)'
  BY BytesKept, ThreadsAssumption DEF Breaks, Socket, History, TypeOK, CallsOK, SharedOK, Past,
     Bounded, InBound, Failing, Locked
<1>7. WakeNotLost'
  BY NetApart DEF Breaks, Socket, History, TypeOK, CallsOK, SharedOK, Locked, AppsOK, Failing,
     InBound, WakeNotLost, At, Wakes
<1>8. Owing'
  BY PaidKept, PaidEmpty DEF Breaks, Socket, History, TypeOK, CallsOK, SharedOK, Owing,
     InDisconnect
<1> QED
  BY <1>2, <1>3, <1>4, <1>5, <1>6, <1>7, <1>8

\* The deadline passes.
LEMMA DeadlinePassesKeeps ==
  ASSUME IInv, TypeOK', DeadlinePasses
  PROVE  IInv'
<1> USE DEF IInv
<1>2. OneWriter'
  BY DEF DeadlinePasses, Socket, History, TypeOK, SharedOK, OneWriter, Writer
<1>3. Locked'
  BY NetApart, ThreadsAssumption DEF DeadlinePasses, Socket, History, TypeOK, AppsOK, CallsOK,
     SharedOK, Locked, NetPCs, At
<1>4. Stream'
  BY SizesAssumption DEF DeadlinePasses, Socket, History, TypeOK, SharedOK, Stream, WireInOrder
<1>5. Failing'
  BY DEF DeadlinePasses, Socket, History, TypeOK, CallsOK, SharedOK, Failing, InBound
<1>6. (Past /\ Bounded)'
  BY BytesKept, ThreadsAssumption DEF DeadlinePasses, Socket, History, TypeOK, CallsOK,
     SharedOK, Past, Bounded, InBound, Failing, Locked
<1>7. WakeNotLost'
  BY NetApart DEF DeadlinePasses, Socket, History, TypeOK, CallsOK, SharedOK, Locked, AppsOK,
     Failing, InBound, WakeNotLost, At, Wakes
<1>8. Owing'
  BY PaidKept, PaidEmpty DEF DeadlinePasses, Socket, History, TypeOK, CallsOK, SharedOK, Owing,
     InDisconnect
<1> QED
  BY <1>2, <1>3, <1>4, <1>5, <1>6, <1>7, <1>8

\* send(): with the lock free the queue is within the bound, and one message more is pushed.
LEMMA SendKeeps ==
  ASSUME IInv, TypeOK', NEW t \in Threads, Send(t)
  PROVE  IInv'
<1> USE DEF IInv
<1>1. /\ UNCHANGED <<offset, disc, wakeup, Socket, responder, owed, late>>
      /\ Alone(t) /\ th[t].pc \in {"idle", "timer"} /\ lock = None /\ lock' = t /\ responder
      /\ th'[t].call = "bound" /\ th'[t].ok /\ th'[t].queued = th[t].queued
      /\ \/ /\ disc /\ UNCHANGED <<queue, sent>> /\ th'[t].pc = "return"
            /\ writing' = (writing \/ FALSE)
         \/ /\ ~disc /\ queue' = Append(queue, sent + 1) /\ sent' = sent + 1
            /\ th'[t].wake = Wakes(queue)
            /\ \/ th'[t].pc = "wake" /\ writing' = (writing \/ FALSE) /\ Size * Len(queue') <= Limit
               \/ th'[t].pc = "wait" /\ writing' = (writing \/ FALSE) /\ writing
               \/ th'[t].pc = "bound" /\ ~writing /\ writing'
  BY SendDoes DEF TypeOK
<1>2. OneWriter'
  BY SMTT(60), <1>1 DEF Alone, Socket, TypeOK, SharedOK, OneWriter, Writer
<1>3. Locked'
  BY SMTT(60), <1>1, NetApart, ThreadsAssumption DEF Alone, Socket, TypeOK, AppsOK, CallsOK, SharedOK,
     Locked, NetPCs, At
<1>4. Stream'
  <2>1. CASE disc
    BY <1>1, <2>1 DEF TypeOK, SharedOK, Stream, WireInOrder, Alone, Socket
  <2>2. CASE ~disc
    <3>1. /\ queue \in Seq(Nat) /\ sent \in Nat
          /\ queue' = Append(queue, sent + 1) /\ sent' = sent + 1 /\ UNCHANGED <<offset, Socket>>
      BY <1>1, <2>2 DEF TypeOK, SharedOK
    <3>2. /\ Len(queue') = Len(queue) + 1 /\ Len(queue) \in Nat
          /\ \A i \in 1..Len(queue) : queue'[i] = queue[i]
          /\ queue'[Len(queue) + 1] = sent + 1
      BY <3>1
    <3>3. Len(queue') <= sent' /\ \A i \in 1..Len(queue') : queue'[i] = sent' - Len(queue') + i
      BY <3>1, <3>2 DEF Stream
    <3>4. sent' - Len(queue') = sent - Len(queue)
      BY <3>1, <3>2
    <3>5. ASSUME NEW u \in Threads, th'[u].pc \in {"write", "pop"}
          PROVE  queue # <<>> /\ th'[u].front = Head(queue) /\ (th'[u].pc = "pop" => offset = Size)
      BY <1>1, <2>2, <3>5 DEF Stream, Alone
    <3>6. queue # <<>> => queue' # <<>> /\ Head(queue') = Head(queue)
      BY <3>1, <3>2
    <3> QED
      BY <3>1, <3>3, <3>4, <3>5, <3>6 DEF Stream, WireInOrder, Socket
  <2> QED
    BY <2>1, <2>2
<1>5. Failing'
  BY <1>1 DEF Alone, Socket, TypeOK, CallsOK, SharedOK, Failing, InBound
<1>6. (Past /\ Bounded)'
  <2>1. QueueBytes \in Nat /\ Size \in Nat /\ Limit \in Nat
    BY SizesAssumption DEF TypeOK, SharedOK, QueueBytes
  <2>2. CASE disc
    BY <1>1, <2>2, BytesKept DEF Past, Bounded, Socket
  <2>3. CASE ~disc
    <3>1. QueueBytes' = QueueBytes + Size
      <4>1. Len(queue) \in Nat /\ Len(queue') = Len(queue) + 1
        BY <1>1, <2>3 DEF TypeOK, SharedOK
      <4>2. Size * (Len(queue) + 1) = Size * Len(queue) + Size
        BY <4>1, SizesAssumption
      <4> QED
        BY <4>1, <4>2 DEF QueueBytes
    <3>2. QueueBytes <= Limit \/ down
      BY <1>1, <2>1, <2>3 DEF Past
    <3>3. Bounded'
      BY <1>1, <2>1, <3>1, <3>2 DEF Bounded, Socket
    <3>4. QueueBytes' = Size * Len(queue')
      BY DEF QueueBytes
    <3>5. Past'
      <4> SUFFICES ASSUME QueueBytes' > Limit, ~down'
                   PROVE  t # None /\ InBound(t)'
        BY <1>1 DEF Past
      <4>1. t # None
        BY ThreadsAssumption DEF Threads
      <4>2. ~(Size * Len(queue') <= Limit)
        BY <2>1, <3>1, <3>4
      <4> QED
        BY <1>1, <2>3, <4>1, <4>2 DEF InBound
    <3> QED
      BY <3>3, <3>5
  <2> QED
    BY <2>2, <2>3
<1>7. WakeNotLost'
  <2> SUFFICES ASSUME th'[Net].pc = "poll", ~th'[Net].queued, ~wakeup', queue' # <<>>, ~disc', ~down'
               PROVE  \E u \in Apps : th'[u].wake /\ th'[u].pc # "idle" /\ th'[u].pc # "return"
    BY DEF WakeNotLost, At
  <2>1. t # Net /\ th[Net].pc = "poll" /\ ~th[Net].queued /\ ~wakeup /\ ~disc /\ ~down
    BY <1>1, NetApart DEF Alone, Socket
  <2>2. \A u \in Apps : th[u].pc = "idle"
    BY <1>1, NetApart, ThreadsAssumption DEF Locked
  <2>3. queue = <<>>
    BY <2>1, <2>2 DEF WakeNotLost, At
  <2> QED
    BY <1>1, <2>1, <2>3, NetApart DEF Wakes
<1>8. Owing'
  <2>1. sent \in Nat /\ sent' >= sent /\ (owed # None => owed \in Nat)
    BY <1>1 DEF TypeOK, SharedOK
  <2> QED
    BY <1>1, <2>1, PaidKept DEF Owing, InDisconnect, Alone, Socket
<1> QED
  BY <1>2, <1>3, <1>4, <1>5, <1>6, <1>7, <1>8

\* A disconnect() under the lock of the session.
LEMMA SessionDisconnectKeeps ==
  ASSUME IInv, TypeOK', NEW t \in Threads, SessionDisconnect(t)
  PROVE  IInv'
<1> USE DEF IInv
<1>1. /\ UNCHANGED <<queue, offset, writing, disc, wakeup, Socket, responder, sent, late>>
      /\ Alone(t) /\ th'[t].pc = "disconnect" /\ ~th'[t].flush /\ th'[t].wake = th[t].wake
      /\ th'[t].call = th[t].call /\ th'[t].ok = th[t].ok /\ th'[t].queued = th[t].queued
      /\ owed' = IF owed = None THEN sent ELSE owed
      /\ th[t].pc \in {"idle", "timer", "failed"} /\ lock = None /\ lock' = t /\ responder
  BY BeginDoes DEF SessionDisconnect, At, TypeOK
<1>2. OneWriter'
  BY <1>1 DEF Alone, Socket, TypeOK, SharedOK, OneWriter, Writer
<1>3. Locked'
  BY <1>1, NetApart, ThreadsAssumption DEF Alone, Socket, TypeOK, AppsOK, CallsOK, SharedOK,
     Locked, NetPCs, At
<1>4. Stream'
  BY <1>1, SizesAssumption DEF Alone, Socket, TypeOK, SharedOK, Stream, WireInOrder
<1>5. Failing'
  BY <1>1 DEF Alone, Socket, TypeOK, CallsOK, SharedOK, Failing, InBound
<1>6. (Past /\ Bounded)'
  BY <1>1, BytesKept, ThreadsAssumption DEF Alone, Socket, TypeOK, CallsOK, SharedOK, Past,
     Bounded, InBound, Failing, Locked
<1>7. WakeNotLost'
  BY <1>1, NetApart DEF Alone, Socket, TypeOK, CallsOK, SharedOK, Locked, AppsOK, Failing,
     InBound, WakeNotLost, At, Wakes
<1>8. Owing'
  <2>1. (owed # None => owed' = owed) /\ (owed = None => owed' = sent) /\ owed' # None
    BY <1>1, ThreadsAssumption DEF TypeOK, SharedOK
  <2>2. sent \in Nat /\ (owed' <= sent)
    BY <2>1 DEF TypeOK, SharedOK, Owing
  <2>3. owed # None => Paid' = Paid
    BY <1>1, <2>1, PaidKept DEF Socket
  <2> QED
    BY <1>1, <2>1, <2>2, <2>3, NetApart DEF Owing, InDisconnect, Alone, Socket
<1> QED
  BY <1>2, <1>3, <1>4, <1>5, <1>6, <1>7, <1>8

\* A sender that waited looks at the queue again.
LEMMA WokenKeeps ==
  ASSUME IInv, TypeOK', NEW t \in Threads, Woken(t)
  PROVE  IInv'
<1> USE DEF IInv
<1>1. /\ UNCHANGED <<queue, offset, disc, wakeup, Socket, lock, responder, History>>
      /\ th[t].pc = "woken"
      /\ \/ Moved(t, "wait") /\ UNCHANGED writing
         \/ Moved(t, "wake") /\ writing' = (writing \/ FALSE) /\ (QueueBytes <= Limit \/ disc)
         \/ Moved(t, "bound") /\ ~writing /\ writing'
  BY WokenDoes DEF TypeOK
<1>2. OneWriter'
  BY <1>1 DEF Moved, Socket, History, Alone, KeepsLocals, TypeOK, SharedOK, OneWriter, Writer
<1>3. Locked'
  BY <1>1, NetApart, ThreadsAssumption DEF Moved, Socket, History, Alone, KeepsLocals, TypeOK,
     AppsOK, CallsOK, SharedOK, Locked, NetPCs, At
<1>4. Stream'
  BY <1>1, SizesAssumption DEF Moved, Socket, History, Alone, KeepsLocals, TypeOK, SharedOK,
     Stream, WireInOrder
<1>5. Failing'
  BY <1>1 DEF Moved, Socket, History, Alone, KeepsLocals, TypeOK, CallsOK, SharedOK, Failing,
     InBound
<1>6. (Past /\ Bounded)'
  <2>1. QueueBytes' = QueueBytes
    BY <1>1, BytesKept
  <2>2. Bounded'
    BY <1>1, <2>1 DEF Bounded, Socket
  <2>3. Past'
    <3> SUFFICES ASSUME QueueBytes > Limit, ~disc, ~down
                 PROVE  lock # None /\ InBound(lock)'
      BY <1>1, <2>1 DEF Past, Socket
    <3>1. lock # None /\ InBound(lock) /\ lock \in Threads
      BY DEF Past, TypeOK, SharedOK
    <3>2. ~(QueueBytes <= Limit)
      BY SizesAssumption DEF TypeOK, SharedOK, QueueBytes
    <3> QED
      BY <1>1, <3>1, <3>2 DEF InBound, Moved, Alone
  <2> QED
    BY <2>2, <2>3
<1>7. WakeNotLost'
  BY <1>1, NetApart DEF Moved, Socket, History, Alone, KeepsLocals, TypeOK, CallsOK, SharedOK,
     Locked, AppsOK, Failing, InBound, WakeNotLost, At, Wakes
<1>8. Owing'
  BY <1>1, PaidKept, PaidEmpty DEF Moved, Socket, History, Alone, KeepsLocals, TypeOK, CallsOK,
     SharedOK, Owing, InDisconnect
<1> QED
  BY <1>2, <1>3, <1>4, <1>5, <1>6, <1>7, <1>8

\* The writer past the bound looks at the queue.
LEMMA BoundCheckKeeps ==
  ASSUME IInv, TypeOK', NEW t \in Threads, BoundCheck(t)
  PROVE  IInv'
<1> USE DEF IInv
<1>1. /\ UNCHANGED Others /\ th[t].pc = "bound"
      /\ \/ Moved(t, "release") /\ (QueueBytes <= Limit \/ disc)
         \/ Moved(t, "front")
  BY Goes DEF BoundCheck, Others, At, TypeOK
<1>2. OneWriter'
  BY <1>1 DEF Moved, Others, Alone, KeepsLocals, Socket, History, TypeOK, SharedOK, OneWriter,
     Writer
<1>3. Locked'
  BY <1>1, NetApart, ThreadsAssumption DEF Moved, Others, Alone, KeepsLocals, Socket, History,
     TypeOK, AppsOK, CallsOK, SharedOK, Locked, NetPCs, At
<1>4. Stream'
  BY <1>1, SizesAssumption DEF Moved, Others, Alone, KeepsLocals, Socket, History, TypeOK,
     SharedOK, Stream, WireInOrder
<1>5. Failing'
  BY <1>1 DEF Moved, Others, Alone, KeepsLocals, Socket, History, TypeOK, CallsOK, SharedOK,
     Failing, InBound
<1>6. (Past /\ Bounded)'
  BY <1>1, BytesKept, ThreadsAssumption DEF Moved, Others, Alone, KeepsLocals, Socket, History,
     TypeOK, CallsOK, SharedOK, Past, Bounded, InBound, Failing, Locked
<1>7. WakeNotLost'
  BY <1>1, NetApart DEF Moved, Others, Alone, KeepsLocals, Socket, History, TypeOK, CallsOK,
     SharedOK, Locked, AppsOK, Failing, InBound, WakeNotLost, At, Wakes
<1>8. Owing'
  BY <1>1, PaidKept, PaidEmpty DEF Moved, Others, Alone, KeepsLocals, Socket, History, TypeOK,
     CallsOK, SharedOK, Owing, InDisconnect
<1> QED
  BY <1>2, <1>3, <1>4, <1>5, <1>6, <1>7, <1>8

\* It gives the role back, or keeps it for a queue past the bound.
LEMMA ReleaseKeeps ==
  ASSUME IInv, TypeOK', NEW t \in Threads, Release(t)
  PROVE  IInv'
<1> USE DEF IInv
<1>1. /\ UNCHANGED <<queue, offset, disc, wakeup, Socket, lock, responder, History>>
      /\ th[t].pc = "release" /\ Notified(t) /\ KeepsLocals(t)
      /\ \/ th'[t].pc = "return" /\ ~th[t].ok /\ ~writing'
         \/ th'[t].pc = "wake" /\ th[t].ok /\ ~writing' /\ (QueueBytes <= Limit \/ disc)
         \/ th'[t].pc = "bound" /\ th[t].ok /\ writing'
  <2> DEFINE pc == IF ~th[t].ok THEN "return"
                   ELSE IF QueueBytes <= Limit \/ disc THEN "wake" ELSE "bound"
  <2>1. Notified(t) /\ KeepsLocals(t) /\ th'[t].pc = pc
    BY Notifies DEF Release, TypeOK
  <2> QED
    BY <2>1 DEF Release, At
<1>2. OneWriter'
  BY <1>1 DEF KeepsLocals, Notified, Socket, History, TypeOK, SharedOK, OneWriter, Writer
<1>3. Locked'
  BY <1>1, NetApart, ThreadsAssumption DEF KeepsLocals, Notified, Socket, History, TypeOK,
     AppsOK, CallsOK, SharedOK, Locked, NetPCs, At
<1>4. Stream'
  BY <1>1, SizesAssumption DEF KeepsLocals, Notified, Socket, History, TypeOK, SharedOK, Stream,
     WireInOrder
<1>5. Failing'
  BY <1>1 DEF KeepsLocals, Notified, Socket, History, TypeOK, CallsOK, SharedOK, Failing,
     InBound
<1>6. (Past /\ Bounded)'
  <2>1. QueueBytes' = QueueBytes
    BY <1>1, BytesKept
  <2>2. Bounded'
    BY <1>1, <2>1 DEF Bounded, Socket
  <2>3. Past'
    <3> SUFFICES ASSUME QueueBytes > Limit, ~disc, ~down
                 PROVE  lock # None /\ InBound(lock)'
      BY <1>1, <2>1 DEF Past, Socket
    <3>1. lock # None /\ InBound(lock) /\ lock \in Threads
      BY DEF Past, TypeOK, SharedOK
    <3>2. CASE lock = t
      <4>1. th[t].ok
        BY <1>1 DEF Failing, InBound
      <4>2. ~(QueueBytes <= Limit)
        BY SizesAssumption DEF TypeOK, SharedOK, QueueBytes
      <4> QED
        BY <1>1, <3>1, <3>2, <4>1, <4>2 DEF InBound
    <3>3. CASE lock # t
      BY <1>1, <3>1, <3>3 DEF InBound, Notified
    <3> QED
      BY <3>2, <3>3
  <2> QED
    BY <2>2, <2>3
<1>7. WakeNotLost'
  BY <1>1, NetApart DEF KeepsLocals, Notified, Socket, History, TypeOK, CallsOK, SharedOK,
     Locked, AppsOK, Failing, InBound, WakeNotLost, At, Wakes
<1>8. Owing'
  BY <1>1, PaidKept, PaidEmpty DEF KeepsLocals, Notified, Socket, History, TypeOK, CallsOK,
     SharedOK, Owing, InDisconnect
<1> QED
  BY <1>2, <1>3, <1>4, <1>5, <1>6, <1>7, <1>8

\* The wake-up is given.
LEMMA WakeKeeps ==
  ASSUME IInv, TypeOK', NEW t \in Threads, Wake(t)
  PROVE  IInv'
<1> USE DEF IInv
<1>1. /\ UNCHANGED <<queue, offset, writing, disc, Socket, lock, responder, History>>
      /\ th[t].pc = "wake" /\ Moved(t, "return") /\ wakeup' = (wakeup \/ th[t].wake)
  BY Goes DEF Wake, At, TypeOK
<1>2. OneWriter'
  BY <1>1 DEF Moved, Socket, History, Alone, KeepsLocals, TypeOK, SharedOK, OneWriter, Writer
<1>3. Locked'
  BY <1>1, NetApart, ThreadsAssumption DEF Moved, Socket, History, Alone, KeepsLocals, TypeOK,
     AppsOK, CallsOK, SharedOK, Locked, NetPCs, At
<1>4. Stream'
  BY <1>1, SizesAssumption DEF Moved, Socket, History, Alone, KeepsLocals, TypeOK, SharedOK,
     Stream, WireInOrder
<1>5. Failing'
  BY <1>1 DEF Moved, Socket, History, Alone, KeepsLocals, TypeOK, CallsOK, SharedOK, Failing,
     InBound
<1>6. (Past /\ Bounded)'
  BY <1>1, BytesKept, ThreadsAssumption DEF Moved, Socket, History, Alone, KeepsLocals, TypeOK,
     CallsOK, SharedOK, Past, Bounded, InBound, Failing, Locked
<1>7. WakeNotLost'
  BY <1>1, NetApart DEF Moved, Socket, History, Alone, KeepsLocals, TypeOK, CallsOK, SharedOK,
     Locked, AppsOK, Failing, InBound, WakeNotLost, At, Wakes
<1>8. Owing'
  BY <1>1, PaidKept, PaidEmpty DEF Moved, Socket, History, Alone, KeepsLocals, TypeOK, CallsOK,
     SharedOK, Owing, InDisconnect
<1> QED
  BY <1>2, <1>3, <1>4, <1>5, <1>6, <1>7, <1>8

\* A call returns, and gives the lock back.
LEMMA ReturnKeeps ==
  ASSUME IInv, TypeOK', NEW t \in Threads, Return(t)
  PROVE  IInv'
<1> USE DEF IInv
<1>1. /\ UNCHANGED <<queue, offset, writing, disc, wakeup, Socket, responder, History>>
      /\ th[t].pc = "return" /\ Alone(t) /\ lock' = IF lock = t THEN None ELSE lock
      /\ t \in Apps => th'[t].pc = "idle"
      /\ t = Net => th'[t].pc \in {"timer", "end"}
      /\ ~th'[t].wake /\ ~th'[t].flush
  BY NetApart DEF Return, Unlock, At, Fresh, TypeOK, LocalsOK, AppsOK, Alone
<1>2. OneWriter'
  BY <1>1, NetApart DEF Alone, Socket, History, TypeOK, SharedOK, OneWriter, Writer
<1>3. Locked'
  BY <1>1, NetApart, ThreadsAssumption DEF Alone, Socket, History, TypeOK, AppsOK, CallsOK,
     SharedOK, Locked, NetPCs, At
<1>4. Stream'
  BY <1>1, NetApart, SizesAssumption DEF Alone, Socket, History, TypeOK, SharedOK, Stream,
     WireInOrder
<1>5. Failing'
  BY <1>1, NetApart DEF Alone, Socket, History, TypeOK, CallsOK, SharedOK, Failing, InBound
<1>6. (Past /\ Bounded)'
  BY <1>1, NetApart, BytesKept, ThreadsAssumption DEF Alone, Socket, History, TypeOK, CallsOK,
     SharedOK, Past, Bounded, InBound, Failing, Locked
<1>7. WakeNotLost'
  BY <1>1, NetApart DEF Alone, Socket, History, TypeOK, CallsOK, SharedOK, Locked, AppsOK,
     Failing, InBound, WakeNotLost, At, Wakes
<1>8. Owing'
  BY <1>1, NetApart, PaidKept, PaidEmpty DEF Alone, Socket, History, TypeOK, CallsOK, SharedOK,
     Owing, InDisconnect
<1> QED
  BY <1>2, <1>3, <1>4, <1>5, <1>6, <1>7, <1>8

\* writeFront() looks for a message.
LEMMA FrontKeeps ==
  ASSUME IInv, TypeOK', NEW t \in Threads, Front(t)
  PROVE  IInv'
<1> USE DEF IInv
<1>1. UNCHANGED Others /\ (Begun(t) \/ Came(t))
  BY WriterReturns DEF TypeOK
<1>2. OneWriter'
  BY <1>1 DEF Others, Begun, Came, Alone, Socket, History, TypeOK, SharedOK, OneWriter, Writer
<1>3. Locked'
  BY <1>1, NetApart, ThreadsAssumption DEF Others, Begun, Came, Alone, Socket, History, TypeOK,
     AppsOK, CallsOK, SharedOK, Locked, NetPCs, At
<1>4. Stream'
  BY <1>1, SizesAssumption DEF Others, Begun, Came, Alone, Socket, History, TypeOK, SharedOK,
     Stream, WireInOrder
<1>5. Failing'
  BY <1>1 DEF Others, Begun, Came, Alone, Socket, History, TypeOK, CallsOK, SharedOK, Failing,
     InBound
<1>6. (Past /\ Bounded)'
  BY <1>1, BytesKept, ThreadsAssumption DEF Others, Begun, Came, Alone, Socket, History, TypeOK,
     CallsOK, SharedOK, Past, Bounded, InBound, Failing, Locked
<1>7. WakeNotLost'
  BY <1>1, NetApart DEF Others, Begun, Came, Alone, Socket, History, TypeOK, CallsOK, SharedOK,
     Locked, AppsOK, Failing, InBound, WakeNotLost, At, Wakes
<1>8. Owing'
  BY <1>1, PaidKept, PaidEmpty DEF Others, Begun, Came, Alone, Socket, History, TypeOK, CallsOK,
     SharedOK, Owing, InDisconnect
<1> QED
  BY <1>2, <1>3, <1>4, <1>5, <1>6, <1>7, <1>8

\* The socket takes the units that follow the last one on the wire: the writer is the only one, its
\* message is the first of the queue and the offset is its own.
LEMMA WriteSomeKeeps ==
  ASSUME IInv, TypeOK', NEW t \in Threads, WriteSome(t)
  PROVE  IInv'
<1> USE DEF IInv
<1>1. /\ UNCHANGED <<queue, writing, disc, wakeup, down, taken, lock, responder, History>>
      /\ th[t].pc = "write" /\ Alone(t) /\ KeepsLocals(t)
      /\ th'[t].pc = IF offset' = Size THEN "pop" ELSE "write"
  <2> DEFINE pc == IF offset' = Size THEN "pop" ELSE "write"
  <2>1. th' = [th EXCEPT ![t].progress = TRUE, ![t].pc = pc]
    BY DEF WriteSome
  <2> HIDE DEF pc
  <2>2. Alone(t) /\ th'[t].pc = pc
    BY <2>1 DEF TypeOK, LocalsOK, Locals, Alone
  <2>3. KeepsLocals(t)
    BY <2>1 DEF TypeOK, LocalsOK, Locals, KeepsLocals
  <2> QED
    BY <2>2, <2>3 DEF WriteSome, At, pc
<1>2. OneWriter'
  BY <1>1 DEF Alone, KeepsLocals, History, TypeOK, SharedOK, OneWriter, Writer
<1>3. Locked'
  BY <1>1, NetApart, ThreadsAssumption DEF Alone, KeepsLocals, History, TypeOK, AppsOK, CallsOK,
     SharedOK, Locked, NetPCs, At
<1>4. Stream'
  <2>1. PICK k \in 1..Size :
          /\ k <= Size - offset /\ offset' = offset + k
          /\ wire' = wire \o [i \in 1..k |-> (th[t].front - 1) * Size + offset + i]
    BY DEF WriteSome
  <2>2. /\ queue \in Seq(Nat) /\ queue # <<>> /\ sent \in Nat /\ offset \in 0..Size /\ k \in Nat
        /\ Size \in Nat /\ wire \in Seq(Nat) /\ Len(queue) \in Nat /\ Len(queue) <= sent
    <3>1. queue \in Seq(Nat) /\ sent \in Nat /\ offset \in 0..Size /\ Size \in Nat
      BY SizesAssumption DEF TypeOK, SharedOK
    <3>2. queue # <<>> /\ wire \in Seq(Nat) /\ Len(queue) <= sent
      BY <1>1 DEF Stream
    <3> QED
      BY <2>1, <3>1, <3>2
  <2>3. th[t].front = sent - Len(queue) + 1
    <3>1. th[t].front = queue[1] /\ 1 \in 1..Len(queue)
      BY <1>1, <2>2 DEF Stream
    <3> QED
      BY <3>1 DEF Stream
  <2> DEFINE n == sent - Len(queue)
  <2>4. n \in Nat /\ th[t].front - 1 = n
    BY <2>2, <2>3
  <2>5. n * Size = Size * n /\ Size * n \in Nat
    BY <2>2, <2>4
  <2>6. Len(wire) = Size * n + offset
    BY DEF Stream
  <2> DEFINE new == [i \in 1..k |-> (th[t].front - 1) * Size + offset + i]
  <2>7. new = [i \in 1..k |-> Len(wire) + i]
    BY <2>2, <2>4, <2>5, <2>6
  <2>8. new \in Seq(Nat) /\ Len(new) = k /\ \A i \in 1..k : new[i] = Len(wire) + i
    BY <2>2, <2>7
  <2>9. wire' = wire \o new
    BY <2>1
  <2> HIDE DEF new, n
  <2>10. /\ wire' \in Seq(Nat) /\ Len(wire') = Len(wire) + k
         /\ \A i \in 1..Len(wire') : wire'[i] = IF i <= Len(wire) THEN wire[i] ELSE new[i - Len(wire)]
    <3>1. wire' \in Seq(Nat)
      BY <2>2, <2>8, <2>9, ConcatProperties
    <3>2. Len(wire') = Len(wire) + k
      BY <2>2, <2>8, <2>9, ConcatProperties
    <3> QED
      BY <2>2, <2>8, <2>9, <3>1, <3>2, ConcatProperties
  <2>11. WireInOrder'
    <3> SUFFICES ASSUME NEW i \in 1..Len(wire')
                 PROVE  wire'[i] = i
      BY <2>10 DEF WireInOrder
    <3>1. CASE i <= Len(wire)
      <4>1. i \in DOMAIN wire /\ wire'[i] = wire[i]
        BY <2>2, <2>10, <3>1
      <4> QED
        BY <4>1 DEF Stream, WireInOrder
    <3>2. CASE ~(i <= Len(wire))
      <4>1. i - Len(wire) \in 1..k
        BY <2>2, <2>10, <3>2
      <4> QED
        BY <2>2, <2>8, <2>10, <3>2, <4>1
    <3> QED
      BY <3>1, <3>2
  <2>12. Len(wire') = Size * (sent' - Len(queue')) + offset'
    BY <1>1, <2>1, <2>2, <2>5, <2>6, <2>10 DEF n, History
  <2>13. \A u \in Threads :
           /\ th'[u].pc \in {"write", "pop"} => queue # <<>> /\ th'[u].front = Head(queue)
           /\ th'[u].pc = "pop" => offset' = Size
    BY <1>1, <2>2 DEF Stream, Alone, KeepsLocals, OneWriter, Writer
  <2> QED
    BY <1>1, <2>10, <2>11, <2>12, <2>13 DEF Stream, History
<1>5. Failing'
  BY <1>1 DEF Alone, KeepsLocals, History, TypeOK, CallsOK, SharedOK, Failing, InBound
<1>6. (Past /\ Bounded)'
  BY <1>1, BytesKept, ThreadsAssumption DEF Alone, KeepsLocals, History, TypeOK, CallsOK,
     SharedOK, Past, Bounded, InBound, Failing, Locked
<1>7. WakeNotLost'
  BY <1>1, NetApart DEF Alone, KeepsLocals, History, TypeOK, CallsOK, SharedOK, Locked, AppsOK,
     Failing, InBound, WakeNotLost, At, Wakes
<1>8. Owing'
  <2>1. Paid /\ owed \in Nat => Paid'
    <3>1. Len(wire') >= Len(wire) /\ Len(wire) \in Nat
      <4>1. wire \in Seq(Nat) /\ wire' \in Seq(Nat)
        BY <1>4 DEF Stream
      <4>2. PICK k \in 1..Size :
              wire' = wire \o [i \in 1..k |-> (th[t].front - 1) * Size + offset + i]
        BY DEF WriteSome
      <4> QED
        BY <4>1, <4>2, SizesAssumption
    <3>2. owed \in Nat => Size * owed \in Nat
      BY SizesAssumption
    <3>3. owed' = owed /\ Len(wire') \in Nat
      BY <1>1, <1>4 DEF History, Stream
    <3> QED
      BY <3>1, <3>2, <3>3 DEF Paid
  <2>2. owed # None => owed \in Nat
    BY DEF TypeOK, SharedOK
  <2> QED
    BY <1>1, <2>1, <2>2 DEF Owing, InDisconnect, Alone, KeepsLocals, History
<1> QED
  BY <1>2, <1>3, <1>4, <1>5, <1>6, <1>7, <1>8

\* socket_send fails.
LEMMA WriteFailsKeeps ==
  ASSUME IInv, TypeOK', NEW t \in Threads, WriteFails(t)
  PROVE  IInv'
<1> USE DEF IInv
<1>1. UNCHANGED Others /\ (Begun(t) \/ Came(t))
  BY WriterReturns DEF TypeOK
<1>2. OneWriter'
  BY <1>1 DEF Others, Begun, Came, Alone, Socket, History, TypeOK, SharedOK, OneWriter, Writer
<1>3. Locked'
  BY <1>1, NetApart, ThreadsAssumption DEF Others, Begun, Came, Alone, Socket, History, TypeOK,
     AppsOK, CallsOK, SharedOK, Locked, NetPCs, At
<1>4. Stream'
  BY <1>1, SizesAssumption DEF Others, Begun, Came, Alone, Socket, History, TypeOK, SharedOK,
     Stream, WireInOrder
<1>5. Failing'
  BY <1>1 DEF Others, Begun, Came, Alone, Socket, History, TypeOK, CallsOK, SharedOK, Failing,
     InBound
<1>6. (Past /\ Bounded)'
  BY <1>1, BytesKept, ThreadsAssumption DEF Others, Begun, Came, Alone, Socket, History, TypeOK,
     CallsOK, SharedOK, Past, Bounded, InBound, Failing, Locked
<1>7. WakeNotLost'
  BY <1>1, NetApart DEF Others, Begun, Came, Alone, Socket, History, TypeOK, CallsOK, SharedOK,
     Locked, AppsOK, Failing, InBound, WakeNotLost, At, Wakes
<1>8. Owing'
  BY <1>1, PaidKept, PaidEmpty DEF Others, Begun, Came, Alone, Socket, History, TypeOK, CallsOK,
     SharedOK, Owing, InDisconnect
<1> QED
  BY <1>2, <1>3, <1>4, <1>5, <1>6, <1>7, <1>8

\* The socket takes nothing.
LEMMA WriteBlocksKeeps ==
  ASSUME IInv, TypeOK', NEW t \in Threads, WriteBlocks(t)
  PROVE  IInv'
<1> USE DEF IInv
<1>1. UNCHANGED Others /\ (Begun(t) \/ Came(t))
  BY WriterReturns DEF TypeOK
<1>2. OneWriter'
  BY <1>1 DEF Others, Begun, Came, Alone, Socket, History, TypeOK, SharedOK, OneWriter, Writer
<1>3. Locked'
  BY <1>1, NetApart, ThreadsAssumption DEF Others, Begun, Came, Alone, Socket, History, TypeOK,
     AppsOK, CallsOK, SharedOK, Locked, NetPCs, At
<1>4. Stream'
  BY <1>1, SizesAssumption DEF Others, Begun, Came, Alone, Socket, History, TypeOK, SharedOK,
     Stream, WireInOrder
<1>5. Failing'
  BY <1>1 DEF Others, Begun, Came, Alone, Socket, History, TypeOK, CallsOK, SharedOK, Failing,
     InBound
<1>6. (Past /\ Bounded)'
  BY <1>1, BytesKept, ThreadsAssumption DEF Others, Begun, Came, Alone, Socket, History, TypeOK,
     CallsOK, SharedOK, Past, Bounded, InBound, Failing, Locked
<1>7. WakeNotLost'
  BY <1>1, NetApart DEF Others, Begun, Came, Alone, Socket, History, TypeOK, CallsOK, SharedOK,
     Locked, AppsOK, Failing, InBound, WakeNotLost, At, Wakes
<1>8. Owing'
  BY <1>1, PaidKept, PaidEmpty DEF Others, Begun, Came, Alone, Socket, History, TypeOK, CallsOK,
     SharedOK, Owing, InDisconnect
<1> QED
  BY <1>2, <1>3, <1>4, <1>5, <1>6, <1>7, <1>8

\* The first message is written and popped.
LEMMA PopKeeps ==
  ASSUME IInv, TypeOK', NEW t \in Threads, Pop(t)
  PROVE  IInv'
<1> USE DEF IInv
<1>1. /\ Notified(t) /\ KeepsLocals(t) /\ th[t].pc = "pop"
      /\ \/ th[t].call = "bound" /\ th'[t].pc = "bound"
         \/ th[t].call = "queue" /\ th'[t].pc = "more"
         \/ th[t].call = "flush" /\ th'[t].pc = "flush"
      /\ queue' = Tail(queue) /\ offset' = 0
      /\ UNCHANGED <<writing, disc, wakeup, Socket, lock, responder, History>>
  BY PopDoes DEF TypeOK, Pop
<1>2. OneWriter'
  BY SMTT(60), <1>1 DEF KeepsLocals, Notified, Socket, History, TypeOK, SharedOK, OneWriter, Writer
<1>3. Locked'
  BY <1>1, NetApart, ThreadsAssumption DEF KeepsLocals, Notified, Socket, History, TypeOK,
     AppsOK, CallsOK, SharedOK, Locked, NetPCs, At
<1>4. Stream'
  <2>1. /\ queue \in Seq(Nat) /\ queue # <<>> /\ sent \in Nat /\ offset = Size
        /\ queue' = Tail(queue) /\ offset' = 0 /\ UNCHANGED <<sent, wire>>
    BY <1>1 DEF TypeOK, SharedOK, Stream, Socket, History
  <2>2. /\ Len(queue) \in Nat \ {0} /\ Len(queue') = Len(queue) - 1 /\ queue' \in Seq(Nat)
        /\ \A i \in 1..Len(queue') : queue'[i] = queue[i + 1]
    BY <2>1
  <2>3. Len(queue') <= sent' /\ \A i \in 1..Len(queue') : queue'[i] = sent' - Len(queue') + i
    BY <2>1, <2>2 DEF Stream
  <2>4. Size * (sent' - Len(queue')) + offset' = Size * (sent - Len(queue)) + offset
    <3> DEFINE n == sent - Len(queue)
    <3>1. n \in Nat /\ sent' - Len(queue') = n + 1
      BY <2>1, <2>2 DEF Stream
    <3>2. Size * (n + 1) = Size * n + Size
      BY <3>1, SizesAssumption
    <3>3. Size * n \in Nat /\ Size \in Nat
      BY <3>1, SizesAssumption
    <3> QED
      BY <2>1, <3>1, <3>2, <3>3
  <2>5. \A u \in Threads : th'[u].pc \notin {"write", "pop"}
    BY <1>1 DEF OneWriter, Writer, Notified
  <2> QED
    BY <2>1, <2>3, <2>4, <2>5 DEF Stream, WireInOrder
<1>5. Failing'
  BY <1>1 DEF KeepsLocals, Notified, Socket, History, TypeOK, CallsOK, SharedOK, Failing,
     InBound
<1>6. (Past /\ Bounded)'
  <2>1. QueueBytes' <= QueueBytes /\ QueueBytes \in Nat /\ QueueBytes' \in Nat /\ Limit \in Nat /\ Size \in Nat
    <3>1. queue \in Seq(Nat) /\ queue # <<>> /\ queue' = Tail(queue)
      BY <1>1 DEF TypeOK, SharedOK, Stream
    <3>2. Len(queue) \in Nat /\ Len(queue') \in Nat /\ Len(queue') <= Len(queue)
      BY <3>1
    <3> QED
      BY <3>2, SizesAssumption DEF QueueBytes
  <2>2. Bounded'
    BY <1>1, <2>1 DEF Bounded, Socket
  <2>3. Past'
    BY <1>1, <2>1 DEF Past, InBound, Notified, KeepsLocals, Socket, TypeOK, SharedOK
  <2> QED
    BY <2>2, <2>3
<1>7. WakeNotLost'
  <2>1. queue # <<>>
    BY <1>1 DEF Stream
  <2> QED
    BY <1>1, <2>1, NetApart DEF WakeNotLost, At, Notified, KeepsLocals, Socket, AppsOK, TypeOK,
       NetPCs
<1>8. Owing'
  BY SMTT(60), <1>1, PaidKept, PaidEmpty DEF KeepsLocals, Notified, Socket, History, TypeOK, CallsOK,
     SharedOK, Owing, InDisconnect
<1> QED
  BY <1>2, <1>3, <1>4, <1>5, <1>6, <1>7, <1>8

\* disconnect() takes the role to flush, or finds nothing to flush.
LEMMA DisconnectKeeps ==
  ASSUME IInv, TypeOK', NEW t \in Threads, Disconnect(t)
  PROVE  IInv'
<1> USE DEF IInv
<1>1. /\ UNCHANGED <<queue, offset, disc, wakeup, Socket, lock, responder, History>>
      /\ Alone(t) /\ th[t].pc = "disconnect" /\ th'[t].wake = th[t].wake
      /\ th'[t].call = "flush" /\ th'[t].queued = th[t].queued /\ th'[t].ok = th[t].ok
      /\ \/ /\ th'[t].pc = "flush" /\ th'[t].flush /\ ~writing /\ writing'
         \/ /\ th'[t].pc = "shut" /\ ~th'[t].flush /\ writing' = (writing \/ FALSE)
            /\ disc \/ late \/ queue = <<>>
  BY DisconnectDoes DEF TypeOK
<1>2. OneWriter'
  BY <1>1 DEF Alone, Socket, History, TypeOK, SharedOK, OneWriter, Writer
<1>3. Locked'
  BY <1>1, NetApart, ThreadsAssumption DEF Alone, Socket, History, TypeOK, AppsOK, CallsOK,
     SharedOK, Locked, NetPCs, At
<1>4. Stream'
  BY <1>1, SizesAssumption DEF Alone, Socket, History, TypeOK, SharedOK, Stream, WireInOrder
<1>5. Failing'
  BY <1>1 DEF Alone, Socket, History, TypeOK, CallsOK, SharedOK, Failing, InBound
<1>6. (Past /\ Bounded)'
  BY <1>1, BytesKept, ThreadsAssumption DEF Alone, Socket, History, TypeOK, CallsOK, SharedOK,
     Past, Bounded, InBound, Failing, Locked
<1>7. WakeNotLost'
  BY <1>1, NetApart DEF Alone, Socket, History, TypeOK, CallsOK, SharedOK, Locked, AppsOK,
     Failing, InBound, WakeNotLost, At, Wakes
<1>8. Owing'
  BY <1>1, PaidKept, PaidEmpty DEF Alone, Socket, History, TypeOK, CallsOK, SharedOK, Owing,
     InDisconnect
<1> QED
  BY <1>2, <1>3, <1>4, <1>5, <1>6, <1>7, <1>8

\* disconnect() between two messages.
LEMMA FlushKeeps ==
  ASSUME IInv, TypeOK', NEW t \in Threads, Flush(t)
  PROVE  IInv'
<1> USE DEF IInv
<1>1. /\ UNCHANGED Others /\ th[t].pc = "flush"
      /\ \/ Moved(t, "shut") /\ (queue = <<>> \/ disc \/ late)
         \/ Moved(t, "front")
  BY FlushDoes DEF TypeOK
<1>2. OneWriter'
  BY <1>1 DEF Moved, Others, Alone, KeepsLocals, Socket, History, TypeOK, SharedOK, OneWriter,
     Writer
<1>3. Locked'
  BY <1>1, NetApart, ThreadsAssumption DEF Moved, Others, Alone, KeepsLocals, Socket, History,
     TypeOK, AppsOK, CallsOK, SharedOK, Locked, NetPCs, At
<1>4. Stream'
  BY <1>1, SizesAssumption DEF Moved, Others, Alone, KeepsLocals, Socket, History, TypeOK,
     SharedOK, Stream, WireInOrder
<1>5. Failing'
  BY <1>1 DEF Moved, Others, Alone, KeepsLocals, Socket, History, TypeOK, CallsOK, SharedOK,
     Failing, InBound
<1>6. (Past /\ Bounded)'
  BY <1>1, BytesKept, ThreadsAssumption DEF Moved, Others, Alone, KeepsLocals, Socket, History,
     TypeOK, CallsOK, SharedOK, Past, Bounded, InBound, Failing, Locked
<1>7. WakeNotLost'
  BY <1>1, NetApart DEF Moved, Others, Alone, KeepsLocals, Socket, History, TypeOK, CallsOK,
     SharedOK, Locked, AppsOK, Failing, InBound, WakeNotLost, At, Wakes
<1>8. Owing'
  BY <1>1, PaidKept, PaidEmpty DEF Moved, Others, Alone, KeepsLocals, Socket, History, TypeOK,
     CallsOK, SharedOK, Owing, InDisconnect
<1> QED
  BY <1>2, <1>3, <1>4, <1>5, <1>6, <1>7, <1>8

\* disconnect() sets the flag.
LEMMA ShutKeeps ==
  ASSUME IInv, TypeOK', NEW t \in Threads, Shut(t)
  PROVE  IInv'
<1> USE DEF IInv
<1>1. /\ UNCHANGED <<queue, offset, wakeup, Socket, lock, responder, History>>
      /\ th[t].pc = "shut" /\ Notified(t) /\ KeepsLocals(t) /\ th'[t].pc = "shutdown"
      /\ disc' /\ writing' = (writing /\ ~th[t].flush)
  BY Notifies DEF Shut, At, TypeOK
<1>2. OneWriter'
  BY SMTT(60), <1>1 DEF KeepsLocals, Notified, Socket, History, TypeOK, SharedOK, OneWriter, Writer
<1>3. Locked'
  BY <1>1, NetApart, ThreadsAssumption DEF KeepsLocals, Notified, Socket, History, TypeOK,
     AppsOK, CallsOK, SharedOK, Locked, NetPCs, At
<1>4. Stream'
  BY ZenonT(60), <1>1, SizesAssumption DEF KeepsLocals, Notified, Socket, History, TypeOK, SharedOK, Stream,
     WireInOrder
<1>5. Failing'
  BY <1>1 DEF KeepsLocals, Notified, Socket, History, TypeOK, CallsOK, SharedOK, Failing,
     InBound
<1>6. (Past /\ Bounded)'
  BY <1>1, BytesKept, ThreadsAssumption DEF KeepsLocals, Notified, Socket, History, TypeOK,
     CallsOK, SharedOK, Past, Bounded, InBound, Failing, Locked
<1>7. WakeNotLost'
  BY <1>1, NetApart DEF KeepsLocals, Notified, Socket, History, TypeOK, CallsOK, SharedOK,
     Locked, AppsOK, Failing, InBound, WakeNotLost, At, Wakes
<1>8. Owing'
  BY <1>1, PaidKept, PaidEmpty DEF KeepsLocals, Notified, Socket, History, TypeOK, CallsOK,
     SharedOK, Owing, InDisconnect
<1> QED
  BY <1>2, <1>3, <1>4, <1>5, <1>6, <1>7, <1>8

\* disconnect() shuts the socket down.
LEMMA ShutdownKeeps ==
  ASSUME IInv, TypeOK', NEW t \in Threads, Shutdown(t)
  PROVE  IInv'
<1> USE DEF IInv
<1>1. /\ UNCHANGED <<queue, offset, writing, disc, wakeup, wire, taken, lock, History>>
      /\ th[t].pc = "shutdown" /\ Moved(t, "return") /\ down'
      /\ responder' = (responder /\ lock # t)
  BY Goes DEF Shutdown, At, TypeOK
<1>2. OneWriter'
  BY <1>1 DEF Moved, History, Alone, KeepsLocals, TypeOK, SharedOK, OneWriter, Writer
<1>3. Locked'
  BY <1>1, NetApart, ThreadsAssumption DEF Moved, History, Alone, KeepsLocals, TypeOK, AppsOK,
     CallsOK, SharedOK, Locked, NetPCs, At
<1>4. Stream'
  BY <1>1, SizesAssumption DEF Moved, History, Alone, KeepsLocals, TypeOK, SharedOK, Stream,
     WireInOrder
<1>5. Failing'
  BY <1>1 DEF Moved, History, Alone, KeepsLocals, TypeOK, CallsOK, SharedOK, Failing, InBound
<1>6. (Past /\ Bounded)'
  BY <1>1, BytesKept, ThreadsAssumption DEF Moved, History, Alone, KeepsLocals, TypeOK, CallsOK,
     SharedOK, Past, Bounded, InBound, Failing, Locked
<1>7. WakeNotLost'
  BY <1>1, NetApart DEF Moved, History, Alone, KeepsLocals, TypeOK, CallsOK, SharedOK, Locked,
     AppsOK, Failing, InBound, WakeNotLost, At, Wakes
<1>8. Owing'
  BY <1>1, PaidKept, PaidEmpty DEF Moved, History, Alone, KeepsLocals, TypeOK, CallsOK,
     SharedOK, Owing, InDisconnect
<1> QED
  BY <1>2, <1>3, <1>4, <1>5, <1>6, <1>7, <1>8

-----------------------------------------------------------------------------
(* The theorems *)

\* An idle connection with nothing queued satisfies the invariant.
LEMMA InitIInv == Init => IInv
<1> SUFFICES ASSUME Init
             PROVE  IInv
  OBVIOUS
<1>1. th = [t \in Threads |-> Fresh("idle")]
  BY DEF Init
<1>2. \A t \in Threads :
        /\ th[t].pc = "idle" /\ th[t].call = "bound" /\ th[t].ok /\ ~th[t].wake /\ ~th[t].last
  BY <1>1 DEF Fresh
<1>3. LocalsOK
  BY <1>1 DEF LocalsOK, Locals, Fresh, PCs
<1>4. TypeOK
  <2>1. AppsOK /\ CallsOK
    BY <1>2, NetApart DEF AppsOK, CallsOK, NetPCs
  <2>2. SharedOK
    <3>1. queue \in Seq(Nat) /\ offset \in 0..Size /\ taken \in Nat /\ sent \in Nat
      BY SizesAssumption DEF Init
    <3>2. lock \in Threads \cup {None} /\ owed \in Nat \cup {None}
      BY DEF Init
    <3> QED
      BY <3>1, <3>2 DEF Init, SharedOK
  <2> QED
    BY <1>3, <2>1, <2>2 DEF TypeOK
<1>5. OneWriter /\ Failing /\ Owing
  BY <1>2 DEF Init, OneWriter, Writer, Failing, InBound, Owing, InDisconnect
<1>6. Locked
  BY <1>2, NetApart, ThreadsAssumption DEF Init, Locked, At
<1>7. Stream
  BY <1>2, SizesAssumption DEF Init, Stream, WireInOrder
<1>8. QueueBytes = 0
  BY SizesAssumption DEF Init, QueueBytes
<1>9. Past /\ Bounded
  BY <1>8, SizesAssumption DEF Past, Bounded
<1>10. WakeNotLost
  BY <1>2, NetApart DEF WakeNotLost, At
<1> QED
  BY <1>4, <1>5, <1>6, <1>7, <1>9, <1>10 DEF IInv

\* Every step keeps it.
LEMMA NextIInv == IInv /\ [Next]_vars => IInv'
<1> SUFFICES ASSUME IInv, [Next]_vars
             PROVE  IInv'
  OBVIOUS
<1>1. TypeOK'
  <2>1. LocalsOK'
    BY LocalsStep DEF IInv, TypeOK
  <2>2. AppsOK'
    BY AppsStep DEF IInv, TypeOK
  <2>3. CallsOK'
    BY CallsStep DEF IInv, TypeOK
  <2>4. SharedOK'
    BY SharedStep DEF IInv
  <2> QED
    BY <2>1, <2>2, <2>3, <2>4 DEF TypeOK
<1>2. CASE NetGoesOn
  BY <1>1, <1>2, PrepareKeeps, PollKeeps, TakeRoleKeeps, MoreKeeps, GiveUpKeeps, QuietKeeps,
     FailedKeeps, DeleteKeeps DEF NetGoesOn
<1>3. CASE StreamDisconnect \/ PeerReads \/ Breaks \/ DeadlinePasses
  BY <1>1, <1>3, StreamDisconnectKeeps, PeerReadsKeeps, BreaksKeeps, DeadlinePassesKeeps
<1>4. ASSUME NEW t \in Threads, Starts(t)
      PROVE  IInv'
  BY <1>1, <1>4, SendKeeps, SessionDisconnectKeeps DEF Starts
<1>5. ASSUME NEW t \in Threads, GoesOn(t)
      PROVE  IInv'
  BY <1>1, <1>5, WokenKeeps, BoundCheckKeeps, ReleaseKeeps, WakeKeeps, ReturnKeeps, FrontKeeps,
     WriteSomeKeeps, WriteFailsKeeps, WriteBlocksKeeps, PopKeeps, DisconnectKeeps, FlushKeeps,
     ShutKeeps, ShutdownKeeps DEF GoesOn
<1>6. CASE UNCHANGED vars
  <2>1. QueueBytes' = QueueBytes /\ Paid' = Paid
    BY <1>6 DEF vars, QueueBytes, Paid
  <2>2. (OneWriter /\ Locked /\ Failing /\ Stream)'
    BY <1>6 DEF vars, IInv, OneWriter, Writer, Locked, At, Failing, InBound, Stream, WireInOrder
  <2>3. (Past /\ Bounded /\ Owing /\ WakeNotLost)'
    BY <1>6, <2>1 DEF vars, IInv, Past, InBound, Bounded, Owing, InDisconnect, WakeNotLost, At
  <2> QED
    BY <1>1, <2>2, <2>3 DEF IInv
<1> QED
  BY <1>2, <1>3, <1>4, <1>5, <1>6 DEF Next

\* The invariant holds in every behaviour.
THEOREM Inductive == Spec => []IInv
<1> QED
  BY InitIInv, NextIInv, PTL DEF Spec

\* With SocketQueuedWrites=Y the socket gets the messages in the order of send(), each whole
\* and once, whichever of the connection's thread, a sender past the bound and a flushing
\* disconnect() writes them.
THEOREM InOrder == Spec => []WireInOrder
<1>1. IInv => WireInOrder
  BY DEF IInv, Stream
<1> QED
  BY <1>1, Inductive, PTL

\* The queue never holds more than the bound and one message, while the socket works.
THEOREM QueueIsBounded == Spec => []Bounded
<1>1. IInv => Bounded
  BY DEF IInv
<1> QED
  BY <1>1, Inductive, PTL

\* The connection's thread never sleeps over a queue for which nobody will wake it.
THEOREM NoWakeLost == Spec => []WakeNotLost
<1>1. IInv => WakeNotLost
  BY DEF IInv
<1> QED
  BY <1>1, Inductive, PTL

\* A connection that is freed is in use by no thread of the application.
THEOREM FreedLast == Spec => []FreedUnused
<1>1. IInv => FreedUnused
  BY NetApart, ThreadsAssumption DEF IInv, Locked, FreedUnused, At
<1> QED
  BY <1>1, Inductive, PTL

\* disconnect() sets m_disconnect only when what was sent before it is on the socket,
\* unless its deadline has passed or the socket has failed.
THEOREM FlushedFirst == Spec => Flushed
<1>1. IInv /\ [Next]_vars =>
        [(disc' /\ ~disc /\ ~late /\ ~down) => Len(wire) >= Size * owed]_vars
  <2> SUFFICES ASSUME IInv, Next, disc', ~disc, ~late, ~down
               PROVE  Len(wire) >= Size * owed
    OBVIOUS
  <2>1. \E t \in Threads : th[t].pc = "shut"
    BY DEF Next, NetGoesOn, Prepare, Poll, TakeRole, More, GiveUp, Quiet, Failed, Delete,
      StreamDisconnect, Begin, PeerReads, Breaks, DeadlinePasses, Starts, Send, SessionDisconnect,
      GoesOn, Woken, BoundCheck, Release, Wake, Return, Front, WriteSome, WriteFails, WriteBlocks,
      Pop, Disconnect, Flush, Shut, Shutdown, At
  <2> QED
    BY <2>1 DEF IInv, Owing, Paid
<1>2. Spec => [][Next]_vars
  BY DEF Spec
<1> QED
  BY <1>1, <1>2, Inductive, PTL DEF Flushed

=============================================================================
