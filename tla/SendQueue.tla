----------------------------- MODULE SendQueue -----------------------------
(***************************************************************************)
(* The outgoing side of one threaded connection with SocketQueuedWrites=Y: *)
(* src/C++/ThreadedSocketConnection.cpp.  send() queues a message and      *)
(* wakes the connection's own thread, which writes the queue without       *)
(* blocking; a sender past the bound writes it down itself; disconnect()   *)
(* flushes it and shuts the socket down.  One of them at a time holds the  *)
(* writer's role, m_writing.                                               *)
(*                                                                         *)
(* A section under m_sendMutex is one step, as is one socket_send with the *)
(* note of its offset, which only the writer reads.  Message i is the      *)
(* units (i - 1) * Size + 1 .. i * Size of the stream.                     *)
(***************************************************************************)
EXTENDS Naturals, Sequences, FiniteSets

CONSTANTS
  Apps,       \* application threads
  Net,        \* the connection's thread
  None,       \* no thread
  Size,       \* units in a message
  Limit,      \* SEND_QUEUE_LIMIT, in units
  Buffer,     \* units the socket takes before it would block
  MaxMessages \* bound: messages sent

ASSUME ThreadsAssumption == Net \notin Apps /\ None \notin Apps \cup {Net} \cup Nat
ASSUME SizesAssumption ==
  Size \in Nat \ {0} /\ Limit \in Nat /\ Buffer \in Nat \ {0} /\ MaxMessages \in Nat

Threads == Apps \cup {Net}

VARIABLES
  queue,     \* m_sendQueue
  offset,    \* m_sendOffset
  writing,   \* m_writing
  disc,      \* m_disconnect
  wakeup,    \* the eventfd m_wakeFd is readable
  down,      \* the socket is shut down, by either end
  wire,      \* the units the socket has taken
  taken,     \* how many of them the peer has read
  lock,      \* the thread that holds Session::m_mutex
  responder, \* the session's m_pResponder is this connection
  th,        \* the threads: where each is, and its local variables
  sent,      \* messages given to send()
  owed,      \* messages given to send() when the first disconnect() began
  late       \* the deadline of a disconnect() has passed

vars == <<queue, offset, writing, disc, wakeup, down, wire, taken, lock, responder,
          th, sent, owed, late>>

\* Units queued, m_sendQueueBytes, and units the socket still takes.
QueueBytes == Size * Len(queue)
Room == Buffer - (Len(wire) - taken)

-----------------------------------------------------------------------------
(* Threads *)

\* A thread at pc, outside every call: its local variables have no meaning yet.
Fresh(pc) ==
  [pc |-> pc, call |-> "bound", front |-> 0, ok |-> TRUE, progress |-> FALSE,
   wake |-> FALSE, queued |-> FALSE, flush |-> FALSE, last |-> FALSE]
At(t, pc) == th[t].pc = pc
Go(t, pc) == th' = [th EXCEPT ![t].pc = pc]

\* notify_all of m_sendSpace, in the step of thread t to pc.
GoNotifying(t, pc) ==
  th' = [u \in Threads |-> IF u = t THEN [th[u] EXCEPT !.pc = pc]
                           ELSE IF th[u].pc = "wait" THEN [th[u] EXCEPT !.pc = "woken"]
                           ELSE th[u]]

\* The caller gives Session::m_mutex back if it took it.
Unlock(t) == lock' = IF lock = t THEN None ELSE lock

Socket == <<down, wire, taken>>
History == <<sent, owed, late>>

-----------------------------------------------------------------------------
(* send() *)

BoundUnwaiting(q, d) == \* mutant: queues past the bound while another thread writes
  IF Size * Len(q) <= Limit \/ d \/ writing THEN "wake" ELSE "bound"
\* The loop of sendQueued() past the bound, in a section that leaves q queued and
\* the disconnect flag at d: wait for the writer, become the writer, or go on.
Bound(q, d) ==
  IF Size * Len(q) <= Limit \/ d THEN "wake" ELSE IF writing THEN "wait" ELSE "bound"

WakesPushed(q) == Append(q, 0) = <<>> \* mutant: looks after the push
\* Whether a message pushed on q wakes the connection's thread.
Wakes(q) == q = <<>>

Send(t) ==
  /\ At(t, "idle") \/ At(t, "timer")
  /\ lock = None /\ responder /\ sent < MaxMessages
  /\ LET q == Append(queue, sent + 1)
         pc == IF disc THEN "return" ELSE Bound(q, FALSE)
     IN /\ queue' = IF disc THEN queue ELSE q
        /\ writing' = (writing \/ pc = "bound")
        /\ th' = [th EXCEPT ![t].pc = pc, ![t].call = "bound", ![t].ok = TRUE,
                            ![t].wake = ~disc /\ Wakes(queue)]
        /\ sent' = IF disc THEN sent ELSE sent + 1
  /\ lock' = t
  /\ UNCHANGED <<offset, disc, wakeup, responder, Socket, owed, late>>

\* The wait's predicate is looked at again after a notify_all.
Woken(t) ==
  /\ At(t, "woken")
  /\ IF writing /\ QueueBytes > Limit /\ ~disc THEN Go(t, "wait") /\ UNCHANGED writing
     ELSE /\ Go(t, Bound(queue, disc))
          /\ writing' = (writing \/ Bound(queue, disc) = "bound")
  /\ UNCHANGED <<queue, offset, disc, wakeup, Socket, lock, responder, History>>

\* The writer past the bound, between two messages.
BoundCheck(t) ==
  /\ At(t, "bound")
  /\ Go(t, IF QueueBytes <= Limit \/ disc THEN "release" ELSE "front")
  /\ UNCHANGED <<queue, offset, writing, disc, wakeup, Socket, lock, responder, History>>

Release(t) ==
  /\ At(t, "release")
  /\ LET pc == IF ~th[t].ok THEN "return"
               ELSE IF QueueBytes <= Limit \/ disc THEN "wake" ELSE "bound"
     IN writing' = (pc = "bound") /\ GoNotifying(t, pc)
  /\ UNCHANGED <<queue, offset, disc, wakeup, Socket, lock, responder, History>>

Wake(t) ==
  /\ At(t, "wake") /\ Go(t, "return")
  /\ wakeup' = (wakeup \/ th[t].wake)
  /\ UNCHANGED <<queue, offset, writing, disc, Socket, lock, responder, History>>

Return(t) ==
  /\ At(t, "return") /\ Unlock(t)
  /\ th' = [th EXCEPT ![t] = Fresh(IF th[t].last THEN "end" ELSE IF t = Net THEN "timer" ELSE "idle")]
  /\ UNCHANGED <<queue, offset, writing, disc, wakeup, Socket, responder, History>>

-----------------------------------------------------------------------------
(* writeFront(), with the writer's role *)

\* Where writeFront() returns to in its caller.
After(t, ok, progress) ==
  CASE th[t].call = "bound" -> IF ok THEN "bound" ELSE "release"
    [] th[t].call = "queue" -> IF ok /\ progress THEN "more" ELSE "giveUp"
    [] th[t].call = "flush" -> IF ok /\ progress THEN "flush" ELSE "shut"

WriteReturns(t, ok, progress) ==
  th' = [th EXCEPT ![t].pc = After(t, ok, progress), ![t].ok = ok]

Front(t) ==
  /\ At(t, "front")
  /\ IF queue = <<>> \/ disc THEN WriteReturns(t, ~disc, FALSE)
     ELSE th' = [th EXCEPT ![t].pc = "write", ![t].front = Head(queue), ![t].progress = FALSE]
  /\ UNCHANGED <<queue, offset, writing, disc, wakeup, Socket, lock, responder, History>>

\* One socket_send: it fails, takes some of the message, or would block.
WriteSome(t) ==
  /\ At(t, "write") /\ ~down /\ Room > 0 /\ offset < Size
  /\ \E k \in 1..Size :
       /\ k <= Room /\ k <= Size - offset /\ offset' = offset + k
       /\ wire' = wire \o [i \in 1..k |-> (th[t].front - 1) * Size + offset + i]
  /\ th' = [th EXCEPT ![t].progress = TRUE, ![t].pc = IF offset' = Size THEN "pop" ELSE "write"]
  /\ UNCHANGED <<queue, writing, disc, wakeup, down, taken, lock, responder, History>>
WriteFails(t) ==
  /\ At(t, "write") /\ down
  /\ WriteReturns(t, FALSE, FALSE)
  /\ UNCHANGED <<queue, offset, writing, disc, wakeup, Socket, lock, responder, History>>
WriteBlocksUntimed(t) == \* mutant: a flush waits for the peer however long it takes
  /\ At(t, "write") /\ ~down /\ Room = 0
  /\ \/ th[t].call = "queue" /\ WriteReturns(t, TRUE, th[t].progress)
     \/ th[t].call # "queue" /\ disc /\ WriteReturns(t, FALSE, FALSE)
  /\ UNCHANGED <<queue, offset, writing, disc, wakeup, Socket, lock, responder, History>>
WriteBlocks(t) ==
  /\ At(t, "write") /\ ~down /\ Room = 0
  /\ \/ /\ th[t].call = "queue" \/ (th[t].call = "flush" /\ late)
        /\ WriteReturns(t, TRUE, th[t].progress)
     \/ /\ th[t].call # "queue" /\ disc
        /\ WriteReturns(t, FALSE, FALSE)
  /\ UNCHANGED <<queue, offset, writing, disc, wakeup, Socket, lock, responder, History>>

Pop(t) ==
  /\ At(t, "pop")
  /\ queue' = Tail(queue) /\ offset' = 0
  /\ GoNotifying(t, After(t, TRUE, TRUE))
  /\ UNCHANGED <<writing, disc, wakeup, Socket, lock, responder, History>>

-----------------------------------------------------------------------------
(* The connection's thread: pollQueued() and writeQueued() *)

Prepare ==
  /\ At(Net, "idle")
  /\ th' = [th EXCEPT ![Net].pc = "poll", ![Net].queued = queue # <<>>]
  /\ UNCHANGED <<queue, offset, writing, disc, wakeup, Socket, lock, responder, History>>

\* poll() returns, with something to do or after a second; what the peer sent
\* before the socket went down is still read.
Poll ==
  /\ At(Net, "poll") /\ wakeup' = FALSE
  /\ Go(Net, "role") \/ (down /\ Go(Net, "failed"))
  /\ UNCHANGED <<queue, offset, writing, disc, Socket, lock, responder, History>>

TakeRoleRegardless == \* mutant: writes while another thread does
  /\ At(Net, "role")
  /\ writing' = TRUE /\ th' = [th EXCEPT ![Net].pc = "more", ![Net].call = "queue", ![Net].ok = TRUE]
  /\ UNCHANGED <<queue, offset, disc, wakeup, Socket, lock, responder, History>>
TakeRole ==
  /\ At(Net, "role")
  /\ IF writing THEN Go(Net, "timer") /\ UNCHANGED writing
     ELSE /\ writing' = TRUE
          /\ th' = [th EXCEPT ![Net].pc = "more", ![Net].call = "queue", ![Net].ok = TRUE]
  /\ UNCHANGED <<queue, offset, disc, wakeup, Socket, lock, responder, History>>

More ==
  /\ At(Net, "more")
  /\ Go(Net, IF queue # <<>> /\ ~disc THEN "front" ELSE "giveUp")
  /\ UNCHANGED <<queue, offset, writing, disc, wakeup, Socket, lock, responder, History>>

GiveUpKeeping == \* mutant: a writer that fails keeps the role
  /\ At(Net, "giveUp") /\ writing' = ~th[Net].ok
  /\ GoNotifying(Net, IF th[Net].ok THEN "timer" ELSE "failed")
  /\ UNCHANGED <<queue, offset, disc, wakeup, Socket, lock, responder, History>>
GiveUp ==
  /\ At(Net, "giveUp") /\ writing' = FALSE
  /\ GoNotifying(Net, IF th[Net].ok THEN "timer" ELSE "failed")
  /\ UNCHANGED <<queue, offset, disc, wakeup, Socket, lock, responder, History>>

\* The session's timer and the messages read have nothing to send.
Quiet ==
  /\ At(Net, "timer") /\ th' = [th EXCEPT ![Net] = Fresh("idle")]
  /\ UNCHANGED <<queue, offset, writing, disc, wakeup, Socket, lock, responder, History>>

\* read() fails: it returns false at once if the connection was disconnected.
Failed ==
  /\ At(Net, "failed") /\ (disc \/ ~responder) /\ Go(Net, "end")
  /\ UNCHANGED <<queue, offset, writing, disc, wakeup, Socket, lock, responder, History>>

DeleteUnlocked == \* mutant: frees the connection under a sender
  /\ At(Net, "end")
  /\ responder' = FALSE /\ Go(Net, "gone")
  /\ UNCHANGED <<queue, offset, writing, disc, wakeup, Socket, lock, History>>
\* The destructor takes the responder away and frees the connection.
Delete ==
  /\ At(Net, "end") /\ lock = None
  /\ responder' = FALSE /\ Go(Net, "gone")
  /\ UNCHANGED <<queue, offset, writing, disc, wakeup, Socket, lock, History>>

-----------------------------------------------------------------------------
(* disconnect() *)

Begin(t, last) ==
  /\ th' = [th EXCEPT ![t].pc = "disconnect", ![t].last = last, ![t].flush = FALSE]
  /\ owed' = IF owed = None THEN sent ELSE owed
  /\ UNCHANGED <<queue, offset, writing, disc, wakeup, Socket, responder, sent, late>>

\* Session::disconnect, of any thread: the connection's own runs it in the session's
\* timer and messages, and it is the last call when the setup expires or a read fails.
SessionDisconnect(t) ==
  /\ At(t, "idle") \/ At(t, "timer") \/ (At(t, "failed") /\ ~disc)
  /\ lock = None /\ responder /\ lock' = t
  /\ Begin(t, t = Net /\ ~At(t, "timer"))

\* processStream, for a message that is not valid before the Logon.
StreamDisconnect ==
  /\ At(Net, "timer") /\ UNCHANGED lock
  /\ Begin(Net, FALSE)

\* It waits for the writer until the deadline, then takes the role to flush.
DisconnectUnwaiting(t) == \* mutant: leaves what another writer holds
  /\ At(t, "disconnect")
  /\ LET flush == ~disc /\ ~writing /\ queue # <<>>
     IN /\ writing' = (writing \/ flush)
        /\ th' = [th EXCEPT ![t].pc = IF flush THEN "flush" ELSE "shut",
                            ![t].flush = flush, ![t].call = "flush"]
  /\ UNCHANGED <<queue, offset, disc, wakeup, Socket, lock, responder, History>>
Disconnect(t) ==
  /\ At(t, "disconnect") /\ (disc \/ ~writing \/ late)
  /\ LET flush == ~disc /\ ~writing /\ queue # <<>>
     IN /\ writing' = (writing \/ flush)
        /\ th' = [th EXCEPT ![t].pc = IF flush THEN "flush" ELSE "shut",
                            ![t].flush = flush, ![t].call = "flush"]
  /\ UNCHANGED <<queue, offset, disc, wakeup, Socket, lock, responder, History>>

Flush(t) ==
  /\ At(t, "flush")
  /\ \/ (queue = <<>> \/ disc \/ late) /\ Go(t, "shut")
     \/ queue # <<>> /\ ~disc /\ Go(t, "front")
  /\ UNCHANGED <<queue, offset, writing, disc, wakeup, Socket, lock, responder, History>>

Shut(t) ==
  /\ At(t, "shut") /\ disc' = TRUE
  /\ writing' = (writing /\ ~th[t].flush)
  /\ GoNotifying(t, "shutdown")
  /\ UNCHANGED <<queue, offset, wakeup, Socket, lock, responder, History>>

Shutdown(t) ==
  /\ At(t, "shutdown") /\ down' = TRUE /\ Go(t, "return")
  /\ responder' = (responder /\ lock # t)
  /\ UNCHANGED <<queue, offset, writing, disc, wakeup, wire, taken, lock, History>>

-----------------------------------------------------------------------------
(* The environment *)

PeerReads ==
  /\ taken < Len(wire) /\ taken' = taken + 1
  /\ UNCHANGED <<queue, offset, writing, disc, wakeup, down, wire, lock, responder, th, History>>

\* The peer closes, or the transport's onStop shuts the socket down.
Breaks ==
  /\ ~down /\ down' = TRUE
  /\ UNCHANGED <<queue, offset, writing, disc, wakeup, wire, taken, lock, responder, th, History>>

DeadlinePasses ==
  /\ ~late /\ \E t \in Threads : th[t].pc \in {"disconnect", "flush", "front", "write"}
  /\ owed # None /\ late' = TRUE
  /\ UNCHANGED <<queue, offset, writing, disc, wakeup, Socket, lock, responder, th, sent, owed>>

\* What a thread starts, and what it has begun and goes on with.
Starts(t) == Send(t) \/ SessionDisconnect(t)
GoesOn(t) ==
  \/ Woken(t) \/ BoundCheck(t) \/ Release(t) \/ Wake(t) \/ Return(t)
  \/ Front(t) \/ WriteSome(t) \/ WriteFails(t) \/ WriteBlocks(t) \/ Pop(t)
  \/ Disconnect(t) \/ Flush(t) \/ Shut(t) \/ Shutdown(t)
NetGoesOn == Prepare \/ Poll \/ TakeRole \/ More \/ GiveUp \/ Quiet \/ Failed \/ Delete

Init ==
  /\ queue = <<>> /\ offset = 0 /\ writing = FALSE /\ disc = FALSE /\ wakeup = FALSE
  /\ down = FALSE /\ wire = <<>> /\ taken = 0 /\ lock = None /\ responder = TRUE
  /\ th = [t \in Threads |-> Fresh("idle")]
  /\ sent = 0 /\ owed = None /\ late = FALSE

Next ==
  \/ NetGoesOn \/ StreamDisconnect \/ PeerReads \/ Breaks \/ DeadlinePasses
  \/ \E t \in Threads : Starts(t) \/ GoesOn(t)

Spec == Init /\ [][Next]_vars

\* Threads run and time passes; no call need be made, and the peer need not read.
FairSpec ==
  /\ Spec /\ WF_vars(NetGoesOn \/ GoesOn(Net)) /\ \A t \in Apps : WF_vars(GoesOn(t))
  /\ WF_vars(DeadlinePasses)

-----------------------------------------------------------------------------
(* Properties *)

\* The bytes on the socket are the messages in the order of send(), each whole and once:
\* of the connection's thread in writeQueued(), a sender past the bound and a flushing
\* disconnect() no two write, and none goes on from a stale m_sendOffset.
WireInOrder == \A i \in DOMAIN wire : wire[i] = i

\* send() wakes the connection's thread for an empty queue only, so that thread never sleeps
\* in poll() without POLLOUT over a queue nobody will wake it for.
WakeNotLost ==
  (At(Net, "poll") /\ ~th[Net].queued /\ ~wakeup /\ queue # <<>> /\ ~disc /\ ~down)
    => \E t \in Apps : th[t].wake /\ ~At(t, "idle") /\ ~At(t, "return")

\* A sender past SEND_QUEUE_LIMIT writes the queue down before it returns, so the queue
\* holds one message more than the bound at most, while the socket works.
Bounded == QueueBytes <= Limit + Size \/ down

\* ~ThreadedSocketConnection takes the responder away under the session's lock: no thread
\* is in send() or disconnect() of a connection that is freed.
FreedUnused == At(Net, "gone") => (lock = None /\ \A t \in Apps : At(t, "idle"))

\* disconnect() puts what was sent before it on the socket before it sets m_disconnect,
\* unless the deadline has passed or the socket has failed.
Flushed == [][(disc' /\ ~disc /\ ~late /\ ~down) => Len(wire) >= Size * owed]_vars

Sending(t) ==
  \/ th[t].pc \in {"wait", "woken", "bound", "release", "wake"}
  \/ (th[t].pc \in {"front", "write", "pop"} /\ th[t].call = "bound")
Disconnecting(t) ==
  \/ th[t].pc \in {"disconnect", "flush", "shut", "shutdown"}
  \/ (th[t].pc \in {"front", "write", "pop"} /\ th[t].call = "flush")

\* send() returns as long as the peer goes on reading, whoever has the writer's role.
SendReturns ==
  WF_vars(PeerReads) => \A t \in Threads : Sending(t) ~> At(t, "return")

\* disconnect() returns even if the peer has stopped reading.
DisconnectReturns == \A t \in Threads : Disconnecting(t) ~> At(t, "return")

=============================================================================
