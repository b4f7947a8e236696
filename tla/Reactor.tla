------------------------------ MODULE Reactor ------------------------------
(***************************************************************************)
(* The select transports: one thread that blocks on SocketMonitor and runs *)
(* the callbacks of SocketAcceptor or SocketInitiator, beside application  *)
(* threads that send on a session or disconnect it.                        *)
(*                                                                         *)
(* The state is one record, s, and every method is an operator from a      *)
(* state to a state.  The reactor's thread takes one step per event of a   *)
(* poll pass; the events of a pass are those poll() reported, and go stale *)
(* as the pass goes on.  Descriptors are numbers that the kernel hands out *)
(* again, the lowest free one first; `gen' tells the sockets apart that    *)
(* had the same one.                                                       *)
(***************************************************************************)
EXTENDS Integers, Sequences, FiniteSets, FiniteSetsExt

CONSTANTS
  Roles,         \* "acceptor" and "initiator": the transports of this instance
  Sessions,      \* session identifiers
  MaxFd,         \* descriptors the process may have
  NoConn,        \* no connection has the descriptor
  Unbound,       \* a connection whose session is not known yet
  Disconnecters, \* the roles whose sessions another thread may disconnect
  MaxPending,    \* MaxPendingConnections; 0 for no limit
  MaxMade,       \* bound: sockets created
  MaxQueue,      \* bound: messages waiting in a connection
  MaxPipe        \* bound: wake-ups on their way to the reactor

ASSUME ReactorAssumption ==
  /\ Roles \subseteq {"acceptor", "initiator"} /\ Disconnecters \subseteq Roles
  /\ NoConn \notin Sessions /\ Unbound \notin Sessions \cup {NoConn}
  /\ {MaxFd, MaxPending, MaxMade, MaxQueue, MaxPipe} \subseteq Nat

Fds == 1..MaxFd

VARIABLE s

(***************************************************************************)
(* open, gen and link are the kernel's: link is "connecting", "up",        *)
(* "closed" (the peer's end is), "failed" (reset or refused) or "shut" (by *)
(* us).  reads, connects, writes, dropped and pipe are the monitor's; pass *)
(* is what is left of the events poll() reported; unsig is the connection  *)
(* whose queue onWrite has emptied and not yet unsignalled (0: none).      *)
(* conn and queue are the connections with their send queues, pending the  *)
(* initiator's m_pendingConnections and idle its m_disconnected.           *)
(* responder is Session::m_pResponder (0: none), registered the sessions   *)
(* with a connection, logged those that received a Logon; stopped says     *)
(* Acceptor::stop was called, gone that the reactor has ended.             *)
(***************************************************************************)
InitState(role) ==
  [role |-> role, open |-> {}, gen |-> [f \in Fds |-> 0], link |-> [f \in Fds |-> "closed"],
   reads |-> {}, connects |-> {}, writes |-> {}, dropped |-> <<>>, pipe |-> <<>>,
   pass |-> {}, unsig |-> 0, conn |-> [f \in Fds |-> NoConn], queue |-> [f \in Fds |-> 0],
   pending |-> {}, idle |-> Sessions, responder |-> [x \in Sessions |-> 0],
   registered |-> {}, logged |-> {}, made |-> 0, stopped |-> FALSE, gone |-> FALSE]

Init == \E role \in Roles : s = InitState(role)

Held(t) == t.reads \cup t.connects
Down(t, f) == t.link[f] \in {"closed", "failed", "shut"}

-----------------------------------------------------------------------------
(* SocketMonitor *)

\* The kernel's next descriptor.
Free(t) == Fds \ t.open
NewSocket(t, link) ==
  LET f == Min(Free(t))
  IN [t EXCEPT !.open = @ \cup {f}, !.gen[f] = t.made + 1, !.made = @ + 1, !.link[f] = link,
               !.connects = @ \cup {f}]

\* drop(), called by the reactor's thread, and by another.
DropClosing(t, f) == \* mutant: the descriptor is closed before the drop is reported
  IF f \notin Held(t) THEN t
  ELSE [t EXCEPT !.link[f] = "shut", !.reads = @ \ {f}, !.writes = @ \ {f}, !.connects = @ \ {f},
                 !.dropped = Append(@, [fd |-> f, gen |-> t.gen[f]]), !.open = @ \ {f}]
DropAgain(t, f) == \* mutant: a socket already dropped is dropped again
  [t EXCEPT !.link[f] = "shut", !.reads = @ \ {f}, !.writes = @ \ {f}, !.connects = @ \ {f},
            !.dropped = Append(@, [fd |-> f, gen |-> t.gen[f]])]
Drop(t, f) ==
  IF f \notin Held(t) THEN t
  ELSE [t EXCEPT !.link[f] = "shut", !.reads = @ \ {f}, !.writes = @ \ {f}, !.connects = @ \ {f},
                 !.dropped = Append(@, [fd |-> f, gen |-> t.gen[f]])]
\* (The shutdown of a socket that is still connecting leaves it in error.)
DropFromOutside(t, f) ==
  [t EXCEPT !.link[f] = IF @ \in {"connecting", "failed"} THEN "failed" ELSE "shut"]

AddWrite(t, f) == IF f \in t.reads THEN [t EXCEPT !.writes = @ \cup {f}] ELSE t

-----------------------------------------------------------------------------
(* Sessions and connections *)

\* Session::disconnect, on the reactor's thread.
DisconnectSession(t, x) ==
  IF t.responder[x] = 0 THEN t
  ELSE [Drop(t, t.responder[x]) EXCEPT !.responder[x] = 0, !.logged = @ \ {x}]

\* The destructor of SocketConnection.
Delete(t, f) ==
  [t EXCEPT !.conn[f] = NoConn, !.queue[f] = 0, !.pending = @ \ {f},
            !.registered = @ \ {t.conn[f]}]

\* onDisconnect of SocketAcceptor and of SocketInitiator.
OnDisconnectOnly(t, f) == \* mutant: the session keeps the connection as its responder
  IF t.conn[f] = NoConn THEN t
  ELSE [Delete(t, f) EXCEPT !.idle = @ \cup ({t.conn[f]} \cap Sessions)]
OnDisconnect(t, f) ==
  LET x == t.conn[f]
  IN IF x = NoConn THEN t
     ELSE [Delete(IF x = Unbound THEN t ELSE DisconnectSession(t, x), f) EXCEPT
             !.idle = @ \cup ({x} \cap Sessions)]

\* onError of ServerWrapper and of ConnectorWrapper.
OnErrorUndropped(t, f) == \* mutant: an acceptor's socket stays with the monitor
  IF t.role = "acceptor" THEN OnDisconnect(t, f)
  ELSE IF f \in Held(t) THEN Drop(t, f) ELSE OnDisconnect(t, f)
OnErrorNotified(t, f) == \* mutant: an initiator hears of a drop only where it is made
  IF t.role = "acceptor" THEN Drop(OnDisconnect(t, f), f)
  ELSE IF f \in Held(t) THEN OnDisconnect(Drop(t, f), f) ELSE t
OnError(t, f) ==
  IF t.role = "acceptor" THEN Drop(OnDisconnect(t, f), f)
  ELSE IF f \in Held(t) THEN Drop(t, f) ELSE OnDisconnect(t, f)

\* What read() may do to a connection with a session, and whether it returns true:
\* nothing that matters here, a Logon, a disconnect by the session, or a message
\* that does not parse before the Logon.
ReadSession(t, f) ==
  LET x == t.conn[f]
  IN {<<t, TRUE>>, <<DisconnectSession(t, x), TRUE>>}
       \cup (IF t.responder[x] = f THEN {<<[t EXCEPT !.logged = @ \cup {x}], TRUE>>} ELSE {})
       \cup (IF x \in t.logged THEN {} ELSE {<<Drop(t, f), TRUE>>})

\* The first message of an accepted connection names the session: Acceptor::getSession
\* makes the connection its responder; then it may be refused for its address, or
\* its message not parse, and else the session handles it and is registered.
FindSession(t, f, x) ==
  LET t1 == [t EXCEPT !.conn[f] = x, !.responder[x] = f]
      t2 == [t1 EXCEPT !.registered = @ \cup {x}]
  IN {<<Drop(t1, f), FALSE>>, <<t2, TRUE>>, <<DisconnectSession(t2, x), TRUE>>,
      <<[t2 EXCEPT !.logged = @ \cup {x}], TRUE>>}

\* No complete message; none that names a session without a connection.
ReadUnbound(t, f) ==
  {<<t, TRUE>>, <<Drop(t, f), FALSE>>}
    \cup UNION {FindSession(t, f, x) : x \in Sessions \ t.registered}

\* SocketConnection::read and onData.
ReadAcceptor(t, f) ==
  IF t.conn[f] = NoConn THEN {<<t, FALSE>>}
  ELSE IF Down(t, f) THEN {<<Drop(t, f), FALSE>>}
  ELSE IF t.conn[f] = Unbound THEN ReadUnbound(t, f)
  ELSE ReadSession(t, f) \cup {<<Drop(t, f), FALSE>>}
ReadInitiator(t, f) ==
  IF t.conn[f] = NoConn \/ f \in t.pending \/ Down(t, f) THEN {<<t, FALSE>>}
  ELSE ReadSession(t, f) \cup {<<t, FALSE>>}

-----------------------------------------------------------------------------
(* The reactor's thread *)

Idle(t) == ~t.gone /\ t.pass = {} /\ t.unsig = 0

\* block(): the drops first.  The report is out before the descriptor is closed.
Report ==
  /\ Idle(s) /\ s.dropped # <<>>
  /\ LET f == Head(s.dropped).fd
         t == OnError(s, f)
     IN s' = [t EXCEPT !.dropped = Tail(@), !.open = @ \ {f}]

\* poll(): what is down is always reported, anything else may have something to
\* report.  pollfd entries are in the order of the sets and, in each, of the
\* descriptors, and an error is handled after the entry's other event.  The interrupt
\* and the listener are read sockets whose descriptors may be any, and so come
\* anywhere among the reads.
Entries(set, fs) == [set : {set}, fd : fs, event : {"ready"}]
Errors(set, fs) == [set : {set}, fd : fs, event : {"failed"}]
Before(d, e) ==
  LET place == [interrupt |-> 1, listener |-> 1, reads |-> 1, connects |-> 2, writes |-> 3]
  IN \/ place[d.set] < place[e.set]
     \/ d.set = e.set /\ d.fd < e.fd
     \/ d.set = e.set /\ d.fd = e.fd /\ d.event = "ready" /\ e.event = "failed"
Poll ==
  /\ Idle(s) /\ s.dropped = <<>>
  /\ \E r \in SUBSET s.reads, c \in SUBSET s.connects, w \in SUBSET s.writes, l \in BOOLEAN :
       LET failed(fs) == {f \in fs : s.link[f] = "failed"}
       IN /\ \A f \in r \cup c : s.link[f] # "connecting"
          /\ {f \in s.reads : Down(s, f)} \subseteq r
          /\ {f \in s.connects : Down(s, f)} \subseteq c
          /\ {f \in s.writes : Down(s, f)} \subseteq w
          /\ l => s.role = "acceptor" /\ s.made < MaxMade
          /\ s' = [s EXCEPT !.pass =
                     (IF s.pipe # <<>> THEN Entries("interrupt", {0}) ELSE {})
                       \cup (IF l THEN Entries("listener", {0}) ELSE {})
                       \cup Entries("reads", r) \cup Errors("reads", failed(r))
                       \cup Entries("connects", c) \cup Errors("connects", failed(c))
                       \cup Entries("writes", w) \cup Errors("writes", failed(w))]
          /\ s'.pass # {}

\* processPollList: the next event.
First(e) == e \in s.pass /\ s.unsig = 0 /\ ~s.gone /\ \A d \in s.pass : ~Before(d, e)
Ready(e, sets) == First(e) /\ e.event = "ready" /\ e.set \in sets
Popped(e) == [s EXCEPT !.pass = @ \ {e}]

\* processRead of the interrupt.
Interrupt(e) ==
  Ready(e, {"interrupt"}) /\ s' = AddWrite([Popped(e) EXCEPT !.pipe = Tail(@)], Head(s.pipe))

\* The listener: accept(), and onConnect.  Past MaxPendingConnections the new
\* connection is refused; without a free descriptor accept() fails.
PendingConnections(t) ==
  Cardinality({f \in Fds : t.conn[f] = Unbound \/ t.conn[f] \in Sessions \ t.logged})
Accept(e) ==
  /\ Ready(e, {"listener"})
  /\ IF Free(s) = {} THEN s' = Popped(e)
     ELSE LET f == Min(Free(s))
              t == NewSocket(Popped(e), "up")
          IN s' = IF s.conn[f] # NoConn THEN t
                  ELSE IF MaxPending > 0 /\ PendingConnections(s) >= MaxPending THEN Drop(t, f)
                  ELSE [t EXCEPT !.conn[f] = Unbound]

\* A socket that can be read, or has hung up.
OnEvent(e) ==
  /\ Ready(e, {"reads"})
  /\ \E o \in (IF s.role = "acceptor" THEN ReadAcceptor(Popped(e), e.fd)
               ELSE ReadInitiator(Popped(e), e.fd)) :
       s' = IF o[2] THEN o[1]
            ELSE IF s.role = "acceptor" THEN OnError(o[1], e.fd) ELSE OnDisconnect(o[1], e.fd)

\* processWrite: a socket's first POLLOUT means it is connected, which an initiator's
\* session is told, and its timer runs; any other that its queue can go on.
OnConnect(e) ==
  /\ Ready(e, {"connects", "writes"}) /\ e.fd \in s.connects
  /\ LET f == e.fd
         t == [Popped(e) EXCEPT !.connects = @ \ {f}, !.reads = @ \cup {f}, !.pending = @ \ {f}]
     IN \/ s' = t
        \/ s.conn[f] \in Sessions /\ s' = DisconnectSession(t, s.conn[f])
OnWrite(e) ==
  /\ Ready(e, {"connects", "writes"}) /\ e.fd \notin s.connects
  /\ LET f == e.fd
     IN IF s.conn[f] = NoConn \/ f \in s.pending THEN s' = Popped(e)
        ELSE \E left \in (IF Down(s, f) THEN {s.queue[f]} ELSE 0..s.queue[f]) :
               s' = [Popped(e) EXCEPT !.queue[f] = left, !.unsig = IF left = 0 THEN f ELSE 0]
\* SocketConnection::unsignal takes the connection's lock again.
Unsignal ==
  /\ s.unsig # 0
  /\ s' = [s EXCEPT !.unsig = 0,
                    !.writes = IF s.queue[s.unsig] = 0 THEN @ \ {s.unsig} ELSE @]

OnPollError(e) == First(e) /\ e.event = "failed" /\ s' = OnError(Popped(e), e.fd)

\* Once a second, between two calls of block(): the timers of the sessions, which may
\* disconnect; connections that have not logged on in time; the initiator's connects.
Timer ==
  /\ Idle(s)
  /\ \E f \in Fds \ s.pending :
       s.conn[f] \in Sessions /\ s.responder[s.conn[f]] # 0 /\ s' = DisconnectSession(s, s.conn[f])
Expire ==
  /\ Idle(s) /\ s.role = "acceptor"
  /\ \E f \in Fds :
       (s.conn[f] = Unbound \/ s.conn[f] \in Sessions \ s.logged) /\ s' = Drop(s, f)
Connect ==
  /\ Idle(s) /\ s.role = "initiator" /\ s.made < MaxMade /\ Free(s) # {}
  /\ \E x \in s.idle :
       LET f == Min(Free(s))
       IN s' = [NewSocket(s, "connecting") EXCEPT
                  !.conn[f] = x, !.pending = @ \cup {f}, !.idle = @ \ {x}, !.responder[x] = f]
\* Without a descriptor the session is pending all the same, with a connection that no
\* event finds: it is not connected again.
ConnectInVain ==
  /\ Idle(s) /\ s.role = "initiator"
  /\ \E x \in s.idle : s' = [s EXCEPT !.idle = @ \ {x}]

\* A stopped acceptor leaves its loop: disconnectRemaining, and the destructor of the
\* monitor, which closes what it holds.
GoDown ==
  /\ Idle(s) /\ s.stopped
  /\ s' = [s EXCEPT !.gone = TRUE, !.conn = [f \in Fds |-> NoConn], !.queue = [f \in Fds |-> 0],
                    !.responder = [x \in Sessions |->
                                     IF \E f \in Fds : s.conn[f] = x THEN 0 ELSE s.responder[x]],
                    !.registered = @ \ {s.conn[f] : f \in Fds}, !.logged = {},
                    !.open = (@ \ Held(s)) \ {s.dropped[i].fd : i \in DOMAIN s.dropped},
                    !.reads = {}, !.connects = {}, !.writes = {}, !.dropped = <<>>, !.pipe = <<>>]

-----------------------------------------------------------------------------
(* Other threads, and the peers *)

\* Session::send, on any thread: SocketConnection::send.  signal() wakes the reactor
\* when there is one message in the queue.
SignalledBefore(t, f) == \* mutant: looks for the message before it is queued
  IF t.queue[f] = 0 THEN [t EXCEPT !.pipe = Append(@, f)] ELSE t
Signalled(t, f) == IF t.queue[f] = 1 THEN [t EXCEPT !.pipe = Append(@, f)] ELSE t
Send ==
  \E x \in Sessions :
    LET f == s.responder[x]
    IN /\ f # 0 /\ f \notin s.pending /\ s.queue[f] < MaxQueue
       /\ \E left \in (IF Down(s, f) THEN {s.queue[f] + 1} ELSE 0..(s.queue[f] + 1)) :
            s' = Signalled([s EXCEPT !.queue[f] = left], f)
       /\ Len(s'.pipe) <= MaxPipe

\* Session::disconnect or ::reset on another thread.
Disconnect ==
  /\ s.role \in Disconnecters
  /\ \E x \in Sessions :
       /\ s.responder[x] # 0
       /\ s' = [DropFromOutside(s, s.responder[x]) EXCEPT !.responder[x] = 0, !.logged = @ \ {x}]

\* Acceptor::stop, on another thread: it asks the sessions to log out and unregisters
\* them, whether they have a connection or not.  It sets the flag later, at once or after
\* up to ten seconds; only GoDown looks at it.
Stop ==
  /\ s.role = "acceptor" /\ ~s.stopped
  /\ s' = [s EXCEPT !.stopped = TRUE, !.registered = {}]

\* The network: a connection is made or refused, the peer closes or resets it.
Network ==
  \E f \in s.open :
    \/ s.link[f] = "connecting" /\ \E l \in {"up", "failed"} : s' = [s EXCEPT !.link[f] = l]
    \/ s.link[f] = "up" /\ \E l \in {"closed", "failed"} : s' = [s EXCEPT !.link[f] = l]

Loop ==
  \/ Report \/ Poll \/ Unsignal
  \/ \E e \in s.pass :
       Interrupt(e) \/ Accept(e) \/ OnEvent(e) \/ OnConnect(e) \/ OnWrite(e) \/ OnPollError(e)
Next ==
  \/ Loop \/ Timer \/ Expire \/ Connect \/ ConnectInVain \/ GoDown
  \/ Send \/ Disconnect \/ Stop \/ Network

Spec == Init /\ [][Next]_s
FairSpec == Spec /\ WF_s(Loop)

-----------------------------------------------------------------------------
(* Properties *)

\* A drop that waits to be reported is about the socket that was dropped: its
\* descriptor has not been handed to another connection, which the report would
\* tear down (drop() keeps it open until block() has reported it).
ReportsOwn ==
  \A i \in DOMAIN s.dropped : s.gen[s.dropped[i].fd] = s.dropped[i].gen

\* The monitor holds every open socket in one place, and so closes each exactly
\* once: no descriptor is leaked or closed twice, whoever drops a socket and however
\* often, and when the acceptor goes down none is left.
HeldOnce ==
  LET waiting == {s.dropped[i].fd : i \in DOMAIN s.dropped}
  IN /\ s.open = Held(s) \cup waiting
     /\ Held(s) \cap waiting = {} /\ s.reads \cap s.connects = {}
     /\ Cardinality(waiting) = Len(s.dropped)
     /\ s.writes \subseteq s.reads

\* A session has one connection at a time, although a new one may come in before
\* the old one's end was noticed.  (stop() gives the sessions free at once, and a
\* connection that comes in while it waits for the logouts is a second one.)  Its
\* responder is that connection, as long as it exists: Session::send on another
\* thread never uses one that was deleted, or whose descriptor went to another.
OneConnection ==
  ~s.stopped => \A f, g \in Fds : (s.conn[f] = s.conn[g] /\ s.conn[f] \in Sessions) => f = g
ResponderLive ==
  \A x \in Sessions : s.responder[x] # 0 => s.conn[s.responder[x]] = x
OneLiveConnection == OneConnection /\ ResponderLive

\* The monitor holds no socket that nobody reads: poll() would report it on every
\* call (drop() from outside leaves the socket to the reactor's thread).
NoOrphan == \A f \in Held(s) : s.conn[f] # NoConn

\* What waits in a connection is sent: the socket is in the write set, or a wake-up
\* is on its way, or the socket is gone.
WakeNotLost ==
  \A f \in s.reads :
    s.queue[f] > 0 => f \in s.writes \/ \E i \in DOMAIN s.pipe : s.pipe[i] = f

\* A socket that is down is closed and its connection deleted in the end, so that
\* its session can be connected again: every drop is reported, whoever made it.
Reaped ==
  \A f \in Fds, n \in 1..MaxMade :
    (f \in s.open /\ s.gen[f] = n /\ Down(s, f)) ~> (s.gone \/ s.gen[f] # n
                                                       \/ (f \notin s.open /\ s.conn[f] = NoConn))

=============================================================================
