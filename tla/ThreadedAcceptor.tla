-------------------------- MODULE ThreadedAcceptor --------------------------
(***************************************************************************)
(* ThreadedSocketAcceptor: a thread for each listening socket, a thread    *)
(* for each connection, the thread that start() makes, and the application *)
(* threads that call start() and stop().                                   *)
(*                                                                         *)
(* Sockets are told apart by a serial number; a descriptor is a number     *)
(* that the kernel hands out again as soon as it is closed.  A thread has  *)
(* the serial number of its socket.  The state is one record, s.           *)
(***************************************************************************)
EXTENDS Integers, FiniteSets, FiniteSetsExt

CONSTANTS
  Sessions,    \* session identifiers
  NoSession,   \* no session
  MaxPending,  \* MaxPendingConnections; 0 for no limit
  Tries,       \* how often setSession looks whether the session is free
  Scopes,      \* records [ports, callers, starts, made, fds], the bounds of a behaviour:
               \* ports to listen on, application threads that call stop(), calls of
               \* start(), sockets created, descriptors
  MaxFd,       \* the most descriptors of any scope,
  MaxCaller,   \* the most application threads that call stop(),
  MaxMade,     \* and the most sockets created
  MaxMessages  \* bound: messages a peer sends on a connection

ASSUME ThreadedAcceptorAssumption ==
  /\ NoSession \notin Sessions
  /\ {MaxPending, MaxMessages, MaxFd, MaxCaller, MaxMade} \subseteq Nat /\ Tries \in Nat \ {0}
  /\ \A sc \in Scopes :
       /\ sc.ports \in {1, 2} /\ sc.fds \in sc.ports..MaxFd
       /\ sc.callers \in 0..MaxCaller /\ sc.made \in 0..MaxMade /\ sc.starts \in Nat

Fds == 1..MaxFd
Callers == 1..MaxCaller
Socks == 1..MaxMade

VARIABLE s

(***************************************************************************)
(* The kernel's: open (descriptor -> socket, 0: free), fd (socket ->       *)
(* descriptor), link ("up", "shut" down by onStop, or "disc": m_disconnect *)
(* is set too), made.                                                      *)
(* The acceptor's: m_stop, m_stopping, sockets and threads (m_sockets and  *)
(* m_threads), held (m_mutex is held by onStop), pending                   *)
(* (m_pendingConnections), enabled (its sessions are).  snap and rest are  *)
(* what onStop took from threads and sockets, todo what onStart has still  *)
(* to spawn a thread for.                                                  *)
(* Threads: pc of each, with hand (the socket an accept thread has just    *)
(* accepted), sess, tries, left (messages still to come) and pend (counted *)
(* in pending) of a connection's; starter, and caller for each of Callers. *)
(* Sessions: responder (a socket, 0: none), registered, logged.            *)
(***************************************************************************)
Init ==
  \E sc \in Scopes :
    s = [scope |-> sc, starts |-> 0, made |-> 0, open |-> [f \in Fds |-> 0],
         fd |-> [n \in Socks |-> 0], link |-> [n \in Socks |-> "up"], m_stop |-> TRUE, m_stopping |-> FALSE,
         sockets |-> {}, threads |-> [f \in Fds |-> 0], held |-> FALSE, pending |-> 0,
         enabled |-> TRUE, snap |-> [f \in Fds |-> 0], rest |-> {}, todo |-> {},
         pc |-> [n \in Socks |-> "none"], hand |-> [n \in Socks |-> 0],
         sess |-> [n \in Socks |-> NoSession], tries |-> [n \in Socks |-> 0],
         left |-> [n \in Socks |-> MaxMessages], pend |-> [n \in Socks |-> FALSE],
         starter |-> "none", caller |-> [c \in Callers |-> "idle"],
         responder |-> [x \in Sessions |-> 0], registered |-> {}, logged |-> {}]

Free(t) == {f \in 1..t.scope.fds : t.open[f] = 0}
NewSocket(t) ==
  LET f == Min(Free(t))
  IN [t EXCEPT !.made = @ + 1, !.open[f] = t.made + 1, !.fd[t.made + 1] = f]
Close(t, f) == [t EXCEPT !.open[f] = 0]
Taken(m) == {f \in Fds : m[f] # 0}

-----------------------------------------------------------------------------
(* Starting *)

\* Acceptor::start: onInitialize makes the listeners; then the thread of onStart.
NewListener(t) ==
  LET t1 == NewSocket(t) IN [t1 EXCEPT !.sockets = @ \cup {t1.fd[t1.made]}]
Start ==
  /\ s.starts < s.scope.starts /\ s.made + s.scope.ports <= s.scope.made
  /\ s.m_stop /\ ~s.m_stopping /\ \A c \in Callers : s.caller[c] \in {"idle", "returned"}
  /\ LET t == [s EXCEPT !.m_stop = FALSE, !.starts = @ + 1, !.starter = "copy",
                        !.caller = [c \in Callers |-> "idle"]]
     IN s' = IF s.scope.ports = 1 THEN NewListener(t) ELSE NewListener(NewListener(t))

\* onStart, each section of m_mutex a step.
StartCopy == s.starter = "copy" /\ ~s.held /\ s' = [s EXCEPT !.starter = "spawn", !.todo = s.sockets]
StartSpawn ==
  /\ s.starter = "spawn" /\ ~s.held
  /\ IF s.m_stop \/ s.todo = {} THEN s' = [s EXCEPT !.starter = "done", !.todo = {}]
     ELSE LET f == Min(s.todo)
          IN s' = [s EXCEPT !.todo = @ \ {f}, !.pc[s.open[f]] = "accept", !.threads[f] = s.open[f]]

-----------------------------------------------------------------------------
(* socketAcceptorThread *)

\* accept() returns a connection, or fails: the listener was shut down, or there is
\* no descriptor for it.  Each round of the loop ends with a look at m_stop.
Again == IF s.m_stop THEN "leaving" ELSE "accept"
Accept(n) ==
  /\ s.pc[n] = "accept"
  /\ \/ /\ s.link[n] = "up" /\ Free(s) # {} /\ s.made < s.scope.made
        /\ s' = [NewSocket(s) EXCEPT !.hand[n] = s.made + 1, !.pc[n] = "limit"]
     \/ (s.link[n] # "up" \/ Free(s) = {}) /\ s' = [s EXCEPT !.pc[n] = Again]

CloseHand(t, n) == [Close(t, t.fd[t.hand[n]]) EXCEPT !.hand[n] = 0]

\* MaxPendingConnections.
Limit(n) ==
  /\ s.pc[n] = "limit"
  /\ s' = IF MaxPending > 0 /\ s.pending >= MaxPending
          THEN [CloseHand(s, n) EXCEPT !.pc[n] = Again] ELSE [s EXCEPT !.pc[n] = "register"]

\* Under m_mutex: the thread of the connection is made, which may fail, and kept in
\* m_threads.
Spawned(n) ==
  LET k == s.hand[n]
  IN [s EXCEPT !.hand[n] = 0, !.pc[n] = "accept", !.pc[k] = "read", !.pend[k] = TRUE,
               !.pending = @ + 1, !.threads[s.fd[k]] = k]
RegisterAlways(n) == \* mutant: a stop in between is not noticed
  s.pc[n] = "register" /\ ~s.held /\ s' = Spawned(n)
Register(n) ==
  /\ s.pc[n] = "register" /\ ~s.held
  /\ IF s.m_stop THEN s' = [CloseHand(s, n) EXCEPT !.pc[n] = "leaving"]
     ELSE s' = Spawned(n) \/ s' = [CloseHand(s, n) EXCEPT !.pc[n] = "accept"]

-----------------------------------------------------------------------------
(* Sessions and connections *)

\* ThreadedSocketConnection::disconnect, and Session::disconnect.
Dropped(t, k) == [t EXCEPT !.link[k] = "disc"]
Disconnected(t, x) ==
  LET t1 == [t EXCEPT !.responder[x] = 0, !.logged = @ \ {x}]
  IN IF t.responder[x] = 0 THEN t1 ELSE Dropped(t1, t.responder[x])

\* read() returns: what it left decides whether the connection still counts as one
\* that waits to log on.
Returned(t, k) ==
  IF t.pend[k] /\ t.sess[k] \in t.logged THEN [t EXCEPT !.pend[k] = FALSE, !.pending = @ - 1] ELSE t

\* read() fails on a socket that was shut down; or the peer has closed it, or the
\* connection has not logged on in time.
Failed(k) ==
  [IF s.sess[k] = NoSession THEN Dropped(s, k) ELSE Disconnected(s, s.sess[k]) EXCEPT !.pc[k] = "exit"]
ReadFails(k) ==
  /\ s.pc[k] = "read" /\ s.link[k] # "up"
  /\ s' = IF s.link[k] = "disc" THEN [s EXCEPT !.pc[k] = "exit"] ELSE Failed(k)
ReadEnds(k) ==
  s.pc[k] = "read" /\ (s.link[k] = "up" \/ s.sess[k] \notin s.logged) /\ s' = Failed(k)

\* A message: for a connection without a session, setSession; else the session's.
\* It may log on, disconnect, be invalid before the logon, or call the application,
\* which may call stop() while another thread's is under way.
Message(k) ==
  /\ s.pc[k] = "read" /\ s.left[k] > 0
  /\ LET t == [s EXCEPT !.left[k] = @ - 1]
         x == s.sess[k]
     IN IF x = NoSession THEN s' = [t EXCEPT !.pc[k] = "bind", !.tries[k] = 0]
        ELSE \/ s' = Returned(t, k)
             \/ s.enabled /\ s' = Returned([t EXCEPT !.logged = @ \cup {x}], k)
             \/ s' = Disconnected(t, x)
             \/ x \notin s.logged /\ s' = Dropped(t, k)
             \/ s.m_stopping /\ s' = [t EXCEPT !.pc[k] = "calling"]

\* setSession.  The message names no session; or the session is free, and the
\* connection is refused after all or becomes its responder; or it is not, and is
\* tried again a second later.
Found(k, x) ==
  LET t == [s EXCEPT !.registered = @ \cup {x}, !.sess[k] = x, !.pc[k] = "read"]
  IN s' = Dropped(t, k) \/ s' = [t EXCEPT !.responder[x] = k]
SetSessionAnyway(k) == \* mutant: the session is not looked up among the registered
  s.pc[k] = "bind" /\ \E x \in Sessions : Found(k, x)
SetSession(k) ==
  /\ s.pc[k] = "bind"
  /\ \/ s.tries[k] = 0 /\ s' = [Dropped(s, k) EXCEPT !.pc[k] = "read"]
     \/ \E x \in Sessions :
          IF x \notin s.registered THEN Found(k, x)
          ELSE IF s.tries[k] + 1 < Tries THEN s' = [s EXCEPT !.tries[k] = @ + 1]
          ELSE s' = [Dropped(s, k) EXCEPT !.pc[k] = "read"]

\* The end of socketConnectionThread: the count is given back, the connection deleted.
Given(t, k) == [t EXCEPT !.pend[k] = FALSE, !.pending = @ - 1]
Gone(t, k) ==
  [t EXCEPT !.pc[k] = "leaving", !.sess[k] = NoSession, !.tries[k] = 0, !.left[k] = 0,
            !.registered = @ \ {t.sess[k]}]
Unanswered(t, k) ==
  [t EXCEPT !.responder = [x \in Sessions |-> IF x = t.sess[k] THEN 0 ELSE @[x]]]
DeleteGivesBack(k) == \* mutant: the count is given back a second time
  s.pc[k] = "exit" /\ s' = Gone(Unanswered(Given(s, k), k), k)
Delete(k) ==
  s.pc[k] = "exit" /\ s' = Gone(Unanswered(IF s.pend[k] THEN Given(s, k) ELSE s, k), k)

\* The end of either kind of thread: unless stopped, removeThread.
Leave(n) ==
  s.pc[n] = "leaving" /\ s' = [s EXCEPT !.pc[n] = IF s.m_stop THEN "done" ELSE "remove"]
RemoveThreadClosesFirst(n) == \* mutant: the descriptor is closed before the lock is taken
  /\ s.pc[n] = "remove"
  /\ \/ s.open[s.fd[n]] = n /\ s' = Close(s, s.fd[n])
     \/ s.open[s.fd[n]] # n /\ ~s.held
        /\ s' = [s EXCEPT !.pc[n] = "done", !.threads[s.fd[n]] = 0]
RemoveThread(n) ==
  /\ s.pc[n] = "remove" /\ ~s.held
  /\ LET f == s.fd[n]
         t == [s EXCEPT !.pc[n] = "done"]
     IN s' = IF s.threads[f] = 0 THEN t ELSE [Close(t, f) EXCEPT !.threads[f] = 0]

\* Session::disconnect on another thread.
Disconnect == \E x \in Sessions : s.responder[x] # 0 /\ s' = Disconnected(s, x)

-----------------------------------------------------------------------------
(* Stopping *)

\* Whether a call of stop() that finds one running waits for it: not on a thread that
\* the one running joins.
WaitsAlways(own) == s.m_stopping \* mutant: on any thread
Waits(own) == s.m_stopping /\ ~own
CallReturns(k) == s.pc[k] = "calling" /\ ~Waits(TRUE) /\ s' = Returned([s EXCEPT !.pc[k] = "read"], k)

\* One stop at a time.  The one that runs asks the sessions to log out and unregisters
\* them, whether they have a connection or not; it sets the flag when none is logged on,
\* or ten seconds later.
StopClaim(c) ==
  /\ s.caller[c] = "idle" /\ s.starts > 0 /\ c <= s.scope.callers
  /\ s' = IF s.m_stopping THEN [s EXCEPT !.caller[c] = "waiting"]
          ELSE IF s.m_stop THEN [s EXCEPT !.caller[c] = "returned"]
          ELSE [s EXCEPT !.caller[c] = "flag", !.m_stopping = TRUE, !.enabled = FALSE,
                         !.registered = {}]
StopWaited(c) == s.caller[c] = "waiting" /\ ~Waits(FALSE) /\ s' = [s EXCEPT !.caller[c] = "returned"]
StopFlag(c) == s.caller[c] = "flag" /\ s' = [s EXCEPT !.caller[c] = "lock", !.m_stop = TRUE]

\* onStop: it holds m_mutex for as long as a session is logged on, five seconds at most,
\* and then takes the threads and the listeners.
StopLock(c) == s.caller[c] = "lock" /\ ~s.held /\ s' = [s EXCEPT !.caller[c] = "take", !.held = TRUE]
StopTake(c) ==
  /\ s.caller[c] = "take"
  /\ s' = [s EXCEPT !.caller[c] = "shutdown", !.held = FALSE, !.snap = s.threads,
                    !.threads = [f \in Fds |-> 0], !.sockets = {},
                    !.rest = {f \in s.sockets : s.threads[f] = 0}]
Shut(t, ns) ==
  [t EXCEPT !.link = [n \in Socks |-> IF n \in ns /\ @[n] = "up" THEN "shut" ELSE @[n]]]
StopShutdownCloses(c) == \* mutant: a socket is closed to wake its thread
  /\ s.caller[c] = "shutdown"
  /\ s' = [Shut(s, {s.open[f] : f \in Taken(s.snap)}) EXCEPT
             !.caller[c] = "join", !.open = [f \in Fds |-> IF s.snap[f] # 0 THEN 0 ELSE @[f]]]
StopShutdown(c) ==
  /\ s.caller[c] = "shutdown"
  /\ s' = [Shut(s, {s.open[f] : f \in Taken(s.snap)}) EXCEPT !.caller[c] = "join"]
StopJoin(c) ==
  /\ s.caller[c] = "join" /\ Taken(s.snap) # {}
  /\ LET f == Min(Taken(s.snap))
     IN s.pc[s.snap[f]] = "done" /\ s' = [Close(s, f) EXCEPT !.snap[f] = 0]
StopListeners(c) ==
  /\ s.caller[c] = "join" /\ Taken(s.snap) = {}
  /\ s' = [s EXCEPT !.caller[c] = "starter", !.rest = {},
                    !.open = [f \in Fds |-> IF f \in s.rest THEN 0 ELSE @[f]]]
\* The thread of onStart is joined last; then the sessions may log on again.
StopRelease(c) ==
  /\ s.caller[c] = "starter" /\ s.starter \in {"done", "none"}
  /\ s' = [s EXCEPT !.caller[c] = "returned", !.starter = "none", !.enabled = TRUE,
                    !.m_stopping = FALSE]

Stopping(c) ==
  \/ StopWaited(c) \/ StopFlag(c) \/ StopLock(c) \/ StopTake(c)
  \/ StopShutdown(c) \/ StopJoin(c) \/ StopListeners(c) \/ StopRelease(c)
Starting == StartCopy \/ StartSpawn
Listening(n) == Accept(n) \/ Limit(n) \/ Register(n)
Serving(n) == ReadFails(n) \/ SetSession(n) \/ CallReturns(n) \/ Delete(n)
Ending(n) == Leave(n) \/ RemoveThread(n)

Next ==
  \/ Start \/ Starting \/ Disconnect
  \/ \E n \in Socks : Listening(n) \/ Serving(n) \/ Message(n) \/ ReadEnds(n) \/ Ending(n)
  \/ \E c \in Callers : StopClaim(c) \/ Stopping(c)

Spec == Init /\ [][Next]_s

\* Every thread is scheduled, a call that blocks returns when what it waits for has
\* happened, and the waits for a logout are bounded by the clock.  Nobody has to call
\* stop(), and no peer to send anything.
FairSpec ==
  /\ Spec /\ WF_s(Starting)
  /\ \A n \in Socks : WF_s(Listening(n)) /\ WF_s(Serving(n)) /\ WF_s(Ending(n))
  /\ \A c \in Callers : WF_s(Stopping(c))

-----------------------------------------------------------------------------
(* Properties *)

Alive == {n \in Socks : s.pc[n] \notin {"none", "done"}}
Connections == {n \in Socks : s.pc[n] \in {"read", "bind", "calling", "exit"}}

\* The descriptor of a thread that has not ended is its own socket, and so is each
\* one that m_threads names or onStop has still to close: none is closed, by number,
\* under a thread that uses it, nor a socket that was given the number since.
OwnDescriptor ==
  /\ \A n \in Alive : s.open[s.fd[n]] = n
  /\ \A f \in Fds : s.threads[f] # 0 => s.open[f] = s.threads[f]
  /\ \A f \in Fds : s.snap[f] # 0 => s.open[f] = s.snap[f]

\* Every open socket has exactly one owner that will close it: m_threads, an onStop
\* that took it from there, the listeners without a thread, or the thread that has
\* just accepted it.
OneOwner ==
  \A f \in Fds :
    Cardinality({o \in {"threads", "snap", "listener", "hand"} :
      CASE o = "threads"  -> s.threads[f] # 0
        [] o = "snap"     -> s.snap[f] # 0
        [] o = "listener" -> f \in s.sockets \cup s.rest /\ s.threads[f] = 0 /\ s.snap[f] = 0
        [] o = "hand"     -> \E n \in Socks : s.hand[n] # 0 /\ s.fd[s.hand[n]] = f})
      = IF s.open[f] = 0 THEN 0 ELSE 1

\* When stop() has returned, on whichever thread it was called, no thread of the
\* acceptor is left and no socket open, no connection counts as pending and no
\* session has a responder: the acceptor may be destroyed or started again.
StopComplete ==
  (s.m_stop /\ ~s.m_stopping) =>
    /\ Alive = {} /\ s.starter = "none" /\ Taken(s.open) = {}
    /\ s.pending = 0 /\ s.registered = {} /\ \A x \in Sessions : s.responder[x] = 0

\* A session has one connection, until a stop gives the sessions free, although others
\* wait for it in setSession; and its responder is a connection that exists, with its
\* socket open: no send goes to one that was deleted or has another's descriptor.
OneConnection ==
  s.enabled => \A j, k \in Connections : (s.sess[j] = s.sess[k] /\ s.sess[j] # NoSession) => j = k
ResponderLive ==
  \A x \in Sessions :
    s.responder[x] # 0 => s.responder[x] \in Connections /\ s.open[s.fd[s.responder[x]]] = s.responder[x]
OneLiveConnection == OneConnection /\ ResponderLive

\* The connections that wait to log on are bounded: the limit is looked up before the
\* lock is taken, so each further port may let one more in.  None is counted twice or
\* forgotten.
PendingBounded ==
  /\ s.pending = Cardinality({k \in Connections : s.pend[k]})
  /\ MaxPending > 0 => s.pending <= MaxPending + s.scope.ports - 1

\* stop() returns, although connections come in, threads end and the application calls
\* stop() from its callbacks and from other threads meanwhile.
StopReturns == \A c \in Callers : (s.caller[c] # "idle") ~> (s.caller[c] \in {"returned", "idle"})

=============================================================================
