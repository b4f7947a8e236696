--------------------------- MODULE ReactorProofs ---------------------------
(***************************************************************************)
(* Proofs about Reactor, for any number of descriptors, sessions, sockets  *)
(* and messages.                                                           *)
(*                                                                         *)
(* The methods are operators from states to states, and so the invariant   *)
(* is a predicate of a state: a lemma for each method says that it keeps   *)
(* it, and a step, which calls several of them, keeps it for that reason.  *)
(***************************************************************************)
EXTENDS Reactor, SequenceTheorems, FiniteSetTheorems, WellFoundedInduction, TLAPS

-----------------------------------------------------------------------------
(* The invariant *)

Fields ==
  {"role", "open", "gen", "link", "reads", "connects", "writes", "dropped", "pipe", "pass",
   "unsig", "conn", "queue", "pending", "idle", "responder", "registered", "logged", "made",
   "stopped", "gone"}
Polled == {"reads", "connects", "writes"}
Events ==
  [set : {"interrupt", "listener"}, fd : {0}, event : {"ready"}]
    \cup [set : Polled, fd : Fds, event : {"ready", "failed"}]
Drops == [fd : Fds, gen : Nat]

SocketsOK(t) ==
  /\ t.open \in SUBSET Fds /\ t.gen \in [Fds -> Nat] /\ t.made \in Nat
  /\ t.reads \in SUBSET Fds /\ t.connects \in SUBSET Fds /\ t.writes \in SUBSET Fds
  /\ t.dropped \in Seq(Drops)
LoopOK(t) ==
  /\ t.pipe \in Seq(Fds) /\ t.pass \in SUBSET Events /\ t.unsig \in 0..MaxFd
  /\ t.role \in {"acceptor", "initiator"} /\ t.stopped \in BOOLEAN /\ t.gone \in BOOLEAN
ConnsOK(t) ==
  /\ t.conn \in [Fds -> Sessions \cup {NoConn, Unbound}] /\ t.queue \in [Fds -> Nat]
  /\ t.pending \in SUBSET Fds /\ t.idle \in SUBSET Sessions
  /\ t.responder \in [Sessions -> 0..MaxFd]
  /\ t.registered \in SUBSET Sessions /\ t.logged \in SUBSET Sessions
Types(t) == DOMAIN t = Fields /\ SocketsOK(t) /\ LoopOK(t) /\ ConnsOK(t)

\* The monitor holds a socket in one of its sets until it is dropped, and in the queue
\* of drops until it is closed.
Waiting(t) == {t.dropped[i].fd : i \in DOMAIN t.dropped}
Tidy(t) ==
  /\ t.open = Held(t) \cup Waiting(t) /\ Held(t) \cap Waiting(t) = {}
  /\ t.reads \cap t.connects = {} /\ t.writes \subseteq t.reads
  /\ \A i, j \in DOMAIN t.dropped : t.dropped[i].fd = t.dropped[j].fd => i = j
  /\ \A i \in DOMAIN t.dropped : t.gen[t.dropped[i].fd] = t.dropped[i].gen

\* A connection has an open socket and a session no other has; a session's responder
\* is its connection.  A session that has a connection is not idle (an initiator's).
Bound(t) ==
  /\ \A f \in Fds : t.conn[f] # NoConn => f \in t.open
  /\ \A x \in Sessions : t.responder[x] # 0 => t.conn[t.responder[x]] = x
  /\ ~t.stopped => \A f, g \in Fds : (t.conn[f] = t.conn[g] /\ t.conn[f] \in Sessions) => f = g
  /\ t.role = "initiator" => ~t.stopped /\ \A f \in Fds : t.conn[f] # Unbound /\ t.conn[f] \notin t.idle

\* An acceptor's session that has a connection is registered, but for the one that
\* getSession has only just found.
Registered(t, found) ==
  t.role = "acceptor" /\ ~t.stopped =>
    \A f \in Fds \ {found} : t.conn[f] \in Sessions => t.conn[f] \in t.registered

\* An event that is still to be handled is about a socket that was connected when it
\* was reported, and has not been closed since.
Passing(t) ==
  /\ \A e \in t.pass : e.set = "reads" => e.fd \in t.open /\ e.fd \notin t.connects
  /\ \A e \in t.pass : e.set = "interrupt" => t.pipe # <<>>
  /\ \A e \in t.pass : e.set = "listener" => t.role = "acceptor"

\* Nothing is queued on a socket that is not connected yet, nor without a connection;
\* what is queued on one that is will be written.
Waking(t) ==
  /\ \A f \in t.connects : t.queue[f] = 0 /\ \A x \in Sessions : t.responder[x] = f => f \in t.pending
  /\ \A f \in Fds : t.conn[f] = NoConn => t.queue[f] = 0
  /\ \A f \in t.reads : t.queue[f] > 0 => f \in t.writes \/ \E i \in DOMAIN t.pipe : t.pipe[i] = f

Core(t) == Types(t) /\ Tidy(t) /\ Bound(t) /\ Passing(t) /\ Waking(t)

\* The monitor holds no socket without a connection.  An initiator's is dropped with its
\* connection only because it is its session's responder, which another thread's
\* disconnect() changes.
Attended(t) ==
  /\ t.role = "acceptor" => \A f \in Held(t) : t.conn[f] # NoConn
  /\ t.role = "initiator" /\ "initiator" \notin Disconnecters =>
       \A f \in Held(t) : t.conn[f] \in Sessions /\ t.responder[t.conn[f]] = f

Good(t) == Core(t) /\ Registered(t, 0) /\ Attended(t)
IInv == Good(s)

-----------------------------------------------------------------------------
(* What two states have in common *)

SameSockets(t, u) ==
  /\ u.open = t.open /\ u.gen = t.gen /\ u.made = t.made /\ u.reads = t.reads
  /\ u.connects = t.connects /\ u.writes = t.writes /\ u.dropped = t.dropped
SameEvents(t, u) == u.pipe = t.pipe /\ u.pass = t.pass /\ u.unsig = t.unsig
SameRole(t, u) ==
  /\ DOMAIN u = Fields /\ u.role = t.role /\ u.stopped = t.stopped /\ u.gone = t.gone
SameConns(t, u) ==
  /\ u.conn = t.conn /\ u.queue = t.queue /\ u.pending = t.pending /\ u.idle = t.idle
  /\ u.responder = t.responder /\ u.registered = t.registered /\ u.logged = t.logged

\* The drop that is reported next stays the same.
SameFront(t, u) == t.dropped # <<>> => u.dropped # <<>> /\ Head(u.dropped) = Head(t.dropped)

\* The least element of a set of natural numbers.
LEMMA MinExists ==
  ASSUME NEW T \in SUBSET Nat, T # {}
  PROVE  Min(T) \in T
<1>1. IsWellFoundedOn(OpToRel(<, Nat), Nat)
  BY NatLessThanWellFounded
<1>2. PICK m \in T : \A y \in T : ~(<<y, m>> \in OpToRel(<, Nat))
  BY <1>1, WFMin
<1>3. \A y \in T : m =< y
  <2> TAKE y \in T
  <2>1. y \in Nat /\ m \in Nat
    OBVIOUS
  <2>2. ~(y < m)
    BY <1>2, <2>1 DEF OpToRel
  <2> QED BY <2>1, <2>2
<1>4. \E x \in T : \A y \in T : x =< y
  BY <1>3
<1> QED BY <1>4 DEF Min

-----------------------------------------------------------------------------
(* SocketMonitor::drop *)

\* What a drop changes: the socket leaves the sets for the queue of drops.
LEMMA DropEffect ==
  ASSUME NEW t, Types(t), NEW f \in Held(t)
  PROVE  LET u == Drop(t, f)
         IN /\ u.open = t.open /\ u.gen = t.gen /\ u.made = t.made
            /\ u.reads = t.reads \ {f} /\ u.connects = t.connects \ {f}
            /\ u.writes = t.writes \ {f}
            /\ u.dropped = Append(t.dropped, [fd |-> f, gen |-> t.gen[f]])
            /\ SameEvents(t, u) /\ SameRole(t, u) /\ SameConns(t, u)
BY DEF Drop, Types, Fields, SameEvents, SameRole, SameConns

\* One more drop waits to be reported.
LEMMA WaitingAppend ==
  ASSUME NEW t, t.dropped \in Seq(Drops), NEW u, NEW d \in Drops, u.dropped = Append(t.dropped, d)
  PROVE  /\ u.dropped \in Seq(Drops) /\ Waiting(u) = Waiting(t) \cup {d.fd}
         /\ DOMAIN u.dropped = DOMAIN t.dropped \cup {Len(t.dropped) + 1}
         /\ Len(t.dropped) + 1 \notin DOMAIN t.dropped
         /\ u.dropped[Len(t.dropped) + 1] = d
         /\ \A i \in DOMAIN t.dropped : u.dropped[i] = t.dropped[i]
<1>1. /\ u.dropped \in Seq(Drops) /\ Len(t.dropped) \in Nat /\ DOMAIN t.dropped = 1..Len(t.dropped)
      /\ DOMAIN u.dropped = 1..(Len(t.dropped) + 1) /\ u.dropped[Len(t.dropped) + 1] = d
      /\ \A i \in 1..Len(t.dropped) : u.dropped[i] = t.dropped[i]
  BY AppendProperties, LenProperties
<1>2. DOMAIN u.dropped = DOMAIN t.dropped \cup {Len(t.dropped) + 1}
  BY <1>1
<1>3. Len(t.dropped) + 1 \notin DOMAIN t.dropped
  BY <1>1
<1>4. \A i \in DOMAIN t.dropped : u.dropped[i] = t.dropped[i]
  BY <1>1
<1>5. Waiting(u) = Waiting(t) \cup {d.fd}
  BY <1>1, <1>2, <1>4 DEF Waiting
<1> QED BY <1>1, <1>2, <1>3, <1>4, <1>5

\* A drop keeps the invariant, whoever makes it and however often.
LEMMA DropKeeps ==
  ASSUME NEW t, Core(t), NEW f
  PROVE  LET u == Drop(t, f)
         IN /\ Core(u) /\ f \notin Held(u) /\ Held(u) = Held(t) \ {f} /\ u.open = t.open
            /\ SameEvents(t, u) /\ SameRole(t, u) /\ SameConns(t, u)
            /\ u.connects \subseteq t.connects /\ SameFront(t, u)
<1>1. CASE f \notin Held(t)
  <2>1. Drop(t, f) = t
    BY <1>1 DEF Drop
  <2> QED BY <1>1, <2>1 DEF Core, Types, SameEvents, SameRole, SameConns, SameFront
<1>2. CASE f \in Held(t)
  <2> DEFINE u == Drop(t, f)
             d == [fd |-> f, gen |-> t.gen[f]]
  <2>1. Types(t) /\ Tidy(t) /\ Bound(t) /\ Passing(t) /\ Waking(t)
    BY DEF Core
  <2>2. f \in Fds /\ d \in Drops /\ d.fd = f /\ d.gen = t.gen[f]
    BY <1>2, <2>1 DEF Types, SocketsOK, Held, Drops
  <2>3. /\ u.open = t.open /\ u.gen = t.gen /\ u.made = t.made
        /\ u.reads = t.reads \ {f} /\ u.connects = t.connects \ {f} /\ u.writes = t.writes \ {f}
        /\ u.dropped = Append(t.dropped, d)
        /\ SameEvents(t, u) /\ SameRole(t, u) /\ SameConns(t, u)
    BY <1>2, <2>1, DropEffect
  <2> HIDE DEF u, d
  <2>4. t.dropped \in Seq(Drops)
    BY <2>1 DEF Types, SocketsOK
  <2>5. /\ u.dropped \in Seq(Drops) /\ Waiting(u) = Waiting(t) \cup {f}
        /\ DOMAIN u.dropped = DOMAIN t.dropped \cup {Len(t.dropped) + 1}
        /\ u.dropped[Len(t.dropped) + 1] = d
        /\ \A i \in DOMAIN t.dropped : u.dropped[i] = t.dropped[i]
    BY <2>2, <2>3, <2>4, WaitingAppend
  <2>6. Types(u)
    BY <2>1, <2>3, <2>5 DEF Types, SocketsOK, LoopOK, ConnsOK, SameEvents, SameRole, SameConns
  <2>7. Held(u) = Held(t) \ {f} /\ u.connects \subseteq t.connects
    BY <2>3 DEF Held
  <2>8. Tidy(u)
    <3>1. /\ u.open = Held(u) \cup Waiting(u) /\ Held(u) \cap Waiting(u) = {}
          /\ u.reads \cap u.connects = {} /\ u.writes \subseteq u.reads
      BY <1>2, <2>1, <2>3, <2>5, <2>7 DEF Tidy
    <3>2. f \notin Waiting(t)
      BY <1>2, <2>1 DEF Tidy
    <3>3. \A i \in DOMAIN t.dropped : t.dropped[i].fd # f
      BY <3>2 DEF Waiting
    <3>4. \A i, j \in DOMAIN u.dropped : u.dropped[i].fd = u.dropped[j].fd => i = j
      BY <2>1, <2>2, <2>5, <3>3 DEF Tidy
    <3>5. \A i \in DOMAIN u.dropped : u.gen[u.dropped[i].fd] = u.dropped[i].gen
      BY <2>1, <2>2, <2>3, <2>5 DEF Tidy
    <3> QED BY <3>1, <3>4, <3>5 DEF Tidy
  <2>9. Bound(u)
    BY <2>1, <2>3 DEF Bound, SameConns, SameRole
  <2>10. Passing(u)
    BY <2>1, <2>3 DEF Passing, SameEvents, SameRole
  <2>11. Waking(u)
    BY <2>1, <2>3 DEF Waking, SameConns, SameEvents
  <2>12. SameFront(t, u)
    BY <2>2, <2>3, <2>4, HeadTailAppend, AppendProperties DEF SameFront
  <2> QED BY <2>3, <2>6, <2>7, <2>8, <2>9, <2>10, <2>11, <2>12 DEF Core, u
<1> QED BY <1>1, <1>2

-----------------------------------------------------------------------------
(* Session::disconnect, and the deletion of a connection *)

\* Session::disconnect drops the socket of the responder and keeps the core.
LEMMA DisconnectKeeps ==
  ASSUME NEW t, Core(t), NEW x \in Sessions
  PROVE  LET u == DisconnectSession(t, x)
         IN /\ Core(u) /\ u.responder = [t.responder EXCEPT ![x] = 0]
            /\ u.conn = t.conn /\ u.idle = t.idle /\ u.registered = t.registered
            /\ u.open = t.open /\ SameEvents(t, u) /\ SameRole(t, u)
            /\ Held(u) = Held(t) \ {t.responder[x]} /\ u.connects \subseteq t.connects
            /\ SameFront(t, u)
<1>1. Types(t) /\ t.responder \in [Sessions -> 0..MaxFd] /\ 0 \notin Held(t)
  BY DEF Core, Types, ConnsOK, SocketsOK, Held, Fds
<1>2. CASE t.responder[x] = 0
  <2>1. DisconnectSession(t, x) = t /\ [t.responder EXCEPT ![x] = 0] = t.responder
    BY <1>1, <1>2 DEF DisconnectSession
  <2> QED BY <1>1, <1>2, <2>1 DEF Types, SameEvents, SameRole, SameFront
<1>3. CASE t.responder[x] # 0
  <2> DEFINE v == Drop(t, t.responder[x])
             u == [v EXCEPT !.responder[x] = 0, !.logged = @ \ {x}]
  <2>1. /\ Core(v) /\ Held(v) = Held(t) \ {t.responder[x]} /\ v.open = t.open
        /\ SameEvents(t, v) /\ SameRole(t, v) /\ SameConns(t, v) /\ v.connects \subseteq t.connects
        /\ SameFront(t, v)
    BY DropKeeps
  <2>2. DisconnectSession(t, x) = u
    BY <1>3 DEF DisconnectSession
  <2> HIDE DEF v
  <2>3. /\ SameSockets(v, u) /\ SameEvents(v, u) /\ SameRole(v, u)
        /\ u.conn = v.conn /\ u.queue = v.queue /\ u.pending = v.pending /\ u.idle = v.idle
        /\ u.registered = v.registered /\ u.logged = v.logged \ {x}
        /\ u.responder = [v.responder EXCEPT ![x] = 0]
    BY <2>1 DEF SameRole, SameSockets, SameEvents, Fields
  <2> HIDE DEF u
  <2>4. Types(v) /\ Tidy(v) /\ Bound(v) /\ Passing(v) /\ Waking(v)
    BY <2>1 DEF Core
  <2>5. Types(u)
    <3>1. u.responder \in [Sessions -> 0..MaxFd]
      BY <2>3, <2>4, ReactorAssumption DEF Types, ConnsOK
    <3>2. ConnsOK(u)
      BY <2>3, <2>4, <3>1 DEF Types, ConnsOK
    <3> QED BY <2>3, <2>4, <3>2 DEF Types, SocketsOK, LoopOK, SameEvents, SameRole, SameSockets
  <2>6. Held(u) = Held(v) /\ u.open = v.open /\ u.connects = v.connects
    BY <2>3 DEF Held, SameSockets
  <2>7. Tidy(u)
    BY <2>3, <2>4, <2>6 DEF Tidy, Waiting, SameSockets
  <2>8. \A y \in Sessions : u.responder[y] # 0 => u.responder[y] = v.responder[y]
    BY <2>3, <2>4 DEF Types, ConnsOK
  <2>9. Bound(u)
    BY <2>3, <2>4, <2>6, <2>8 DEF Bound, SameRole
  <2>10. Passing(u)
    BY <2>3, <2>4, <2>6 DEF Passing, SameEvents, SameRole
  <2>11. 0 \notin u.connects
    BY <2>5 DEF Types, SocketsOK, Fds
  <2>12. Waking(u)
    BY <2>3, <2>4, <2>8, <2>11 DEF Waking, SameEvents, SameSockets
  <2>13. /\ Core(u) /\ u.responder = [t.responder EXCEPT ![x] = 0]
         /\ u.conn = t.conn /\ u.idle = t.idle /\ u.registered = t.registered
         /\ u.open = t.open /\ SameEvents(t, u) /\ SameRole(t, u)
         /\ Held(u) = Held(t) \ {t.responder[x]} /\ u.connects \subseteq t.connects
         /\ SameFront(t, u)
    BY <2>1, <2>3, <2>5, <2>6, <2>7, <2>9, <2>10, <2>12
       DEF Core, SameConns, SameEvents, SameRole, SameSockets, SameFront
  <2> QED BY <2>2, <2>13
<1> QED BY <1>2, <1>3

\* A connection that is no session's responder can be deleted.
LEMMA DeleteKeeps ==
  ASSUME NEW t, Core(t), NEW f \in Fds, \A x \in Sessions : t.responder[x] # f
  PROVE  LET u == Delete(t, f)
         IN /\ Core(u) /\ u.conn = [t.conn EXCEPT ![f] = NoConn] /\ u.idle = t.idle
            /\ u.registered = t.registered \ {t.conn[f]} /\ u.responder = t.responder
            /\ SameSockets(t, u) /\ SameEvents(t, u) /\ SameRole(t, u)
<1> DEFINE u == Delete(t, f)
<1>1. Types(t) /\ Tidy(t) /\ Bound(t) /\ Passing(t) /\ Waking(t)
  BY DEF Core
<1>2. /\ SameSockets(t, u) /\ SameEvents(t, u) /\ SameRole(t, u)
      /\ u.conn = [t.conn EXCEPT ![f] = NoConn] /\ u.queue = [t.queue EXCEPT ![f] = 0]
      /\ u.pending = t.pending \ {f} /\ u.registered = t.registered \ {t.conn[f]}
      /\ u.idle = t.idle /\ u.responder = t.responder /\ u.logged = t.logged
  BY <1>1 DEF Delete, Types, Fields, SameSockets, SameEvents, SameRole
<1> HIDE DEF u
<1>3. ConnsOK(u)
  BY <1>1, <1>2 DEF Types, ConnsOK
<1>4. Types(u)
  BY <1>1, <1>2, <1>3 DEF Types, SocketsOK, LoopOK, SameEvents, SameRole, SameSockets
<1>5. Tidy(u)
  BY <1>1, <1>2 DEF Tidy, Waiting, Held, SameSockets
<1>6. \A g \in Fds : u.conn[g] = (IF g = f THEN NoConn ELSE t.conn[g]) /\ u.queue[g] \in Nat
                     /\ u.queue[g] = (IF g = f THEN 0 ELSE t.queue[g])
  BY <1>1, <1>2 DEF Types, ConnsOK
<1>7. Bound(u)
  <2>1. NoConn \notin Sessions /\ NoConn # Unbound
    BY ReactorAssumption
  <2>2. \A g \in Fds : u.conn[g] # NoConn => g \in u.open
    BY <1>1, <1>2, <1>6 DEF Bound, SameSockets
  <2>3. \A x \in Sessions : u.responder[x] # 0 => u.conn[u.responder[x]] = x
    <3> TAKE x \in Sessions
    <3> HAVE u.responder[x] # 0
    <3>1. t.responder[x] \in Fds /\ t.responder[x] # f
      BY <1>1, <1>2 DEF Types, ConnsOK, Fds
    <3> QED BY <1>1, <1>2, <1>6, <3>1 DEF Bound
  <2>4. ~u.stopped => \A g, k \in Fds : (u.conn[g] = u.conn[k] /\ u.conn[g] \in Sessions) => g = k
    BY <1>1, <1>2, <1>6, <2>1 DEF Bound, SameRole
  <2>5. u.role = "initiator" => ~u.stopped /\ \A g \in Fds : u.conn[g] # Unbound /\ u.conn[g] \notin u.idle
    BY <1>1, <1>2, <1>6, <2>1 DEF Bound, SameRole, Types, ConnsOK
  <2> QED BY <2>2, <2>3, <2>4, <2>5 DEF Bound
<1>8. Passing(u)
  BY <1>1, <1>2 DEF Passing, SameEvents, SameSockets, SameRole
<1>9. Waking(u)
  BY <1>1, <1>2, <1>6 DEF Waking, SameEvents, SameSockets, Types, SocketsOK
<1> QED BY <1>2, <1>4, <1>5, <1>7, <1>8, <1>9 DEF Core, u

-----------------------------------------------------------------------------
(* onDisconnect and onError *)

AttendedBut(t, f) == t.role = "acceptor" => \A g \in Held(t) \ {f} : t.conn[g] # NoConn

\* onDisconnect deletes the connection and gives its session up; it drops the socket
\* only if it is its session's responder.
LEMMA OnDisconnectKeeps ==
  ASSUME NEW t, Core(t), NEW f \in Fds
  PROVE  LET u == OnDisconnect(t, f)
         IN /\ Core(u) /\ u.conn[f] = NoConn /\ u.open = t.open
            /\ Registered(t, f) => Registered(u, 0)
            /\ Attended(t) => AttendedBut(u, f) /\ (t.role = "initiator" => Attended(u))
            /\ SameEvents(t, u) /\ SameRole(t, u) /\ Held(u) \subseteq Held(t) /\ SameFront(t, u)
<1> USE ReactorAssumption
<1> DEFINE x == t.conn[f]
           u == OnDisconnect(t, f)
<1>1. Types(t) /\ Bound(t) /\ x \in Sessions \cup {NoConn, Unbound} /\ NoConn \notin Sessions
      /\ Unbound \notin Sessions /\ Unbound # NoConn
  BY DEF Core, Types, ConnsOK
<1>2. CASE x = NoConn
  <2>1. u = t
    BY <1>2 DEF OnDisconnect
  <2>2. Registered(t, f) => Registered(t, 0)
    BY <1>1, <1>2 DEF Registered
  <2> QED BY <1>1, <1>2, <2>1, <2>2 DEF Types, SameEvents, SameRole, SameFront, Attended, AttendedBut
<1>3. CASE x # NoConn
  <2> DEFINE v == IF x = Unbound THEN t ELSE DisconnectSession(t, x)
             w == Delete(v, f)
  <2>1. u = [w EXCEPT !.idle = @ \cup ({x} \cap Sessions)]
    BY <1>3 DEF OnDisconnect
  <2>2. /\ Core(v) /\ v.conn = t.conn /\ v.idle = t.idle /\ v.registered = t.registered
        /\ v.open = t.open /\ SameEvents(t, v) /\ SameRole(t, v) /\ SameFront(t, v)
        /\ Held(v) = (IF x = Unbound THEN Held(t) ELSE Held(t) \ {t.responder[x]})
        /\ v.responder = (IF x = Unbound THEN t.responder ELSE [t.responder EXCEPT ![x] = 0])
    <3>1. CASE x = Unbound
      BY <1>1, <3>1 DEF Types, SameEvents, SameRole, SameFront
    <3>2. CASE x # Unbound
      <4>1. x \in Sessions
        BY <1>1, <1>3, <3>2
      <4> HIDE DEF x
      <4> QED BY <3>2, <4>1, DisconnectKeeps
    <3> QED BY <3>1, <3>2
  <2> HIDE DEF v
  <2>3. \A y \in Sessions : v.responder[y] # f
    <3> SUFFICES ASSUME NEW y \in Sessions, v.responder[y] = f PROVE FALSE
      OBVIOUS
    <3>1. f # 0 /\ Bound(v) /\ Types(v)
      BY <2>2 DEF Core, Fds
    <3>2. y = x
      BY <2>2, <3>1 DEF Bound
    <3>3. v.responder[x] = 0
      BY <1>1, <2>2, <3>2 DEF Types, ConnsOK
    <3> QED BY <3>1, <3>2, <3>3
  <2>4. /\ Core(w) /\ w.conn = [t.conn EXCEPT ![f] = NoConn] /\ w.idle = t.idle
        /\ w.registered = t.registered \ {x} /\ w.responder = v.responder
        /\ SameSockets(v, w) /\ SameEvents(v, w) /\ SameRole(v, w)
    <3>1. Core(v)
      BY <2>2
    <3>2. /\ Core(w) /\ w.conn = [v.conn EXCEPT ![f] = NoConn] /\ w.idle = v.idle
          /\ w.registered = v.registered \ {v.conn[f]} /\ w.responder = v.responder
          /\ SameSockets(v, w) /\ SameEvents(v, w) /\ SameRole(v, w)
      BY <2>3, <3>1, DeleteKeeps
    <3> HIDE DEF w
    <3> QED BY <2>2, <3>2
  <2> HIDE DEF w
  <2>5. /\ SameSockets(w, u) /\ SameEvents(w, u) /\ SameRole(w, u)
        /\ u.conn = w.conn /\ u.queue = w.queue /\ u.pending = w.pending
        /\ u.registered = w.registered /\ u.logged = w.logged /\ u.responder = w.responder
        /\ u.idle = w.idle \cup ({x} \cap Sessions)
    BY <2>1, <2>4 DEF SameSockets, SameEvents, SameRole, Fields
  <2> HIDE DEF u
  <2>6. Types(w) /\ Tidy(w) /\ Bound(w) /\ Passing(w) /\ Waking(w)
    BY <2>4 DEF Core
  <2>7. Types(u)
    <3>1. u.idle \in SUBSET Sessions
      BY <2>5, <2>6 DEF Types, ConnsOK
    <3> QED BY <2>5, <2>6, <3>1 DEF Types, SocketsOK, LoopOK, ConnsOK, SameEvents, SameRole, SameSockets
  <2>8. Tidy(u)
    BY <2>5, <2>6 DEF Tidy, Waiting, Held, SameSockets
  <2>9. \A g \in Fds : u.conn[g] = (IF g = f THEN NoConn ELSE t.conn[g])
    BY <1>1, <2>4, <2>5 DEF Types, ConnsOK
  <2>10. ~t.stopped => \A g \in Fds \ {f} : t.conn[g] \in Sessions => t.conn[g] # x
    BY <1>1 DEF Bound
  <2>11. u.role = t.role /\ u.stopped = t.stopped
    BY <2>2, <2>4, <2>5 DEF SameRole
  <2>12. Bound(u)
    <3>1. /\ \A g \in Fds : u.conn[g] # NoConn => g \in u.open
          /\ \A y \in Sessions : u.responder[y] # 0 => u.conn[u.responder[y]] = y
          /\ ~u.stopped => \A g, k \in Fds : (u.conn[g] = u.conn[k] /\ u.conn[g] \in Sessions) => g = k
      BY <2>5, <2>6 DEF Bound, SameSockets, SameRole
    <3>2. ASSUME u.role = "initiator", NEW g \in Fds PROVE ~u.stopped /\ u.conn[g] # Unbound /\ u.conn[g] \notin u.idle
      <4>1. ~u.stopped /\ u.conn[g] # Unbound /\ u.conn[g] \notin w.idle /\ ~t.stopped
        BY <2>5, <2>6, <2>11, <3>2 DEF Bound, SameRole
      <4>2. u.conn[g] \notin {x} \cap Sessions
        BY <1>1, <2>9, <2>10, <4>1
      <4> QED BY <2>5, <4>1, <4>2
    <3>3. u.role = "initiator" => ~u.stopped
      BY <1>1, <2>11 DEF Bound
    <3> QED BY <3>1, <3>2, <3>3 DEF Bound
  <2>13. Passing(u)
    BY <2>5, <2>6 DEF Passing, SameSockets, SameEvents, SameRole
  <2>14. Waking(u)
    BY <2>5, <2>6 DEF Waking, SameSockets, SameEvents
  <2>15. Core(u)
    BY <2>7, <2>8, <2>12, <2>13, <2>14 DEF Core
  <2>16. Registered(t, f) => Registered(u, 0)
    BY <1>1, <2>4, <2>5, <2>9, <2>10, <2>11 DEF Registered
  <2>17. Held(u) = Held(v) /\ Held(v) \subseteq Held(t) /\ Held(t) \subseteq Fds
    BY <1>1, <2>2, <2>4, <2>5 DEF Held, SameSockets, Types, SocketsOK
  <2>18. Attended(t) => AttendedBut(u, f)
    BY <2>9, <2>11, <2>17 DEF Attended, AttendedBut
  <2>19. Attended(t) /\ t.role = "initiator" => Attended(u)
    <3> SUFFICES ASSUME Attended(t), t.role = "initiator", "initiator" \notin Disconnecters,
                        NEW g \in Held(u)
                 PROVE  u.conn[g] \in Sessions /\ u.responder[u.conn[g]] = g
      BY <2>11 DEF Attended
    <3>1. g \in Fds /\ g \in Held(t) /\ g \in Held(v) /\ ~t.stopped /\ x \in Sessions
      BY <1>1, <1>3, <2>17 DEF Bound
    <3>2. t.conn[g] \in Sessions /\ t.responder[t.conn[g]] = g /\ g # t.responder[x]
      BY <1>1, <2>2, <3>1 DEF Attended
    <3>3. g # f
      BY <3>2
    <3>4. u.conn[g] = t.conn[g] /\ t.conn[g] # x
      BY <2>9, <2>10, <3>1, <3>2, <3>3
    <3> QED BY <1>1, <2>2, <2>4, <2>5, <3>1, <3>2, <3>4 DEF Types, ConnsOK
  <2>20. SameEvents(t, u) /\ SameRole(t, u) /\ SameFront(t, u) /\ u.open = t.open
    BY <2>2, <2>4, <2>5 DEF SameEvents, SameRole, SameFront, SameSockets
  <2>21. u.conn[f] = NoConn
    BY <2>9
  <2> QED BY <2>15, <2>16, <2>17, <2>18, <2>19, <2>20, <2>21 DEF u
<1> QED BY <1>2, <1>3

\* A drop or a disconnect on the reactor's thread leaves no socket behind.
LEMMA DropAttended ==
  ASSUME NEW t, Core(t), NEW f
  PROVE  /\ AttendedBut(t, f) /\ t.role = "acceptor" => Attended(Drop(t, f))
         /\ Attended(t) => Attended(Drop(t, f))
         /\ \A g : Registered(t, g) => Registered(Drop(t, f), g)
<1> DEFINE u == Drop(t, f)
<1>1. Held(u) = Held(t) \ {f} /\ SameRole(t, u) /\ SameConns(t, u)
  BY DropKeeps
<1> HIDE DEF u
<1>2. AttendedBut(t, f) /\ t.role = "acceptor" => Attended(u)
  BY <1>1 DEF AttendedBut, Attended, SameRole, SameConns
<1>3. Attended(t) => Attended(u)
  BY <1>1 DEF Attended, SameRole, SameConns
<1>4. \A g : Registered(t, g) => Registered(u, g)
  BY <1>1 DEF Registered, SameRole, SameConns
<1> QED BY <1>2, <1>3, <1>4 DEF u

\* It leaves nobody without a wake-up, and no registered session without a connection.
LEMMA DisconnectAttended ==
  ASSUME NEW t, Core(t), NEW x \in Sessions
  PROVE  /\ Attended(t) => Attended(DisconnectSession(t, x))
         /\ \A g : Registered(t, g) => Registered(DisconnectSession(t, x), g)
<1> DEFINE u == DisconnectSession(t, x)
<1>1. /\ u.responder = [t.responder EXCEPT ![x] = 0] /\ u.conn = t.conn /\ SameRole(t, u)
      /\ Held(u) = Held(t) \ {t.responder[x]} /\ u.registered = t.registered
  BY DisconnectKeeps
<1>2. t.responder \in [Sessions -> 0..MaxFd]
  BY DEF Core, Types, ConnsOK
<1> HIDE DEF u
<1>3. Attended(t) => Attended(u)
  BY <1>1, <1>2 DEF Attended, SameRole
<1>4. \A g : Registered(t, g) => Registered(u, g)
  BY <1>1 DEF Registered, SameRole
<1> QED BY <1>3, <1>4 DEF u

\* onError ends a connection: after it the socket is not held, and there is no
\* connection unless it is still to be reported to an initiator.
LEMMA OnErrorKeeps ==
  ASSUME NEW t, Core(t), NEW f \in Fds, Registered(t, f)
  PROVE  LET u == OnError(t, f)
         IN /\ Core(u) /\ f \notin Held(u) /\ u.open = t.open /\ Held(u) \subseteq Held(t)
            /\ t.role = "acceptor" \/ f \notin Held(t) => u.conn[f] = NoConn
            /\ t.role = "acceptor" \/ Registered(t, 0) => Registered(u, 0)
            /\ Attended(t) => Attended(u)
            /\ SameEvents(t, u) /\ SameRole(t, u) /\ SameFront(t, u)
<1> DEFINE v == OnDisconnect(t, f)
<1>1. /\ Core(v) /\ v.conn[f] = NoConn /\ v.open = t.open /\ Registered(v, 0)
      /\ Attended(t) => AttendedBut(v, f) /\ (t.role = "initiator" => Attended(v))
      /\ SameEvents(t, v) /\ SameRole(t, v) /\ Held(v) \subseteq Held(t) /\ SameFront(t, v)
  BY OnDisconnectKeeps
<1> HIDE DEF v
<1>2. CASE t.role = "acceptor"
  <2> DEFINE u == Drop(v, f)
  <2>1. OnError(t, f) = u
    BY <1>2 DEF OnError, v
  <2>2. /\ Core(u) /\ f \notin Held(u) /\ Held(u) = Held(v) \ {f} /\ u.open = v.open
        /\ SameEvents(v, u) /\ SameRole(v, u) /\ SameConns(v, u) /\ SameFront(v, u)
    BY <1>1, DropKeeps
  <2>3. v.role = "acceptor"
    BY <1>1, <1>2 DEF SameRole
  <2>4. Registered(u, 0) /\ (Attended(t) => Attended(u))
    BY <1>1, <2>3, DropAttended
  <2> HIDE DEF u
  <2> QED BY <1>1, <2>1, <2>2, <2>4 DEF SameEvents, SameRole, SameConns, SameFront
<1>3. CASE t.role # "acceptor" /\ f \notin Held(t)
  <2>1. OnError(t, f) = v
    BY <1>3 DEF OnError, v
  <2>2. t.role = "initiator"
    BY <1>3 DEF Core, Types, LoopOK
  <2> QED BY <1>1, <1>3, <2>1, <2>2
<1>4. CASE t.role # "acceptor" /\ f \in Held(t)
  <2>1. OnError(t, f) = Drop(t, f)
    BY <1>4 DEF OnError
  <2> QED BY <1>4, <2>1, DropKeeps, DropAttended
<1> QED BY <1>2, <1>3, <1>4

-----------------------------------------------------------------------------
(* New sockets, and events taken from the pass *)

\* The kernel's new descriptor is one that the monitor is not holding or closing.
LEMMA NewSocketKeeps ==
  ASSUME NEW t, Core(t), Free(t) # {}, NEW link
  PROVE  LET f == Min(Free(t))
             u == NewSocket(t, link)
         IN /\ Core(u) /\ f \in Fds \ t.open /\ t.conn[f] = NoConn /\ t.queue[f] = 0
            /\ f \notin t.writes /\ Held(u) = Held(t) \cup {f} /\ f \in u.connects
            /\ f \in u.open /\ SameEvents(t, u) /\ SameRole(t, u) /\ SameConns(t, u)
            /\ \A x \in Sessions : t.responder[x] # f
<1> DEFINE f == Min(Free(t))
           u == NewSocket(t, link)
<1>1. Types(t) /\ Tidy(t) /\ Bound(t) /\ Passing(t) /\ Waking(t)
  BY DEF Core
<1>2. f \in Fds \ t.open
  <2>1. Free(t) \subseteq Nat
    BY DEF Free, Fds
  <2>2. f \in Free(t)
    BY <2>1, MinExists
  <2> QED BY <2>2 DEF Free
<1> HIDE DEF f
<1>3. /\ u.open = t.open \cup {f} /\ u.gen = [t.gen EXCEPT ![f] = t.made + 1] /\ u.made = t.made + 1
      /\ u.reads = t.reads /\ u.connects = t.connects \cup {f} /\ u.writes = t.writes
      /\ u.dropped = t.dropped /\ SameEvents(t, u) /\ SameRole(t, u) /\ SameConns(t, u)
  BY <1>1 DEF NewSocket, f, Types, Fields, SameEvents, SameRole, SameConns
<1> HIDE DEF u
<1>4. t.conn[f] = NoConn /\ t.queue[f] = 0
  BY <1>1, <1>2 DEF Bound, Waking
<1>5. f \notin Held(t) /\ f \notin Waiting(t) /\ f \notin t.writes
  BY <1>1, <1>2 DEF Tidy, Held
<1>6. \A x \in Sessions : t.responder[x] # f
  BY <1>1, <1>2, <1>4, ReactorAssumption DEF Bound, Fds
<1>7. Types(u)
  <2>1. t.made + 1 \in Nat /\ u.gen \in [Fds -> Nat]
    BY <1>1, <1>2, <1>3 DEF Types, SocketsOK
  <2>2. SocketsOK(u)
    BY <1>1, <1>2, <1>3, <2>1 DEF Types, SocketsOK
  <2> QED BY <1>1, <1>3, <2>2 DEF Types, LoopOK, ConnsOK, SameEvents, SameRole, SameConns
<1>8. Held(u) = Held(t) \cup {f} /\ Waiting(u) = Waiting(t)
  BY <1>3 DEF Held, Waiting
<1>9. Tidy(u)
  <2>1. /\ u.open = Held(u) \cup Waiting(u) /\ Held(u) \cap Waiting(u) = {}
        /\ u.reads \cap u.connects = {} /\ u.writes \subseteq u.reads
    BY <1>1, <1>3, <1>5, <1>8 DEF Tidy, Held
  <2>2. \A i \in DOMAIN t.dropped : t.dropped[i].fd # f
    BY <1>5 DEF Waiting
  <2>3. \A i \in DOMAIN t.dropped : t.dropped[i].fd \in Fds
    <3>1. t.dropped \in Seq(Drops)
      BY <1>1 DEF Types, SocketsOK
    <3>2. \A i \in DOMAIN t.dropped : t.dropped[i] \in Drops
      BY <3>1, ElementOfSeq, LenProperties
    <3> QED BY <3>2 DEF Drops
  <2>4. \A i \in DOMAIN u.dropped : u.gen[u.dropped[i].fd] = u.dropped[i].gen
    BY <1>1, <1>3, <2>2, <2>3 DEF Tidy, Types, SocketsOK
  <2> QED BY <1>1, <1>3, <2>1, <2>4 DEF Tidy
<1>10. Bound(u)
  BY <1>1, <1>3 DEF Bound, SameConns, SameRole
<1>11. Passing(u)
  BY <1>1, <1>2, <1>3 DEF Passing, SameEvents, SameRole
<1>12. Waking(u)
  BY <1>1, <1>3, <1>4, <1>6 DEF Waking, SameEvents, SameConns
<1>13. Core(u) /\ f \in u.connects /\ f \in u.open
  BY <1>3, <1>7, <1>9, <1>10, <1>11, <1>12 DEF Core
<1> QED BY <1>2, <1>3, <1>4, <1>5, <1>6, <1>8, <1>13 DEF f, u

\* States with the same sockets, connections and role, that may differ in the events.
LEMMA SameKeeps ==
  ASSUME NEW t, NEW u, SameRole(t, u), SameSockets(t, u), SameConns(t, u), Core(t)
  PROVE  /\ Tidy(u) /\ Bound(u) /\ Held(u) = Held(t)
         /\ Attended(t) => Attended(u)
         /\ \A g : Registered(t, g) => Registered(u, g)
<1>1. Tidy(t) /\ Bound(t)
  BY DEF Core
<1>2. Held(u) = Held(t) /\ Waiting(u) = Waiting(t)
  BY DEF Held, Waiting, SameSockets
<1>3. Tidy(u)
  BY <1>1, <1>2 DEF Tidy, SameSockets
<1>4. Bound(u)
  BY <1>1 DEF Bound, SameConns, SameSockets, SameRole
<1>5. Attended(t) => Attended(u)
  BY <1>2 DEF Attended, SameConns, SameRole
<1>6. \A g : Registered(t, g) => Registered(u, g)
  BY DEF Registered, SameConns, SameRole
<1> QED BY <1>2, <1>3, <1>4, <1>5, <1>6

\* The event that is handled is taken from the pass.
LEMMA PoppedKeeps ==
  ASSUME IInv, NEW e \in s.pass
  PROVE  LET t == Popped(e)
         IN /\ Core(t) /\ Registered(t, 0) /\ Attended(t) /\ Held(t) = Held(s)
            /\ SameRole(s, t) /\ SameSockets(s, t) /\ SameConns(s, t)
            /\ t.pipe = s.pipe /\ t.unsig = s.unsig /\ t.pass = s.pass \ {e}
<1> DEFINE t == Popped(e)
<1>1. Core(s) /\ Types(s) /\ Passing(s) /\ Waking(s) /\ Registered(s, 0) /\ Attended(s)
  BY DEF IInv, Good, Core
<1>2. /\ SameRole(s, t) /\ SameSockets(s, t) /\ SameConns(s, t)
      /\ t.pipe = s.pipe /\ t.unsig = s.unsig /\ t.pass = s.pass \ {e}
  BY <1>1 DEF Popped, Types, Fields, SameRole, SameSockets, SameConns
<1> HIDE DEF t
<1>3. Types(t)
  BY <1>1, <1>2 DEF Types, SocketsOK, LoopOK, ConnsOK, SameRole, SameSockets, SameConns
<1>4. Passing(t)
  BY <1>1, <1>2 DEF Passing, SameRole, SameSockets
<1>5. Waking(t)
  BY <1>1, <1>2 DEF Waking, SameSockets, SameConns
<1>6. Tidy(t) /\ Bound(t) /\ Held(t) = Held(s) /\ Attended(t) /\ Registered(t, 0)
  BY <1>1, <1>2, SameKeeps
<1> QED BY <1>2, <1>3, <1>4, <1>5, <1>6 DEF Core, t

-----------------------------------------------------------------------------
(* What a read does to the connection that was ready *)

\* read() keeps the invariant; the session that getSession has just found may not be
\* registered, and then the read fails.
ReadOK(t, o, f) ==
  /\ Core(o[1]) /\ Attended(o[1]) /\ SameRole(t, o[1]) /\ Registered(o[1], f)
  /\ (o[2] \/ t.role = "initiator") => Registered(o[1], 0)

\* What holds for every connection holds for all but one.
LEMMA RegisteredBut ==
  ASSUME NEW t, NEW f, Registered(t, 0)
  PROVE  Registered(t, f)
BY DEF Registered, Fds

\* A read that ends with a drop, or with nothing, is sound.
LEMMA DropReadOK ==
  ASSUME NEW t, Core(t), Attended(t), Registered(t, 0), NEW f \in Fds, NEW r \in BOOLEAN
  PROVE  ReadOK(t, <<Drop(t, f), r>>, f) /\ ReadOK(t, <<t, r>>, f)
<1>1. Core(Drop(t, f)) /\ SameRole(t, Drop(t, f))
  BY DropKeeps
<1>2. Attended(Drop(t, f)) /\ Registered(Drop(t, f), 0)
  BY DropAttended
<1>3. SameRole(t, t)
  BY DEF Core, Types, SameRole
<1> QED BY <1>1, <1>2, <1>3, RegisteredBut DEF ReadOK

\* The Logon that a session accepts.
LEMMA LoggedKeeps ==
  ASSUME NEW t, Core(t), NEW x \in Sessions
  PROVE  LET u == [t EXCEPT !.logged = @ \cup {x}]
         IN /\ Core(u) /\ SameRole(t, u) /\ (Attended(t) => Attended(u))
            /\ Registered(t, 0) => Registered(u, 0)
<1> DEFINE u == [t EXCEPT !.logged = @ \cup {x}]
<1>1. Types(t) /\ Tidy(t) /\ Bound(t) /\ Passing(t) /\ Waking(t)
  BY DEF Core
<1>2. /\ SameSockets(t, u) /\ SameEvents(t, u) /\ SameRole(t, u)
      /\ u.conn = t.conn /\ u.queue = t.queue /\ u.pending = t.pending /\ u.idle = t.idle
      /\ u.registered = t.registered /\ u.responder = t.responder /\ u.logged = t.logged \cup {x}
  BY <1>1 DEF Types, Fields, SameSockets, SameEvents, SameRole
<1> HIDE DEF u
<1>3. Types(u)
  BY <1>1, <1>2 DEF Types, SocketsOK, LoopOK, ConnsOK, SameEvents, SameRole, SameSockets
<1>4. Held(u) = Held(t) /\ Tidy(u)
  BY <1>1, <1>2 DEF Tidy, Waiting, Held, SameSockets
<1>5. Bound(u)
  BY <1>1, <1>2 DEF Bound, SameSockets, SameRole
<1>6. Passing(u)
  BY <1>1, <1>2 DEF Passing, SameSockets, SameEvents, SameRole
<1>7. Waking(u)
  BY <1>1, <1>2 DEF Waking, SameSockets, SameEvents
<1>8. Attended(t) => Attended(u)
  BY <1>2, <1>4 DEF Attended, SameRole
<1>9. Registered(t, 0) => Registered(u, 0)
  BY <1>2 DEF Registered, SameRole
<1> QED BY <1>2, <1>3, <1>4, <1>5, <1>6, <1>7, <1>8, <1>9 DEF Core, u

\* A read of a connection with a session is sound, whatever the message.
LEMMA ReadSessionOK ==
  ASSUME NEW t, Core(t), Attended(t), Registered(t, 0), NEW f \in Fds, t.conn[f] \in Sessions,
         NEW o \in ReadSession(t, f)
  PROVE  ReadOK(t, o, f)
<1> DEFINE x == t.conn[f]
<1>1. \/ o = <<t, TRUE>> \/ o = <<DisconnectSession(t, x), TRUE>>
      \/ o = <<[t EXCEPT !.logged = @ \cup {x}], TRUE>> \/ o = <<Drop(t, f), TRUE>>
  BY DEF ReadSession
<1>2. CASE o = <<t, TRUE>> \/ o = <<Drop(t, f), TRUE>>
  BY <1>2, DropReadOK
<1>3. x \in Sessions
  OBVIOUS
<1> HIDE DEF x
<1>4. CASE o = <<DisconnectSession(t, x), TRUE>>
  <2>1. Core(DisconnectSession(t, x)) /\ SameRole(t, DisconnectSession(t, x))
    BY <1>3, DisconnectKeeps
  <2>2. Attended(DisconnectSession(t, x)) /\ Registered(DisconnectSession(t, x), 0)
    BY <1>3, DisconnectAttended
  <2>3. o[1] = DisconnectSession(t, x)
    BY <1>4
  <2> QED BY <2>1, <2>2, <2>3, RegisteredBut DEF ReadOK
<1>5. CASE o = <<[t EXCEPT !.logged = @ \cup {x}], TRUE>>
  <2>1. o[1] = [t EXCEPT !.logged = @ \cup {x}]
    BY <1>5
  <2>2. Core(o[1]) /\ SameRole(t, o[1]) /\ Attended(o[1]) /\ Registered(o[1], 0)
    BY <1>3, <2>1, LoggedKeeps
  <2> QED BY <2>2, RegisteredBut DEF ReadOK
<1> QED BY <1>1, <1>2, <1>4, <1>5

\* The connection that names a session becomes its responder: no other one has it.
LEMMA FindSessionOK ==
  ASSUME NEW t, Core(t), Attended(t), Registered(t, 0), t.role = "acceptor",
         NEW f \in Fds, t.conn[f] = Unbound, f \notin t.connects,
         NEW x \in Sessions \ t.registered, NEW o \in FindSession(t, f, x)
  PROVE  ReadOK(t, o, f)
<1> DEFINE t1 == [t EXCEPT !.conn[f] = x, !.responder[x] = f]
           t2 == [t1 EXCEPT !.registered = @ \cup {x}]
<1> USE ReactorAssumption
<1>1. Types(t) /\ Tidy(t) /\ Bound(t) /\ Passing(t) /\ Waking(t)
  BY DEF Core
<1>2. /\ SameSockets(t, t1) /\ SameEvents(t, t1) /\ SameRole(t, t1)
      /\ t1.conn = [t.conn EXCEPT ![f] = x] /\ t1.responder = [t.responder EXCEPT ![x] = f]
      /\ t1.queue = t.queue /\ t1.pending = t.pending /\ t1.idle = t.idle
      /\ t1.registered = t.registered /\ t1.logged = t.logged
  BY <1>1 DEF Types, Fields, SameSockets, SameEvents, SameRole
<1>3. FindSession(t, f, x) = {<<Drop(t1, f), FALSE>>, <<t2, TRUE>>, <<DisconnectSession(t2, x), TRUE>>,
                              <<[t2 EXCEPT !.logged = @ \cup {x}], TRUE>>}
  BY DEF FindSession
<1> HIDE DEF t1
<1>4. Types(t1)
  <2>1. f \in 0..MaxFd
    BY DEF Fds
  <2>2. t1.conn \in [Fds -> Sessions \cup {NoConn, Unbound}] /\ t1.responder \in [Sessions -> 0..MaxFd]
    BY <1>1, <1>2, <2>1 DEF Types, ConnsOK
  <2>3. ConnsOK(t1)
    BY <1>1, <1>2, <2>2 DEF Types, ConnsOK
  <2> QED BY <1>1, <1>2, <2>3 DEF Types, SocketsOK, LoopOK, SameEvents, SameRole, SameSockets
<1>5. Held(t1) = Held(t) /\ Tidy(t1)
  BY <1>1, <1>2 DEF Tidy, Waiting, Held, SameSockets
<1>6. \A g \in Fds : t1.conn[g] = (IF g = f THEN x ELSE t.conn[g])
  BY <1>1, <1>2 DEF Types, ConnsOK
<1>7. \A y \in Sessions : t1.responder[y] = (IF y = x THEN f ELSE t.responder[y])
  BY <1>1, <1>2 DEF Types, ConnsOK
<1>8. f \in t.open /\ f # 0
  BY <1>1 DEF Bound, Fds
<1>9. ~t.stopped => \A g \in Fds : t.conn[g] # x
  BY <1>1 DEF Registered, Fds
<1>10. \A y \in Sessions : t.responder[y] # 0 => t.responder[y] # f /\ t.responder[y] \in Fds
  BY <1>1 DEF Bound, Types, ConnsOK, Fds
<1>11. Bound(t1)
  <2>1. \A g \in Fds : t1.conn[g] # NoConn => g \in t1.open
    BY <1>1, <1>2, <1>6, <1>8 DEF Bound, SameSockets
  <2>2. \A y \in Sessions : t1.responder[y] # 0 => t1.conn[t1.responder[y]] = y
    BY <1>1, <1>6, <1>7, <1>10 DEF Bound
  <2>3. ~t1.stopped => \A g, k \in Fds : (t1.conn[g] = t1.conn[k] /\ t1.conn[g] \in Sessions) => g = k
    BY <1>1, <1>2, <1>6, <1>9 DEF Bound, SameRole
  <2>4. t1.role # "initiator"
    BY <1>2 DEF SameRole
  <2> QED BY <2>1, <2>2, <2>3, <2>4 DEF Bound
<1>12. Passing(t1)
  BY <1>1, <1>2 DEF Passing, SameSockets, SameEvents, SameRole
<1>13. Waking(t1)
  BY <1>1, <1>2, <1>6, <1>7 DEF Waking, SameSockets, SameEvents
<1>14. Core(t1)
  BY <1>4, <1>5, <1>11, <1>12, <1>13 DEF Core
<1>15. t1.role = "acceptor" /\ Attended(t1) /\ Registered(t1, f)
  BY <1>1, <1>2, <1>5, <1>6 DEF SameRole, Attended, Registered, Held, Types, SocketsOK, Fds
<1>16. /\ SameSockets(t1, t2) /\ SameEvents(t1, t2) /\ SameRole(t1, t2)
       /\ t2.conn = t1.conn /\ t2.responder = t1.responder
       /\ t2.queue = t1.queue /\ t2.pending = t1.pending /\ t2.idle = t1.idle
       /\ t2.registered = t1.registered \cup {x} /\ t2.logged = t1.logged
  BY <1>4 DEF Types, Fields, SameSockets, SameEvents, SameRole
<1> HIDE DEF t2
<1>17. Types(t2)
  BY <1>4, <1>16 DEF Types, SocketsOK, LoopOK, ConnsOK, SameEvents, SameRole, SameSockets
<1>18. Held(t2) = Held(t1) /\ Tidy(t2)
  BY <1>5, <1>16 DEF Tidy, Waiting, Held, SameSockets
<1>19. Bound(t2)
  BY <1>11, <1>16 DEF Bound, SameSockets, SameRole
<1>20. Passing(t2)
  BY <1>12, <1>16 DEF Passing, SameSockets, SameEvents, SameRole
<1>21. Waking(t2)
  BY <1>13, <1>16 DEF Waking, SameSockets, SameEvents
<1>22. Core(t2) /\ Attended(t2) /\ SameRole(t, t2) /\ SameRole(t, t1)
  BY <1>2, <1>15, <1>16, <1>17, <1>18, <1>19, <1>20, <1>21 DEF Core, Attended, SameRole
<1>23. Registered(t2, 0)
  BY <1>6, <1>15, <1>16 DEF Registered, SameRole
<1>24. CASE o = <<Drop(t1, f), FALSE>>
  <2>1. Core(Drop(t1, f)) /\ SameRole(t1, Drop(t1, f))
    BY <1>14, DropKeeps
  <2>2. Attended(Drop(t1, f)) /\ Registered(Drop(t1, f), f)
    BY <1>14, <1>15, DropAttended
  <2>3. o[1] = Drop(t1, f) /\ ~o[2]
    BY <1>24
  <2> QED BY <1>22, <2>1, <2>2, <2>3 DEF ReadOK, SameRole
<1>25. CASE o = <<t2, TRUE>>
  <2>1. o[1] = t2
    BY <1>25
  <2> QED BY <1>22, <1>23, <2>1, RegisteredBut DEF ReadOK
<1>26. CASE o = <<DisconnectSession(t2, x), TRUE>>
  <2>1. Core(DisconnectSession(t2, x)) /\ SameRole(t2, DisconnectSession(t2, x))
    BY <1>22, DisconnectKeeps
  <2>2. Attended(DisconnectSession(t2, x)) /\ Registered(DisconnectSession(t2, x), 0)
    BY <1>22, <1>23, DisconnectAttended
  <2>3. o[1] = DisconnectSession(t2, x)
    BY <1>26
  <2> QED BY <1>22, <2>1, <2>2, <2>3, RegisteredBut DEF ReadOK, SameRole
<1>27. CASE o = <<[t2 EXCEPT !.logged = @ \cup {x}], TRUE>>
  <2>1. o[1] = [t2 EXCEPT !.logged = @ \cup {x}]
    BY <1>27
  <2>2. Core(o[1]) /\ SameRole(t2, o[1]) /\ Attended(o[1]) /\ Registered(o[1], 0)
    BY <1>22, <1>23, <2>1, LoggedKeeps
  <2> QED BY <1>22, <2>2, RegisteredBut DEF ReadOK, SameRole
<1> QED BY <1>3, <1>24, <1>25, <1>26, <1>27

\* Both transports' reads.
LEMMA ReadsOK ==
  ASSUME NEW t, Core(t), Attended(t), Registered(t, 0), NEW f \in Fds, f \notin t.connects,
         NEW o \in (IF t.role = "acceptor" THEN ReadAcceptor(t, f) ELSE ReadInitiator(t, f))
  PROVE  ReadOK(t, o, f)
<1> USE ReactorAssumption
<1>1. Types(t) /\ Bound(t) /\ t.conn[f] \in Sessions \cup {NoConn, Unbound}
      /\ t.role \in {"acceptor", "initiator"}
  BY DEF Core, Types, ConnsOK, LoopOK
<1>2. CASE t.role = "acceptor"
  <2>1. CASE o \in {<<t, FALSE>>, <<t, TRUE>>, <<Drop(t, f), FALSE>>}
    BY <2>1, DropReadOK
  <2>2. CASE t.conn[f] \in Sessions /\ o \in ReadSession(t, f)
    BY <2>2, ReadSessionOK
  <2>3. CASE t.conn[f] = Unbound /\ \E x \in Sessions \ t.registered : o \in FindSession(t, f, x)
    BY <1>2, <2>3, FindSessionOK
  <2> QED BY <1>1, <1>2, <2>1, <2>2, <2>3 DEF ReadAcceptor, ReadUnbound
<1>3. CASE t.role = "initiator"
  <2>1. CASE o = <<t, FALSE>>
    BY <2>1, DropReadOK
  <2>2. CASE t.conn[f] \in Sessions /\ o \in ReadSession(t, f)
    BY <2>2, ReadSessionOK
  <2> QED BY <1>1, <1>3, <2>1, <2>2 DEF ReadInitiator, Bound
<1> QED BY <1>1, <1>2, <1>3

-----------------------------------------------------------------------------
(* The steps of the reactor's thread *)

\* The descriptor is closed once its drop has been reported.
LEMMA ReportedKeeps ==
  ASSUME NEW t, Good(t), t.dropped # <<>>, t.pass = {}, NEW f, f = Head(t.dropped).fd,
         t.conn[f] = NoConn
  PROVE  Good([t EXCEPT !.dropped = Tail(@), !.open = @ \ {f}])
<1> DEFINE u == [t EXCEPT !.dropped = Tail(@), !.open = @ \ {f}]
<1>1. Types(t) /\ Tidy(t) /\ Bound(t) /\ Passing(t) /\ Waking(t) /\ Registered(t, 0) /\ Attended(t)
  BY DEF Good, Core
<1>2. /\ u.open = t.open \ {f} /\ u.gen = t.gen /\ u.made = t.made /\ u.reads = t.reads
      /\ u.connects = t.connects /\ u.writes = t.writes /\ u.dropped = Tail(t.dropped)
      /\ SameEvents(t, u) /\ SameRole(t, u) /\ SameConns(t, u)
  BY <1>1 DEF Types, Fields, SameEvents, SameRole, SameConns
<1> HIDE DEF u
<1>3. /\ t.dropped \in Seq(Drops) /\ DOMAIN t.dropped = 1..Len(t.dropped) /\ Len(t.dropped) \in Nat \ {0}
      /\ u.dropped \in Seq(Drops) /\ DOMAIN u.dropped = 1..(Len(t.dropped) - 1)
      /\ \A i \in 1..(Len(t.dropped) - 1) : u.dropped[i] = t.dropped[i + 1]
      /\ f = t.dropped[1].fd
  BY <1>1, <1>2, HeadTailProperties, LenProperties, EmptySeq DEF Types, SocketsOK
<1>4. Types(u)
  <2>1. SocketsOK(u)
    BY <1>1, <1>2, <1>3 DEF Types, SocketsOK
  <2> QED BY <1>1, <1>2, <2>1 DEF Types, LoopOK, ConnsOK, SameEvents, SameRole, SameConns
<1>5. Held(u) = Held(t)
  BY <1>2 DEF Held
<1>6. \A i \in DOMAIN u.dropped : i + 1 \in DOMAIN t.dropped /\ u.dropped[i] = t.dropped[i + 1]
  BY <1>3
<1>7. \A i \in DOMAIN t.dropped : i # 1 => i - 1 \in DOMAIN u.dropped /\ u.dropped[i - 1] = t.dropped[i]
  BY <1>3
<1>8. Waiting(u) = Waiting(t) \ {f}
  <2>1. ASSUME NEW g \in Waiting(u) PROVE g \in Waiting(t) \ {f}
    <3>1. PICK i \in DOMAIN u.dropped : g = u.dropped[i].fd
      BY <2>1 DEF Waiting
    <3>2. i + 1 # 1 /\ 1 \in DOMAIN t.dropped
      BY <1>3
    <3>3. i + 1 \in DOMAIN t.dropped /\ g = t.dropped[i + 1].fd
      BY <1>6, <3>1
    <3>4. g # t.dropped[1].fd
      BY <1>1, <3>2, <3>3 DEF Tidy
    <3> QED BY <1>3, <3>3, <3>4 DEF Waiting
  <2>2. ASSUME NEW g \in Waiting(t) \ {f} PROVE g \in Waiting(u)
    <3>1. PICK i \in DOMAIN t.dropped : g = t.dropped[i].fd
      BY <2>2 DEF Waiting
    <3>2. i # 1
      BY <1>3, <2>2, <3>1
    <3> QED BY <1>7, <3>1, <3>2 DEF Waiting
  <2> QED BY <2>1, <2>2
<1>9. f \in Waiting(t) /\ f \in t.open /\ f \notin Held(t)
  <2>1. f \in Waiting(t)
    BY <1>3 DEF Waiting
  <2> QED BY <1>1, <2>1 DEF Tidy
<1>10. Tidy(u)
  <2>1. /\ u.open = Held(u) \cup Waiting(u) /\ Held(u) \cap Waiting(u) = {}
        /\ u.reads \cap u.connects = {} /\ u.writes \subseteq u.reads
    BY <1>1, <1>2, <1>5, <1>8, <1>9 DEF Tidy
  <2>2. ASSUME NEW i \in DOMAIN u.dropped, NEW j \in DOMAIN u.dropped, u.dropped[i].fd = u.dropped[j].fd
        PROVE  i = j
    <3>1. i + 1 = j + 1
      BY <1>1, <1>6, <2>2 DEF Tidy
    <3> QED BY <1>3, <3>1
  <2>3. \A i \in DOMAIN u.dropped : u.gen[u.dropped[i].fd] = u.dropped[i].gen
    BY <1>1, <1>2, <1>6 DEF Tidy
  <2> QED BY <2>1, <2>2, <2>3 DEF Tidy
<1>11. Bound(u)
  <2>1. \A g \in Fds : u.conn[g] # NoConn => g \in u.open
    BY <1>1, <1>2 DEF Bound, SameConns
  <2> QED BY <1>1, <1>2, <2>1 DEF Bound, SameConns, SameRole
<1>12. Passing(u)
  BY <1>2 DEF Passing, SameEvents
<1>13. Waking(u)
  BY <1>1, <1>2 DEF Waking, SameEvents, SameConns
<1>14. Registered(u, 0) /\ Attended(u)
  BY <1>1, <1>2, <1>5 DEF Registered, Attended, SameRole, SameConns
<1>15. Good(u)
  BY <1>4, <1>10, <1>11, <1>12, <1>13, <1>14 DEF Good, Core
<1> QED BY <1>15 DEF u

\* A drop is reported and its connection deleted.
LEMMA ReportStep == ASSUME IInv, Report PROVE IInv'
<1> DEFINE f == Head(s.dropped).fd
           t == OnError(s, f)
<1>1. Core(s) /\ Types(s) /\ Tidy(s) /\ Registered(s, 0) /\ Attended(s)
  BY DEF IInv, Good, Core
<1>2. s.dropped # <<>> /\ s.pass = {} /\ s' = [t EXCEPT !.dropped = Tail(@), !.open = @ \ {f}]
  BY DEF Report, Idle
<1>3. s.dropped[1] = Head(s.dropped) /\ 1 \in DOMAIN s.dropped /\ Head(s.dropped) \in Drops
  <2>1. s.dropped \in Seq(Drops)
    BY <1>1 DEF Types, SocketsOK
  <2> QED BY <1>2, <2>1, HeadTailProperties, LenProperties, EmptySeq
<1>4. f \in Fds /\ f \notin Held(s)
  <2>1. f \in Waiting(s) /\ f \in Fds
    BY <1>3 DEF Waiting, Drops
  <2> QED BY <1>1, <2>1 DEF Tidy
<1>5. f = Head(s.dropped).fd
  OBVIOUS
<1> HIDE DEF f
<1>6. Registered(s, f)
  BY <1>1, RegisteredBut
<1>7. /\ Core(t) /\ Registered(t, 0) /\ Attended(t) /\ t.conn[f] = NoConn
      /\ SameEvents(s, t) /\ SameFront(s, t)
  BY <1>1, <1>4, <1>6, OnErrorKeeps
<1>8. Good(t) /\ t.pass = {} /\ t.dropped # <<>> /\ f = Head(t.dropped).fd
  BY <1>2, <1>5, <1>7 DEF Good, SameEvents, SameFront
<1> HIDE DEF t
<1>9. Good(s')
  BY <1>2, <1>7, <1>8, ReportedKeeps
<1> QED BY <1>9 DEF IInv

\* An event that poll() reports is about a socket in the set it is reported for.
LEMMA PollStep == ASSUME IInv, Poll PROVE IInv'
<1>1. Core(s) /\ Types(s) /\ Tidy(s) /\ Passing(s) /\ Waking(s) /\ Registered(s, 0) /\ Attended(s)
  BY DEF IInv, Good, Core
<1> DEFINE failed(fs) == {f \in fs : s.link[f] = "failed"}
<1>2. PICK r \in SUBSET s.reads, c \in SUBSET s.connects, w \in SUBSET s.writes, l \in BOOLEAN :
        /\ l => s.role = "acceptor"
        /\ s' = [s EXCEPT !.pass =
                   (IF s.pipe # <<>> THEN Entries("interrupt", {0}) ELSE {})
                     \cup (IF l THEN Entries("listener", {0}) ELSE {})
                     \cup Entries("reads", r) \cup Errors("reads", failed(r))
                     \cup Entries("connects", c) \cup Errors("connects", failed(c))
                     \cup Entries("writes", w) \cup Errors("writes", failed(w))]
  BY ZenonT(60) DEF Poll
<1>3. /\ SameRole(s, s') /\ SameSockets(s, s') /\ SameConns(s, s')
      /\ s'.pipe = s.pipe /\ s'.unsig = s.unsig
      /\ s'.pass = (IF s.pipe # <<>> THEN Entries("interrupt", {0}) ELSE {})
                     \cup (IF l THEN Entries("listener", {0}) ELSE {})
                     \cup Entries("reads", r) \cup Errors("reads", failed(r))
                     \cup Entries("connects", c) \cup Errors("connects", failed(c))
                     \cup Entries("writes", w) \cup Errors("writes", failed(w))
  BY <1>1, <1>2 DEF Types, Fields, SameRole, SameSockets, SameConns
<1>4. failed(r) \subseteq s.reads /\ failed(c) \subseteq s.connects /\ failed(w) \subseteq s.writes
  OBVIOUS
<1>5. s.reads \subseteq Fds /\ s.connects \subseteq Fds /\ s.writes \subseteq Fds
  BY <1>1 DEF Types, SocketsOK
<1> HIDE DEF failed
<1>6. \A e \in s'.pass :
        \/ e \in Entries("interrupt", {0}) /\ s.pipe # <<>>
        \/ e \in Entries("listener", {0}) /\ s.role = "acceptor"
        \/ \E k \in Polled, v \in {"ready", "failed"}, g \in Fds :
             /\ e = [set |-> k, fd |-> g, event |-> v] /\ (k = "reads" => g \in s.reads)
  <2> SUFFICES ASSUME NEW e \in s'.pass
               PROVE \/ e \in Entries("interrupt", {0}) /\ s.pipe # <<>>
                     \/ e \in Entries("listener", {0}) /\ s.role = "acceptor"
                     \/ \E k \in Polled, v \in {"ready", "failed"}, g \in Fds :
                          /\ e = [set |-> k, fd |-> g, event |-> v] /\ (k = "reads" => g \in s.reads)
    OBVIOUS
  <2>1. \/ e \in (IF s.pipe # <<>> THEN Entries("interrupt", {0}) ELSE {})
        \/ e \in (IF l THEN Entries("listener", {0}) ELSE {})
        \/ e \in Entries("reads", r) \/ e \in Errors("reads", failed(r))
        \/ e \in Entries("connects", c) \/ e \in Errors("connects", failed(c))
        \/ e \in Entries("writes", w) \/ e \in Errors("writes", failed(w))
    BY <1>3, Zenon
  <2>2. CASE e \in Entries("reads", r) \/ e \in Errors("reads", failed(r))
    BY <1>4, <1>5, <2>2 DEF Entries, Errors, Polled
  <2>3. CASE e \in Entries("connects", c) \/ e \in Errors("connects", failed(c))
    BY <1>4, <1>5, <2>3 DEF Entries, Errors, Polled
  <2>4. CASE e \in Entries("writes", w) \/ e \in Errors("writes", failed(w))
    BY <1>4, <1>5, <2>4 DEF Entries, Errors, Polled
  <2>5. CASE e \in (IF s.pipe # <<>> THEN Entries("interrupt", {0}) ELSE {})
    <3>1. CASE s.pipe # <<>>
      BY <2>5, <3>1
    <3>2. CASE s.pipe = <<>>
      BY <2>5, <3>2
    <3> QED BY <3>1, <3>2
  <2>6. CASE e \in (IF l THEN Entries("listener", {0}) ELSE {})
    <3>1. CASE l
      BY <1>2, <2>6, <3>1
    <3>2. CASE ~l
      BY <2>6, <3>2
    <3> QED BY <3>1, <3>2
  <2> QED BY <2>1, <2>2, <2>3, <2>4, <2>5, <2>6
<1>7. s'.pass \subseteq Events
  BY <1>6 DEF Entries, Events
<1>8. Types(s')
  BY <1>1, <1>3, <1>7 DEF Types, SocketsOK, LoopOK, ConnsOK, SameRole, SameSockets, SameConns
<1>9. \A f \in s.reads : f \in s.open /\ f \notin s.connects
  BY <1>1 DEF Tidy, Held
<1>10. Passing(s')
  <2> SUFFICES ASSUME NEW e \in s'.pass
               PROVE  /\ e.set = "reads" => e.fd \in s.reads
                      /\ e.set = "interrupt" => s.pipe # <<>>
                      /\ e.set = "listener" => s.role = "acceptor"
    BY <1>3, <1>9 DEF Passing, SameRole, SameSockets
  <2> QED BY <1>6 DEF Entries, Polled
<1>11. Waking(s')
  BY <1>1, <1>3 DEF Waking, SameSockets, SameConns
<1>12. Tidy(s') /\ Bound(s') /\ Attended(s') /\ Registered(s', 0)
  BY <1>1, <1>3, SameKeeps
<1> QED BY <1>8, <1>10, <1>11, <1>12 DEF IInv, Good, Core

\* The interrupt: the connection that asked for it is in the write set afterwards.
LEMMA InterruptStep == ASSUME IInv, NEW e \in s.pass, Interrupt(e) PROVE IInv'
<1> DEFINE t == Popped(e)
           g == Head(s.pipe)
           v == [t EXCEPT !.pipe = Tail(@)]
<1>1. /\ Core(t) /\ Registered(t, 0) /\ Attended(t) /\ t.pipe = s.pipe /\ t.pass = s.pass \ {e}
      /\ Types(t) /\ Tidy(t) /\ Bound(t) /\ Passing(t) /\ Waking(t)
  BY PoppedKeeps DEF Core
<1>2. e.set = "interrupt" /\ s' = AddWrite(v, g)
  BY DEF Interrupt, Ready
<1> HIDE DEF t
<1>3. /\ SameRole(t, v) /\ SameSockets(t, v) /\ SameConns(t, v)
      /\ v.pipe = Tail(t.pipe) /\ v.pass = t.pass /\ v.unsig = t.unsig
  BY <1>1 DEF Types, Fields, SameRole, SameSockets, SameConns
<1>4. s.pass \subseteq Events /\ s.pipe # <<>> /\ s.pipe \in Seq(Fds)
  BY <1>2 DEF IInv, Good, Core, Types, LoopOK, Passing
<1>5. \A d \in t.pass : d.set # "interrupt"
  <2> SUFFICES ASSUME NEW d \in t.pass, d.set = "interrupt" PROVE FALSE
    OBVIOUS
  <2>1. d \in Events /\ e \in Events /\ d # e
    BY <1>1, <1>4
  <2> QED BY <1>2, <2>1 DEF Events, Polled
<1>6. /\ Tail(s.pipe) \in Seq(Fds)
      /\ \A i \in DOMAIN s.pipe : s.pipe[i] = g \/ \E j \in DOMAIN Tail(s.pipe) : Tail(s.pipe)[j] = s.pipe[i]
  <2>1. /\ DOMAIN s.pipe = 1..Len(s.pipe) /\ Len(s.pipe) \in Nat \ {0} /\ Tail(s.pipe) \in Seq(Fds)
        /\ DOMAIN Tail(s.pipe) = 1..(Len(s.pipe) - 1) /\ g = s.pipe[1]
        /\ \A i \in 1..(Len(s.pipe) - 1) : Tail(s.pipe)[i] = s.pipe[i + 1]
    BY <1>4, HeadTailProperties, LenProperties, EmptySeq
  <2>2. ASSUME NEW i \in DOMAIN s.pipe, i # 1
        PROVE  i - 1 \in DOMAIN Tail(s.pipe) /\ Tail(s.pipe)[i - 1] = s.pipe[i]
    BY <2>1, <2>2
  <2> QED BY <2>1, <2>2
<1> DEFINE u == AddWrite(v, g)
<1>7. /\ SameRole(t, u) /\ SameConns(t, u) /\ u.pipe = Tail(s.pipe) /\ u.pass = t.pass
      /\ u.unsig = t.unsig /\ u.open = t.open /\ u.gen = t.gen /\ u.made = t.made
      /\ u.reads = t.reads /\ u.connects = t.connects /\ u.dropped = t.dropped
      /\ u.writes = t.writes \cup ({g} \cap t.reads)
  <2> HIDE DEF v, g
  <2>1. CASE g \in v.reads
    <3>1. u = [v EXCEPT !.writes = @ \cup {g}]
      BY <2>1 DEF AddWrite
    <3> HIDE DEF u
    <3> QED BY <1>1, <1>3, <2>1, <3>1 DEF Fields, SameRole, SameSockets, SameConns
  <2>2. CASE g \notin v.reads
    <3>1. u = v
      BY <2>2 DEF AddWrite
    <3> QED BY <1>1, <1>3, <2>2, <3>1 DEF SameRole, SameSockets, SameConns
  <2> QED BY <2>1, <2>2
<1> HIDE DEF v, u
<1>8. Types(u)
  <2>1. SocketsOK(u)
    BY <1>1, <1>7 DEF Types, SocketsOK
  <2> QED BY <1>1, <1>6, <1>7, <2>1 DEF Types, LoopOK, ConnsOK, SameRole, SameConns
<1>9. Held(u) = Held(t) /\ Waiting(u) = Waiting(t)
  BY <1>7 DEF Held, Waiting
<1>10. Tidy(u)
  BY <1>1, <1>7, <1>9 DEF Tidy
<1>11. Bound(u)
  BY <1>1, <1>7 DEF Bound, SameRole, SameConns
<1>12. Passing(u)
  BY <1>1, <1>5, <1>7 DEF Passing, SameRole
<1>13. Waking(u)
  <2>1. ASSUME NEW f \in u.reads, u.queue[f] > 0
        PROVE  f \in u.writes \/ \E i \in DOMAIN u.pipe : u.pipe[i] = f
    <3>1. f \in t.reads /\ (f \in t.writes \/ \E i \in DOMAIN s.pipe : s.pipe[i] = f)
      BY <1>1, <1>7, <2>1 DEF Waking, SameConns
    <3> QED BY <1>6, <1>7, <3>1
  <2> QED BY <1>1, <1>7, <2>1 DEF Waking, SameConns
<1>14. Registered(u, 0) /\ Attended(u)
  BY <1>1, <1>7, <1>9 DEF Registered, Attended, SameRole, SameConns
<1> QED BY <1>2, <1>8, <1>10, <1>11, <1>12, <1>13, <1>14 DEF IInv, Good, Core, u

\* A connection that is accepted has a descriptor that no other one has; one that is
\* refused is dropped.
LEMMA AcceptStep == ASSUME IInv, NEW e \in s.pass, Accept(e) PROVE IInv'
<1> USE ReactorAssumption
<1> DEFINE p == Popped(e)
           f == Min(Free(s))
           t == NewSocket(p, "up")
<1>1. /\ Core(p) /\ Registered(p, 0) /\ Attended(p) /\ SameRole(s, p) /\ SameSockets(s, p)
      /\ SameConns(s, p) /\ Held(p) = Held(s)
  BY PoppedKeeps
<1>2. CASE Free(s) = {}
  <2>1. s' = p
    BY <1>2 DEF Accept
  <2> HIDE DEF p
  <2> QED BY <1>1, <2>1 DEF IInv, Good
<1>3. CASE Free(s) # {}
  <2>1. s.role = "acceptor"
    BY DEF Accept, Ready, IInv, Good, Core, Passing
  <2>2. \/ (s' = t /\ s.conn[f] # NoConn) \/ s' = Drop(t, f)
        \/ s' = [t EXCEPT !.conn[f] = Unbound]
    BY <1>3 DEF Accept
  <2> HIDE DEF p
  <2>3. Free(p) = Free(s) /\ p.role = "acceptor" /\ p.conn = s.conn
    BY <1>1, <2>1 DEF SameRole, SameSockets, SameConns, Free
  <2>4. /\ Core(t) /\ f \in Fds \ p.open /\ p.conn[f] = NoConn /\ p.queue[f] = 0
        /\ f \notin p.writes /\ Held(t) = Held(p) \cup {f} /\ f \in t.connects
        /\ f \in t.open /\ SameEvents(p, t) /\ SameRole(p, t) /\ SameConns(p, t)
        /\ \A x \in Sessions : p.responder[x] # f
    BY <1>1, <1>3, <2>3, NewSocketKeeps
  <2> HIDE DEF f, t
  <2>5. /\ AttendedBut(t, f) /\ Registered(t, 0) /\ t.role = "acceptor"
    BY <1>1, <2>3, <2>4 DEF AttendedBut, Attended, Registered, SameRole, SameConns
  <2>6. CASE s' = Drop(t, f)
    BY <2>4, <2>5, <2>6, DropKeeps, DropAttended DEF IInv, Good
  <2>7. CASE s' = [t EXCEPT !.conn[f] = Unbound]
    <3> DEFINE u == [t EXCEPT !.conn[f] = Unbound]
    <3>1. Types(t) /\ Tidy(t) /\ Bound(t) /\ Passing(t) /\ Waking(t)
      BY <2>4 DEF Core
    <3>2. /\ SameSockets(t, u) /\ SameEvents(t, u) /\ SameRole(t, u)
          /\ u.conn = [t.conn EXCEPT ![f] = Unbound] /\ u.queue = t.queue
          /\ u.pending = t.pending /\ u.idle = t.idle /\ u.registered = t.registered
          /\ u.logged = t.logged /\ u.responder = t.responder
      BY <3>1 DEF Types, Fields, SameSockets, SameEvents, SameRole
    <3>3. u = s'
      BY <2>7
    <3> HIDE DEF u
    <3>4. Types(u)
      <4>1. ConnsOK(u)
        BY <2>4, <3>1, <3>2 DEF Types, ConnsOK
      <4> QED BY <3>1, <3>2, <4>1 DEF Types, SocketsOK, LoopOK, SameEvents, SameRole, SameSockets
    <3>5. Held(u) = Held(t) /\ Tidy(u)
      BY <3>1, <3>2 DEF Tidy, Waiting, Held, SameSockets
    <3>6. \A g \in Fds : u.conn[g] = (IF g = f THEN Unbound ELSE t.conn[g])
      BY <3>1, <3>2 DEF Types, ConnsOK
    <3>7. t.responder = p.responder /\ \A x \in Sessions : t.responder[x] # 0 => t.responder[x] \in Fds \ {f}
      BY <2>4, <3>1 DEF SameConns, Types, ConnsOK, Fds
    <3>8. Bound(u)
      <4>1. \A g \in Fds : u.conn[g] # NoConn => g \in u.open
        BY <2>4, <3>1, <3>2, <3>6 DEF Bound, SameSockets
      <4>2. \A x \in Sessions : u.responder[x] # 0 => u.conn[u.responder[x]] = x
        BY <3>1, <3>2, <3>6, <3>7 DEF Bound
      <4>3. ~u.stopped => \A g, k \in Fds : (u.conn[g] = u.conn[k] /\ u.conn[g] \in Sessions) => g = k
        BY <3>1, <3>2, <3>6 DEF Bound, SameRole
      <4>4. u.role # "initiator"
        BY <2>5, <3>2 DEF SameRole
      <4> QED BY <4>1, <4>2, <4>3, <4>4 DEF Bound
    <3>9. Passing(u)
      BY <3>1, <3>2 DEF Passing, SameEvents, SameSockets, SameRole
    <3>10. Waking(u)
      BY <3>1, <3>2, <3>6 DEF Waking, SameEvents, SameSockets
    <3>11. Registered(u, 0)
      BY <2>5, <3>2, <3>6 DEF Registered, SameRole
    <3>12. Attended(u)
      <4>1. Held(u) \subseteq Fds
        BY <3>4 DEF Types, SocketsOK, Held
      <4> QED BY <2>5, <3>2, <3>5, <3>6, <4>1 DEF Attended, AttendedBut, SameRole
    <3> QED BY <3>3, <3>4, <3>5, <3>8, <3>9, <3>10, <3>11, <3>12 DEF IInv, Good, Core
  <2> QED BY <2>2, <2>3, <2>4, <2>6, <2>7
<1> QED BY <1>2, <1>3

\* Reading a socket, and giving it up when the read fails.
LEMMA OnEventStep == ASSUME IInv, NEW e \in s.pass, OnEvent(e) PROVE IInv'
<1> DEFINE t == Popped(e)
           f == e.fd
<1>1. /\ Core(t) /\ Registered(t, 0) /\ Attended(t) /\ SameRole(s, t) /\ SameSockets(s, t)
  BY PoppedKeeps
<1>2. f \in Fds /\ f \notin t.connects
  <2>1. e \in Events /\ e.set = "reads" /\ f \notin s.connects
    BY DEF OnEvent, Ready, IInv, Good, Core, Types, LoopOK, Passing
  <2>2. f \in Fds
    BY <2>1 DEF Events, Polled
  <2> QED BY <1>1, <2>1, <2>2 DEF SameSockets
<1>3. PICK o \in (IF s.role = "acceptor" THEN ReadAcceptor(t, f) ELSE ReadInitiator(t, f)) :
        s' = IF o[2] THEN o[1]
             ELSE IF s.role = "acceptor" THEN OnError(o[1], f) ELSE OnDisconnect(o[1], f)
  BY DEF OnEvent
<1> HIDE DEF t, f
<1>4. t.role = s.role /\ t.role \in {"acceptor", "initiator"}
  BY <1>1 DEF SameRole, Core, Types, LoopOK
<1>5. ReadOK(t, o, f)
  BY <1>1, <1>2, <1>3, <1>4, ReadsOK
<1> DEFINE v == o[1]
<1>6. /\ Core(v) /\ Attended(v) /\ v.role = t.role /\ Registered(v, f)
      /\ (o[2] \/ t.role = "initiator") => Registered(v, 0)
  BY <1>5 DEF ReadOK, SameRole
<1>7. s' = IF o[2] THEN v ELSE IF s.role = "acceptor" THEN OnError(v, f) ELSE OnDisconnect(v, f)
  BY <1>3
<1> HIDE DEF v
<1>8. CASE o[2]
  BY <1>6, <1>7, <1>8 DEF IInv, Good
<1>9. CASE ~o[2] /\ s.role = "acceptor"
  <2>1. s' = OnError(v, f)
    BY <1>7, <1>9
  <2>2. Core(s') /\ Registered(s', 0) /\ Attended(s')
    BY <1>2, <1>4, <1>6, <1>9, <2>1, OnErrorKeeps
  <2> QED BY <2>2 DEF IInv, Good
<1>10. CASE ~o[2] /\ s.role = "initiator"
  <2>1. s' = OnDisconnect(v, f)
    BY <1>7, <1>10
  <2>2. Core(s') /\ Registered(s', 0) /\ Attended(s')
    BY <1>2, <1>4, <1>6, <1>10, <2>1, OnDisconnectKeeps
  <2> QED BY <2>2 DEF IInv, Good
<1> QED BY <1>4, <1>8, <1>9, <1>10

\* A socket that is connected now is one to read.
LEMMA OnConnectStep == ASSUME IInv, NEW e \in s.pass, OnConnect(e) PROVE IInv'
<1> DEFINE p == Popped(e)
           f == e.fd
           t == [p EXCEPT !.connects = @ \ {f}, !.reads = @ \cup {f}, !.pending = @ \ {f}]
<1>1. /\ Core(p) /\ Registered(p, 0) /\ Attended(p) /\ SameRole(s, p) /\ SameSockets(s, p)
      /\ SameConns(s, p)
      /\ Types(p) /\ Tidy(p) /\ Bound(p) /\ Passing(p) /\ Waking(p)
  BY PoppedKeeps DEF Core
<1>2. f \in s.connects /\ (s' = t \/ (s.conn[f] \in Sessions /\ s' = DisconnectSession(t, s.conn[f])))
  <2>1. f \in s.connects
    BY DEF OnConnect
  <2>2. s' = t \/ (s.conn[f] \in Sessions /\ s' = DisconnectSession(t, s.conn[f]))
    BY DEF OnConnect
  <2> QED BY <2>1, <2>2, Zenon
<1> HIDE DEF p
<1>3. f \in p.connects /\ f \in Fds
  BY <1>1, <1>2 DEF SameSockets, Types, SocketsOK
<1>4. /\ SameEvents(p, t) /\ SameRole(p, t) /\ t.open = p.open /\ t.gen = p.gen /\ t.made = p.made
      /\ t.reads = p.reads \cup {f} /\ t.connects = p.connects \ {f} /\ t.writes = p.writes
      /\ t.dropped = p.dropped /\ t.conn = p.conn /\ t.queue = p.queue
      /\ t.pending = p.pending \ {f} /\ t.idle = p.idle /\ t.responder = p.responder
      /\ t.registered = p.registered /\ t.logged = p.logged
  BY <1>1 DEF Types, Fields, SameEvents, SameRole
<1> HIDE DEF t, f
<1>5. Types(t)
  <2>1. SocketsOK(t) /\ ConnsOK(t)
    BY <1>1, <1>3, <1>4 DEF Types, SocketsOK, ConnsOK
  <2> QED BY <1>1, <1>4, <2>1 DEF Types, LoopOK, SameEvents, SameRole
<1>6. Held(t) = Held(p) /\ Waiting(t) = Waiting(p)
  BY <1>3, <1>4 DEF Held, Waiting
<1>7. Tidy(t)
  BY <1>1, <1>4, <1>6 DEF Tidy
<1>8. Bound(t)
  BY <1>1, <1>4 DEF Bound, SameRole
<1>9. Passing(t)
  BY <1>1, <1>4 DEF Passing, SameEvents, SameRole
<1>10. Waking(t)
  BY <1>1, <1>3, <1>4 DEF Waking, SameEvents
<1>11. Core(t) /\ Registered(t, 0) /\ Attended(t)
  BY <1>1, <1>4, <1>5, <1>6, <1>7, <1>8, <1>9, <1>10 DEF Core, Registered, Attended, SameRole
<1>12. CASE s' = t
  BY <1>11, <1>12 DEF IInv, Good
<1>13. CASE s.conn[f] \in Sessions /\ s' = DisconnectSession(t, s.conn[f])
  <2>1. Core(s') /\ Registered(s', 0) /\ Attended(s')
    BY <1>11, <1>13, DisconnectKeeps, DisconnectAttended
  <2> QED BY <2>1 DEF IInv, Good
<1> QED BY <1>2, <1>12, <1>13

\* Writing the queue of a connection leaves less to write.
LEMMA OnWriteStep == ASSUME IInv, NEW e \in s.pass, OnWrite(e) PROVE IInv'
<1> DEFINE p == Popped(e)
           f == e.fd
<1>1. /\ Core(p) /\ Registered(p, 0) /\ Attended(p) /\ SameSockets(s, p) /\ SameConns(s, p)
      /\ Types(p) /\ Tidy(p) /\ Bound(p) /\ Passing(p) /\ Waking(p)
  BY PoppedKeeps DEF Core
<1>2. \/ s' = p
      \/ /\ s.conn[f] # NoConn /\ \E left \in 0..s.queue[f] \cup {s.queue[f]} :
               s' = [p EXCEPT !.queue[f] = left, !.unsig = IF left = 0 THEN f ELSE 0]
  BY DEF OnWrite
<1>3. f \in Fds
  <2>1. e \in Events /\ e.set \in {"connects", "writes"}
    BY DEF OnWrite, Ready, IInv, Good, Core, Types, LoopOK
  <2> QED BY <2>1 DEF Events, Polled
<1> HIDE DEF p, f
<1>4. CASE s' = p
  BY <1>1, <1>4 DEF IInv, Good
<1>5. ASSUME s.conn[f] # NoConn, NEW left \in 0..s.queue[f] \cup {s.queue[f]},
             s' = [p EXCEPT !.queue[f] = left, !.unsig = IF left = 0 THEN f ELSE 0]
      PROVE  IInv'
  <2> DEFINE u == [p EXCEPT !.queue[f] = left, !.unsig = IF left = 0 THEN f ELSE 0]
  <2>1. /\ SameSockets(p, u) /\ SameRole(p, u) /\ u.pipe = p.pipe /\ u.pass = p.pass
        /\ u.unsig = (IF left = 0 THEN f ELSE 0) /\ u.queue = [p.queue EXCEPT ![f] = left]
        /\ u.conn = p.conn /\ u.pending = p.pending /\ u.idle = p.idle
        /\ u.registered = p.registered /\ u.logged = p.logged /\ u.responder = p.responder
    BY <1>1 DEF Types, Fields, SameSockets, SameRole
  <2>2. s' = u
    BY <1>5
  <2> HIDE DEF u
  <2>3. p.queue = s.queue /\ s.queue[f] \in Nat /\ p.queue \in [Fds -> Nat] /\ p.conn[f] # NoConn
    BY <1>1, <1>3, <1>5 DEF SameConns, Types, ConnsOK
  <2>4. left \in Nat /\ (left > 0 => p.queue[f] > 0)
    BY <2>3
  <2>5. \A g \in Fds : u.queue[g] = (IF g = f THEN left ELSE p.queue[g])
    BY <2>1, <2>3
  <2>6. Types(u)
    <3>1. u.queue \in [Fds -> Nat] /\ u.unsig \in 0..MaxFd
      BY <1>3, <2>1, <2>3, <2>4, ReactorAssumption DEF Fds
    <3>2. ConnsOK(u) /\ LoopOK(u)
      BY <1>1, <2>1, <3>1 DEF Types, ConnsOK, LoopOK, SameRole
    <3> QED BY <1>1, <2>1, <3>2 DEF Types, SocketsOK, SameSockets, SameRole
  <2>7. Held(u) = Held(p) /\ Tidy(u)
    BY <1>1, <2>1 DEF Tidy, Waiting, Held, SameSockets
  <2>8. Bound(u)
    BY <1>1, <2>1 DEF Bound, SameSockets, SameRole
  <2>9. Passing(u)
    BY <1>1, <2>1 DEF Passing, SameSockets, SameRole
  <2>10. Waking(u)
    <3>1. u.connects \subseteq Fds /\ u.reads \subseteq Fds
      BY <2>6 DEF Types, SocketsOK
    <3>2. \A g \in u.connects : u.queue[g] = 0
      <4> TAKE g \in u.connects
      <4>1. g \in Fds /\ p.queue[g] = 0
        BY <1>1, <2>1, <3>1 DEF Waking, SameSockets
      <4> QED BY <2>4, <2>5, <4>1
    <3>3. \A g \in Fds : u.conn[g] = NoConn => u.queue[g] = 0
      BY <1>1, <2>1, <2>3, <2>5 DEF Waking
    <3>4. ASSUME NEW g \in u.reads, u.queue[g] > 0
          PROVE  g \in u.writes \/ \E i \in DOMAIN u.pipe : u.pipe[i] = g
      <4>1. g \in Fds /\ g \in p.reads /\ p.queue[g] > 0
        BY <2>1, <2>4, <2>5, <3>1, <3>4 DEF SameSockets
      <4> QED BY <1>1, <2>1, <4>1 DEF Waking, SameSockets
    <3> QED BY <1>1, <2>1, <3>2, <3>3, <3>4 DEF Waking, SameSockets
  <2>11. Registered(u, 0) /\ Attended(u)
    BY <1>1, <2>1, <2>7 DEF Registered, Attended, SameRole
  <2> QED BY <2>2, <2>6, <2>7, <2>8, <2>9, <2>10, <2>11 DEF IInv, Good, Core
<1> QED BY <1>2, <1>4, <1>5

\* unsignal looks at the queue again: a message that came in since keeps the socket in
\* the write set.
LEMMA UnsignalStep == ASSUME IInv, Unsignal PROVE IInv'
<1>1. /\ Core(s) /\ Registered(s, 0) /\ Attended(s)
      /\ Types(s) /\ Tidy(s) /\ Bound(s) /\ Passing(s) /\ Waking(s)
  BY DEF IInv, Good, Core
<1> DEFINE f == s.unsig
           u == [s EXCEPT !.unsig = 0, !.writes = IF s.queue[f] = 0 THEN @ \ {f} ELSE @]
<1>2. s' = u
  BY DEF Unsignal
<1>3. /\ SameRole(s, u) /\ SameConns(s, u) /\ u.pipe = s.pipe /\ u.pass = s.pass /\ u.unsig = 0
      /\ u.open = s.open /\ u.gen = s.gen /\ u.made = s.made /\ u.reads = s.reads
      /\ u.connects = s.connects /\ u.dropped = s.dropped
      /\ u.writes = (IF s.queue[f] = 0 THEN s.writes \ {f} ELSE s.writes)
  BY <1>1 DEF Types, Fields, SameRole, SameConns
<1> HIDE DEF f, u
<1>4. u.writes \subseteq s.writes /\ \A g \in s.writes : s.queue[g] # 0 => g \in u.writes
  BY <1>3
<1>5. Types(u)
  <2>1. SocketsOK(u) /\ LoopOK(u)
    BY <1>1, <1>3, <1>4, ReactorAssumption DEF Types, SocketsOK, LoopOK, SameRole
  <2> QED BY <1>1, <1>3, <2>1 DEF Types, ConnsOK, SameRole, SameConns
<1>6. Held(u) = Held(s) /\ Waiting(u) = Waiting(s)
  BY <1>3 DEF Held, Waiting
<1>7. Tidy(u)
  BY <1>1, <1>3, <1>4, <1>6 DEF Tidy
<1>8. Bound(u)
  BY <1>1, <1>3 DEF Bound, SameRole, SameConns
<1>9. Passing(u)
  BY <1>1, <1>3 DEF Passing, SameRole
<1>10. Waking(u)
  BY <1>1, <1>3, <1>4 DEF Waking, SameConns
<1>11. Registered(u, 0) /\ Attended(u)
  BY <1>1, <1>3, <1>6 DEF Registered, Attended, SameRole, SameConns
<1> QED BY <1>2, <1>5, <1>7, <1>8, <1>9, <1>10, <1>11 DEF IInv, Good, Core

\* An error that poll() reported ends the connection, if it has not ended already.
LEMMA OnPollErrorStep == ASSUME IInv, NEW e \in s.pass, OnPollError(e) PROVE IInv'
<1> DEFINE t == Popped(e)
<1>1. Core(t) /\ Registered(t, 0) /\ Attended(t)
  BY PoppedKeeps
<1>2. s' = OnError(t, e.fd)
  BY DEF OnPollError
<1>3. e.fd \in Fds
  <2>1. e \in Events /\ e.event = "failed"
    BY DEF OnPollError, IInv, Good, Core, Types, LoopOK
  <2> QED BY <2>1 DEF Events
<1> HIDE DEF t
<1>4. Registered(t, e.fd)
  BY <1>1, RegisteredBut
<1>5. Core(s') /\ Registered(s', 0) /\ Attended(s')
  BY <1>1, <1>2, <1>3, <1>4, OnErrorKeeps
<1> QED BY <1>5 DEF IInv, Good

\* The timers and the time limit of a Logon disconnect or drop on the reactor's thread.
LEMMA TimersStep == ASSUME IInv, Timer \/ Expire PROVE IInv'
<1>1. Core(s) /\ Registered(s, 0) /\ Attended(s)
  BY DEF IInv, Good
<1>2. CASE Timer
  <2>1. PICK f \in Fds : s.conn[f] \in Sessions /\ s' = DisconnectSession(s, s.conn[f])
    BY <1>2 DEF Timer
  <2>2. Core(s') /\ Registered(s', 0) /\ Attended(s')
    BY <1>1, <2>1, DisconnectKeeps, DisconnectAttended
  <2> QED BY <2>2 DEF IInv, Good
<1>3. CASE Expire
  <2>1. PICK f \in Fds : s' = Drop(s, f)
    BY <1>3 DEF Expire
  <2>2. Core(s') /\ Registered(s', 0) /\ Attended(s')
    BY <1>1, <2>1, DropKeeps, DropAttended
  <2> QED BY <2>2 DEF IInv, Good
<1> QED BY <1>2, <1>3

\* A connect binds a new socket to a session that has none.
LEMMA ConnectStep == ASSUME IInv, Connect PROVE IInv'
<1> USE ReactorAssumption
<1>1. Core(s) /\ Types(s) /\ Bound(s) /\ Registered(s, 0) /\ Attended(s)
  BY DEF IInv, Good, Core
<1> DEFINE f == Min(Free(s))
           t == NewSocket(s, "connecting")
<1>2. PICK x \in s.idle :
        s' = [t EXCEPT !.conn[f] = x, !.pending = @ \cup {f}, !.idle = @ \ {x}, !.responder[x] = f]
  BY DEF Connect
<1>3. Free(s) # {} /\ s.role = "initiator" /\ ~s.stopped
  BY <1>1 DEF Connect, Bound
<1>4. /\ Core(t) /\ f \in Fds \ s.open /\ s.conn[f] = NoConn /\ s.queue[f] = 0
      /\ f \notin s.writes /\ Held(t) = Held(s) \cup {f} /\ f \in t.connects
      /\ f \in t.open /\ SameEvents(s, t) /\ SameRole(s, t) /\ SameConns(s, t)
      /\ \A y \in Sessions : s.responder[y] # f
  BY <1>1, <1>3, NewSocketKeeps
<1> HIDE DEF f, t
<1>5. Types(t) /\ Tidy(t) /\ Bound(t) /\ Passing(t) /\ Waking(t)
  BY <1>4 DEF Core
<1>6. x \in Sessions /\ t.role = "initiator" /\ ~t.stopped /\ \A g \in Fds : t.conn[g] # x
  BY <1>1, <1>3, <1>4, <1>5 DEF Bound, SameConns, SameRole, Types, ConnsOK
<1> DEFINE u == [t EXCEPT !.conn[f] = x, !.pending = @ \cup {f}, !.idle = @ \ {x}, !.responder[x] = f]
<1>7. /\ SameSockets(t, u) /\ SameEvents(t, u) /\ SameRole(t, u)
      /\ u.conn = [t.conn EXCEPT ![f] = x] /\ u.responder = [t.responder EXCEPT ![x] = f]
      /\ u.queue = t.queue /\ u.pending = t.pending \cup {f} /\ u.idle = t.idle \ {x}
      /\ u.registered = t.registered /\ u.logged = t.logged
  BY <1>5 DEF Types, Fields, SameSockets, SameEvents, SameRole
<1>8. s' = u
  BY <1>2
<1> HIDE DEF u
<1>9. Types(u)
  <2>1. f \in 0..MaxFd
    BY <1>4 DEF Fds
  <2>2. u.conn \in [Fds -> Sessions \cup {NoConn, Unbound}] /\ u.responder \in [Sessions -> 0..MaxFd]
    BY <1>4, <1>5, <1>6, <1>7, <2>1 DEF Types, ConnsOK
  <2>3. ConnsOK(u)
    BY <1>4, <1>5, <1>7, <2>2 DEF Types, ConnsOK
  <2> QED BY <1>5, <1>7, <2>3 DEF Types, SocketsOK, LoopOK, SameEvents, SameRole, SameSockets
<1>10. Held(u) = Held(t) /\ Tidy(u)
  BY <1>5, <1>7 DEF Tidy, Waiting, Held, SameSockets
<1>11. \A g \in Fds : u.conn[g] = (IF g = f THEN x ELSE t.conn[g])
  BY <1>5, <1>7 DEF Types, ConnsOK
<1>12. \A y \in Sessions : u.responder[y] = (IF y = x THEN f ELSE t.responder[y])
  BY <1>5, <1>7 DEF Types, ConnsOK
<1>13. \A y \in Sessions : t.responder[y] # f /\ (t.responder[y] # 0 => t.responder[y] \in Fds)
  BY <1>4, <1>5 DEF Types, ConnsOK, SameConns, Fds
<1>14. Bound(u)
  <2>1. \A g \in Fds : u.conn[g] # NoConn => g \in u.open
    BY <1>4, <1>5, <1>7, <1>11 DEF Bound, SameSockets
  <2>2. \A y \in Sessions : u.responder[y] # 0 => u.conn[u.responder[y]] = y
    BY <1>4, <1>5, <1>11, <1>12, <1>13 DEF Bound
  <2>3. ~u.stopped => \A g, k \in Fds : (u.conn[g] = u.conn[k] /\ u.conn[g] \in Sessions) => g = k
    BY <1>5, <1>6, <1>7, <1>11 DEF Bound, SameRole
  <2>4. ~u.stopped /\ \A g \in Fds : u.conn[g] # Unbound /\ u.conn[g] \notin u.idle
    BY <1>5, <1>6, <1>7, <1>11 DEF Bound, SameRole
  <2> QED BY <2>1, <2>2, <2>3, <2>4 DEF Bound
<1>15. Passing(u)
  BY <1>5, <1>7 DEF Passing, SameEvents, SameSockets, SameRole
<1>16. Waking(u)
  BY <1>4, <1>5, <1>7, <1>11, <1>12, <1>13 DEF Waking, SameEvents, SameSockets
<1>17. Registered(u, 0)
  BY <1>6, <1>7 DEF Registered, SameRole
<1>18. Attended(u)
  <2>1. u.role = "initiator" /\ Held(u) \subseteq Fds
    BY <1>6, <1>7, <1>9 DEF SameRole, Types, SocketsOK, Held
  <2>2. ASSUME "initiator" \notin Disconnecters, NEW g \in Held(u)
        PROVE  u.conn[g] \in Sessions /\ u.responder[u.conn[g]] = g
    <3>1. CASE g = f
      BY <1>4, <1>6, <1>11, <1>12, <3>1
    <3>2. CASE g # f
      <4>1. g \in Fds /\ t.conn[g] \in Sessions /\ t.responder[t.conn[g]] = g /\ t.conn[g] # x
        BY <1>1, <1>3, <1>4, <1>6, <1>10, <2>1, <2>2, <3>2 DEF Attended, SameConns
      <4> QED BY <1>11, <1>12, <3>2, <4>1
    <3> QED BY <3>1, <3>2
  <2> QED BY <2>1, <2>2 DEF Attended
<1> QED BY <1>8, <1>9, <1>10, <1>14, <1>15, <1>16, <1>17, <1>18 DEF IInv, Good, Core

\* A connect that got no descriptor changes nothing but what is idle.
LEMMA ConnectInVainStep == ASSUME IInv, ConnectInVain PROVE IInv'
<1>1. Core(s) /\ Types(s) /\ Tidy(s) /\ Bound(s) /\ Passing(s) /\ Waking(s)
      /\ Registered(s, 0) /\ Attended(s)
  BY DEF IInv, Good, Core
<1>2. PICK x \in s.idle : s' = [s EXCEPT !.idle = @ \ {x}]
  BY DEF ConnectInVain
<1> DEFINE u == [s EXCEPT !.idle = @ \ {x}]
<1>3. /\ SameSockets(s, u) /\ SameEvents(s, u) /\ SameRole(s, u)
      /\ u.conn = s.conn /\ u.queue = s.queue /\ u.pending = s.pending /\ u.idle = s.idle \ {x}
      /\ u.responder = s.responder /\ u.registered = s.registered /\ u.logged = s.logged
  BY <1>1 DEF Types, Fields, SameSockets, SameEvents, SameRole
<1>4. s' = u
  BY <1>2
<1> HIDE DEF u
<1>5. Types(u)
  BY <1>1, <1>3 DEF Types, SocketsOK, LoopOK, ConnsOK, SameEvents, SameRole, SameSockets
<1>6. Held(u) = Held(s) /\ Tidy(u)
  BY <1>1, <1>3 DEF Tidy, Waiting, Held, SameSockets
<1>7. Bound(u)
  BY <1>1, <1>3 DEF Bound, SameSockets, SameRole
<1>8. Passing(u) /\ Waking(u)
  BY <1>1, <1>3 DEF Passing, Waking, SameEvents, SameSockets, SameRole
<1>9. Registered(u, 0) /\ Attended(u)
  BY <1>1, <1>3, <1>6 DEF Registered, Attended, SameRole
<1> QED BY <1>4, <1>5, <1>6, <1>7, <1>8, <1>9 DEF IInv, Good, Core

\* A stopped acceptor that goes down closes every socket and forgets every responder.
LEMMA GoDownStep == ASSUME IInv, GoDown PROVE IInv'
<1> USE ReactorAssumption
<1>1. /\ Types(s) /\ Tidy(s) /\ Bound(s) /\ s.pass = {} /\ s.stopped /\ s.role = "acceptor"
      /\ s.stopped \in BOOLEAN
  BY DEF IInv, Good, Core, GoDown, Idle, Bound, Types, LoopOK
<1> DEFINE left == [x \in Sessions |-> IF \E f \in Fds : s.conn[f] = x THEN 0 ELSE s.responder[x]]
<1>2. /\ DOMAIN s' = Fields /\ s'.role = s.role /\ s'.stopped = s.stopped /\ s'.gone = TRUE
      /\ s'.gen = s.gen /\ s'.made = s.made /\ s'.reads = {} /\ s'.connects = {} /\ s'.writes = {}
      /\ s'.dropped = <<>> /\ s'.open = (s.open \ Held(s)) \ Waiting(s)
      /\ s'.pipe = <<>> /\ s'.pass = s.pass /\ s'.unsig = s.unsig
      /\ s'.conn = [f \in Fds |-> NoConn] /\ s'.queue = [f \in Fds |-> 0]
      /\ s'.pending = s.pending /\ s'.idle = s.idle /\ s'.logged = {}
      /\ s'.registered = s.registered \ {s.conn[f] : f \in Fds} /\ s'.responder = left
  BY <1>1 DEF GoDown, Types, Fields, Waiting
<1>3. s'.open = {} /\ Held(s') = {}
  BY <1>1, <1>2 DEF Tidy, Held
<1>4. \A x \in Sessions : s'.responder[x] = 0
  <2> TAKE x \in Sessions
  <2>1. s.responder[x] # 0 => s.responder[x] \in Fds /\ s.conn[s.responder[x]] = x
    BY <1>1 DEF Bound, Types, ConnsOK, Fds
  <2> QED BY <1>2, <2>1
<1>5. s'.responder \in [Sessions -> 0..MaxFd]
  <2>1. 0 \in 0..MaxFd
    OBVIOUS
  <2>2. s'.responder = [x \in Sessions |-> s'.responder[x]]
    BY <1>2
  <2> QED BY <1>4, <2>1, <2>2
<1>6. Types(s')
  <2>1. SocketsOK(s')
    BY <1>1, <1>2, <1>3 DEF Types, SocketsOK
  <2>2. LoopOK(s')
    <3>1. s'.pipe \in Seq(Fds)
      BY <1>2, EmptySeq
    <3>2. s'.gone \in BOOLEAN /\ s'.stopped \in BOOLEAN
      BY <1>1, <1>2, Zenon
    <3> QED BY <1>1, <1>2, <3>1, <3>2 DEF Types, LoopOK
  <2>3. ConnsOK(s')
    BY <1>1, <1>2, <1>5 DEF Types, ConnsOK
  <2> QED BY <1>2, <2>1, <2>2, <2>3 DEF Types
<1>7. Tidy(s')
  <2>1. DOMAIN s'.dropped = {}
    BY <1>2
  <2>2. Waiting(s') = {}
    BY <2>1 DEF Waiting
  <2> QED BY <1>2, <1>3, <2>1, <2>2 DEF Tidy
<1>8. Bound(s')
  BY <1>1, <1>2, <1>4 DEF Bound
<1>9. Passing(s')
  BY <1>1, <1>2 DEF Passing
<1>10. Waking(s')
  BY <1>2 DEF Waking
<1>11. Registered(s', 0) /\ Attended(s')
  BY <1>1, <1>2, <1>3 DEF Registered, Attended
<1> QED BY <1>6, <1>7, <1>8, <1>9, <1>10, <1>11 DEF IInv, Good, Core

-----------------------------------------------------------------------------
(* The steps of the other threads and of the peers *)

\* A message that is left in an empty queue wakes the reactor.
LEMMA SendStep == ASSUME IInv, Send PROVE IInv'
<1>1. /\ Core(s) /\ Registered(s, 0) /\ Attended(s)
      /\ Types(s) /\ Tidy(s) /\ Bound(s) /\ Passing(s) /\ Waking(s)
  BY DEF IInv, Good, Core
<1>2. PICK x \in Sessions : /\ s.responder[x] # 0 /\ s.responder[x] \notin s.pending
        /\ \E left \in (IF Down(s, s.responder[x]) THEN {s.queue[s.responder[x]] + 1}
                        ELSE 0..(s.queue[s.responder[x]] + 1)) :
             s' = Signalled([s EXCEPT !.queue[s.responder[x]] = left], s.responder[x])
  BY DEF Send
<1> DEFINE f == s.responder[x]
<1>3. /\ f \in Fds /\ s.queue[f] \in Nat /\ f \notin s.connects /\ s.conn[f] # NoConn
  BY <1>1, <1>2, ReactorAssumption DEF Types, ConnsOK, Fds, Bound, Waking
<1>4. PICK left \in 0..(s.queue[f] + 1) : s' = Signalled([s EXCEPT !.queue[f] = left], f)
  BY <1>2, <1>3
<1> HIDE DEF f
<1> DEFINE v == [s EXCEPT !.queue[f] = left]
           u == Signalled(v, f)
<1>5. /\ SameSockets(s, v) /\ SameRole(s, v) /\ SameEvents(s, v)
      /\ v.queue = [s.queue EXCEPT ![f] = left]
      /\ v.conn = s.conn /\ v.pending = s.pending /\ v.idle = s.idle
      /\ v.registered = s.registered /\ v.logged = s.logged /\ v.responder = s.responder
  BY <1>1 DEF Types, Fields, SameSockets, SameRole, SameEvents
<1>6. v.queue \in [Fds -> Nat] /\ \A g \in Fds : v.queue[g] = (IF g = f THEN left ELSE s.queue[g])
  BY <1>1, <1>3, <1>5 DEF Types, ConnsOK
<1>7. s' = u
  BY <1>4
<1> HIDE DEF v
<1>8. /\ SameSockets(v, u) /\ SameRole(v, u) /\ SameConns(v, u) /\ u.pass = v.pass /\ u.unsig = v.unsig
      /\ u.pipe = (IF left = 1 THEN Append(v.pipe, f) ELSE v.pipe)
  <2>1. v.queue[f] = left
    BY <1>3, <1>6
  <2>2. CASE left = 1
    <3>1. u = [v EXCEPT !.pipe = Append(@, f)]
      BY <2>1, <2>2 DEF Signalled
    <3> HIDE DEF u
    <3> QED BY <1>5, <2>2, <3>1 DEF SameRole, Fields, SameSockets, SameConns
  <2>3. CASE left # 1
    <3>1. u = v
      BY <2>1, <2>3 DEF Signalled
    <3> QED BY <1>5, <2>3, <3>1 DEF SameRole, SameSockets, SameConns
  <2> QED BY <2>2, <2>3
<1> HIDE DEF u
<1>9. /\ SameSockets(s, u) /\ SameRole(s, u) /\ u.pass = s.pass /\ u.unsig = s.unsig
      /\ u.pipe = (IF left = 1 THEN Append(s.pipe, f) ELSE s.pipe)
      /\ u.queue = v.queue /\ u.conn = s.conn /\ u.pending = s.pending /\ u.idle = s.idle
      /\ u.registered = s.registered /\ u.logged = s.logged /\ u.responder = s.responder
  BY <1>5, <1>8 DEF SameRole, SameSockets, SameConns, SameEvents
<1>10. /\ u.pipe \in Seq(Fds) /\ (s.pipe # <<>> => u.pipe # <<>>)
       /\ \A i \in DOMAIN s.pipe : \E j \in DOMAIN u.pipe : u.pipe[j] = s.pipe[i]
       /\ left = 1 => \E j \in DOMAIN u.pipe : u.pipe[j] = f
  <2>1. s.pipe \in Seq(Fds)
    BY <1>1 DEF Types, LoopOK
  <2>2. CASE left = 1
    <3> DEFINE q == Append(s.pipe, f)
    <3>1. /\ q \in Seq(Fds) /\ q # <<>> /\ DOMAIN s.pipe = 1..Len(s.pipe) /\ Len(s.pipe) \in Nat
          /\ DOMAIN q = 1..(Len(s.pipe) + 1) /\ q[Len(s.pipe) + 1] = f
          /\ \A i \in 1..Len(s.pipe) : q[i] = s.pipe[i]
      BY <1>3, <2>1, AppendProperties, LenProperties
    <3>2. u.pipe = q
      BY <1>9, <2>2
    <3> HIDE DEF q
    <3>3. \A i \in DOMAIN s.pipe : i \in DOMAIN u.pipe /\ u.pipe[i] = s.pipe[i]
      BY <3>1, <3>2
    <3>4. Len(s.pipe) + 1 \in DOMAIN u.pipe
      BY <3>1, <3>2
    <3> QED BY <3>1, <3>2, <3>3, <3>4
  <2>3. CASE left # 1
    BY <1>9, <2>1, <2>3
  <2> QED BY <2>2, <2>3
<1>11. Types(u)
  <2>1. LoopOK(u) /\ ConnsOK(u)
    BY <1>1, <1>6, <1>9, <1>10 DEF Types, LoopOK, ConnsOK, SameRole
  <2> QED BY <1>1, <1>9, <2>1 DEF Types, SocketsOK, SameSockets, SameRole
<1>12. Held(u) = Held(s) /\ Tidy(u)
  BY <1>1, <1>9 DEF Tidy, Waiting, Held, SameSockets
<1>13. Bound(u)
  BY <1>1, <1>9 DEF Bound, SameSockets, SameRole
<1>14. Passing(u)
  BY <1>1, <1>9, <1>10 DEF Passing, SameSockets, SameRole
<1>15. Waking(u)
  <2>1. u.connects \subseteq Fds /\ u.reads \subseteq Fds
    BY <1>11 DEF Types, SocketsOK
  <2>2. \A g \in u.connects : u.queue[g] = 0
    BY <1>1, <1>3, <1>6, <1>9, <2>1 DEF Waking, SameSockets
  <2>3. \A g \in Fds : u.conn[g] = NoConn => u.queue[g] = 0
    BY <1>1, <1>3, <1>6, <1>9 DEF Waking
  <2>4. ASSUME NEW g \in u.reads, u.queue[g] > 0
        PROVE  g \in u.writes \/ \E i \in DOMAIN u.pipe : u.pipe[i] = g
    <3>1. CASE g = f /\ left = 1
      BY <1>10, <3>1
    <3>2. CASE ~(g = f /\ left = 1)
      <4>1. g \in Fds /\ g \in s.reads /\ s.queue[g] > 0
        BY <1>3, <1>6, <1>9, <2>1, <2>4, <3>2 DEF SameSockets
      <4> QED BY <1>1, <1>9, <1>10, <4>1 DEF Waking, SameSockets
    <3> QED BY <3>1, <3>2
  <2> QED BY <1>1, <1>9, <2>2, <2>3, <2>4 DEF Waking, SameSockets
<1>16. Registered(u, 0) /\ Attended(u)
  BY <1>1, <1>9, <1>12 DEF Registered, Attended, SameRole
<1> QED BY <1>7, <1>11, <1>12, <1>13, <1>14, <1>15, <1>16 DEF IInv, Good, Core

\* A disconnect by another thread leaves the socket to the reactor's.
LEMMA OutsideStep == ASSUME IInv, Disconnect \/ Stop \/ Network PROVE IInv'
<1>1. /\ Core(s) /\ Registered(s, 0) /\ Attended(s)
      /\ Types(s) /\ Tidy(s) /\ Bound(s) /\ Passing(s) /\ Waking(s)
  BY DEF IInv, Good, Core
<1>2. CASE Disconnect
  <2>1. PICK x \in Sessions :
          s' = [DropFromOutside(s, s.responder[x]) EXCEPT !.responder[x] = 0, !.logged = @ \ {x}]
    BY <1>2 DEF Disconnect
  <2>2. /\ SameSockets(s, s') /\ SameEvents(s, s') /\ SameRole(s, s')
        /\ s'.conn = s.conn /\ s'.queue = s.queue /\ s'.pending = s.pending /\ s'.idle = s.idle
        /\ s'.registered = s.registered /\ s'.logged = s.logged \ {x}
        /\ s'.responder = [s.responder EXCEPT ![x] = 0]
    BY <1>1, <2>1 DEF DropFromOutside, Types, Fields, SameSockets, SameEvents, SameRole
  <2>3. Types(s')
    <3>1. s'.responder \in [Sessions -> 0..MaxFd]
      BY <1>1, <2>2, ReactorAssumption DEF Types, ConnsOK
    <3>2. ConnsOK(s')
      BY <1>1, <2>2, <3>1 DEF Types, ConnsOK
    <3> QED BY <1>1, <2>2, <3>2 DEF Types, SocketsOK, LoopOK, SameEvents, SameRole, SameSockets
  <2>4. Held(s') = Held(s) /\ Tidy(s')
    BY <1>1, <2>2 DEF Tidy, Waiting, Held, SameSockets
  <2>5. \A y \in Sessions : s'.responder[y] # 0 => s'.responder[y] = s.responder[y]
    BY <1>1, <2>2 DEF Types, ConnsOK
  <2>6. Bound(s')
    BY <1>1, <2>2, <2>5 DEF Bound, SameSockets, SameRole
  <2>7. Passing(s')
    BY <1>1, <2>2 DEF Passing, SameSockets, SameEvents, SameRole
  <2>8. 0 \notin s'.connects
    BY <2>3 DEF Types, SocketsOK, Fds
  <2>9. Waking(s')
    BY <1>1, <2>2, <2>5, <2>8 DEF Waking, SameSockets, SameEvents
  <2>10. Registered(s', 0) /\ Attended(s')
    <3>1. s.role \in Disconnecters
      BY <1>2 DEF Disconnect
    <3> QED BY <1>1, <2>2, <2>4, <3>1 DEF Registered, Attended, SameRole
  <2> QED BY <2>3, <2>4, <2>6, <2>7, <2>9, <2>10 DEF IInv, Good, Core
<1>3. CASE Stop
  <2>1. /\ SameSockets(s, s') /\ SameEvents(s, s') /\ DOMAIN s' = Fields /\ s'.role = s.role
        /\ s'.stopped = TRUE /\ s'.gone = s.gone /\ s'.registered = {} /\ s.role = "acceptor"
        /\ s'.conn = s.conn /\ s'.queue = s.queue /\ s'.pending = s.pending /\ s'.idle = s.idle
        /\ s'.responder = s.responder /\ s'.logged = s.logged
    BY <1>1, <1>3 DEF Stop, Types, Fields, SameSockets, SameEvents
  <2>2. Types(s')
    BY <1>1, <2>1 DEF Types, SocketsOK, LoopOK, ConnsOK, SameSockets, SameEvents
  <2>3. Held(s') = Held(s) /\ Tidy(s')
    BY <1>1, <2>1 DEF Tidy, Waiting, Held, SameSockets
  <2>4. Bound(s')
    BY <1>1, <2>1 DEF Bound, SameSockets
  <2>5. Passing(s')
    BY <1>1, <2>1 DEF Passing, SameSockets, SameEvents
  <2>6. Waking(s')
    BY <1>1, <2>1 DEF Waking, SameSockets, SameEvents
  <2>7. Registered(s', 0) /\ Attended(s')
    BY <1>1, <2>1, <2>3 DEF Registered, Attended
  <2> QED BY <2>2, <2>3, <2>4, <2>5, <2>6, <2>7 DEF IInv, Good, Core
<1>4. CASE Network
  <2>1. PICK f \in s.open : \E l \in {"up", "closed", "failed"} : s' = [s EXCEPT !.link[f] = l]
    BY <1>4 DEF Network
  <2>2. SameSockets(s, s') /\ SameEvents(s, s') /\ SameRole(s, s') /\ SameConns(s, s')
    BY <1>1, <2>1 DEF Types, Fields, SameSockets, SameEvents, SameRole, SameConns
  <2>3. Types(s')
    BY <1>1, <2>2
       DEF Types, SocketsOK, LoopOK, ConnsOK, SameSockets, SameEvents, SameRole, SameConns
  <2>4. Passing(s')
    BY <1>1, <2>2 DEF Passing, SameSockets, SameEvents, SameRole
  <2>5. Waking(s')
    BY <1>1, <2>2 DEF Waking, SameSockets, SameEvents, SameConns
  <2>6. Tidy(s') /\ Bound(s') /\ Registered(s', 0) /\ Attended(s')
    BY <1>1, <2>2, SameKeeps
  <2> QED BY <2>3, <2>4, <2>5, <2>6 DEF IInv, Good, Core
<1> QED BY <1>2, <1>3, <1>4

-----------------------------------------------------------------------------
(* The theorems *)

\* Nothing is open at first.
LEMMA InvariantInit == ASSUME Init PROVE IInv
<1> USE ReactorAssumption
<1>1. PICK role \in Roles : s = InitState(role)
  BY DEF Init
<1>2. role \in {"acceptor", "initiator"} /\ 0 \in 0..MaxFd
  OBVIOUS
<1>3. /\ DOMAIN s = Fields /\ s.role = role /\ s.open = {} /\ s.gen = [f \in Fds |-> 0]
      /\ s.reads = {} /\ s.connects = {} /\ s.writes = {} /\ s.dropped = <<>> /\ s.pipe = <<>>
      /\ s.pass = {} /\ s.unsig = 0 /\ s.conn = [f \in Fds |-> NoConn] /\ s.queue = [f \in Fds |-> 0]
      /\ s.pending = {} /\ s.idle = Sessions /\ s.responder = [x \in Sessions |-> 0]
      /\ s.registered = {} /\ s.logged = {} /\ s.made = 0 /\ s.stopped = FALSE /\ s.gone = FALSE
  BY <1>1 DEF InitState, Fields
<1>4. Types(s)
  <2>1. SocketsOK(s)
    BY <1>3 DEF SocketsOK
  <2>2. LoopOK(s)
    <3>1. s.pipe \in Seq(Fds)
      BY <1>3, EmptySeq
    <3>2. s.gone \in BOOLEAN /\ s.stopped \in BOOLEAN
      BY <1>3, Zenon
    <3> QED BY <1>2, <1>3, <3>1, <3>2 DEF LoopOK
  <2>3. ConnsOK(s)
    BY <1>2, <1>3 DEF ConnsOK
  <2> QED BY <1>3, <2>1, <2>2, <2>3 DEF Types
<1>5. Held(s) = {} /\ Waiting(s) = {} /\ DOMAIN s.dropped = {}
  BY <1>3 DEF Held, Waiting
<1>6. Tidy(s)
  BY <1>3, <1>5 DEF Tidy
<1>7. Bound(s)
  BY <1>3 DEF Bound
<1>8. Passing(s)
  BY <1>3 DEF Passing
<1>9. Waking(s)
  BY <1>3 DEF Waking
<1>10. Registered(s, 0) /\ Attended(s)
  BY <1>3, <1>5 DEF Registered, Attended
<1> QED BY <1>4, <1>6, <1>7, <1>8, <1>9, <1>10 DEF IInv, Good, Core

\* The invariant is kept by every event, call and timer.
LEMMA InvariantStep == ASSUME IInv, [Next]_s PROVE IInv'
<1>1. CASE UNCHANGED s
  BY <1>1 DEF IInv
<1>2. CASE Loop
  <2>1. CASE Report
    BY <2>1, ReportStep
  <2>2. CASE Poll
    BY <2>2, PollStep
  <2>3. CASE Unsignal
    BY <2>3, UnsignalStep
  <2>4. ASSUME NEW e \in s.pass, Interrupt(e) PROVE IInv'
    BY <2>4, InterruptStep
  <2>5. ASSUME NEW e \in s.pass, Accept(e) PROVE IInv'
    BY <2>5, AcceptStep
  <2>6. ASSUME NEW e \in s.pass, OnEvent(e) PROVE IInv'
    BY <2>6, OnEventStep
  <2>7. ASSUME NEW e \in s.pass, OnConnect(e) PROVE IInv'
    BY <2>7, OnConnectStep
  <2>8. ASSUME NEW e \in s.pass, OnWrite(e) PROVE IInv'
    BY <2>8, OnWriteStep
  <2>9. ASSUME NEW e \in s.pass, OnPollError(e) PROVE IInv'
    BY <2>9, OnPollErrorStep
  <2> QED BY <1>2, <2>1, <2>2, <2>3, <2>4, <2>5, <2>6, <2>7, <2>8, <2>9 DEF Loop
<1>3. CASE Timer \/ Expire
  BY <1>3, TimersStep
<1>4. CASE Connect
  BY <1>4, ConnectStep
<1>5. CASE GoDown
  BY <1>5, GoDownStep
<1>6. CASE Send
  BY <1>6, SendStep
<1>7. CASE Disconnect \/ Stop \/ Network
  BY <1>7, OutsideStep
<1>8. CASE ConnectInVain
  BY <1>8, ConnectInVainStep
<1> QED BY <1>1, <1>2, <1>3, <1>4, <1>5, <1>6, <1>7, <1>8 DEF Next

\* The invariant of the select transports is inductive: every method that the reactor's
\* thread calls keeps it, and so do the sends, disconnects and stop of other threads.
THEOREM Inductive == Spec => []IInv
<1>1. Init => IInv
  BY InvariantInit
<1>2. IInv /\ [Next]_s => IInv'
  BY InvariantStep
<1> QED BY <1>1, <1>2, PTL DEF Spec

\* A drop that waits in m_dropped is reported for the socket that was dropped: the
\* descriptor is not reused before block() has reported it and closed it.
THEOREM DropsReportOwn == Spec => []ReportsOwn
<1>1. IInv => ReportsOwn
  BY DEF IInv, Good, Core, Tidy, ReportsOwn
<1> QED BY <1>1, Inductive, PTL

\* As many sockets wait to be closed as there are drops, since none is dropped twice.
LEMMA WaitingCount ==
  ASSUME NEW t, Types(t), Tidy(t)
  PROVE  Cardinality(Waiting(t)) = Len(t.dropped)
<1> DEFINE f == [i \in DOMAIN t.dropped |-> t.dropped[i].fd]
           n == Len(t.dropped)
<1>1. n \in Nat /\ DOMAIN t.dropped = 1..n
  BY LenProperties DEF Types, SocketsOK
<1>2. f \in Injection(1..n, Waiting(t))
  <2>1. f \in [1..n -> Waiting(t)]
    BY <1>1 DEF Waiting
  <2>2. \A i, j \in 1..n : f[i] = f[j] => i = j
    BY <1>1 DEF Tidy
  <2> HIDE DEF f
  <2> QED BY <2>1, <2>2 DEF Injection, IsInjective
<1>3. f \in Surjection(1..n, Waiting(t))
  BY <1>1 DEF Surjection, Waiting
<1>4. IsFiniteSet(1..n) /\ Cardinality(1..n) = n
  BY <1>1, FS_Interval
<1> HIDE DEF f, n
<1>5. Cardinality(Waiting(t)) = Cardinality(1..n)
  <2>1. f \in Bijection(1..n, Waiting(t))
    BY <1>2, <1>3 DEF Bijection
  <2>2. ExistsBijection(1..n, Waiting(t))
    BY <2>1 DEF ExistsBijection
  <2> QED BY <1>4, <2>2, FS_Bijection
<1> QED BY <1>4, <1>5 DEF n

\* The monitor holds every open socket in exactly one of its sets or in the queue of
\* drops, once: none is leaked and none is closed twice, whoever drops it.
THEOREM SocketsHeldOnce == Spec => []HeldOnce
<1>1. IInv => HeldOnce
  <2> SUFFICES ASSUME IInv PROVE HeldOnce
    OBVIOUS
  <2>1. Types(s) /\ Tidy(s)
    BY DEF IInv, Good, Core
  <2>2. Cardinality(Waiting(s)) = Len(s.dropped)
    BY <2>1, WaitingCount
  <2>3. Waiting(s) = {s.dropped[i].fd : i \in DOMAIN s.dropped}
    BY DEF Waiting
  <2> QED BY <2>1, <2>2, <2>3 DEF HeldOnce, Tidy
<1> QED BY <1>1, Inductive, PTL

\* A session has one connection at a time until the acceptor is stopped, and its
\* responder is always a connection that exists and is its own.
THEOREM OneConnectionEach == Spec => []OneLiveConnection
<1>1. IInv => OneLiveConnection
  BY DEF IInv, Good, Core, Bound, OneLiveConnection, OneConnection, ResponderLive
<1> QED BY <1>1, Inductive, PTL

\* A message in a connection's queue is written: the socket is in the write set or a
\* wake-up is on its way, whatever the sending threads and unsignal do in between.
THEOREM NoWakeLost == Spec => []WakeNotLost
<1>1. IInv => WakeNotLost
  BY DEF IInv, Good, Core, Waking, WakeNotLost
<1> QED BY <1>1, Inductive, PTL

\* The monitor never holds a socket without a connection, if the sessions of an
\* initiator are disconnected by its own thread only; those of an acceptor may be
\* disconnected by any.
THEOREM NoneOrphaned ==
  ASSUME "initiator" \notin Disconnecters
  PROVE  Spec => []NoOrphan
<1>1. IInv => NoOrphan
  <2> SUFFICES ASSUME IInv PROVE NoOrphan
    OBVIOUS
  <2>1. Types(s) /\ Attended(s)
    BY DEF IInv, Good, Core
  <2>2. s.role \in {"acceptor", "initiator"}
    BY <2>1 DEF Types, LoopOK
  <2> QED BY <2>1, <2>2, ReactorAssumption DEF Attended, NoOrphan
<1> QED BY <1>1, Inductive, PTL

=============================================================================
