----------------------- MODULE ThreadedAcceptorProofs -----------------------
(***************************************************************************)
(* Proofs about ThreadedAcceptor, for any number of sessions, descriptors, *)
(* connections, application threads that call stop() and restarts.         *)
(*                                                                         *)
(* The invariant has four parts, each about some of the state: who owns a  *)
(* descriptor, where start() and stop() are, the sessions, and the count   *)
(* of the connections that wait to log on.  Threads take part in all of    *)
(* them, by the kind of place they are at; a step that leaves a part's     *)
(* fields and the kinds alone keeps it, and only the others are looked at. *)
(***************************************************************************)
EXTENDS ThreadedAcceptor, FiniteSetTheorems, WellFoundedInduction, TLAPS

Fields ==
  {"scope", "starts", "made", "open", "fd", "link", "m_stop", "m_stopping", "sockets",
   "threads", "held", "pending", "enabled", "snap", "rest", "todo", "pc", "hand", "sess",
   "tries", "left", "pend", "starter", "caller", "responder", "registered", "logged"}

\* Where a thread is: at the loop of a listener, with a connection in hand or not; at a
\* connection; at its end.
Holding == {"limit", "register"}
Listens == {"accept"} \cup Holding
Serves == {"read", "bind", "calling", "exit"}
Pcs == {"none"} \cup Listens \cup Serves \cup {"leaving", "remove", "done"}
Lives(t, n) == t.pc[n] \notin {"none", "done"}

-----------------------------------------------------------------------------
(* Who owns a descriptor *)

OwnTypes(t) ==
  /\ t.made \in 0..MaxMade /\ t.open \in [Fds -> 0..MaxMade] /\ t.fd \in [Socks -> 0..MaxFd]
  /\ t.sockets \in SUBSET Fds /\ t.rest \in SUBSET Fds
  /\ t.threads \in [Fds -> 0..MaxMade] /\ t.snap \in [Fds -> 0..MaxMade]
  /\ t.hand \in [Socks -> 0..MaxMade] /\ t.pc \in [Socks -> Pcs]

\* An open descriptor is of the socket that it was made for, and a socket that has not
\* been made has no thread.
Numbered(t) ==
  /\ \A f \in Fds : t.open[f] # 0 => t.open[f] <= t.made /\ t.fd[t.open[f]] = f
  /\ \A n \in Socks : n > t.made => t.pc[n] = "none"

\* m_threads and what onStop took from it name open sockets that had a thread; a thread
\* that has not ended is in one of them.
Tables(t) ==
  /\ \A f \in Fds : t.threads[f] # 0 =>
       t.open[f] = t.threads[f] /\ t.snap[f] = 0 /\ t.pc[t.threads[f]] # "none"
  /\ \A f \in Fds : t.snap[f] # 0 => t.open[f] = t.snap[f] /\ t.pc[t.snap[f]] # "none"
Rooted(t) ==
  \A n \in Socks : Lives(t, n) =>
    t.fd[n] \in Fds /\ (t.threads[t.fd[n]] = n \/ t.snap[t.fd[n]] = n)

\* A connection that was accepted is in the hand of one thread, and nowhere else.
Fresh(t, k) ==
  /\ t.fd[k] \in Fds /\ t.open[t.fd[k]] = k /\ t.pc[k] = "none"
  /\ t.fd[k] \notin t.sockets \cup t.rest /\ t.threads[t.fd[k]] = 0 /\ t.snap[t.fd[k]] = 0
Hands(t) ==
  /\ \A n \in Socks : t.hand[n] # 0 <=> t.pc[n] \in Holding
  /\ \A n \in Socks : t.hand[n] # 0 => Fresh(t, t.hand[n])
  /\ \A n, m \in Socks : (t.hand[n] # 0 /\ t.hand[n] = t.hand[m]) => n = m

\* A listener is open; its thread leaves it only after a stop.
Listeners(t) ==
  /\ \A f \in t.sockets :
       /\ t.open[f] # 0 /\ t.snap[f] = 0 /\ (t.threads[f] = 0 => t.pc[t.open[f]] = "none")
       /\ t.threads[f] # 0 =>
            t.pc[t.open[f]] \in Listens \/ (t.m_stop /\ t.pc[t.open[f]] \in {"leaving", "done"})
  /\ \A f \in t.rest : t.open[f] # 0 /\ t.snap[f] = 0 /\ t.threads[f] = 0 /\ t.pc[t.open[f]] = "none"

\* Nothing is open that nobody will close.
Owned(t) ==
  \A f \in Fds : t.open[f] # 0 =>
    \/ t.threads[f] # 0 \/ t.snap[f] # 0 \/ f \in t.sockets \cup t.rest
    \/ \E n \in Socks : t.hand[n] # 0 /\ t.fd[t.hand[n]] = f

Own(t) ==
  OwnTypes(t) /\ Numbered(t) /\ Tables(t) /\ Rooted(t) /\ Hands(t) /\ Listeners(t) /\ Owned(t)

-----------------------------------------------------------------------------
(* Where start() and stop() are *)

Early == {"flag"}
Late == {"lock", "take", "shutdown", "join", "starter"}
Stops(t, c) == t.caller[c] \in Early \cup Late
NoThreads(t) == t.sockets = {} /\ \A f \in Fds : t.threads[f] = 0

CtlTypes(t) ==
  /\ t.scope \in Scopes /\ t.m_stop \in BOOLEAN /\ t.m_stopping \in BOOLEAN
  /\ t.todo \in SUBSET Fds /\ t.starter \in {"none", "copy", "spawn", "done"}
  /\ t.caller \in [Callers -> {"idle", "waiting", "returned"} \cup Early \cup Late]

\* One stop() at a time.
Single(t) ==
  /\ \A c, d \in Callers : Stops(t, c) /\ Stops(t, d) => c = d
  /\ t.m_stopping <=> \E c \in Callers : Stops(t, c)
  /\ \A c \in Callers : (t.caller[c] = "flag" => ~t.m_stop) /\ (t.caller[c] \in Late => t.m_stop)

\* No thread is made once onStop has taken those there were, and none is left when
\* stop() has returned.
Taking(t) ==
  /\ \A c \in Callers : t.caller[c] \in {"shutdown", "join", "starter"} => NoThreads(t)
  /\ (t.rest # {} \/ \E f \in Fds : t.snap[f] # 0) =>
       \E c \in Callers : t.caller[c] \in {"shutdown", "join"}
  /\ t.m_stop /\ ~t.m_stopping => NoThreads(t) /\ t.starter = "none"

\* onStart has still to make the threads of the listeners it has not come to.
Spawning(t) ==
  /\ t.starter = "copy" /\ ~t.m_stop => \A f \in Fds : t.threads[f] = 0
  /\ t.starter = "spawn" /\ ~t.m_stop => t.todo \subseteq t.sockets /\ \A f \in t.todo : t.threads[f] = 0

Ctl(t) == CtlTypes(t) /\ Single(t) /\ Taking(t) /\ Spawning(t)

-----------------------------------------------------------------------------
(* The sessions and the count of pending connections *)

SessTypes(t) ==
  /\ t.sess \in [Socks -> Sessions \cup {NoSession}] /\ t.responder \in [Sessions -> 0..MaxMade]
  /\ t.registered \in SUBSET Sessions /\ t.enabled \in BOOLEAN

\* A session's responder is a connection of its own; a connection has a session once it
\* is bound and until it is deleted; every registered session has a connection, and
\* until a stop gives them free every session with a connection is registered.
Sess(t) ==
  /\ SessTypes(t)
  /\ \A x \in Sessions : t.responder[x] # 0 => t.pc[t.responder[x]] \in Serves /\ t.sess[t.responder[x]] = x
  /\ \A k \in Socks : t.sess[k] # NoSession => t.pc[k] \in Serves \ {"bind"}
  /\ \A x \in t.registered : \E k \in Socks : t.sess[k] = x
  /\ t.enabled => /\ \A k \in Socks : t.sess[k] # NoSession => t.sess[k] \in t.registered
                  /\ \A j, k \in Socks : t.sess[j] # NoSession /\ t.sess[j] = t.sess[k] => j = k

Waiters(t) == {k \in Socks : t.pend[k]}
At(t, pcs) == {n \in Socks : t.pc[n] \in pcs}

\* A listener's thread that is past the look at the limit will add one to the count, and
\* there are no more of them than ports.
Count(t) ==
  /\ t.pend \in [Socks -> BOOLEAN] /\ t.pending = Cardinality(Waiters(t))
  /\ \A k \in Socks : t.pend[k] => t.pc[k] \in Serves
  /\ MaxPending > 0 => t.pending + Cardinality(At(t, {"register"})) <= MaxPending + t.scope.ports - 1
  /\ Cardinality(At(t, Listens)) <= t.scope.ports
  /\ t.starter = "copy" /\ ~t.m_stop => At(t, Listens) = {} /\ Cardinality(t.sockets) <= t.scope.ports
  /\ t.starter = "spawn" /\ ~t.m_stop => Cardinality(At(t, Listens)) + Cardinality(t.todo) <= t.scope.ports

Good(t) == DOMAIN t = Fields /\ Own(t) /\ Ctl(t) /\ Sess(t) /\ Count(t)
IInv == Good(s)

-----------------------------------------------------------------------------
(* What two states have in common *)

SameOwn(t, u) ==
  /\ u.made = t.made /\ u.open = t.open /\ u.fd = t.fd /\ u.sockets = t.sockets
  /\ u.rest = t.rest /\ u.threads = t.threads /\ u.snap = t.snap /\ u.hand = t.hand
SameCtl(t, u) ==
  /\ u.scope = t.scope /\ u.m_stop = t.m_stop /\ u.m_stopping = t.m_stopping
  /\ u.todo = t.todo /\ u.starter = t.starter /\ u.caller = t.caller
SameSess(t, u) ==
  /\ u.sess = t.sess /\ u.responder = t.responder /\ u.registered = t.registered
  /\ u.enabled = t.enabled
SameCount(t, u) == u.pending = t.pending /\ u.pend = t.pend

\* A thread goes from one place to another.
Moves(t, u, n, q) == u.pc = [t.pc EXCEPT ![n] = q]

\* A number that is not 0 is a socket's, or a descriptor.
LEMMA Numbers ==
  ASSUME NEW t, OwnTypes(t)
  PROVE  /\ \A f \in Fds : t.open[f] # 0 => t.open[f] \in Socks
         /\ \A f \in Fds : t.threads[f] # 0 => t.threads[f] \in Socks
         /\ \A f \in Fds : t.snap[f] # 0 => t.snap[f] \in Socks
         /\ \A n \in Socks : t.hand[n] # 0 => t.hand[n] \in Socks
         /\ \A n \in Socks : n # 0 /\ n \in Nat
<1>1. MaxMade \in Nat
  BY ThreadedAcceptorAssumption
<1>2. \A i \in 0..MaxMade : i # 0 => i \in Socks
  BY <1>1 DEF Socks
<1>3. \A n \in Socks : n # 0 /\ n \in Nat
  BY <1>1 DEF Socks
<1> QED BY <1>2, <1>3 DEF OwnTypes

\* The least element of a set of natural numbers.
LEMMA MinExists ==
  ASSUME NEW T \in SUBSET Nat, T # {}
  PROVE  Min(T) \in T
<1>1. IsWellFoundedOn(OpToRel(<, Nat), Nat)
  BY NatLessThanWellFounded
<1>2. PICK m \in T : \A y \in T : ~(<<y, m>> \in OpToRel(<, Nat))
  BY <1>1, WFMin
<1>3. \A y \in T : m =< y
  <2> TAKE y \in T
  <2>1. y \in Nat /\ m \in Nat
    OBVIOUS
  <2>2. ~(y < m)
    BY <1>2, <2>1 DEF OpToRel
  <2> QED BY <2>1, <2>2
<1>4. \E x \in T : \A y \in T : x =< y
  BY <1>3
<1> QED BY <1>4 DEF Min

\* Sets of sockets and of descriptors are finite.
LEMMA Finite ==
  ASSUME NEW S, S \subseteq Socks \/ S \subseteq Fds
  PROVE  IsFiniteSet(S) /\ Cardinality(S) \in Nat
<1>1. MaxMade \in Int /\ MaxFd \in Int
  BY ThreadedAcceptorAssumption
<1>2. IsFiniteSet(1..MaxMade) /\ IsFiniteSet(1..MaxFd)
  BY <1>1, FS_Interval
<1>3. IsFiniteSet(S)
  BY <1>2, FS_Subset DEF Socks, Fds
<1> QED BY <1>3, FS_CardinalityType

\* Where the threads are after one has moved.
LEMMA MovesEffect ==
  ASSUME NEW t, NEW u, NEW n \in Socks, NEW q \in Pcs, t.pc \in [Socks -> Pcs], Moves(t, u, n, q)
  PROVE  /\ u.pc \in [Socks -> Pcs] /\ u.pc[n] = q
         /\ \A m \in Socks : m # n => u.pc[m] = t.pc[m]
BY DEF Moves

-----------------------------------------------------------------------------
(* When a part is kept *)

\* A thread that has moved was and is at a connection.
SameKind(t, u) ==
  /\ u.pc \in [Socks -> Pcs]
  /\ \A n \in Socks : u.pc[n] = t.pc[n] \/ (t.pc[n] \in Serves /\ u.pc[n] \in Serves)

\* Nothing of it has changed but the places of connections.
LEMMA OwnSame ==
  ASSUME NEW t, NEW u, Own(t), SameOwn(t, u), SameKind(t, u), t.m_stop => u.m_stop
  PROVE  Own(u)
<1>1. OwnTypes(t) /\ Numbered(t) /\ Tables(t) /\ Rooted(t) /\ Hands(t) /\ Listeners(t) /\ Owned(t)
  BY DEF Own
<1>2. \A n \in Socks : /\ u.pc[n] = "none" <=> t.pc[n] = "none"
                       /\ Lives(u, n) <=> Lives(t, n)
                       /\ u.pc[n] \in Holding <=> t.pc[n] \in Holding
                       /\ u.pc[n] \in Listens <=> t.pc[n] \in Listens
                       /\ t.pc[n] \in {"leaving", "done"} => u.pc[n] = t.pc[n]
  BY DEF SameKind, Lives, Holding, Listens, Serves
<1>3. OwnTypes(u)
  BY <1>1 DEF OwnTypes, SameOwn, SameKind
<1>4. Numbered(u)
  BY <1>1, <1>2 DEF Numbered, SameOwn
<1>5. Tables(u)
  BY <1>1, <1>2, Numbers DEF Tables, SameOwn
<1>6. Rooted(u)
  BY <1>1, <1>2 DEF Rooted, SameOwn
<1>7. Hands(u)
  BY <1>1, <1>2, Numbers DEF Hands, Fresh, SameOwn
<1>8. Listeners(u)
  <2>1. \A f \in t.sockets \cup t.rest : f \in Fds /\ t.open[f] \in Socks
    BY <1>1, Numbers DEF Listeners, OwnTypes
  <2>2. \A f \in u.sockets :
          /\ u.open[f] # 0 /\ u.snap[f] = 0 /\ (u.threads[f] = 0 => u.pc[u.open[f]] = "none")
          /\ u.threads[f] # 0 =>
               u.pc[u.open[f]] \in Listens \/ (u.m_stop /\ u.pc[u.open[f]] \in {"leaving", "done"})
    BY <1>1, <1>2, <2>1 DEF Listeners, SameOwn
  <2>3. \A f \in u.rest :
          u.open[f] # 0 /\ u.snap[f] = 0 /\ u.threads[f] = 0 /\ u.pc[u.open[f]] = "none"
    BY <1>1, <1>2, <2>1 DEF Listeners, SameOwn
  <2> QED BY <2>2, <2>3 DEF Listeners
<1>9. Owned(u)
  BY <1>1 DEF Owned, SameOwn
<1> QED BY <1>3, <1>4, <1>5, <1>6, <1>7, <1>8, <1>9 DEF Own

\* A thread moves on, with a connection in its hand before and after or neither; that of
\* a listener stays at its loop unless there was a stop.
LEMMA OwnMoves ==
  ASSUME NEW t, NEW u, Own(t), SameOwn(t, u), u.m_stop = t.m_stop,
         NEW n \in Socks, NEW q \in Pcs \ {"none"}, Lives(t, n), Moves(t, u, n, q),
         t.pc[n] \in Holding <=> q \in Holding,
         \/ (t.pc[n] \in Listens /\ q \in Listens) \/ t.pc[n] \in Serves \/ t.pc[n] = "remove"
         \/ (t.m_stop /\ q \in {"leaving", "done"}) \/ (~t.m_stop /\ t.pc[n] = "leaving")
  PROVE  Own(u)
<1>1. OwnTypes(t) /\ Numbered(t) /\ Tables(t) /\ Rooted(t) /\ Hands(t) /\ Listeners(t) /\ Owned(t)
  BY DEF Own
<1>2. /\ u.pc \in [Socks -> Pcs] /\ u.pc[n] = q /\ \A m \in Socks : m # n => u.pc[m] = t.pc[m]
  <2>1. t.pc \in [Socks -> Pcs] /\ q \in Pcs
    BY <1>1 DEF OwnTypes
  <2> QED BY <2>1 DEF Moves
<1>3. t.pc[n] # "none" /\ q # "none" /\ t.pc[n] # "done"
  BY DEF Lives
<1>4. OwnTypes(u)
  BY <1>1, <1>2 DEF OwnTypes, SameOwn
<1>5. Numbered(u)
  BY <1>1, <1>2, <1>3 DEF Numbered, SameOwn
<1>6. Tables(u)
  BY <1>1, <1>2, <1>3, Numbers DEF Tables, SameOwn
<1>7. Rooted(u)
  BY <1>1, <1>2, <1>3 DEF Rooted, SameOwn, Lives
<1>8. Hands(u)
  <2>1. \A m \in Socks : t.hand[m] # 0 => t.hand[m] \in Socks /\ t.hand[m] # n
    BY <1>1, <1>3, Numbers DEF Hands, Fresh
  <2> QED BY <1>1, <1>2, <2>1 DEF Hands, Fresh, SameOwn
<1>9. Listeners(u)
  <2>1. \A f \in t.sockets \cup t.rest : f \in Fds /\ t.open[f] \in Socks
    BY <1>1, Numbers DEF Listeners, OwnTypes
  <2>2. ASSUME NEW f \in u.sockets
        PROVE  /\ u.open[f] # 0 /\ u.snap[f] = 0 /\ (u.threads[f] = 0 => u.pc[u.open[f]] = "none")
               /\ u.threads[f] # 0 =>
                    u.pc[u.open[f]] \in Listens \/ (u.m_stop /\ u.pc[u.open[f]] \in {"leaving", "done"})
    <3>1. f \in t.sockets /\ f \in Fds /\ t.open[f] \in Socks
      BY <2>1 DEF SameOwn
    <3>2. CASE t.open[f] # n
      BY <1>1, <1>2, <3>1, <3>2 DEF Listeners, SameOwn
    <3>3. CASE t.open[f] = n
      <4>1. /\ t.open[f] # 0 /\ t.snap[f] = 0 /\ t.threads[f] # 0
            /\ t.pc[n] \in Listens \/ (t.m_stop /\ t.pc[n] \in {"leaving", "done"})
        BY <1>1, <1>3, <3>1, <3>3 DEF Listeners
      <4>2. q \in Listens \/ (t.m_stop /\ q \in {"leaving", "done"})
        BY <4>1 DEF Listens, Holding, Serves
      <4> QED BY <1>2, <3>3, <4>1, <4>2 DEF SameOwn
    <3> QED BY <3>2, <3>3
  <2>3. \A f \in u.rest :
          u.open[f] # 0 /\ u.snap[f] = 0 /\ u.threads[f] = 0 /\ u.pc[u.open[f]] = "none"
    BY <1>1, <1>2, <1>3, <2>1 DEF Listeners, SameOwn
  <2> QED BY <2>2, <2>3 DEF Listeners
<1>10. Owned(u)
  BY <1>1 DEF Owned, SameOwn
<1> QED BY <1>4, <1>5, <1>6, <1>7, <1>8, <1>9, <1>10 DEF Own

\* start() and stop() stay where they are, and what they look at as it is.
LEMMA CtlSame ==
  ASSUME NEW t, NEW u, Ctl(t), SameCtl(t, u), u.sockets = t.sockets, u.rest = t.rest,
         u.threads = t.threads, u.snap = t.snap
  PROVE  Ctl(u)
<1>1. CtlTypes(t) /\ Single(t) /\ Taking(t) /\ Spawning(t)
  BY DEF Ctl
<1>2. CtlTypes(u)
  BY <1>1 DEF CtlTypes, SameCtl
<1>3. Single(u)
  BY <1>1 DEF Single, Stops, SameCtl
<1>4. Taking(u)
  BY <1>1 DEF Taking, NoThreads, SameCtl
<1>5. Spawning(u)
  BY <1>1 DEF Spawning, SameCtl
<1> QED BY <1>2, <1>3, <1>4, <1>5 DEF Ctl

\* A connection with a session stays one.
LEMMA SessSame ==
  ASSUME NEW t, NEW u, Sess(t), SameSess(t, u),
         \A k \in Socks : t.sess[k] # NoSession => u.pc[k] \in Serves \ {"bind"}
  PROVE  Sess(u)
<1>1. \A x \in Sessions : t.responder[x] # 0 => t.responder[x] \in Socks /\ x # NoSession
  BY ThreadedAcceptorAssumption DEF Sess, SessTypes, Socks
<1>2. SessTypes(u)
  BY DEF Sess, SessTypes, SameSess
<1>3. \A x \in Sessions : u.responder[x] # 0 => u.pc[u.responder[x]] \in Serves /\ u.sess[u.responder[x]] = x
  BY <1>1 DEF Sess, SameSess
<1> QED BY <1>2, <1>3 DEF Sess, SameSess

\* A thread with a session stays at its connection, and not at setSession.
LEMMA SessMoves ==
  ASSUME NEW t, NEW u, Sess(t), SameSess(t, u), t.pc \in [Socks -> Pcs],
         NEW n \in Socks, NEW q \in Pcs, Moves(t, u, n, q),
         t.sess[n] = NoSession \/ q \in Serves \ {"bind"}
  PROVE  Sess(u)
<1>1. \A k \in Socks : t.sess[k] # NoSession => t.pc[k] \in Serves \ {"bind"}
  BY DEF Sess
<1>2. u.pc[n] = q /\ \A m \in Socks : m # n => u.pc[m] = t.pc[m]
  BY MovesEffect
<1> QED BY <1>1, <1>2, SessSame

\* No more threads are at the loop of a listener, nor past the look at the limit.
LEMMA CountSame ==
  ASSUME NEW t, NEW u, Count(t), SameCount(t, u), u.scope = t.scope, t.scope \in Scopes,
         \/ u.m_stop = TRUE
         \/ /\ u.m_stop = t.m_stop /\ u.starter = t.starter /\ u.sockets = t.sockets
            /\ u.todo = t.todo,
         \A k \in Socks : t.pend[k] => u.pc[k] \in Serves,
         At(u, Listens) \subseteq At(t, Listens),
         At(u, {"register"}) \subseteq At(t, {"register"}), t.todo \subseteq Fds
  PROVE  Count(u)
<1>1. /\ Cardinality(At(u, Listens)) <= Cardinality(At(t, Listens))
      /\ Cardinality(At(u, {"register"})) <= Cardinality(At(t, {"register"}))
  <2>1. IsFiniteSet(At(t, Listens)) /\ IsFiniteSet(At(t, {"register"}))
    BY Finite DEF At
  <2> QED BY <2>1, FS_Subset
<1>2. /\ Cardinality(At(u, Listens)) \in Nat /\ Cardinality(At(t, Listens)) \in Nat
      /\ Cardinality(At(u, {"register"})) \in Nat /\ Cardinality(At(t, {"register"})) \in Nat
      /\ Cardinality(Waiters(t)) \in Nat /\ Cardinality(t.todo) \in Nat
  BY Finite DEF At, Waiters
<1>3. MaxPending \in Nat /\ t.scope.ports \in Nat
  BY ThreadedAcceptorAssumption
<1>4. Waiters(u) = Waiters(t)
  BY DEF Waiters, SameCount
<1>5. u.pend \in [Socks -> BOOLEAN] /\ u.pending = Cardinality(Waiters(u))
  BY <1>4 DEF Count, SameCount
<1>6. \A k \in Socks : u.pend[k] => u.pc[k] \in Serves
  BY DEF Count, SameCount
<1>7. MaxPending > 0 => u.pending + Cardinality(At(u, {"register"})) <= MaxPending + u.scope.ports - 1
  BY <1>1, <1>2, <1>3 DEF Count, SameCount
<1>8. Cardinality(At(u, Listens)) <= u.scope.ports
  BY <1>1, <1>2, <1>3 DEF Count
<1>9. u.starter = "copy" /\ ~u.m_stop => At(u, Listens) = {} /\ Cardinality(u.sockets) <= u.scope.ports
  BY DEF Count
<1>10. u.starter = "spawn" /\ ~u.m_stop => Cardinality(At(u, Listens)) + Cardinality(u.todo) <= u.scope.ports
  BY <1>1, <1>2, <1>3 DEF Count
<1> QED BY <1>5, <1>6, <1>7, <1>8, <1>9, <1>10 DEF Count

\* A thread moves on and does not come to the lock past the look at the limit.
LEMMA CountMoves ==
  ASSUME NEW t, NEW u, Count(t), SameCount(t, u), SameCtl(t, u), u.sockets = t.sockets, CtlTypes(t),
         t.pc \in [Socks -> Pcs], NEW n \in Socks, NEW q \in Pcs, Moves(t, u, n, q),
         t.pc[n] \notin Serves \/ q \in Serves, q \in Listens => t.pc[n] \in Listens, q # "register"
  PROVE  Count(u)
<1>1. u.pc[n] = q /\ \A m \in Socks : m # n => u.pc[m] = t.pc[m]
  BY DEF Moves
<1>2. \A k \in Socks : t.pend[k] => u.pc[k] \in Serves
  BY <1>1 DEF Count
<1>3. At(u, Listens) \subseteq At(t, Listens) /\ At(u, {"register"}) \subseteq At(t, {"register"})
  BY <1>1 DEF At
<1>4. t.scope \in Scopes /\ t.todo \subseteq Fds
  BY DEF CtlTypes
<1> QED BY <1>2, <1>3, <1>4, CountSame DEF SameCtl

-----------------------------------------------------------------------------
(* The steps of a connection *)

\* Nothing that the invariant speaks of has changed.
LEMMA NothingElse ==
  ASSUME NEW t, NEW u, Good(t), DOMAIN u = Fields, SameOwn(t, u), SameCtl(t, u), SameSess(t, u),
         SameCount(t, u), u.pc = t.pc
  PROVE  Good(u)
<1>1. Own(t) /\ Ctl(t) /\ Sess(t) /\ Count(t) /\ t.pc \in [Socks -> Pcs] /\ CtlTypes(t)
  BY DEF Good, Own, OwnTypes, Ctl
<1>2. SameKind(t, u)
  BY <1>1 DEF SameKind
<1>3. Own(u)
  BY <1>1, <1>2, OwnSame DEF SameCtl
<1>4. Ctl(u)
  BY <1>1, CtlSame DEF SameOwn
<1>5. Sess(u)
  <2>1. \A k \in Socks : t.sess[k] # NoSession => u.pc[k] \in Serves \ {"bind"}
    BY <1>1 DEF Sess
  <2> QED BY <1>1, <2>1, SessSame
<1>6. Count(u)
  <2>1. \A k \in Socks : t.pend[k] => u.pc[k] \in Serves
    BY <1>1 DEF Count
  <2>2. At(u, Listens) = At(t, Listens) /\ At(u, {"register"}) = At(t, {"register"})
    BY DEF At
  <2>3. t.scope \in Scopes /\ t.todo \subseteq Fds
    BY <1>1 DEF CtlTypes
  <2> QED BY <1>1, <2>1, <2>2, <2>3, CountSame DEF SameCtl, SameOwn
<1> QED BY <1>3, <1>4, <1>5, <1>6 DEF Good

\* A connection goes from one of its places to another, and its session changes.
LEMMA ServesParts ==
  ASSUME NEW t, NEW u, Good(t), SameOwn(t, u), SameCtl(t, u), SameCount(t, u),
         NEW k \in Socks, NEW q \in Serves, t.pc[k] \in Serves, Moves(t, u, k, q)
  PROVE  Own(u) /\ Ctl(u) /\ Count(u)
<1>1. Own(t) /\ Ctl(t) /\ Count(t) /\ t.pc \in [Socks -> Pcs] /\ CtlTypes(t) /\ q \in Pcs
  BY DEF Good, Own, OwnTypes, Ctl, Pcs
<1>2. u.pc \in [Socks -> Pcs] /\ u.pc[k] = q /\ \A m \in Socks : m # k => u.pc[m] = t.pc[m]
  BY <1>1 DEF Moves
<1>3. SameKind(t, u)
  BY <1>2 DEF SameKind
<1>4. Own(u)
  BY <1>1, <1>3, OwnSame DEF SameCtl
<1>5. Ctl(u)
  BY <1>1, CtlSame DEF SameOwn
<1>6. Count(u)
  BY <1>1, CountMoves DEF SameOwn, Serves, Listens, Holding
<1> QED BY <1>4, <1>5, <1>6

\* A connection goes from one of its places to another.
LEMMA ServesOn ==
  ASSUME NEW t, NEW u, Good(t), DOMAIN u = Fields, SameOwn(t, u), SameCtl(t, u), SameSess(t, u),
         SameCount(t, u), NEW k \in Socks, NEW q \in Serves, t.pc[k] \in Serves, Moves(t, u, k, q),
         q = "bind" => t.sess[k] = NoSession
  PROVE  Good(u)
<1>1. Own(u) /\ Ctl(u) /\ Count(u)
  BY ServesParts
<1>2. Sess(t) /\ t.pc \in [Socks -> Pcs] /\ q \in Pcs
  BY DEF Good, Own, OwnTypes, Pcs
<1>3. t.sess[k] = NoSession \/ q \in Serves \ {"bind"}
  OBVIOUS
<1>4. Sess(u)
  BY <1>2, <1>3, SessMoves
<1> QED BY <1>1, <1>4 DEF Good

\* Session::disconnect takes the responder away.
LEMMA DisconnectedKeeps ==
  ASSUME NEW t, Good(t), NEW x \in Sessions
  PROVE  LET u == Disconnected(t, x)
         IN Good(u) /\ u.pc = t.pc /\ u.sess = t.sess
<1> DEFINE u == Disconnected(t, x)
<1>1. DOMAIN t = Fields /\ Own(t) /\ Ctl(t) /\ Sess(t) /\ Count(t) /\ t.pc \in [Socks -> Pcs]
  BY DEF Good, Own, OwnTypes
<1>2. /\ DOMAIN u = Fields /\ SameOwn(t, u) /\ SameCtl(t, u) /\ SameCount(t, u) /\ u.pc = t.pc
      /\ u.sess = t.sess /\ u.registered = t.registered /\ u.enabled = t.enabled
      /\ u.responder = [t.responder EXCEPT ![x] = 0]
  <2> DEFINE t1 == [t EXCEPT !.responder[x] = 0, !.logged = @ \ {x}]
  <2>1. /\ DOMAIN t1 = Fields /\ SameOwn(t, t1) /\ SameCtl(t, t1) /\ SameCount(t, t1) /\ t1.pc = t.pc
        /\ t1.sess = t.sess /\ t1.registered = t.registered /\ t1.enabled = t.enabled
        /\ t1.responder = [t.responder EXCEPT ![x] = 0]
    BY <1>1 DEF Fields, SameOwn, SameCtl, SameCount
  <2>2. u = t1 \/ \E k : u = [t1 EXCEPT !.link[k] = "disc"]
    BY DEF Disconnected, Dropped
  <2> HIDE DEF t1, u
  <2> QED BY <2>1, <2>2 DEF Fields, SameOwn, SameCtl, SameCount
<1> HIDE DEF u
<1>3. Sess(u)
  <2>1. t.responder \in [Sessions -> 0..MaxMade] /\ 0 \in 0..MaxMade
    BY <1>1, ThreadedAcceptorAssumption DEF Sess, SessTypes
  <2>2. \A y \in Sessions : u.responder[y] # 0 => u.responder[y] = t.responder[y]
    BY <1>2, <2>1
  <2>3. SessTypes(u)
    BY <1>1, <1>2, <2>1 DEF Sess, SessTypes
  <2>4. \A y \in Sessions : u.responder[y] # 0 => u.pc[u.responder[y]] \in Serves /\ u.sess[u.responder[y]] = y
    BY <1>1, <1>2, <2>2 DEF Sess
  <2> QED BY <1>1, <1>2, <2>3, <2>4 DEF Sess
<1>4. SameKind(t, u)
  BY <1>1, <1>2 DEF SameKind
<1>5. Own(u)
  BY <1>1, <1>2, <1>4, OwnSame DEF SameCtl
<1>6. Ctl(u)
  BY <1>1, <1>2, CtlSame DEF SameOwn
<1>7. Count(u)
  <2>1. \A k \in Socks : t.pend[k] => u.pc[k] \in Serves
    BY <1>1, <1>2 DEF Count
  <2>2. At(u, Listens) = At(t, Listens) /\ At(u, {"register"}) = At(t, {"register"})
    BY <1>2 DEF At
  <2>3. t.scope \in Scopes /\ t.todo \subseteq Fds
    BY <1>1 DEF Ctl, CtlTypes
  <2> QED BY <1>1, <1>2, <2>1, <2>2, <2>3, CountSame DEF SameCtl, SameOwn
<1> QED BY <1>2, <1>3, <1>5, <1>6, <1>7 DEF Good, u

\* A connection that has logged on, or that ends, is one fewer that waits.
LEMMA GivenKeeps ==
  ASSUME NEW t, Good(t), NEW k \in Socks, t.pend[k]
  PROVE  LET u == Given(t, k)
         IN /\ Good(u) /\ u.pc = t.pc /\ u.sess = t.sess /\ SameOwn(t, u) /\ SameCtl(t, u)
            /\ SameSess(t, u) /\ ~u.pend[k]
<1> DEFINE u == Given(t, k)
<1>1. /\ DOMAIN t = Fields /\ Own(t) /\ Ctl(t) /\ Sess(t) /\ Count(t) /\ t.pc \in [Socks -> Pcs]
      /\ CtlTypes(t)
  BY DEF Good, Own, OwnTypes, Ctl
<1>2. /\ DOMAIN u = Fields /\ SameOwn(t, u) /\ SameCtl(t, u) /\ SameSess(t, u) /\ u.pc = t.pc
      /\ u.pend = [t.pend EXCEPT ![k] = FALSE] /\ u.pending = t.pending - 1
  BY <1>1 DEF Given, Fields, SameOwn, SameCtl, SameSess
<1> HIDE DEF u
<1>3. SameKind(t, u)
  BY <1>1, <1>2 DEF SameKind
<1>4. Own(u)
  BY <1>1, <1>2, <1>3, OwnSame DEF SameCtl
<1>5. Ctl(u)
  BY <1>1, <1>2, CtlSame DEF SameOwn
<1>6. Sess(u)
  <2>1. \A j \in Socks : t.sess[j] # NoSession => u.pc[j] \in Serves \ {"bind"}
    BY <1>1, <1>2 DEF Sess
  <2> QED BY <1>1, <1>2, <2>1, SessSame
<1>7. t.pend \in [Socks -> BOOLEAN] /\ u.pend \in [Socks -> BOOLEAN] /\ ~u.pend[k]
  BY <1>1, <1>2 DEF Count
<1>8. \A j \in Socks : j # k => u.pend[j] = t.pend[j]
  BY <1>2, <1>7
<1>9. Waiters(u) = Waiters(t) \ {k} /\ k \in Waiters(t)
  BY <1>7, <1>8 DEF Waiters
<1>10. IsFiniteSet(Waiters(t)) /\ Cardinality(Waiters(t)) \in Nat
       /\ Cardinality(At(t, {"register"})) \in Nat
  BY Finite DEF Waiters, At
<1>11. Cardinality(Waiters(u)) = Cardinality(Waiters(t)) - 1
  BY <1>9, <1>10, FS_RemoveElement
<1>12. At(u, Listens) = At(t, Listens) /\ At(u, {"register"}) = At(t, {"register"})
  BY <1>2 DEF At
<1>13. MaxPending \in Nat /\ t.scope.ports \in Nat
  BY <1>1, ThreadedAcceptorAssumption DEF CtlTypes
<1>14. Count(u)
  <2>1. u.pending = Cardinality(Waiters(u))
    BY <1>1, <1>2, <1>11 DEF Count
  <2>2. MaxPending > 0 => u.pending + Cardinality(At(u, {"register"})) <= MaxPending + u.scope.ports - 1
    BY <1>1, <1>2, <1>10, <1>12, <1>13 DEF Count, SameCtl
  <2>3. \A j \in Socks : u.pend[j] => u.pc[j] \in Serves
    BY <1>1, <1>2, <1>7, <1>8 DEF Count
  <2>4. /\ Cardinality(At(u, Listens)) <= u.scope.ports
        /\ u.starter = "copy" /\ ~u.m_stop => At(u, Listens) = {} /\ Cardinality(u.sockets) <= u.scope.ports
        /\ u.starter = "spawn" /\ ~u.m_stop => Cardinality(At(u, Listens)) + Cardinality(u.todo) <= u.scope.ports
    BY <1>1, <1>2, <1>12 DEF Count, SameCtl, SameOwn
  <2> QED BY <1>7, <2>1, <2>2, <2>3, <2>4 DEF Count
<1> QED BY <1>2, <1>4, <1>5, <1>6, <1>7, <1>14 DEF Good, SameSess, u

\* read() returns, and the connection may have logged on.
LEMMA ReturnedKeeps ==
  ASSUME NEW t, Good(t), NEW k \in Socks
  PROVE  Good(Returned(t, k))
<1>1. CASE t.pend[k] /\ t.sess[k] \in t.logged
  <2>1. Returned(t, k) = Given(t, k)
    BY <1>1 DEF Returned, Given
  <2> QED BY <1>1, <2>1, GivenKeeps
<1>2. CASE ~(t.pend[k] /\ t.sess[k] \in t.logged)
  BY <1>2 DEF Returned
<1> QED BY <1>1, <1>2

\* A disconnect from outside.
LEMMA DisconnectStep == ASSUME IInv, Disconnect PROVE IInv'
<1>1. PICK x \in Sessions : s' = Disconnected(s, x)
  BY DEF Disconnect
<1>2. Good(s)
  BY DEF IInv
<1>3. Good(s')
  BY <1>1, <1>2, DisconnectedKeeps
<1> QED BY <1>3 DEF IInv

\* A drop of the connection by its own thread.
LEMMA DroppedKeeps ==
  ASSUME NEW t, Good(t), NEW k
  PROVE  Good(Dropped(t, k)) /\ Dropped(t, k).pc = t.pc /\ Dropped(t, k).sess = t.sess
<1> DEFINE u == Dropped(t, k)
<1>1. DOMAIN t = Fields
  BY DEF Good
<1>2. /\ DOMAIN u = Fields /\ SameOwn(t, u) /\ SameCtl(t, u) /\ SameSess(t, u) /\ SameCount(t, u)
      /\ u.pc = t.pc
  BY <1>1 DEF Dropped, Fields, SameOwn, SameCtl, SameSess, SameCount
<1> HIDE DEF u
<1>3. Good(u)
  BY <1>2, NothingElse
<1> QED BY <1>2, <1>3 DEF u, SameSess

\* The move of a connection that a handler ends with.
LEMMA ThenServes ==
  ASSUME NEW t, Good(t), NEW k \in Socks, t.pc[k] \in Serves, NEW q \in Serves \ {"bind"}
  PROVE  Good([t EXCEPT !.pc[k] = q])
<1> DEFINE u == [t EXCEPT !.pc[k] = q]
<1>1. DOMAIN t = Fields
  BY DEF Good
<1>2. /\ DOMAIN u = Fields /\ SameOwn(t, u) /\ SameCtl(t, u) /\ SameSess(t, u) /\ SameCount(t, u)
      /\ Moves(t, u, k, q)
  BY <1>1 DEF Fields, SameOwn, SameCtl, SameSess, SameCount, Moves
<1> HIDE DEF u
<1>3. Good(u)
  BY <1>2, ServesOn
<1> QED BY <1>3 DEF u

\* A read that fails, or finds that the peer has gone or has not logged on in time.
LEMMA ReadStep == ASSUME IInv, NEW k \in Socks, ReadFails(k) \/ ReadEnds(k) PROVE IInv'
<1>1. Good(s) /\ s.pc[k] \in Serves /\ s.sess[k] \in Sessions \cup {NoSession} /\ "exit" \in Serves \ {"bind"}
  BY DEF IInv, Good, Sess, SessTypes, ReadFails, ReadEnds, Serves
<1>2. s' = Failed(k) \/ s' = [s EXCEPT !.pc[k] = "exit"]
  BY DEF ReadFails, ReadEnds
<1>3. CASE s' = [s EXCEPT !.pc[k] = "exit"]
  <2>1. Good(s')
    BY <1>1, <1>3, ThenServes
  <2> QED BY <2>1 DEF IInv
<1>4. CASE s' = Failed(k)
  <2> DEFINE t == IF s.sess[k] = NoSession THEN Dropped(s, k) ELSE Disconnected(s, s.sess[k])
  <2>1. s' = [t EXCEPT !.pc[k] = "exit"]
    BY <1>4 DEF Failed
  <2>2. Good(t) /\ t.pc = s.pc
    <3>1. CASE s.sess[k] = NoSession
      BY <1>1, <3>1, DroppedKeeps
    <3>2. CASE s.sess[k] # NoSession
      <4>1. s.sess[k] \in Sessions
        BY <1>1, <3>2
      <4> QED BY <1>1, <3>2, <4>1, DisconnectedKeeps
    <3> QED BY <3>1, <3>2
  <2> HIDE DEF t
  <2>3. Good(s')
    BY <1>1, <2>1, <2>2, ThenServes
  <2> QED BY <2>3 DEF IInv
<1> QED BY <1>2, <1>3, <1>4

\* A message, whatever the session makes of it.
LEMMA MessageStep == ASSUME IInv, NEW k \in Socks, Message(k) PROVE IInv'
<1> DEFINE t == [s EXCEPT !.left[k] = @ - 1]
           x == s.sess[k]
<1>1. /\ Good(s) /\ DOMAIN s = Fields /\ s.pc[k] = "read" /\ "read" \in Serves /\ "bind" \in Serves
      /\ "calling" \in Serves \ {"bind"} /\ x \in Sessions \cup {NoSession}
  BY DEF IInv, Good, Sess, SessTypes, Message, Serves
<1>2. /\ DOMAIN t = Fields /\ SameOwn(s, t) /\ SameCtl(s, t) /\ SameSess(s, t) /\ SameCount(s, t)
      /\ t.pc = s.pc
  BY <1>1 DEF Fields, SameOwn, SameCtl, SameSess, SameCount
<1>3. Good(t)
  BY <1>1, <1>2, NothingElse
<1>4. \/ x = NoSession /\ s' = [t EXCEPT !.pc[k] = "bind", !.tries[k] = 0]
      \/ /\ x # NoSession
         /\ \/ s' = Returned(t, k) \/ s' = Returned([t EXCEPT !.logged = @ \cup {x}], k)
            \/ s' = Disconnected(t, x) \/ s' = Dropped(t, k) \/ s' = [t EXCEPT !.pc[k] = "calling"]
  BY DEF Message
<1> HIDE DEF t
<1>5. CASE x = NoSession /\ s' = [t EXCEPT !.pc[k] = "bind", !.tries[k] = 0]
  <2>1. /\ DOMAIN s' = Fields /\ SameOwn(t, s') /\ SameCtl(t, s') /\ SameSess(t, s') /\ SameCount(t, s')
        /\ Moves(t, s', k, "bind")
    BY <1>2, <1>5 DEF Fields, SameOwn, SameCtl, SameSess, SameCount, Moves
  <2>2. t.sess[k] = NoSession
    BY <1>2, <1>5 DEF SameSess
  <2>3. Good(s')
    BY <1>1, <1>2, <1>3, <2>1, <2>2, ServesOn
  <2> QED BY <2>3 DEF IInv
<1>6. CASE s' = Returned(t, k)
  BY <1>3, <1>6, ReturnedKeeps DEF IInv
<1>7. CASE s' = Returned([t EXCEPT !.logged = @ \cup {x}], k)
  <2> DEFINE u == [t EXCEPT !.logged = @ \cup {x}]
  <2>1. /\ DOMAIN u = Fields /\ SameOwn(t, u) /\ SameCtl(t, u) /\ SameSess(t, u) /\ SameCount(t, u)
        /\ u.pc = t.pc
    BY <1>2 DEF Fields, SameOwn, SameCtl, SameSess, SameCount
  <2>2. s' = Returned(u, k)
    BY <1>7
  <2> HIDE DEF u
  <2>3. Good(u)
    BY <1>3, <2>1, NothingElse
  <2>4. Good(s')
    BY <2>2, <2>3, ReturnedKeeps
  <2> QED BY <2>4 DEF IInv
<1>8. CASE x # NoSession /\ s' = Disconnected(t, x)
  <2>1. x \in Sessions
    BY <1>1, <1>8
  <2> HIDE DEF x
  <2>2. Good(s')
    BY <1>3, <1>8, <2>1, DisconnectedKeeps
  <2> QED BY <2>2 DEF IInv
<1>9. CASE s' = Dropped(t, k)
  BY <1>3, <1>9, DroppedKeeps DEF IInv
<1>10. CASE s' = [t EXCEPT !.pc[k] = "calling"]
  <2>1. Good(s')
    BY <1>1, <1>2, <1>3, <1>10, ThenServes
  <2> QED BY <2>1 DEF IInv
<1> QED BY <1>4, <1>5, <1>6, <1>7, <1>8, <1>9, <1>10

\* The callback that called stop() returns.
LEMMA CallReturnsStep == ASSUME IInv, NEW k \in Socks, CallReturns(k) PROVE IInv'
<1> DEFINE t == [s EXCEPT !.pc[k] = "read"]
<1>1. Good(s) /\ s.pc[k] \in Serves /\ "read" \in Serves \ {"bind"} /\ s' = Returned(t, k)
  BY DEF IInv, CallReturns, Serves
<1>2. Good(t)
  BY <1>1, ThenServes
<1> HIDE DEF t
<1>3. Good(s')
  BY <1>1, <1>2, ReturnedKeeps
<1> QED BY <1>3 DEF IInv

\* setSession registers the session that it has found free.
LEMMA FoundKeeps ==
  ASSUME NEW t, Good(t), NEW k \in Socks, t.pc[k] = "bind", NEW x \in Sessions, x \notin t.registered
  PROVE  LET u == [t EXCEPT !.registered = @ \cup {x}, !.sess[k] = x, !.pc[k] = "read"]
         IN Good(u) /\ u.pc[k] = "read" /\ u.sess[k] = x
<1> DEFINE u == [t EXCEPT !.registered = @ \cup {x}, !.sess[k] = x, !.pc[k] = "read"]
<1>1. /\ DOMAIN t = Fields /\ Sess(t) /\ t.pc \in [Socks -> Pcs] /\ "read" \in Serves \ {"bind"}
      /\ t.pc[k] \in Serves /\ "read" \in Pcs
  BY DEF Good, Own, OwnTypes, Serves, Pcs
<1>2. /\ DOMAIN u = Fields /\ SameOwn(t, u) /\ SameCtl(t, u) /\ SameCount(t, u)
      /\ u.pc = [t.pc EXCEPT ![k] = "read"] /\ u.responder = t.responder /\ u.enabled = t.enabled
      /\ u.sess = [t.sess EXCEPT ![k] = x] /\ u.registered = t.registered \cup {x}
  BY <1>1 DEF Fields, SameOwn, SameCtl, SameCount
<1> HIDE DEF u
<1>3. Own(u) /\ Ctl(u) /\ Count(u)
  <2>1. Moves(t, u, k, "read")
    BY <1>2 DEF Moves
  <2> QED BY <1>1, <1>2, <2>1, ServesParts
<1>4. t.sess \in [Socks -> Sessions \cup {NoSession}] /\ t.sess[k] = NoSession /\ NoSession \notin Sessions
  BY <1>1, ThreadedAcceptorAssumption DEF Sess, SessTypes
<1>5. u.sess[k] = x /\ u.pc[k] = "read"
      /\ \A j \in Socks : j # k => u.sess[j] = t.sess[j] /\ u.pc[j] = t.pc[j]
  BY <1>1, <1>2, <1>4
<1>6. SessTypes(u)
  BY <1>1, <1>2 DEF Sess, SessTypes
<1>7. \A y \in Sessions : u.responder[y] # 0 => u.pc[u.responder[y]] \in Serves /\ u.sess[u.responder[y]] = y
  <2>1. \A y \in Sessions : t.responder[y] # 0 => t.responder[y] \in Socks
    BY <1>1, ThreadedAcceptorAssumption DEF Sess, SessTypes, Socks
  <2> QED BY <1>1, <1>2, <1>4, <1>5, <2>1 DEF Sess
<1>8. \A j \in Socks : u.sess[j] # NoSession => u.pc[j] \in Serves \ {"bind"}
  BY <1>1, <1>5 DEF Sess
<1>9. \A y \in u.registered : \E j \in Socks : u.sess[j] = y
  <2> TAKE y \in u.registered
  <2>1. CASE y = x
    BY <1>5, <2>1
  <2>2. CASE y # x
    <3>1. y \in t.registered /\ y \in Sessions
      BY <1>1, <1>2, <2>2 DEF Sess, SessTypes
    <3>2. PICK j \in Socks : t.sess[j] = y
      BY <1>1, <3>1 DEF Sess
    <3> QED BY <1>4, <1>5, <3>1, <3>2
  <2> QED BY <2>1, <2>2
<1>10. u.enabled => /\ \A j \in Socks : u.sess[j] # NoSession => u.sess[j] \in u.registered
                    /\ \A i, j \in Socks : u.sess[i] # NoSession /\ u.sess[i] = u.sess[j] => i = j
  <2>1. t.enabled => \A j \in Socks : t.sess[j] # NoSession => t.sess[j] \in t.registered
    BY <1>1 DEF Sess
  <2>2. t.enabled => \A i, j \in Socks : t.sess[i] # NoSession /\ t.sess[i] = t.sess[j] => i = j
    BY <1>1 DEF Sess
  <2> QED BY <1>2, <1>4, <1>5, <2>1, <2>2
<1>11. Sess(u)
  BY <1>6, <1>7, <1>8, <1>9, <1>10 DEF Sess
<1> QED BY <1>2, <1>3, <1>5, <1>11 DEF Good, u

\* The connection becomes the responder of its session.
LEMMA AnswersKeeps ==
  ASSUME NEW t, Good(t), NEW k \in Socks, t.pc[k] \in Serves, NEW x \in Sessions, t.sess[k] = x
  PROVE  Good([t EXCEPT !.responder[x] = k])
<1> DEFINE u == [t EXCEPT !.responder[x] = k]
<1>1. DOMAIN t = Fields /\ Sess(t) /\ t.pc \in [Socks -> Pcs]
  BY DEF Good, Own, OwnTypes
<1>2. /\ DOMAIN u = Fields /\ SameOwn(t, u) /\ SameCtl(t, u) /\ SameCount(t, u) /\ u.pc = t.pc
      /\ u.sess = t.sess /\ u.registered = t.registered /\ u.enabled = t.enabled
      /\ u.responder = [t.responder EXCEPT ![x] = k]
  BY <1>1 DEF Fields, SameOwn, SameCtl, SameCount
<1> HIDE DEF u
<1>3. Own(u) /\ Ctl(u) /\ Count(u)
  <2>1. Moves(t, u, k, t.pc[k])
    BY <1>1, <1>2 DEF Moves
  <2> QED BY <1>1, <1>2, <2>1, ServesParts
<1>4. t.responder \in [Sessions -> 0..MaxMade] /\ k \in 0..MaxMade
  BY <1>1, ThreadedAcceptorAssumption DEF Sess, SessTypes, Socks
<1>5. SessTypes(u)
  BY <1>1, <1>2, <1>4 DEF Sess, SessTypes
<1>6. \A y \in Sessions : u.responder[y] # 0 => u.pc[u.responder[y]] \in Serves /\ u.sess[u.responder[y]] = y
  BY <1>1, <1>2, <1>4 DEF Sess
<1>7. Sess(u)
  BY <1>1, <1>2, <1>5, <1>6 DEF Sess
<1> QED BY <1>2, <1>3, <1>7 DEF Good, u

\* setSession: refused, bound to a session, or to try again.
LEMMA SetSessionStep == ASSUME IInv, NEW k \in Socks, SetSession(k) PROVE IInv'
<1>1. Good(s) /\ s.pc[k] = "bind" /\ s.pc[k] \in Serves /\ "read" \in Serves \ {"bind"} /\ DOMAIN s = Fields
  BY DEF IInv, Good, SetSession, Serves
<1>2. \/ s' = [Dropped(s, k) EXCEPT !.pc[k] = "read"]
      \/ s' = [s EXCEPT !.tries[k] = @ + 1]
      \/ \E x \in Sessions : x \notin s.registered /\ Found(k, x)
  BY DEF SetSession
<1>3. CASE s' = [Dropped(s, k) EXCEPT !.pc[k] = "read"]
  <2> DEFINE t == Dropped(s, k)
  <2>1. Good(t) /\ t.pc = s.pc
    BY <1>1, DroppedKeeps
  <2>2. s' = [t EXCEPT !.pc[k] = "read"]
    BY <1>3
  <2> HIDE DEF t
  <2>3. Good(s')
    BY <1>1, <2>1, <2>2, ThenServes
  <2> QED BY <2>3 DEF IInv
<1>4. CASE s' = [s EXCEPT !.tries[k] = @ + 1]
  <2>1. /\ DOMAIN s' = Fields /\ SameOwn(s, s') /\ SameCtl(s, s') /\ SameSess(s, s') /\ SameCount(s, s')
        /\ s'.pc = s.pc
    BY <1>1, <1>4 DEF Fields, SameOwn, SameCtl, SameSess, SameCount
  <2>2. Good(s')
    BY <1>1, <2>1, NothingElse
  <2> QED BY <2>2 DEF IInv
<1>5. CASE \E x \in Sessions : x \notin s.registered /\ Found(k, x)
  <2>1. PICK x \in Sessions : x \notin s.registered /\ Found(k, x)
    BY <1>5
  <2> DEFINE t == [s EXCEPT !.registered = @ \cup {x}, !.sess[k] = x, !.pc[k] = "read"]
  <2>2. Good(t) /\ t.pc[k] = "read" /\ t.sess[k] = x
    BY ZenonT(60), <1>1, <2>1, FoundKeeps
  <2>3. s' = Dropped(t, k) \/ s' = [t EXCEPT !.responder[x] = k]
    BY <2>1 DEF Found
  <2> HIDE DEF t
  <2>4. Good(s')
    <3>1. CASE s' = Dropped(t, k)
      BY <2>2, <3>1, DroppedKeeps
    <3>2. CASE s' = [t EXCEPT !.responder[x] = k]
      BY <1>1, <2>2, <3>2, AnswersKeeps
    <3> QED BY <2>3, <3>1, <3>2
  <2> QED BY <2>4 DEF IInv
<1> QED BY <1>2, <1>3, <1>4, <1>5

\* The connection is deleted: its session is free and has no responder of that name.
LEMMA GoneKeeps ==
  ASSUME NEW t, Good(t), NEW k \in Socks, t.pc[k] = "exit", ~t.pend[k]
  PROVE  Good(Gone(Unanswered(t, k), k))
<1> DEFINE v == Unanswered(t, k)
           u == Gone(v, k)
<1>1. /\ DOMAIN t = Fields /\ Own(t) /\ Ctl(t) /\ Sess(t) /\ Count(t) /\ t.pc \in [Socks -> Pcs]
      /\ CtlTypes(t) /\ t.pc[k] \in Serves /\ "leaving" \in Pcs \ {"none"}
      /\ "leaving" \notin Holding /\ t.pc[k] \notin Holding
  BY DEF Good, Own, OwnTypes, Ctl, Serves, Pcs, Holding
<1>2. /\ DOMAIN v = Fields /\ SameOwn(t, v) /\ SameCtl(t, v) /\ SameCount(t, v) /\ v.pc = t.pc
      /\ v.sess = t.sess /\ v.registered = t.registered /\ v.enabled = t.enabled
      /\ v.responder = [x \in Sessions |-> IF x = t.sess[k] THEN 0 ELSE t.responder[x]]
  BY <1>1 DEF Unanswered, Fields, SameOwn, SameCtl, SameCount
<1> HIDE DEF v
<1>3. /\ DOMAIN u = Fields /\ SameOwn(t, u) /\ SameCtl(t, u) /\ SameCount(t, u)
      /\ u.pc = [t.pc EXCEPT ![k] = "leaving"] /\ u.sess = [t.sess EXCEPT ![k] = NoSession]
      /\ u.registered = t.registered \ {t.sess[k]} /\ u.enabled = t.enabled
      /\ u.responder = v.responder
  BY <1>2 DEF Gone, Fields, SameOwn, SameCtl, SameCount
<1> HIDE DEF u
<1>4. Moves(t, u, k, "leaving")
  BY <1>3 DEF Moves
<1>5. u.pc[k] = "leaving" /\ u.pc \in [Socks -> Pcs] /\ \A j \in Socks : j # k => u.pc[j] = t.pc[j]
  BY <1>1, <1>3
<1>6. Own(u)
  <2>1. Lives(t, k)
    BY DEF Lives
  <2> QED BY <1>1, <1>3, <1>4, <2>1, OwnMoves DEF SameCtl
<1>7. Ctl(u)
  BY <1>1, <1>3, CtlSame DEF SameOwn
<1>8. Count(u)
  <2>1. \A j \in Socks : t.pend[j] => u.pc[j] \in Serves
    BY <1>1, <1>5 DEF Count
  <2>2. At(u, Listens) \subseteq At(t, Listens) /\ At(u, {"register"}) \subseteq At(t, {"register"})
    BY <1>5 DEF At, Listens, Holding
  <2>3. t.scope \in Scopes /\ t.todo \subseteq Fds
    BY <1>1 DEF CtlTypes
  <2> QED BY <1>1, <1>3, <2>1, <2>2, <2>3, CountSame DEF SameCtl, SameOwn
<1>9. /\ t.sess \in [Socks -> Sessions \cup {NoSession}] /\ NoSession \notin Sessions
      /\ t.responder \in [Sessions -> 0..MaxMade] /\ 0 \in 0..MaxMade
  BY <1>1, ThreadedAcceptorAssumption DEF Sess, SessTypes
<1>10. u.sess[k] = NoSession /\ \A j \in Socks : j # k => u.sess[j] = t.sess[j]
  BY <1>3, <1>9
<1>11. Sess(u)
  <2>1. SessTypes(u)
    BY <1>1, <1>2, <1>3, <1>9 DEF Sess, SessTypes
  <2>2. ASSUME NEW y \in Sessions, u.responder[y] # 0
        PROVE  u.pc[u.responder[y]] \in Serves /\ u.sess[u.responder[y]] = y
    <3>1. y # t.sess[k] /\ u.responder[y] = t.responder[y] /\ t.responder[y] \in Socks
      BY <1>2, <1>3, <1>9, <2>2, ThreadedAcceptorAssumption DEF Socks
    <3>2. t.pc[t.responder[y]] \in Serves /\ t.sess[t.responder[y]] = y
      BY <1>1, <2>2, <3>1 DEF Sess
    <3> QED BY <1>5, <1>10, <3>1, <3>2
  <2>3. \A j \in Socks : u.sess[j] # NoSession => u.pc[j] \in Serves \ {"bind"}
    BY <1>1, <1>5, <1>10 DEF Sess
  <2>4. \A y \in u.registered : \E j \in Socks : u.sess[j] = y
    BY <1>1, <1>3, <1>10 DEF Sess
  <2>5. u.enabled => /\ \A j \in Socks : u.sess[j] # NoSession => u.sess[j] \in u.registered
                     /\ \A i, j \in Socks : u.sess[i] # NoSession /\ u.sess[i] = u.sess[j] => i = j
    <3>1. t.enabled => \A j \in Socks : t.sess[j] # NoSession => t.sess[j] \in t.registered
      BY <1>1 DEF Sess
    <3>2. t.enabled => \A i, j \in Socks : t.sess[i] # NoSession /\ t.sess[i] = t.sess[j] => i = j
      BY <1>1 DEF Sess
    <3> QED BY <1>3, <1>10, <3>1, <3>2
  <2> QED BY <2>1, <2>2, <2>3, <2>4, <2>5 DEF Sess
<1> QED BY <1>3, <1>6, <1>7, <1>8, <1>11 DEF Good, u, v

\* A connection ends: its place in the count is given back once.
LEMMA DeleteStep == ASSUME IInv, NEW k \in Socks, Delete(k) PROVE IInv'
<1> DEFINE t == IF s.pend[k] THEN Given(s, k) ELSE s
<1>1. Good(s) /\ s.pc[k] = "exit" /\ s' = Gone(Unanswered(t, k), k)
  BY DEF IInv, Delete
<1>2. Good(t) /\ t.pc = s.pc /\ ~t.pend[k]
  <2>1. CASE s.pend[k]
    BY <1>1, <2>1, GivenKeeps
  <2>2. CASE ~s.pend[k]
    BY <1>1, <2>2
  <2> QED BY <2>1, <2>2
<1> HIDE DEF t
<1>3. Good(s')
  BY <1>1, <1>2, GoneKeeps
<1> QED BY <1>3 DEF IInv

-----------------------------------------------------------------------------
(* The end of a thread *)

\* A thread without a session goes to another place.
LEMMA ThreadMoves ==
  ASSUME NEW t, NEW u, Good(t), DOMAIN u = Fields, SameOwn(t, u), SameCtl(t, u), SameSess(t, u),
         SameCount(t, u), NEW n \in Socks, NEW q \in Pcs \ {"none", "register"}, Moves(t, u, n, q),
         Lives(t, n), t.pc[n] \notin Serves, t.pc[n] \in Holding <=> q \in Holding,
         \/ (t.pc[n] \in Listens /\ q \in Listens)
         \/ (t.pc[n] = "remove" /\ q \notin Listens)
         \/ (t.m_stop /\ q \in {"leaving", "done"})
         \/ (~t.m_stop /\ t.pc[n] = "leaving" /\ q \notin Listens)
  PROVE  Good(u)
<1>1. Own(t) /\ Ctl(t) /\ Sess(t) /\ Count(t) /\ t.pc \in [Socks -> Pcs] /\ CtlTypes(t)
  BY DEF Good, Own, OwnTypes, Ctl
<1>2. Own(u)
  BY <1>1, OwnMoves DEF SameCtl
<1>3. Ctl(u)
  BY <1>1, CtlSame DEF SameOwn
<1>4. t.sess[n] = NoSession
  BY <1>1 DEF Sess
<1>5. Sess(u)
  BY <1>1, <1>4, SessMoves
<1>6. q \in Listens => t.pc[n] \in Listens
  BY DEF Listens, Holding
<1>7. Count(u)
  BY <1>1, <1>6, CountMoves DEF SameOwn
<1> QED BY <1>2, <1>3, <1>5, <1>7 DEF Good

\* A thread that ends looks whether it was stopped.
LEMMA LeaveStep == ASSUME IInv, NEW n \in Socks, Leave(n) PROVE IInv'
<1> DEFINE q == IF s.m_stop THEN "done" ELSE "remove"
<1>1. Good(s) /\ DOMAIN s = Fields /\ s.pc[n] = "leaving" /\ s' = [s EXCEPT !.pc[n] = q]
  BY DEF IInv, Good, Leave
<1>2. /\ DOMAIN s' = Fields /\ SameOwn(s, s') /\ SameCtl(s, s') /\ SameSess(s, s') /\ SameCount(s, s')
      /\ Moves(s, s', n, q)
  BY <1>1 DEF Fields, SameOwn, SameCtl, SameSess, SameCount, Moves
<1>3. /\ q \in Pcs \ {"none", "register"} /\ s.pc[n] \notin Serves /\ s.pc[n] \notin Holding
      /\ q \notin Holding /\ q \notin Listens /\ Lives(s, n)
  BY <1>1 DEF Pcs, Serves, Holding, Listens, Lives
<1>4. (s.m_stop /\ q = "done") \/ (~s.m_stop /\ q = "remove")
  OBVIOUS
<1> HIDE DEF q
<1>5. Good(s')
  BY <1>1, <1>2, <1>3, <1>4, ThreadMoves
<1> QED BY <1>5 DEF IInv

\* The descriptor of a thread that has ended is closed, and is nobody else's.
LEMMA OwnClosed ==
  ASSUME NEW t, NEW u, Own(t), NEW f \in Fds, t.threads[f] # 0 \/ t.snap[f] # 0,
         f \notin t.sockets \cup t.rest, t.pc[t.open[f]] \in {"remove", "done"},
         u.made = t.made, u.fd = t.fd, u.sockets = t.sockets, u.rest = t.rest, u.hand = t.hand,
         u.m_stop = t.m_stop, u.open = [t.open EXCEPT ![f] = 0],
         u.threads = [t.threads EXCEPT ![f] = 0], u.snap = [t.snap EXCEPT ![f] = 0],
         u.pc = [t.pc EXCEPT ![t.open[f]] = "done"]
  PROVE  Own(u)
<1> DEFINE n == t.open[f]
<1>1. OwnTypes(t) /\ Numbered(t) /\ Tables(t) /\ Rooted(t) /\ Hands(t) /\ Listeners(t) /\ Owned(t)
  BY DEF Own
<1>2. n # 0 /\ n \in Socks /\ (t.threads[f] = n \/ t.snap[f] = n) /\ t.fd[n] = f
  BY <1>1, Numbers DEF Tables, Numbered
<1>3. 0 \in 0..MaxMade /\ "done" \in Pcs
  BY ThreadedAcceptorAssumption DEF Pcs
<1>4. OwnTypes(u)
  <2>1. u.pc \in [Socks -> Pcs]
    BY ZenonT(60), <1>1, <1>3 DEF OwnTypes
  <2>2. /\ u.open \in [Fds -> 0..MaxMade] /\ u.threads \in [Fds -> 0..MaxMade]
        /\ u.snap \in [Fds -> 0..MaxMade]
    BY <1>1, <1>3 DEF OwnTypes
  <2> QED BY <1>1, <2>1, <2>2 DEF OwnTypes
<1>5. /\ u.open[f] = 0 /\ u.threads[f] = 0 /\ u.snap[f] = 0
      /\ \A g \in Fds : g # f => u.open[g] = t.open[g] /\ u.threads[g] = t.threads[g] /\ u.snap[g] = t.snap[g]
  BY <1>1 DEF OwnTypes
<1>6. u.pc[n] = "done" /\ \A m \in Socks : m # n => u.pc[m] = t.pc[m]
  BY <1>1, <1>2 DEF OwnTypes
<1>7. t.pc[n] \in {"remove", "done"}
  OBVIOUS
<1> HIDE DEF n
<1>8. \A g \in Fds : g # f => t.open[g] # n
  BY <1>1, <1>2 DEF Numbered
<1>9. Numbered(u)
  BY <1>1, <1>2, <1>5, <1>6, <1>7 DEF Numbered
<1>10. Tables(u)
  <2>1. \A g \in Fds : t.threads[g] # 0 => t.threads[g] \in Socks
    BY <1>1, Numbers
  <2>2. \A g \in Fds : t.snap[g] # 0 => t.snap[g] \in Socks
    BY <1>1, Numbers
  <2> QED BY <1>1, <1>5, <1>6, <2>1, <2>2 DEF Tables
<1>11. Rooted(u)
  <2> SUFFICES ASSUME NEW m \in Socks, Lives(u, m)
               PROVE  u.fd[m] \in Fds /\ (u.threads[u.fd[m]] = m \/ u.snap[u.fd[m]] = m)
    BY DEF Rooted
  <2>1. m # n /\ Lives(t, m)
    BY <1>6 DEF Lives
  <2>2. t.fd[m] \in Fds /\ (t.threads[t.fd[m]] = m \/ t.snap[t.fd[m]] = m) /\ m # 0
    BY <1>1, <2>1, Numbers DEF Rooted
  <2>3. t.open[t.fd[m]] = m
    BY <1>1, <2>2 DEF Tables
  <2>4. t.fd[m] # f
    BY <2>1, <2>3 DEF n
  <2> QED BY <1>5, <2>2, <2>4
<1>12. Hands(u)
  <2>1. \A m \in Socks : t.hand[m] # 0 => t.hand[m] \in Socks /\ t.fd[t.hand[m]] # f /\ t.hand[m] # n
    BY <1>1, <1>7, Numbers DEF Hands, Fresh
  <2>2. \A m \in Socks : u.hand[m] # 0 <=> u.pc[m] \in Holding
    BY <1>1, <1>6, <1>7 DEF Hands, Holding
  <2>3. \A m \in Socks : u.hand[m] # 0 => Fresh(u, u.hand[m])
    BY <1>1, <1>5, <1>6, <2>1 DEF Hands, Fresh
  <2> QED BY <1>1, <2>2, <2>3 DEF Hands
<1>13. Listeners(u)
  <2>1. \A g \in t.sockets \cup t.rest : g \in Fds /\ g # f /\ t.open[g] \in Socks /\ t.open[g] # n
    BY <1>1, <1>8, Numbers DEF Listeners, OwnTypes
  <2>2. \A g \in t.sockets \cup t.rest : u.open[g] = t.open[g] /\ u.threads[g] = t.threads[g]
                                       /\ u.snap[g] = t.snap[g] /\ u.pc[u.open[g]] = t.pc[t.open[g]]
    BY <1>5, <1>6, <2>1
  <2> QED BY <1>1, <2>2 DEF Listeners
<1>14. Owned(u)
  BY <1>1, <1>5 DEF Owned
<1> QED BY <1>4, <1>9, <1>10, <1>11, <1>12, <1>13, <1>14 DEF Own

\* removeThread: the thread closes its descriptor unless onStop has taken it.
LEMMA RemoveThreadStep == ASSUME IInv, NEW n \in Socks, RemoveThread(n) PROVE IInv'
<1> DEFINE f == s.fd[n]
           t == [s EXCEPT !.pc[n] = "done"]
<1>1. /\ Good(s) /\ DOMAIN s = Fields /\ s.pc[n] = "remove" /\ Own(s) /\ Ctl(s) /\ Sess(s) /\ Count(s)
      /\ CtlTypes(s) /\ s.pc \in [Socks -> Pcs]
  BY DEF IInv, Good, RemoveThread, Own, OwnTypes, Ctl
<1>2. s' = IF s.threads[f] = 0 THEN t ELSE [Close(t, f) EXCEPT !.threads[f] = 0]
  BY DEF RemoveThread
<1>3. /\ s.pc[n] \notin Serves /\ s.pc[n] \notin Holding /\ Lives(s, n) /\ "done" \in Pcs \ {"none", "register"}
      /\ "done" \notin Holding /\ "done" \notin Listens
  BY <1>1 DEF Pcs, Serves, Holding, Listens, Lives
<1>4. CASE s.threads[f] = 0
  <2>1. s' = t
    BY <1>2, <1>4
  <2>2. /\ DOMAIN s' = Fields /\ SameOwn(s, s') /\ SameCtl(s, s') /\ SameSess(s, s') /\ SameCount(s, s')
        /\ Moves(s, s', n, "done")
    BY <1>1, <2>1 DEF Fields, SameOwn, SameCtl, SameSess, SameCount, Moves
  <2>3. Good(s')
    BY <1>1, <1>3, <2>2, ThreadMoves
  <2> QED BY <2>3 DEF IInv
<1>5. CASE s.threads[f] # 0
  <2>1. f \in Fds /\ s.threads[f] = n /\ s.open[f] = n /\ s.snap[f] = 0 /\ n # 0 /\ n \in Nat
    <3>1. OwnTypes(s) /\ Rooted(s) /\ Tables(s)
      BY <1>1 DEF Own
    <3>2. f \in Fds /\ (s.threads[f] = n \/ s.snap[f] = n)
      BY <1>3, <3>1 DEF Rooted
    <3>3. s.open[f] = s.threads[f] /\ s.snap[f] = 0
      BY <1>5, <3>1, <3>2 DEF Tables
    <3>4. n # 0 /\ n \in Nat
      BY <3>1, Numbers
    <3> QED BY <3>2, <3>3, <3>4
  <2>2. s' = [Close(t, f) EXCEPT !.threads[f] = 0]
    BY <1>2, <1>5
  <2>3. /\ DOMAIN s' = Fields /\ SameCtl(s, s') /\ SameSess(s, s') /\ SameCount(s, s')
        /\ s'.pc = [s.pc EXCEPT ![n] = "done"] /\ s'.open = [s.open EXCEPT ![f] = 0]
        /\ s'.threads = [s.threads EXCEPT ![f] = 0] /\ s'.made = s.made /\ s'.fd = s.fd
        /\ s'.sockets = s.sockets /\ s'.rest = s.rest /\ s'.hand = s.hand /\ s'.snap = s.snap
    BY <1>1, <2>2 DEF Close, Fields, SameCtl, SameSess, SameCount
  <2> HIDE DEF f, t
  <2>4. f \notin s.sockets \cup s.rest
    <3>1. Listeners(s)
      BY <1>1 DEF Own
    <3> QED BY <1>1, <2>1, <3>1 DEF Listeners, Listens, Holding
  <2>5. s'.snap = [s.snap EXCEPT ![f] = 0]
    BY <1>1, <2>1, <2>3 DEF Own, OwnTypes
  <2>6. Own(s')
    BY <1>1, <1>5, <2>1, <2>3, <2>4, <2>5, OwnClosed DEF SameCtl
  <2>7. \A g \in Fds : s'.threads[g] # 0 => s.threads[g] # 0
    BY <1>1, <2>1, <2>3 DEF Own, OwnTypes
  <2>8. Ctl(s')
    <3>1. CtlTypes(s) /\ Single(s) /\ Taking(s) /\ Spawning(s)
      BY <1>1 DEF Ctl
    <3>2. CtlTypes(s') /\ Single(s')
      BY <2>3, <3>1 DEF CtlTypes, Single, Stops, SameCtl
    <3>3. Taking(s')
      BY <2>3, <2>7, <3>1 DEF Taking, NoThreads, SameCtl
    <3>4. Spawning(s')
      BY <2>3, <2>7, <3>1 DEF Spawning, SameCtl, CtlTypes
    <3> QED BY <3>2, <3>3, <3>4 DEF Ctl
  <2>9. Moves(s, s', n, "done")
    BY <2>3 DEF Moves
  <2>10. Sess(s')
    <3>1. s.sess[n] = NoSession
      BY <1>1, <1>3 DEF Sess
    <3> QED BY <1>1, <1>3, <2>3, <2>9, <3>1, SessMoves
  <2>11. Count(s')
    BY <1>1, <1>3, <2>3, <2>9, CountMoves
  <2> QED BY <2>3, <2>6, <2>8, <2>10, <2>11 DEF IInv, Good
<1> QED BY <1>4, <1>5

-----------------------------------------------------------------------------
(* A new socket *)

\* What holds of a socket k that has been made, with descriptor f, and that nobody owns.
Unowned(t, f, k) ==
  /\ f \in Fds /\ k \in Socks /\ t.open[f] = k /\ t.fd[k] = f /\ t.pc[k] = "none"
  /\ f \notin t.sockets \cup t.rest /\ t.threads[f] = 0 /\ t.snap[f] = 0
  /\ \A m \in Socks : t.hand[m] # k
OwnedBut(t, f) ==
  \A g \in Fds \ {f} : t.open[g] # 0 =>
    \/ t.threads[g] # 0 \/ t.snap[g] # 0 \/ g \in t.sockets \cup t.rest
    \/ \E n \in Socks : t.hand[n] # 0 /\ t.fd[t.hand[n]] = g
OwnBut(t, f) ==
  OwnTypes(t) /\ Numbered(t) /\ Tables(t) /\ Rooted(t) /\ Hands(t) /\ Listeners(t) /\ OwnedBut(t, f)

\* A descriptor that is not open is in no table.
LEMMA FreeIsFree ==
  ASSUME NEW t, Own(t), NEW f \in Fds, t.open[f] = 0
  PROVE  /\ t.threads[f] = 0 /\ t.snap[f] = 0 /\ f \notin t.sockets \cup t.rest
         /\ \A m \in Socks : t.hand[m] # 0 => t.fd[t.hand[m]] # f
<1>1. OwnTypes(t) /\ Tables(t) /\ Hands(t) /\ Listeners(t)
  BY DEF Own
<1>2. t.threads[f] = 0 /\ t.snap[f] = 0
  BY <1>1 DEF Tables
<1>3. f \notin t.sockets \cup t.rest
  BY <1>1 DEF Listeners
<1>4. \A m \in Socks : t.hand[m] # 0 => t.fd[t.hand[m]] # f
  BY <1>1 DEF Hands, Fresh
<1> QED BY <1>2, <1>3, <1>4

\* socket() or accept() takes the least descriptor that is free.
LEMMA NewSocketKeeps ==
  ASSUME NEW t, Good(t), Free(t) # {}, t.made < t.scope.made
  PROVE  LET u == NewSocket(t)
             f == Min(Free(t))
             k == t.made + 1
         IN /\ OwnBut(u, f) /\ Unowned(u, f, k) /\ DOMAIN u = Fields /\ SameCtl(t, u) /\ SameSess(t, u)
            /\ SameCount(t, u) /\ u.pc = t.pc /\ u.hand = t.hand /\ u.sockets = t.sockets
            /\ u.rest = t.rest /\ u.threads = t.threads /\ u.snap = t.snap /\ u.made = k
            /\ u.open = [t.open EXCEPT ![f] = k] /\ u.fd[k] = f /\ t.open[f] = 0
<1> DEFINE u == NewSocket(t)
           f == Min(Free(t))
           k == t.made + 1
<1>1. DOMAIN t = Fields /\ Own(t) /\ CtlTypes(t)
  BY DEF Good, Ctl
<1>2. OwnTypes(t) /\ Numbered(t) /\ Tables(t) /\ Rooted(t) /\ Hands(t) /\ Listeners(t) /\ Owned(t)
  BY <1>1 DEF Own
<1>3. t.scope.made \in 0..MaxMade /\ t.scope.fds \in Nat /\ t.scope.fds <= MaxFd /\ MaxMade \in Nat /\ MaxFd \in Nat
  BY <1>1, ThreadedAcceptorAssumption DEF CtlTypes
<1>4. f \in Fds /\ t.open[f] = 0
  <2>1. Free(t) \in SUBSET Nat
    BY <1>3 DEF Free
  <2>2. f \in Free(t)
    BY <2>1, MinExists
  <2> HIDE DEF f
  <2> QED BY <1>3, <2>2 DEF Free, Fds
<1>5. t.made \in Nat /\ k \in Nat /\ k \in Socks /\ k \in 0..MaxMade /\ k # 0 /\ k > t.made
  BY SMTT(60), <1>2, <1>3 DEF OwnTypes, Socks
<1>6. /\ DOMAIN u = Fields /\ SameCtl(t, u) /\ SameSess(t, u) /\ SameCount(t, u) /\ u.pc = t.pc
      /\ u.hand = t.hand /\ u.sockets = t.sockets /\ u.rest = t.rest /\ u.threads = t.threads
      /\ u.snap = t.snap /\ u.made = k /\ u.m_stop = t.m_stop
      /\ u.open = [t.open EXCEPT ![f] = k] /\ u.fd = [t.fd EXCEPT ![k] = f]
  BY <1>1 DEF NewSocket, Fields, SameCtl, SameSess, SameCount
<1> HIDE DEF u, f, k
<1>7. u.open[f] = k /\ \A g \in Fds : g # f => u.open[g] = t.open[g]
  BY <1>2, <1>4, <1>6 DEF OwnTypes
<1>8. u.fd[k] = f /\ \A n \in Socks : n # k => u.fd[n] = t.fd[n]
  BY <1>2, <1>5, <1>6 DEF OwnTypes
<1>9. t.pc[k] = "none" /\ (\A g \in Fds : t.open[g] # k)
  <2>1. \A g \in Fds : t.open[g] # 0 => t.open[g] <= t.made
    BY <1>2 DEF Numbered
  <2>2. \A g \in Fds : t.open[g] \in Nat
    BY <1>2 DEF OwnTypes
  <2> QED BY <1>2, <1>5, <2>1, <2>2 DEF Numbered
<1>10. \A m \in Socks : t.hand[m] # k
  BY <1>2, <1>5, <1>9 DEF Hands, Fresh
<1>11. /\ t.threads[f] = 0 /\ t.snap[f] = 0 /\ f \notin t.sockets \cup t.rest
       /\ \A m \in Socks : t.hand[m] # 0 => t.fd[t.hand[m]] # f
  BY <1>1, <1>4, FreeIsFree
<1>12. OwnTypes(u)
  <2>1. f \in 0..MaxFd
    BY <1>3, <1>4 DEF Fds
  <2>2. u.open \in [Fds -> 0..MaxMade] /\ u.fd \in [Socks -> 0..MaxFd]
    BY <1>2, <1>4, <1>5, <1>6, <2>1 DEF OwnTypes
  <2> QED BY <1>2, <1>5, <1>6, <2>2 DEF OwnTypes
<1>13. Numbered(u)
  <2>1. \A g \in Fds : u.open[g] # 0 => u.open[g] <= u.made /\ u.fd[u.open[g]] = g
    <3> TAKE g \in Fds
    <3> HAVE u.open[g] # 0
    <3>1. CASE g = f
      BY <1>5, <1>6, <1>7, <1>8, <3>1
    <3>2. CASE g # f
      <4>1. t.open[g] \in Socks /\ t.open[g] # k /\ t.open[g] \in Nat
        BY <1>2, <1>7, <1>9, <3>2, Numbers
      <4>2. t.open[g] <= t.made /\ t.fd[t.open[g]] = g
        BY <1>2, <1>7, <3>2 DEF Numbered
      <4>3. t.open[g] <= k
        BY <1>5, <4>1, <4>2
      <4> QED BY <1>6, <1>7, <1>8, <3>2, <4>1, <4>2, <4>3
    <3> QED BY <3>1, <3>2
  <2>2. \A n \in Socks : n > u.made => n > t.made
    BY <1>5, <1>6, <1>2, Numbers DEF k
  <2> QED BY <1>2, <1>6, <2>1, <2>2 DEF Numbered
<1>14. Tables(u)
  BY <1>2, <1>6, <1>7, <1>11 DEF Tables
<1>15. Rooted(u)
  BY <1>2, <1>6, <1>8, <1>9 DEF Rooted, Lives
<1>16. Hands(u)
  <2>1. \A m \in Socks : t.hand[m] # 0 => t.hand[m] \in Socks
    BY <1>2, Numbers
  <2>2. \A m \in Socks : u.hand[m] # 0 => Fresh(u, u.hand[m])
    BY <1>2, <1>6, <1>7, <1>8, <1>10, <1>11, <2>1 DEF Hands, Fresh
  <2> QED BY <1>2, <1>6, <2>2 DEF Hands
<1>17. Listeners(u)
  <2>1. \A g \in t.sockets \cup t.rest : g \in Fds /\ g # f
    BY <1>2, <1>11 DEF OwnTypes
  <2>2. \A g \in t.sockets \cup t.rest : u.open[g] = t.open[g]
    BY <1>7, <2>1
  <2> QED BY <1>2, <1>6, <2>2 DEF Listeners
<1>18. OwnedBut(u, f)
  <2> SUFFICES ASSUME NEW g \in Fds \ {f}, u.open[g] # 0
               PROVE  \/ u.threads[g] # 0 \/ u.snap[g] # 0 \/ g \in u.sockets \cup u.rest
                      \/ \E n \in Socks : u.hand[n] # 0 /\ u.fd[u.hand[n]] = g
    BY DEF OwnedBut
  <2>1. \/ t.threads[g] # 0 \/ t.snap[g] # 0 \/ g \in t.sockets \cup t.rest
        \/ \E n \in Socks : t.hand[n] # 0 /\ t.fd[t.hand[n]] = g
    BY <1>2, <1>7 DEF Owned
  <2>2. \A n \in Socks : t.hand[n] # 0 => t.hand[n] \in Socks /\ u.fd[t.hand[n]] = t.fd[t.hand[n]]
    BY <1>2, <1>8, <1>10, Numbers
  <2> QED BY <1>6, <2>1, <2>2
<1>19. OwnBut(u, f)
  BY <1>12, <1>13, <1>14, <1>15, <1>16, <1>17, <1>18 DEF OwnBut
<1>20. Unowned(u, f, k)
  BY <1>4, <1>5, <1>6, <1>7, <1>8, <1>9, <1>10, <1>11 DEF Unowned
<1> QED BY <1>4, <1>6, <1>8, <1>19, <1>20 DEF u, f, k

\* The thread that has accepted it holds it.
LEMMA OwnTakesHand ==
  ASSUME NEW t, NEW u, NEW f, NEW k, OwnBut(t, f), Unowned(t, f, k), NEW n \in Socks, t.pc[n] = "accept",
         u.made = t.made, u.open = t.open, u.fd = t.fd, u.sockets = t.sockets, u.rest = t.rest,
         u.threads = t.threads, u.snap = t.snap, u.m_stop = t.m_stop,
         u.hand = [t.hand EXCEPT ![n] = k], u.pc = [t.pc EXCEPT ![n] = "limit"]
  PROVE  Own(u)
<1>1. OwnTypes(t) /\ Numbered(t) /\ Tables(t) /\ Rooted(t) /\ Hands(t) /\ Listeners(t) /\ OwnedBut(t, f)
  BY DEF OwnBut
<1>2. /\ f \in Fds /\ k \in Socks /\ t.open[f] = k /\ t.fd[k] = f /\ t.pc[k] = "none"
      /\ f \notin t.sockets \cup t.rest /\ t.threads[f] = 0 /\ t.snap[f] = 0
      /\ \A m \in Socks : t.hand[m] # k
  BY DEF Unowned
<1>3. "limit" \in Pcs /\ "limit" \in Holding /\ "limit" \in Listens /\ "accept" \notin Holding
  BY DEF Pcs, Listens, Holding
<1>4. k \in 0..MaxMade /\ k # 0
  BY <1>1, <1>2, Numbers DEF OwnTypes
<1>5. u.pc[n] = "limit" /\ \A m \in Socks : m # n => u.pc[m] = t.pc[m]
  BY <1>1 DEF OwnTypes
<1>6. u.hand[n] = k /\ \A m \in Socks : m # n => u.hand[m] = t.hand[m]
  BY <1>1 DEF OwnTypes
<1>7. t.hand[n] = 0
  BY <1>1, <1>3 DEF Hands
<1>8. OwnTypes(u)
  BY <1>1, <1>3, <1>4 DEF OwnTypes
<1>9. Numbered(u)
  BY <1>1, <1>5 DEF Numbered
<1>10. Tables(u)
  BY <1>1, <1>5, Numbers DEF Tables
<1>11. Rooted(u)
  BY <1>1, <1>5 DEF Rooted, Lives
<1>12. Hands(u)
  <2>1. \A m \in Socks : t.hand[m] # 0 => t.hand[m] \in Socks /\ t.hand[m] # n
    BY <1>1, Numbers DEF Hands, Fresh
  <2>2. \A m \in Socks : u.hand[m] # 0 <=> u.pc[m] \in Holding
    BY <1>1, <1>3, <1>4, <1>5, <1>6 DEF Hands
  <2>3. Fresh(u, k)
    <3>1. k # n
      BY <1>2
    <3> QED BY <1>2, <1>5, <3>1 DEF Fresh
  <2>4. \A m \in Socks : u.hand[m] # 0 => Fresh(u, u.hand[m])
    <3> TAKE m \in Socks
    <3> HAVE u.hand[m] # 0
    <3>1. CASE m = n
      BY <1>6, <2>3, <3>1
    <3>2. CASE m # n
      <4>1. Fresh(t, t.hand[m]) /\ u.hand[m] = t.hand[m]
        BY <1>1, <1>6, <3>2 DEF Hands
      <4>2. t.hand[m] \in Socks /\ t.hand[m] # n
        BY <2>1, <1>6, <3>2
      <4> QED BY <1>5, <4>1, <4>2 DEF Fresh
    <3> QED BY <3>1, <3>2
  <2>5. \A i, m \in Socks : (u.hand[i] # 0 /\ u.hand[i] = u.hand[m]) => i = m
    BY <1>1, <1>2, <1>6 DEF Hands
  <2> QED BY <2>2, <2>4, <2>5 DEF Hands
<1>13. Listeners(u)
  <2>1. \A g \in t.sockets \cup t.rest : g \in Fds /\ t.open[g] \in Socks
    BY <1>1, Numbers DEF Listeners, OwnTypes
  <2>2. \A g \in t.sockets \cup t.rest :
          \/ u.pc[t.open[g]] = t.pc[t.open[g]]
          \/ t.pc[t.open[g]] = "accept" /\ u.pc[t.open[g]] \in Listens
    BY <1>3, <1>5, <2>1
  <2> QED BY <1>1, <2>2 DEF Listeners
<1>14. Owned(u)
  <2> SUFFICES ASSUME NEW g \in Fds, u.open[g] # 0
               PROVE  \/ u.threads[g] # 0 \/ u.snap[g] # 0 \/ g \in u.sockets \cup u.rest
                      \/ \E m \in Socks : u.hand[m] # 0 /\ u.fd[u.hand[m]] = g
    BY DEF Owned
  <2>1. CASE g = f
    BY <1>2, <1>4, <1>6, <2>1
  <2>2. CASE g # f
    <3>1. \/ t.threads[g] # 0 \/ t.snap[g] # 0 \/ g \in t.sockets \cup t.rest
          \/ \E m \in Socks : t.hand[m] # 0 /\ t.fd[t.hand[m]] = g
      BY <1>1, <2>2 DEF OwnedBut
    <3> QED BY <1>6, <1>7, <3>1
  <2> QED BY <2>1, <2>2
<1> QED BY <1>8, <1>9, <1>10, <1>11, <1>12, <1>13, <1>14 DEF Own

-----------------------------------------------------------------------------
(* The steps of a listener's thread *)

\* accept() returns a connection, or fails.
LEMMA AcceptStep == ASSUME IInv, NEW n \in Socks, Accept(n) PROVE IInv'
<1>1. /\ Good(s) /\ DOMAIN s = Fields /\ s.pc[n] = "accept" /\ Ctl(s) /\ Sess(s) /\ Count(s)
      /\ CtlTypes(s) /\ s.pc \in [Socks -> Pcs] /\ s.hand \in [Socks -> 0..MaxMade]
  BY DEF IInv, Good, Accept, Own, OwnTypes, Ctl
<1>2. /\ s.pc[n] \notin Serves /\ s.pc[n] \notin Holding /\ s.pc[n] \in Listens /\ Lives(s, n)
      /\ "limit" \in Pcs /\ "limit" \in Listens
  BY <1>1 DEF Pcs, Serves, Holding, Listens, Lives
<1>3. CASE Free(s) # {} /\ s.made < s.scope.made
           /\ s' = [NewSocket(s) EXCEPT !.hand[n] = s.made + 1, !.pc[n] = "limit"]
  <2> DEFINE t == NewSocket(s)
             f == Min(Free(s))
             k == s.made + 1
  <2>1. /\ OwnBut(t, f) /\ Unowned(t, f, k) /\ DOMAIN t = Fields /\ SameCtl(s, t) /\ SameSess(s, t)
        /\ SameCount(s, t) /\ t.pc = s.pc /\ t.hand = s.hand /\ t.sockets = s.sockets
        /\ t.rest = s.rest /\ t.threads = s.threads /\ t.snap = s.snap
    BY <1>1, <1>3, NewSocketKeeps
  <2>2. s' = [t EXCEPT !.hand[n] = k, !.pc[n] = "limit"]
    BY <1>3
  <2> HIDE DEF t, f, k
  <2>3. /\ DOMAIN s' = Fields /\ SameCtl(t, s') /\ SameSess(t, s') /\ SameCount(t, s')
        /\ s'.pc = [t.pc EXCEPT ![n] = "limit"] /\ s'.hand = [t.hand EXCEPT ![n] = k]
        /\ s'.sockets = t.sockets /\ s'.rest = t.rest /\ s'.threads = t.threads /\ s'.snap = t.snap
        /\ s'.made = t.made /\ s'.open = t.open /\ s'.fd = t.fd
    BY <2>1, <2>2 DEF Fields, SameCtl, SameSess, SameCount
  <2>4. Own(s')
    <3>1. t.pc[n] = "accept" /\ s'.m_stop = t.m_stop
      BY <1>1, <2>1, <2>3 DEF SameCtl
    <3> QED BY <2>1, <2>3, <3>1, OwnTakesHand
  <2>5. SameCtl(s, s') /\ SameSess(s, s') /\ SameCount(s, s') /\ Moves(s, s', n, "limit")
    BY <2>1, <2>3 DEF SameCtl, SameSess, SameCount, Moves
  <2>6. Ctl(s')
    BY <1>1, <2>1, <2>3, <2>5, CtlSame
  <2>7. Sess(s')
    <3>1. s.sess[n] = NoSession
      BY <1>1, <1>2 DEF Sess
    <3> QED BY <1>1, <1>2, <2>5, <3>1, SessMoves
  <2>8. Count(s')
    BY <1>1, <1>2, <2>1, <2>3, <2>5, CountMoves
  <2> QED BY <2>3, <2>4, <2>6, <2>7, <2>8 DEF IInv, Good
<1>4. CASE s' = [s EXCEPT !.pc[n] = Again]
  <2>1. (s.m_stop /\ Again = "leaving") \/ (~s.m_stop /\ Again = "accept")
    BY DEF Again
  <2>2. Again \in Pcs \ {"none", "register"} /\ Again \notin Holding /\ (Again = "accept" => Again \in Listens)
    BY <2>1 DEF Pcs, Holding, Listens
  <2>3. /\ DOMAIN s' = Fields /\ SameOwn(s, s') /\ SameCtl(s, s') /\ SameSess(s, s') /\ SameCount(s, s')
        /\ Moves(s, s', n, Again)
    BY <1>1, <1>4 DEF Fields, SameOwn, SameCtl, SameSess, SameCount, Moves
  <2>4. Good(s')
    BY <1>1, <1>2, <2>1, <2>2, <2>3, ThreadMoves
  <2> QED BY <2>4 DEF IInv
<1> QED BY <1>3, <1>4 DEF Accept

\* The connection in its hand is closed, and the thread goes on.
LEMMA CloseHandKeeps ==
  ASSUME NEW t, Good(t), NEW n \in Socks, t.pc[n] \in Holding, NEW q \in {"accept", "leaving"},
         q = "leaving" => t.m_stop
  PROVE  Good([CloseHand(t, n) EXCEPT !.pc[n] = q])
<1> DEFINE k == t.hand[n]
           f == t.fd[k]
           u == [CloseHand(t, n) EXCEPT !.pc[n] = q]
<1>1. /\ DOMAIN t = Fields /\ Own(t) /\ Ctl(t) /\ Sess(t) /\ Count(t) /\ CtlTypes(t)
  BY DEF Good, Ctl
<1>2. OwnTypes(t) /\ Numbered(t) /\ Tables(t) /\ Rooted(t) /\ Hands(t) /\ Listeners(t) /\ Owned(t)
  BY <1>1 DEF Own
<1>3. /\ q \in Pcs /\ q # "none" /\ q \notin Holding /\ q # "register" /\ t.pc[n] \notin Serves
      /\ t.pc[n] \in Listens /\ t.pc[n] # "none" /\ q \notin Serves /\ 0 \in 0..MaxMade
      /\ t.pc[n] # "done" /\ t.pc[n] \notin {"leaving", "done"} /\ q # "done"
      /\ q \in Listens \/ q = "leaving"
  BY ThreadedAcceptorAssumption DEF Pcs, Holding, Serves, Listens
<1>4. k # 0 /\ k \in Socks /\ Fresh(t, k)
  BY <1>2, Numbers DEF Hands
<1>5. /\ f \in Fds /\ t.open[f] = k /\ t.pc[k] = "none" /\ f \notin t.sockets \cup t.rest
      /\ t.threads[f] = 0 /\ t.snap[f] = 0
  BY <1>4 DEF Fresh
<1>6. /\ DOMAIN u = Fields /\ SameCtl(t, u) /\ SameSess(t, u) /\ SameCount(t, u)
      /\ u.made = t.made /\ u.fd = t.fd /\ u.sockets = t.sockets /\ u.rest = t.rest
      /\ u.threads = t.threads /\ u.snap = t.snap /\ u.m_stop = t.m_stop
      /\ u.open = [t.open EXCEPT ![f] = 0] /\ u.hand = [t.hand EXCEPT ![n] = 0]
      /\ u.pc = [t.pc EXCEPT ![n] = q]
  BY <1>1 DEF CloseHand, Close, Fields, SameCtl, SameSess, SameCount
<1> HIDE DEF u, f
<1>7. u.open[f] = 0 /\ \A g \in Fds : g # f => u.open[g] = t.open[g]
  BY <1>2, <1>5, <1>6 DEF OwnTypes
<1>8. u.hand[n] = 0 /\ \A m \in Socks : m # n => u.hand[m] = t.hand[m]
  BY <1>2, <1>6 DEF OwnTypes
<1>9. u.pc[n] = q /\ \A m \in Socks : m # n => u.pc[m] = t.pc[m]
  BY <1>2, <1>6 DEF OwnTypes
<1>10. OwnTypes(u)
  <2>1. u.open \in [Fds -> 0..MaxMade]
    BY ZenonT(60), <1>2, <1>3, <1>6 DEF OwnTypes
  <2>2. u.hand \in [Socks -> 0..MaxMade]
    BY <1>2, <1>3, <1>6 DEF OwnTypes
  <2>3. u.pc \in [Socks -> Pcs]
    BY <1>2, <1>3, <1>6 DEF OwnTypes
  <2> QED BY <1>2, <1>6, <2>1, <2>2, <2>3 DEF OwnTypes
<1>11. Numbered(u)
  BY <1>2, <1>3, <1>6, <1>7, <1>9 DEF Numbered
<1>12. Tables(u)
  BY <1>2, <1>3, <1>5, <1>6, <1>7, <1>9, Numbers DEF Tables
<1>13. Rooted(u)
  BY <1>2, <1>3, <1>6, <1>9 DEF Rooted, Lives
<1>14. Hands(u)
  <2>1. \A m \in Socks : (m # n /\ t.hand[m] # 0) =>
          t.hand[m] \in Socks /\ t.hand[m] # n /\ t.hand[m] # k /\ Fresh(t, t.hand[m])
    BY <1>2, <1>3, <1>4, Numbers DEF Hands, Fresh
  <2>2. \A m \in Socks : (m # n /\ t.hand[m] # 0) => t.fd[t.hand[m]] # f
    BY <1>5, <2>1 DEF Fresh
  <2>3. \A m \in Socks : u.hand[m] # 0 => Fresh(u, u.hand[m])
    BY <1>6, <1>7, <1>8, <1>9, <2>1, <2>2 DEF Fresh
  <2>4. \A m \in Socks : u.hand[m] # 0 <=> u.pc[m] \in Holding
    BY <1>2, <1>3, <1>8, <1>9 DEF Hands
  <2>5. \A i, m \in Socks : (u.hand[i] # 0 /\ u.hand[i] = u.hand[m]) => i = m
    BY <1>2, <1>8 DEF Hands
  <2> QED BY <2>3, <2>4, <2>5 DEF Hands
<1>15. Listeners(u)
  <2>1. \A g \in t.sockets \cup t.rest : g \in Fds /\ g # f /\ t.open[g] \in Socks
    BY <1>2, <1>5, Numbers DEF Listeners, OwnTypes
  <2>2. \A g \in t.sockets \cup t.rest :
          /\ u.open[g] = t.open[g]
          /\ \/ u.pc[t.open[g]] = t.pc[t.open[g]]
             \/ /\ t.pc[t.open[g]] # "none"
                /\ u.pc[t.open[g]] \in Listens \/ (t.m_stop /\ u.pc[t.open[g]] = "leaving")
    BY <1>3, <1>7, <1>9, <2>1
  <2> QED BY <1>2, <1>6, <2>2 DEF Listeners
<1>16. Owned(u)
  <2> SUFFICES ASSUME NEW g \in Fds, u.open[g] # 0
               PROVE  \/ u.threads[g] # 0 \/ u.snap[g] # 0 \/ g \in u.sockets \cup u.rest
                      \/ \E m \in Socks : u.hand[m] # 0 /\ u.fd[u.hand[m]] = g
    BY DEF Owned
  <2>1. g # f /\ t.open[g] # 0
    BY <1>7
  <2>2. \/ t.threads[g] # 0 \/ t.snap[g] # 0 \/ g \in t.sockets \cup t.rest
        \/ \E m \in Socks : t.hand[m] # 0 /\ t.fd[t.hand[m]] = g
    BY <1>2, <2>1 DEF Owned
  <2>3. t.fd[t.hand[n]] # g
    BY <2>1 DEF f
  <2> QED BY <1>6, <1>8, <2>2, <2>3
<1>17. Own(u)
  BY <1>10, <1>11, <1>12, <1>13, <1>14, <1>15, <1>16 DEF Own
<1>18. Ctl(u)
  BY <1>1, <1>6, CtlSame
<1>19. Moves(t, u, n, q) /\ t.pc \in [Socks -> Pcs]
  BY <1>2, <1>6 DEF Moves, OwnTypes
<1>20. Sess(u)
  <2>1. t.sess[n] = NoSession
    BY <1>1, <1>3 DEF Sess
  <2> QED BY <1>1, <1>3, <1>6, <1>19, <2>1, SessMoves
<1>21. Count(u)
  BY <1>1, <1>3, <1>6, <1>19, CountMoves
<1> QED BY <1>6, <1>17, <1>18, <1>20, <1>21 DEF Good, u

\* The look at MaxPendingConnections.
LEMMA LimitStep == ASSUME IInv, NEW n \in Socks, Limit(n) PROVE IInv'
<1>1. /\ Good(s) /\ DOMAIN s = Fields /\ s.pc[n] = "limit" /\ s.pc[n] \in Holding /\ s.pc[n] \in Listens
  BY DEF IInv, Good, Limit, Holding, Listens
<1>2. CASE s' = [CloseHand(s, n) EXCEPT !.pc[n] = Again]
  <2>1. Again \in {"accept", "leaving"} /\ (Again = "leaving" => s.m_stop)
    BY DEF Again
  <2>2. Good(s')
    BY <1>1, <1>2, <2>1, CloseHandKeeps
  <2> QED BY <2>2 DEF IInv
<1>3. CASE ~(MaxPending > 0 /\ s.pending >= MaxPending) /\ s' = [s EXCEPT !.pc[n] = "register"]
  <2>1. /\ DOMAIN s' = Fields /\ SameOwn(s, s') /\ SameCtl(s, s') /\ SameSess(s, s') /\ SameCount(s, s')
        /\ Moves(s, s', n, "register")
    BY <1>1, <1>3 DEF Fields, SameOwn, SameCtl, SameSess, SameCount, Moves
  <2>2. Own(s) /\ Ctl(s) /\ Sess(s) /\ Count(s) /\ CtlTypes(s) /\ s.pc \in [Socks -> Pcs]
    BY <1>1 DEF Good, Own, OwnTypes, Ctl
  <2>3. "register" \in Pcs \ {"none"} /\ "register" \in Holding /\ "register" \in Listens /\ Lives(s, n)
        /\ s.pc[n] \notin Serves /\ "register" \notin Serves
    BY <1>1 DEF Pcs, Holding, Listens, Lives, Serves
  <2>4. Own(s')
    BY <1>1, <2>1, <2>2, <2>3, OwnMoves DEF SameCtl
  <2>5. Ctl(s')
    BY <2>1, <2>2, CtlSame DEF SameOwn
  <2>6. Sess(s')
    <3>1. s.sess[n] = NoSession
      BY <2>2, <2>3 DEF Sess
    <3> QED BY <2>1, <2>2, <2>3, <3>1, SessMoves
  <2>7. Count(s')
    <3>1. s'.pc[n] = "register" /\ \A m \in Socks : m # n => s'.pc[m] = s.pc[m]
      BY <2>1, <2>2 DEF Moves
    <3>2. At(s', Listens) = At(s, Listens) /\ At(s', {"register"}) \subseteq At(s, Listens)
      BY <1>1, <2>3, <3>1 DEF At, Listens, Holding
    <3>3. Cardinality(At(s', {"register"})) <= Cardinality(At(s, Listens))
      <4>1. IsFiniteSet(At(s, Listens))
        BY Finite DEF At
      <4> QED BY <3>2, <4>1, FS_Subset
    <3>4. /\ Cardinality(At(s', {"register"})) \in Nat /\ Cardinality(At(s, Listens)) \in Nat
          /\ Cardinality(Waiters(s)) \in Nat
      BY Finite DEF At, Waiters
    <3>5. MaxPending \in Nat /\ s.scope.ports \in Nat
      BY <2>2, ThreadedAcceptorAssumption DEF CtlTypes
    <3>6. Waiters(s') = Waiters(s)
      BY <2>1 DEF Waiters, SameCount
    <3>7. s'.pend \in [Socks -> BOOLEAN] /\ s'.pending = Cardinality(Waiters(s'))
      BY <2>1, <2>2, <3>6 DEF Count, SameCount
    <3>8. \A k \in Socks : s'.pend[k] => s'.pc[k] \in Serves
      BY <2>1, <2>2, <2>3, <3>1 DEF Count, SameCount
    <3>9. MaxPending > 0 =>
            s'.pending + Cardinality(At(s', {"register"})) <= MaxPending + s'.scope.ports - 1
      <4>1. s.pending = Cardinality(Waiters(s)) /\ Cardinality(At(s, Listens)) <= s.scope.ports
        BY <2>2 DEF Count
      <4>2. s'.pending = s.pending /\ s'.scope = s.scope
        BY <2>1 DEF SameCount, SameCtl
      <4> QED BY <1>3, <3>3, <3>4, <3>5, <4>1, <4>2
    <3>10. /\ Cardinality(At(s', Listens)) <= s'.scope.ports
           /\ s'.starter = "copy" /\ ~s'.m_stop => At(s', Listens) = {} /\ Cardinality(s'.sockets) <= s'.scope.ports
           /\ s'.starter = "spawn" /\ ~s'.m_stop =>
                Cardinality(At(s', Listens)) + Cardinality(s'.todo) <= s'.scope.ports
      BY <2>1, <2>2, <3>2 DEF Count, SameCtl, SameOwn
    <3> QED BY <3>7, <3>8, <3>9, <3>10 DEF Count
  <2> QED BY <2>1, <2>4, <2>5, <2>6, <2>7 DEF IInv, Good
<1> QED BY <1>2, <1>3 DEF Limit

\* The thread of the connection is made, and is in m_threads.
LEMMA SpawnedKeeps ==
  ASSUME IInv, NEW n \in Socks, s.pc[n] = "register", s.m_stop = FALSE, s' = Spawned(n)
  PROVE  IInv'
<1> DEFINE k == s.hand[n]
           f == s.fd[k]
<1>1. /\ DOMAIN s = Fields /\ Own(s) /\ Ctl(s) /\ Sess(s) /\ Count(s) /\ CtlTypes(s)
  BY DEF IInv, Good, Ctl
<1>2. OwnTypes(s) /\ Numbered(s) /\ Tables(s) /\ Rooted(s) /\ Hands(s) /\ Listeners(s) /\ Owned(s)
  BY <1>1 DEF Own
<1>3. /\ "register" \in Holding /\ "register" \in Listens /\ "accept" \in Listens /\ "accept" \notin Holding
      /\ "read" \notin Listens /\ "read" \notin Holding /\ "read" \in Serves /\ "accept" \in Pcs
      /\ "read" \in Pcs /\ "accept" \notin Serves /\ "none" \notin Listens /\ "none" \notin Serves
      /\ "register" \notin Serves
  BY DEF Holding, Listens, Serves, Pcs
<1>4. k # 0 /\ k \in Socks /\ Fresh(s, k) /\ k \in 0..MaxMade
  BY <1>2, <1>3, Numbers DEF Hands, OwnTypes
<1>5. /\ f \in Fds /\ s.open[f] = k /\ s.pc[k] = "none" /\ f \notin s.sockets \cup s.rest
      /\ s.threads[f] = 0 /\ s.snap[f] = 0 /\ k # n
  BY <1>4 DEF Fresh
<1>6. /\ DOMAIN s' = Fields /\ SameCtl(s, s') /\ SameSess(s, s') /\ s'.made = s.made /\ s'.fd = s.fd
      /\ s'.open = s.open /\ s'.sockets = s.sockets /\ s'.rest = s.rest /\ s'.snap = s.snap
      /\ s'.hand = [s.hand EXCEPT ![n] = 0] /\ s'.threads = [s.threads EXCEPT ![f] = k]
      /\ s'.pc = [s.pc EXCEPT ![n] = "accept", ![k] = "read"]
      /\ s'.pend = [s.pend EXCEPT ![k] = TRUE] /\ s'.pending = s.pending + 1
  BY <1>1 DEF Spawned, Fields, SameCtl, SameSess
<1> HIDE DEF k, f
<1>7. s'.threads[f] = k /\ \A g \in Fds : g # f => s'.threads[g] = s.threads[g]
  BY <1>2, <1>5, <1>6 DEF OwnTypes
<1>8. s'.hand[n] = 0 /\ \A m \in Socks : m # n => s'.hand[m] = s.hand[m]
  BY <1>2, <1>6 DEF OwnTypes
<1>9. s'.pc[n] = "accept" /\ s'.pc[k] = "read" /\ \A m \in Socks : m # n /\ m # k => s'.pc[m] = s.pc[m]
  BY <1>2, <1>4, <1>5, <1>6 DEF OwnTypes
<1>10. Own(s')
  <2>1. OwnTypes(s')
    <3>1. 0 \in 0..MaxMade
      BY ThreadedAcceptorAssumption
    <3>2. s'.pc \in [Socks -> Pcs]
      BY ZenonT(60), <1>2, <1>3, <1>6 DEF OwnTypes
    <3>3. s'.hand \in [Socks -> 0..MaxMade]
      BY <1>2, <1>6, <3>1 DEF OwnTypes
    <3>4. s'.threads \in [Fds -> 0..MaxMade]
      BY ZenonT(60), <1>2, <1>4, <1>6 DEF OwnTypes
    <3> QED BY <1>2, <1>6, <3>2, <3>3, <3>4 DEF OwnTypes
  <2>2. Numbered(s')
    <3>1. k <= s.made /\ s.made \in Nat /\ k \in Nat
      BY <1>2, <1>4, <1>5, Numbers DEF Numbered, OwnTypes
    <3>2. ~(k > s.made)
      BY <3>1
    <3>3. ~(n > s.made)
      BY <1>2 DEF Numbered
    <3> QED BY <1>2, <1>6, <1>9, <3>2, <3>3 DEF Numbered
  <2>3. Tables(s')
    <3>1. \A g \in Fds : s'.threads[g] # 0 =>
            s'.open[g] = s'.threads[g] /\ s'.snap[g] = 0 /\ s'.pc[s'.threads[g]] # "none"
      <4> TAKE g \in Fds
      <4> HAVE s'.threads[g] # 0
      <4>1. CASE g = f
        BY <1>5, <1>6, <1>7, <1>9, <4>1
      <4>2. CASE g # f
        <5>1. s.threads[g] # 0 /\ s.threads[g] \in Socks /\ s'.threads[g] = s.threads[g]
          BY <1>2, <1>7, <4>2, Numbers
        <5> QED BY <1>2, <1>6, <1>9, <5>1 DEF Tables
      <4> QED BY <4>1, <4>2
    <3>2. \A g \in Fds : s'.snap[g] # 0 => s'.open[g] = s'.snap[g] /\ s'.pc[s'.snap[g]] # "none"
      <4>1. \A g \in Fds : s.snap[g] # 0 => s.snap[g] \in Socks
        BY <1>2, Numbers
      <4> QED BY <1>2, <1>6, <1>9, <4>1 DEF Tables
    <3> QED BY <3>1, <3>2 DEF Tables
  <2>4. Rooted(s')
    <3> SUFFICES ASSUME NEW m \in Socks, Lives(s', m)
                 PROVE  s'.fd[m] \in Fds /\ (s'.threads[s'.fd[m]] = m \/ s'.snap[s'.fd[m]] = m)
      BY DEF Rooted
    <3>1. CASE m = k
      BY <1>5, <1>6, <1>7, <3>1 DEF f
    <3>2. CASE m # k
      <4>1. Lives(s, m)
        BY <1>9, <3>2 DEF Lives
      <4>2. s.fd[m] \in Fds /\ (s.threads[s.fd[m]] = m \/ s.snap[s.fd[m]] = m) /\ m # 0
        BY <1>2, <4>1, Numbers DEF Rooted
      <4>3. s.fd[m] # f
        BY <1>5, <4>2
      <4> QED BY <1>6, <1>7, <4>2, <4>3
    <3> QED BY <3>1, <3>2
  <2>5. Hands(s')
    <3>1. \A m \in Socks : (m # n /\ s.hand[m] # 0) => /\ s.hand[m] \in Socks /\ s.hand[m] # n
                                                       /\ s.hand[m] # k /\ Fresh(s, s.hand[m])
      <4>1. \A m \in Socks : s.hand[m] # 0 => s.hand[m] \in Socks /\ s.hand[m] # n
        BY <1>2, Numbers DEF Hands, Fresh
      <4> QED BY <1>2, <1>4, <4>1 DEF Hands, k
    <3>2. \A m \in Socks : (m # n /\ s.hand[m] # 0) => s.fd[s.hand[m]] # f
      BY <1>5, <3>1 DEF Fresh
    <3>3. \A m \in Socks : s'.hand[m] # 0 => Fresh(s', s'.hand[m])
      BY <1>6, <1>7, <1>8, <1>9, <3>1, <3>2 DEF Fresh
    <3>4. \A m \in Socks : s'.hand[m] # 0 <=> s'.pc[m] \in Holding
      <4>1. s.hand[k] = 0
        BY <1>2, <1>3, <1>4, <1>5 DEF Hands, Holding
      <4> QED BY <1>2, <1>3, <1>5, <1>8, <1>9, <4>1 DEF Hands
    <3>5. \A i, m \in Socks : (s'.hand[i] # 0 /\ s'.hand[i] = s'.hand[m]) => i = m
      BY <1>2, <1>8 DEF Hands
    <3> QED BY <3>3, <3>4, <3>5 DEF Hands
  <2>6. Listeners(s')
    <3>1. \A g \in s.sockets \cup s.rest : g \in Fds /\ g # f /\ s.open[g] \in Socks /\ s.fd[s.open[g]] = g
      BY <1>2, <1>5, Numbers DEF Listeners, OwnTypes, Numbered
    <3>2. \A g \in s.sockets \cup s.rest : s.open[g] # k
      BY <3>1 DEF f
    <3>3. \A g \in s.sockets \cup s.rest :
            /\ s'.threads[g] = s.threads[g]
            /\ s'.pc[s.open[g]] = s.pc[s.open[g]] \/ (s.pc[s.open[g]] = "register" /\ s'.pc[s.open[g]] \in Listens)
      BY <1>3, <1>7, <1>9, <3>1, <3>2
    <3>4. s'.m_stop = s.m_stop
      BY <1>6 DEF SameCtl
    <3> QED BY <1>2, <1>6, <3>3, <3>4 DEF Listeners
  <2>7. Owned(s')
    <3> SUFFICES ASSUME NEW g \in Fds, s'.open[g] # 0
                 PROVE  \/ s'.threads[g] # 0 \/ s'.snap[g] # 0 \/ g \in s'.sockets \cup s'.rest
                        \/ \E m \in Socks : s'.hand[m] # 0 /\ s'.fd[s'.hand[m]] = g
      BY DEF Owned
    <3>1. CASE g = f
      BY <1>4, <1>7, <3>1
    <3>2. CASE g # f
      <4>1. \/ s.threads[g] # 0 \/ s.snap[g] # 0 \/ g \in s.sockets \cup s.rest
            \/ \E m \in Socks : s.hand[m] # 0 /\ s.fd[s.hand[m]] = g
        BY <1>2, <1>6 DEF Owned
      <4>2. s.fd[s.hand[n]] # g
        BY <3>2 DEF f, k
      <4> QED BY <1>6, <1>7, <1>8, <3>2, <4>1, <4>2
    <3> QED BY <3>1, <3>2
  <2> QED BY <2>1, <2>2, <2>3, <2>4, <2>5, <2>6, <2>7 DEF Own
<1>11. n \in At(s, Listens) /\ n \in At(s, {"register"})
  BY <1>3 DEF At
<1>12. Ctl(s')
  <2>1. CtlTypes(s) /\ Single(s) /\ Taking(s) /\ Spawning(s)
    BY <1>1 DEF Ctl
  <2>2. CtlTypes(s') /\ Single(s')
    BY <1>6, <2>1 DEF CtlTypes, Single, Stops, SameCtl
  <2>3. s'.m_stop = FALSE /\ s'.starter = s.starter /\ s'.todo = s.todo /\ s'.caller = s.caller
    BY <1>6 DEF SameCtl
  <2>4. \A c \in Callers : s.caller[c] \notin {"shutdown", "join", "starter"}
    BY <2>1 DEF Single, Late
  <2>5. Taking(s')
    BY <1>6, <2>1, <2>3, <2>4 DEF Taking
  <2>6. s.starter # "copy"
    BY <1>1, <1>11 DEF Count
  <2>7. Spawning(s')
    BY <1>5, <1>6, <1>7, <2>1, <2>3, <2>6 DEF Spawning, CtlTypes
  <2> QED BY <2>2, <2>5, <2>7 DEF Ctl
<1>13. Sess(s')
  <2>1. \A j \in Socks : s.sess[j] # NoSession => s'.pc[j] \in Serves \ {"bind"}
    <3>1. \A j \in Socks : s.sess[j] # NoSession => s.pc[j] \in Serves \ {"bind"}
      BY <1>1 DEF Sess
    <3> QED BY <1>3, <1>5, <1>9, <3>1
  <2> QED BY <1>1, <1>6, <2>1, SessSame
<1>14. Count(s')
  <2>1. s.pend \in [Socks -> BOOLEAN] /\ (\A j \in Socks : s.pend[j] => s.pc[j] \in Serves)
    BY <1>1 DEF Count
  <2>2. ~s.pend[k]
    BY <1>3, <1>4, <1>5, <2>1
  <2>3. s'.pend \in [Socks -> BOOLEAN] /\ s'.pend[k] /\ \A j \in Socks : j # k => s'.pend[j] = s.pend[j]
    BY <1>4, <1>6, <2>1
  <2>4. Waiters(s') = Waiters(s) \cup {k} /\ k \notin Waiters(s)
    BY <1>4, <2>2, <2>3 DEF Waiters
  <2>5. /\ IsFiniteSet(Waiters(s)) /\ Cardinality(Waiters(s)) \in Nat /\ IsFiniteSet(At(s, {"register"}))
        /\ Cardinality(At(s, {"register"})) \in Nat
    BY Finite DEF Waiters, At
  <2>6. Cardinality(Waiters(s')) = Cardinality(Waiters(s)) + 1
    BY <2>4, <2>5, FS_AddElement
  <2>7. At(s', Listens) = At(s, Listens)
    BY <1>3, <1>4, <1>5, <1>9 DEF At
  <2>8. At(s', {"register"}) = At(s, {"register"}) \ {n}
    BY <1>4, <1>5, <1>9 DEF At
  <2>9. Cardinality(At(s', {"register"})) = Cardinality(At(s, {"register"})) - 1
    BY <1>11, <2>5, <2>8, FS_RemoveElement
  <2>10. MaxPending \in Nat /\ s.scope.ports \in Nat
    BY <1>1, ThreadedAcceptorAssumption DEF CtlTypes
  <2>11. s'.pending = Cardinality(Waiters(s'))
    BY <1>1, <1>6, <2>6 DEF Count
  <2>12. \A j \in Socks : s'.pend[j] => s'.pc[j] \in Serves
    BY <1>3, <1>5, <1>9, <2>1, <2>3
  <2>13. MaxPending > 0 => s'.pending + Cardinality(At(s', {"register"})) <= MaxPending + s'.scope.ports - 1
    <3>1. /\ s.pending = Cardinality(Waiters(s))
          /\ MaxPending > 0 => s.pending + Cardinality(At(s, {"register"})) <= MaxPending + s.scope.ports - 1
      BY <1>1 DEF Count
    <3>2. s'.pending = s.pending + 1 /\ s'.scope = s.scope
      BY <1>6 DEF SameCtl
    <3> QED BY <2>5, <2>9, <2>10, <3>1, <3>2
  <2>14. /\ Cardinality(At(s', Listens)) <= s'.scope.ports
         /\ s'.starter = "copy" /\ ~s'.m_stop => At(s', Listens) = {} /\ Cardinality(s'.sockets) <= s'.scope.ports
         /\ s'.starter = "spawn" /\ ~s'.m_stop => Cardinality(At(s', Listens)) + Cardinality(s'.todo) <= s'.scope.ports
    BY <1>1, <1>6, <2>7 DEF Count, SameCtl
  <2> QED BY <2>3, <2>11, <2>12, <2>13, <2>14 DEF Count
<1> QED BY <1>6, <1>10, <1>12, <1>13, <1>14 DEF IInv, Good

\* The lock is taken for the accepted connection.
LEMMA RegisterStep == ASSUME IInv, NEW n \in Socks, Register(n) PROVE IInv'
<1>1. Good(s) /\ s.pc[n] = "register" /\ s.pc[n] \in Holding /\ s.m_stop \in BOOLEAN
  BY DEF IInv, Register, Holding, Good, Ctl, CtlTypes
<1>2. CASE s.m_stop /\ s' = [CloseHand(s, n) EXCEPT !.pc[n] = "leaving"]
  BY <1>1, <1>2, CloseHandKeeps DEF IInv
<1>3. CASE s' = [CloseHand(s, n) EXCEPT !.pc[n] = "accept"]
  BY <1>1, <1>3, CloseHandKeeps DEF IInv
<1>4. CASE ~s.m_stop /\ s' = Spawned(n)
  BY <1>1, <1>4, SpawnedKeeps
<1> QED BY <1>2, <1>3, <1>4 DEF Register

-----------------------------------------------------------------------------
(* Starting *)

\* Once the threads were joined there is no thread, no open socket and no connection.
LEMMA Quiet ==
  ASSUME NEW t, Good(t), NoThreads(t), t.rest = {}, \A f \in Fds : t.snap[f] = 0
  PROVE  /\ \A n \in Socks : t.pc[n] \in {"none", "done"} /\ t.hand[n] = 0 /\ t.sess[n] = NoSession /\ ~t.pend[n]
         /\ \A f \in Fds : t.open[f] = 0
         /\ At(t, Listens) = {} /\ Waiters(t) = {}
<1>1. OwnTypes(t) /\ Rooted(t) /\ Hands(t) /\ Owned(t) /\ Sess(t) /\ Count(t)
  BY DEF Good, Own
<1>2. t.sockets = {} /\ \A f \in Fds : t.threads[f] = 0
  BY DEF NoThreads
<1>3. ASSUME NEW n \in Socks PROVE t.pc[n] \in {"none", "done"}
  <2>1. n # 0
    BY <1>1, Numbers
  <2> QED BY <1>1, <1>2, <2>1 DEF Rooted, Lives
<1>4. \A n \in Socks : t.hand[n] = 0
  BY <1>1, <1>3 DEF Hands, Holding
<1>5. \A n \in Socks : t.sess[n] = NoSession
  BY <1>1, <1>3 DEF Sess, Serves
<1>6. \A n \in Socks : ~t.pend[n]
  BY <1>1, <1>3 DEF Count, Serves
<1>7. \A f \in Fds : t.open[f] = 0
  BY <1>1, <1>2, <1>4 DEF Owned
<1>8. At(t, Listens) = {} /\ Waiters(t) = {}
  BY <1>3, <1>6 DEF At, Waiters, Listens, Holding
<1> QED BY <1>3, <1>4, <1>5, <1>6, <1>7, <1>8

\* Before a start() the acceptor is quiet.
LEMMA Stopped ==
  ASSUME NEW t, Good(t), t.m_stop, ~t.m_stopping
  PROVE  NoThreads(t) /\ t.rest = {} /\ (\A f \in Fds : t.snap[f] = 0) /\ t.starter = "none"
<1>1. Single(t) /\ Taking(t)
  BY DEF Good, Ctl
<1>2. \A c \in Callers : ~Stops(t, c)
  BY <1>1 DEF Single
<1>3. \A c \in Callers : t.caller[c] \notin {"shutdown", "join"}
  BY <1>2 DEF Stops, Early, Late
<1> QED BY <1>1, <1>3 DEF Taking

\* A listener is made while start() has no thread for it yet.
LEMMA NewListenerKeeps ==
  ASSUME NEW t, Good(t), Free(t) # {}, t.made < t.scope.made, t.starter = "copy", t.m_stop = FALSE,
         Cardinality(t.sockets) + 1 <= t.scope.ports
  PROVE  LET u == NewListener(t)
         IN /\ Good(u) /\ u.scope = t.scope /\ u.starter = "copy" /\ u.m_stop = FALSE
            /\ u.made = t.made + 1 /\ Cardinality(u.sockets) = Cardinality(t.sockets) + 1
            /\ \E f \in Fds : u.open = [t.open EXCEPT ![f] = t.made + 1]
<1> DEFINE v == NewSocket(t)
           f == Min(Free(t))
           k == t.made + 1
           u == NewListener(t)
<1>1. /\ OwnBut(v, f) /\ Unowned(v, f, k) /\ DOMAIN v = Fields /\ SameCtl(t, v) /\ SameSess(t, v)
      /\ SameCount(t, v) /\ v.pc = t.pc /\ v.hand = t.hand /\ v.sockets = t.sockets
      /\ v.rest = t.rest /\ v.threads = t.threads /\ v.snap = t.snap /\ v.made = k
      /\ v.open = [t.open EXCEPT ![f] = k] /\ v.fd[k] = f /\ t.open[f] = 0
  BY NewSocketKeeps
<1>2. Ctl(t) /\ Sess(t) /\ Count(t) /\ OwnTypes(t) /\ CtlTypes(t)
  BY DEF Good, Own, Ctl
<1>3. u = [v EXCEPT !.sockets = @ \cup {f}]
  BY <1>1 DEF NewListener
<1> HIDE DEF v, u, f, k
<1>4. /\ DOMAIN u = Fields /\ SameCtl(v, u) /\ SameSess(v, u) /\ SameCount(v, u) /\ u.pc = v.pc
      /\ u.hand = v.hand /\ u.sockets = v.sockets \cup {f} /\ u.rest = v.rest /\ u.threads = v.threads
      /\ u.snap = v.snap /\ u.made = v.made /\ u.open = v.open /\ u.fd = v.fd
  BY <1>1, <1>3 DEF Fields, SameCtl, SameSess, SameCount
<1>5. /\ f \in Fds /\ k \in Socks /\ v.open[f] = k /\ v.fd[k] = f /\ v.pc[k] = "none"
      /\ f \notin v.sockets \cup v.rest /\ v.threads[f] = 0 /\ v.snap[f] = 0
      /\ \A m \in Socks : v.hand[m] # k
  BY <1>1 DEF Unowned
<1>6. /\ OwnTypes(v) /\ Numbered(v) /\ Tables(v) /\ Rooted(v) /\ Hands(v) /\ Listeners(v)
      /\ OwnedBut(v, f)
  BY <1>1 DEF OwnBut
<1>7. Own(u)
  <2>1. OwnTypes(u) /\ Numbered(u)
    BY <1>4, <1>5, <1>6 DEF OwnTypes, Numbered
  <2>2. Tables(u) /\ Rooted(u)
    BY <1>4, <1>6 DEF Tables, Rooted, Lives
  <2>3. Hands(u)
    <3>1. \A m \in Socks : v.hand[m] # 0 => v.fd[v.hand[m]] # f
      BY <1>5, <1>6 DEF Hands, Fresh
    <3>2. \A m \in Socks : u.hand[m] # 0 => Fresh(u, u.hand[m])
      BY <1>4, <1>6, <3>1 DEF Hands, Fresh
    <3> QED BY <1>4, <1>6, <3>2 DEF Hands
  <2>4. Listeners(u)
    <3>1. k # 0 /\ u.m_stop = v.m_stop
      BY <1>4, <1>5, <1>6, Numbers DEF SameCtl
    <3> QED BY <1>4, <1>5, <1>6, <3>1 DEF Listeners
  <2>5. Owned(u)
    BY <1>4, <1>6 DEF OwnedBut, Owned
  <2> QED BY <2>1, <2>2, <2>3, <2>4, <2>5 DEF Own
<1>8. SameCtl(t, u) /\ SameSess(t, u) /\ SameCount(t, u) /\ u.pc = t.pc /\ u.sockets = t.sockets \cup {f}
      /\ f \notin t.sockets /\ t.sockets \subseteq Fds /\ u.threads = t.threads
  BY <1>1, <1>2, <1>4, <1>5 DEF SameCtl, SameSess, SameCount, OwnTypes
<1>9. Ctl(u)
  <2>1. CtlTypes(t) /\ Single(t) /\ Taking(t) /\ Spawning(t)
    BY <1>2 DEF Ctl
  <2>2. CtlTypes(u) /\ Single(u)
    BY <1>8, <2>1 DEF CtlTypes, Single, Stops, SameCtl
  <2>3. \A c \in Callers : t.caller[c] \notin {"shutdown", "join", "starter"}
    BY <2>1 DEF Single, Late
  <2>4. u.rest = t.rest /\ u.snap = t.snap /\ u.caller = t.caller /\ u.m_stop = FALSE /\ u.starter = "copy"
    BY <1>1, <1>4, <1>8 DEF SameCtl
  <2>5. Taking(u)
    BY <2>1, <2>3, <2>4 DEF Taking
  <2>6. Spawning(u)
    BY <1>8, <2>1, <2>4 DEF Spawning
  <2> QED BY <2>2, <2>5, <2>6 DEF Ctl
<1>10. Sess(u)
  <2>1. \A j \in Socks : t.sess[j] # NoSession => u.pc[j] \in Serves \ {"bind"}
    BY <1>2, <1>8 DEF Sess
  <2> QED BY <1>2, <1>8, <2>1, SessSame
<1>11. Cardinality(u.sockets) = Cardinality(t.sockets) + 1
  BY <1>8, Finite, FS_AddElement
<1>12. Count(u)
  <2>1. At(u, Listens) = At(t, Listens) /\ At(u, {"register"}) = At(t, {"register"}) /\ Waiters(u) = Waiters(t)
    BY <1>8 DEF At, Waiters, SameCount
  <2>2. u.starter = "copy" /\ u.scope = t.scope /\ u.todo = t.todo /\ u.m_stop = FALSE
    BY <1>8 DEF SameCtl
  <2>3. u.pend = t.pend /\ u.pending = t.pending /\ u.pc = t.pc
    BY <1>8 DEF SameCount
  <2> QED BY <1>2, <1>11, <2>1, <2>2, <2>3 DEF Count
<1>13. u.scope = t.scope /\ u.starter = "copy" /\ u.m_stop = FALSE /\ u.made = k
  BY <1>1, <1>4, <1>8 DEF SameCtl
<1>14. Good(u)
  BY <1>4, <1>7, <1>9, <1>10, <1>12 DEF Good
<1>15. \E g \in Fds : u.open = [t.open EXCEPT ![g] = k]
  BY <1>1, <1>4, <1>5
<1> QED BY <1>11, <1>13, <1>14, <1>15 DEF u, k

\* Acceptor::start, with its listeners.
LEMMA StartStep == ASSUME IInv, Start PROVE IInv'
<1> DEFINE t == [s EXCEPT !.m_stop = FALSE, !.starts = @ + 1, !.starter = "copy",
                          !.caller = [c \in Callers |-> "idle"]]
<1>1. /\ Good(s) /\ DOMAIN s = Fields /\ Own(s) /\ Ctl(s) /\ Sess(s) /\ Count(s) /\ CtlTypes(s)
      /\ s.m_stop /\ ~s.m_stopping /\ s.made + s.scope.ports <= s.scope.made /\ OwnTypes(s)
  BY DEF IInv, Good, Ctl, Start, Own
<1>2. s' = IF s.scope.ports = 1 THEN NewListener(t) ELSE NewListener(NewListener(t))
  BY DEF Start
<1>3. /\ DOMAIN t = Fields /\ SameOwn(s, t) /\ SameSess(s, t) /\ SameCount(s, t) /\ t.pc = s.pc
      /\ t.scope = s.scope /\ t.m_stop = FALSE /\ t.m_stopping = s.m_stopping /\ t.todo = s.todo
      /\ t.starter = "copy" /\ t.caller = [c \in Callers |-> "idle"]
  BY <1>1 DEF Fields, SameOwn, SameSess, SameCount
<1> HIDE DEF t
<1>4. NoThreads(s) /\ s.rest = {} /\ (\A f \in Fds : s.snap[f] = 0) /\ s.starter = "none"
  BY <1>1, Stopped
<1>5. (\A f \in Fds : s.open[f] = 0) /\ At(s, Listens) = {}
  BY <1>1, <1>4, Quiet
<1>6. /\ s.scope.ports \in {1, 2} /\ s.scope.fds \in s.scope.ports..MaxFd /\ s.scope.made \in Nat /\ MaxFd \in Nat
      /\ s.made \in Nat
  BY <1>1, ThreadedAcceptorAssumption DEF CtlTypes, OwnTypes
<1>7. t.sockets = {} /\ t.rest = {} /\ Cardinality(t.sockets) = 0 /\ s.sockets = {}
  BY <1>3, <1>4, FS_EmptySet DEF SameOwn, NoThreads
<1>8. Good(t)
  <2>1. Own(t)
    <3>1. OwnTypes(s) /\ Numbered(s) /\ Tables(s) /\ Rooted(s) /\ Hands(s) /\ Owned(s)
      BY <1>1 DEF Own
    <3>2. OwnTypes(t) /\ Numbered(t) /\ Tables(t)
      BY <1>3, <3>1 DEF OwnTypes, Numbered, Tables, SameOwn
    <3>3. Rooted(t) /\ Hands(t) /\ Owned(t)
      BY <1>3, <3>1 DEF Rooted, Lives, Hands, Fresh, Owned, SameOwn
    <3>4. Listeners(t)
      BY <1>7 DEF Listeners
    <3> QED BY <3>2, <3>3, <3>4 DEF Own
  <2>2. Ctl(t)
    <3>1. CtlTypes(t)
      BY <1>1, <1>3 DEF CtlTypes
    <3>2. \A c \in Callers : t.caller[c] = "idle"
      BY <1>3
    <3>3. Single(t)
      BY <1>1, <1>3, <3>2 DEF Single, Stops, Early, Late
    <3>4. \A f \in Fds : t.threads[f] = 0 /\ t.snap[f] = 0
      BY <1>3, <1>4 DEF SameOwn, NoThreads
    <3>5. Taking(t)
      BY <1>3, <1>7, <3>2, <3>4 DEF Taking
    <3>6. Spawning(t)
      BY <1>3, <3>4 DEF Spawning
    <3> QED BY <3>1, <3>3, <3>5, <3>6 DEF Ctl
  <2>3. Sess(t)
    <3>1. \A j \in Socks : s.sess[j] # NoSession => t.pc[j] \in Serves \ {"bind"}
      BY <1>1, <1>3 DEF Sess
    <3> QED BY <1>1, <1>3, <3>1, SessSame
  <2>4. Count(t)
    <3>1. At(t, Listens) = {} /\ At(t, {"register"}) = At(s, {"register"}) /\ Waiters(t) = Waiters(s)
      BY <1>3, <1>5 DEF At, Waiters, SameCount
    <3>2. Cardinality(At(t, Listens)) <= t.scope.ports /\ Cardinality(t.sockets) <= t.scope.ports
      BY <1>3, <1>6, <1>7, <3>1, FS_EmptySet
    <3>3. t.pend = s.pend /\ t.pending = s.pending
      BY <1>3 DEF SameCount
    <3> QED BY <1>1, <1>3, <3>1, <3>2, <3>3 DEF Count
  <2> QED BY <1>3, <2>1, <2>2, <2>3, <2>4 DEF Good
<1>9. t.open = s.open /\ t.made = s.made
  BY <1>3 DEF SameOwn
<1>10. Free(t) # {}
  <2>1. 1 \in 1..s.scope.fds /\ 1 \in Fds
    BY <1>6 DEF Fds
  <2>2. 1 \in Free(t)
    BY <1>3, <1>5, <1>9, <2>1 DEF Free
  <2> QED BY <2>2
<1>11. t.made < t.scope.made /\ Cardinality(t.sockets) + 1 <= t.scope.ports
  BY <1>1, <1>3, <1>6, <1>7, <1>9
<1> DEFINE u == NewListener(t)
<1>12. /\ Good(u) /\ u.scope = t.scope /\ u.starter = "copy" /\ u.m_stop = FALSE /\ u.made = t.made + 1
       /\ Cardinality(u.sockets) = Cardinality(t.sockets) + 1
       /\ \E f \in Fds : u.open = [t.open EXCEPT ![f] = t.made + 1]
  BY <1>3, <1>8, <1>10, <1>11, NewListenerKeeps
<1>13. s' = IF s.scope.ports = 1 THEN u ELSE NewListener(u)
  BY <1>2
<1> HIDE DEF u
<1>14. CASE s.scope.ports = 1
  BY <1>12, <1>13, <1>14 DEF IInv
<1>15. CASE s.scope.ports = 2
  <2>1. Free(u) # {}
    <3>1. PICK f \in Fds : u.open = [s.open EXCEPT ![f] = t.made + 1]
      BY <1>9, <1>12
    <3>2. 1 \in Fds /\ 2 \in Fds /\ 1 \in 1..s.scope.fds /\ 2 \in 1..s.scope.fds
      BY <1>6, <1>15 DEF Fds
    <3>3. u.open[1] = 0 \/ u.open[2] = 0
      <4>1. f # 1 \/ f # 2
        OBVIOUS
      <4> QED BY <1>1, <1>5, <3>1, <3>2, <4>1 DEF OwnTypes
    <3>4. 1 \in Free(u) \/ 2 \in Free(u)
      BY <1>3, <1>12, <3>2, <3>3 DEF Free
    <3> QED BY <3>4
  <2>2. u.made < u.scope.made /\ Cardinality(u.sockets) + 1 <= u.scope.ports
    BY <1>1, <1>3, <1>6, <1>7, <1>9, <1>12, <1>15
  <2>3. s' = NewListener(u)
    BY <1>13, <1>15
  <2>4. Good(s')
    BY <1>12, <2>1, <2>2, <2>3, NewListenerKeeps
  <2> QED BY <2>4 DEF IInv
<1> QED BY <1>6, <1>14, <1>15

\* onStart looks at the listeners.
LEMMA StartCopyStep == ASSUME IInv, StartCopy PROVE IInv'
<1>1. /\ DOMAIN s = Fields /\ Own(s) /\ Ctl(s) /\ Sess(s) /\ Count(s) /\ CtlTypes(s) /\ OwnTypes(s)
      /\ s.starter = "copy" /\ s' = [s EXCEPT !.starter = "spawn", !.todo = s.sockets]
  BY DEF IInv, Good, Ctl, StartCopy, Own
<1>2. /\ DOMAIN s' = Fields /\ SameOwn(s, s') /\ SameSess(s, s') /\ SameCount(s, s') /\ s'.pc = s.pc
      /\ s'.scope = s.scope /\ s'.m_stop = s.m_stop /\ s'.m_stopping = s.m_stopping
      /\ s'.caller = s.caller /\ s'.starter = "spawn" /\ s'.todo = s.sockets
  BY <1>1 DEF Fields, SameOwn, SameSess, SameCount
<1>3. Own(s')
  <2>1. SameKind(s, s')
    BY <1>1, <1>2 DEF SameKind, OwnTypes
  <2> QED BY <1>1, <1>2, <2>1, OwnSame
<1>4. Ctl(s')
  <2>1. CtlTypes(s) /\ Single(s) /\ Taking(s) /\ Spawning(s)
    BY <1>1 DEF Ctl
  <2>2. s'.sockets = s.sockets /\ s'.rest = s.rest /\ s'.threads = s.threads /\ s'.snap = s.snap
        /\ s.sockets \subseteq Fds
    BY <1>1, <1>2 DEF SameOwn, OwnTypes
  <2>3. CtlTypes(s') /\ Single(s')
    BY <1>2, <2>1, <2>2 DEF CtlTypes, Single, Stops
  <2>4. Taking(s')
    BY <1>1, <1>2, <2>1, <2>2 DEF Taking, NoThreads
  <2>5. Spawning(s')
    BY <1>1, <1>2, <2>1, <2>2 DEF Spawning
  <2> QED BY <2>3, <2>4, <2>5 DEF Ctl
<1>5. Sess(s')
  <2>1. \A j \in Socks : s.sess[j] # NoSession => s'.pc[j] \in Serves \ {"bind"}
    BY <1>1, <1>2 DEF Sess
  <2>2. Sess(s) /\ SameSess(s, s')
    BY <1>1, <1>2
  <2> QED BY ZenonT(60), <2>1, <2>2, SessSame
<1>6. Count(s')
  <2>1. At(s', Listens) = At(s, Listens) /\ At(s', {"register"}) = At(s, {"register"}) /\ Waiters(s') = Waiters(s)
    BY <1>2 DEF At, Waiters, SameCount
  <2>2. ~s.m_stop => Cardinality(At(s, Listens)) + Cardinality(s.sockets) <= s.scope.ports
    <3>1. Cardinality(s.sockets) \in Nat
      BY <1>1, Finite DEF OwnTypes
    <3>2. ~s.m_stop => At(s, Listens) = {} /\ Cardinality(s.sockets) <= s.scope.ports
      BY <1>1 DEF Count
    <3> QED BY <3>1, <3>2, FS_EmptySet
  <2>3. s'.pend = s.pend /\ s'.pending = s.pending
    BY <1>2 DEF SameCount
  <2> QED BY <1>1, <1>2, <2>1, <2>2, <2>3 DEF Count
<1> QED BY <1>2, <1>3, <1>4, <1>5, <1>6 DEF IInv, Good

\* onStart makes the thread of a listener, or ends.
LEMMA StartSpawnStep == ASSUME IInv, StartSpawn PROVE IInv'
<1>1. /\ Good(s) /\ DOMAIN s = Fields /\ Own(s) /\ Ctl(s) /\ Sess(s) /\ Count(s) /\ CtlTypes(s) /\ OwnTypes(s)
      /\ s.starter = "spawn"
  BY DEF IInv, Good, Ctl, StartSpawn, Own
<1>2. CtlTypes(s) /\ Single(s) /\ Taking(s) /\ Spawning(s)
  BY <1>1 DEF Ctl
<1>3. CASE s' = [s EXCEPT !.starter = "done", !.todo = {}]
  <2>1. /\ DOMAIN s' = Fields /\ SameOwn(s, s') /\ SameSess(s, s') /\ SameCount(s, s') /\ s'.pc = s.pc
        /\ s'.scope = s.scope /\ s'.m_stop = s.m_stop /\ s'.m_stopping = s.m_stopping
        /\ s'.caller = s.caller /\ s'.starter = "done" /\ s'.todo = {}
    BY <1>1, <1>3 DEF Fields, SameOwn, SameSess, SameCount
  <2>2. Own(s')
    BY <1>1, <2>1, OwnSame DEF SameKind, OwnTypes
  <2>3. Ctl(s')
    <3>1. s'.sockets = s.sockets /\ s'.rest = s.rest /\ s'.threads = s.threads /\ s'.snap = s.snap
      BY <2>1 DEF SameOwn
    <3>2. CtlTypes(s') /\ Single(s')
      BY <1>2, <2>1 DEF CtlTypes, Single, Stops
    <3>3. Taking(s')
      BY <1>1, <1>2, <2>1, <3>1 DEF Taking, NoThreads
    <3>4. Spawning(s')
      BY <2>1 DEF Spawning
    <3> QED BY <3>2, <3>3, <3>4 DEF Ctl
  <2>4. Sess(s')
    <3>1. \A j \in Socks : s.sess[j] # NoSession => s'.pc[j] \in Serves \ {"bind"}
      BY <1>1, <2>1 DEF Sess
    <3> QED BY <1>1, <2>1, <3>1, SessSame
  <2>5. Count(s')
    <3>1. At(s', Listens) = At(s, Listens) /\ At(s', {"register"}) = At(s, {"register"}) /\ Waiters(s') = Waiters(s)
      BY <2>1 DEF At, Waiters, SameCount
    <3>2. s'.pend = s.pend /\ s'.pending = s.pending
      BY <2>1 DEF SameCount
    <3> QED BY <1>1, <2>1, <3>1, <3>2 DEF Count
  <2> QED BY <2>1, <2>2, <2>3, <2>4, <2>5 DEF IInv, Good
<1>4. CASE ~s.m_stop /\ s.todo # {}
  <2> DEFINE f == Min(s.todo)
             n == s.open[f]
  <2>1. s' = [s EXCEPT !.todo = @ \ {f}, !.pc[s.open[f]] = "accept", !.threads[f] = s.open[f]]
    BY <1>4 DEF StartSpawn
  <2>2. f \in s.todo
    <3>1. s.todo \in SUBSET Nat
      BY <1>1, ThreadedAcceptorAssumption DEF CtlTypes, Fds
    <3> QED BY <1>4, <3>1, MinExists
  <2>3. /\ DOMAIN s' = Fields /\ SameSess(s, s') /\ SameCount(s, s') /\ s'.made = s.made /\ s'.fd = s.fd
        /\ s'.open = s.open /\ s'.sockets = s.sockets /\ s'.rest = s.rest /\ s'.snap = s.snap
        /\ s'.hand = s.hand /\ s'.threads = [s.threads EXCEPT ![f] = n]
        /\ s'.pc = [s.pc EXCEPT ![n] = "accept"] /\ s'.scope = s.scope /\ s'.m_stop = s.m_stop
        /\ s'.m_stopping = s.m_stopping /\ s'.caller = s.caller /\ s'.starter = s.starter
        /\ s'.todo = s.todo \ {f}
    BY <1>1, <2>1 DEF Fields, SameSess, SameCount
  <2> HIDE DEF f
  <2>4. OwnTypes(s) /\ Numbered(s) /\ Tables(s) /\ Rooted(s) /\ Hands(s) /\ Listeners(s) /\ Owned(s)
    BY <1>1 DEF Own
  <2>5. f \in Fds /\ f \in s.sockets /\ s.threads[f] = 0
    BY <1>1, <1>2, <1>4, <2>2 DEF Spawning, CtlTypes
  <2>6. n # 0 /\ n \in Socks /\ s.fd[n] = f /\ s.snap[f] = 0 /\ s.pc[n] = "none" /\ n \in 0..MaxMade
    BY <2>4, <2>5, Numbers DEF Listeners, Numbered, OwnTypes
  <2> HIDE DEF n
  <2>7. \A c \in Callers : s.caller[c] \notin {"shutdown", "join", "starter"}
    BY <1>2, <1>4 DEF Single, Late
  <2>8. s.rest = {}
    BY <1>2, <2>7 DEF Taking
  <2>9. /\ "accept" \in Pcs /\ "accept" \notin Holding /\ "none" \notin Holding /\ "accept" \in Listens
        /\ "none" \notin Listens /\ "none" \notin Serves
    BY DEF Pcs, Holding, Listens, Serves
  <2>10. s'.threads[f] = n /\ \A g \in Fds : g # f => s'.threads[g] = s.threads[g]
    BY <2>3, <2>4, <2>5 DEF OwnTypes
  <2>11. s'.pc[n] = "accept" /\ \A m \in Socks : m # n => s'.pc[m] = s.pc[m]
    BY <2>3, <2>4, <2>6 DEF OwnTypes
  <2>12. Own(s')
    <3>1. OwnTypes(s')
      <4>1. s'.threads \in [Fds -> 0..MaxMade]
        BY <2>3, <2>4, <2>6 DEF OwnTypes
      <4>2. s'.pc \in [Socks -> Pcs]
        BY <2>3, <2>4, <2>9 DEF OwnTypes
      <4> QED BY <2>3, <2>4, <4>1, <4>2 DEF OwnTypes
    <3>2. Numbered(s')
      <4>1. s.open[f] = n /\ n <= s.made /\ s.made \in Nat /\ n \in Nat
        BY <2>4, <2>5, <2>6, Numbers DEF Numbered, OwnTypes, n
      <4>2. ~(n > s.made)
        BY <4>1
      <4> QED BY <2>3, <2>4, <2>11, <4>2 DEF Numbered
    <3>3. Tables(s')
      <4>1. \A g \in Fds : (s.threads[g] # 0 => s.threads[g] \in Socks) /\ (s.snap[g] # 0 => s.snap[g] \in Socks)
        BY <2>4, Numbers
      <4>2. s.open[f] = n
        BY DEF n
      <4>3. \A g \in Fds : s'.threads[g] # 0 =>
              s'.open[g] = s'.threads[g] /\ s'.snap[g] = 0 /\ s'.pc[s'.threads[g]] # "none"
        BY <2>3, <2>4, <2>6, <2>10, <2>11, <4>1, <4>2 DEF Tables
      <4>4. \A g \in Fds : s'.snap[g] # 0 => s'.open[g] = s'.snap[g] /\ s'.pc[s'.snap[g]] # "none"
        BY <2>3, <2>4, <2>11, <4>1 DEF Tables
      <4> QED BY <4>3, <4>4 DEF Tables
    <3>4. Rooted(s')
      <4> SUFFICES ASSUME NEW m \in Socks, Lives(s', m)
                   PROVE  s'.fd[m] \in Fds /\ (s'.threads[s'.fd[m]] = m \/ s'.snap[s'.fd[m]] = m)
        BY DEF Rooted
      <4>1. CASE m = n
        BY <2>3, <2>5, <2>6, <2>10, <4>1
      <4>2. CASE m # n
        <5>1. Lives(s, m) /\ m # 0
          BY <2>4, <2>11, <4>2, Numbers DEF Lives
        <5>2. s.fd[m] \in Fds /\ (s.threads[s.fd[m]] = m \/ s.snap[s.fd[m]] = m)
          BY <2>4, <5>1 DEF Rooted
        <5>3. s.fd[m] # f
          BY <2>5, <2>6, <5>1, <5>2
        <5> QED BY <2>3, <2>10, <5>2, <5>3
      <4> QED BY <4>1, <4>2
    <3>5. Hands(s')
      <4>1. \A m \in Socks : s.hand[m] # 0 => /\ s.hand[m] \in Socks /\ s.fd[s.hand[m]] # f
                                              /\ s.hand[m] # n /\ Fresh(s, s.hand[m])
        BY <2>4, <2>5, <2>6, Numbers DEF Hands, Fresh
      <4>2. \A m \in Socks : s'.hand[m] # 0 => Fresh(s', s'.hand[m])
        BY <2>3, <2>10, <2>11, <4>1 DEF Fresh
      <4>3. \A m \in Socks : s'.hand[m] # 0 <=> s'.pc[m] \in Holding
        BY <2>3, <2>4, <2>6, <2>9, <2>11 DEF Hands
      <4> QED BY <2>3, <2>4, <4>2, <4>3 DEF Hands
    <3>6. Listeners(s')
      <4>1. \A g \in s.sockets : g \in Fds /\ s.open[g] \in Socks /\ s.fd[s.open[g]] = g
        BY <2>4, Numbers DEF Listeners, OwnTypes, Numbered
      <4>2. \A g \in s.sockets : g # f => s'.threads[g] = s.threads[g] /\ s'.pc[s.open[g]] = s.pc[s.open[g]]
        BY <2>6, <2>10, <2>11, <4>1
      <4>3. s'.threads[f] # 0 /\ s'.pc[s.open[f]] \in Listens /\ s.open[f] # 0 /\ s.snap[f] = 0
        BY <2>6, <2>9, <2>10, <2>11 DEF n
      <4> QED BY <2>3, <2>4, <2>8, <4>2, <4>3 DEF Listeners
    <3>7. Owned(s')
      BY <2>3, <2>4, <2>6, <2>10 DEF Owned
    <3> QED BY <3>1, <3>2, <3>3, <3>4, <3>5, <3>6, <3>7 DEF Own
  <2>13. Ctl(s')
    <3>1. CtlTypes(s') /\ Single(s')
      BY <1>2, <2>3 DEF CtlTypes, Single, Stops
    <3>2. Taking(s')
      BY <1>2, <1>4, <2>3, <2>7 DEF Taking
    <3>3. Spawning(s')
      BY <1>1, <1>2, <1>4, <2>3, <2>10 DEF Spawning, CtlTypes
    <3> QED BY <3>1, <3>2, <3>3 DEF Ctl
  <2>14. Sess(s')
    <3>1. \A j \in Socks : s.sess[j] # NoSession => s.pc[j] \in Serves \ {"bind"}
      BY <1>1 DEF Sess
    <3>2. \A j \in Socks : s.sess[j] # NoSession => s'.pc[j] \in Serves \ {"bind"}
      BY <2>6, <2>9, <2>11, <3>1
    <3> QED BY <1>1, <2>3, <3>2, SessSame
  <2>15. Count(s')
    <3>1. At(s', Listens) = At(s, Listens) \cup {n} /\ n \notin At(s, Listens)
      BY <2>6, <2>9, <2>11 DEF At
    <3>2. At(s', {"register"}) = At(s, {"register"}) /\ Waiters(s') = Waiters(s)
      BY <2>3, <2>6, <2>11 DEF At, Waiters, SameCount
    <3>3. /\ IsFiniteSet(At(s, Listens)) /\ Cardinality(At(s, Listens)) \in Nat
          /\ IsFiniteSet(s.todo) /\ Cardinality(s.todo) \in Nat
      BY <1>2, Finite DEF At, CtlTypes
    <3>4. Cardinality(At(s', Listens)) = Cardinality(At(s, Listens)) + 1
      BY <3>1, <3>3, FS_AddElement
    <3>5. Cardinality(s'.todo) = Cardinality(s.todo) - 1 /\ Cardinality(s'.todo) \in Nat
      <4>1. Cardinality(s'.todo) = Cardinality(s.todo) - 1
        BY ZenonT(60), <2>2, <2>3, <3>3, FS_RemoveElement
      <4>2. s'.todo \subseteq Fds
        BY <1>2, <2>3 DEF CtlTypes
      <4> QED BY <4>1, <4>2, Finite
    <3>6. s.scope.ports \in Nat
      BY <1>2, ThreadedAcceptorAssumption DEF CtlTypes
    <3>7. Cardinality(At(s, Listens)) + Cardinality(s.todo) <= s.scope.ports
      BY <1>1, <1>4 DEF Count
    <3>8. /\ Cardinality(At(s', Listens)) <= s'.scope.ports
          /\ Cardinality(At(s', Listens)) + Cardinality(s'.todo) <= s'.scope.ports
      BY <2>3, <3>3, <3>4, <3>5, <3>6, <3>7
    <3>9. s'.pend = s.pend /\ s'.pending = s.pending
      BY <2>3 DEF SameCount
    <3>10. \A k \in Socks : s'.pend[k] => s'.pc[k] \in Serves
      BY <1>1, <2>6, <2>9, <2>11, <3>9 DEF Count
    <3> QED BY <1>1, <2>3, <3>2, <3>8, <3>9, <3>10 DEF Count
  <2> QED BY <2>3, <2>12, <2>13, <2>14, <2>15 DEF IInv, Good
<1> QED BY <1>3, <1>4 DEF StartSpawn

-----------------------------------------------------------------------------
(* Stopping *)

\* A call of stop() that is under way is the only one, and stop() is running.
LEMMA OnlyOne ==
  ASSUME NEW t, Ctl(t), NEW c \in Callers, Stops(t, c)
  PROVE  /\ t.m_stopping = TRUE /\ t.caller \in [Callers -> {"idle", "waiting", "returned"} \cup Early \cup Late]
         /\ \A d \in Callers : d # c => ~Stops(t, d)
         /\ t.caller[c] \in Late => t.m_stop = TRUE
         /\ t.caller[c] \notin {"shutdown", "join"} => t.rest = {} /\ \A f \in Fds : t.snap[f] = 0
<1>1. CtlTypes(t) /\ Single(t) /\ Taking(t)
  BY DEF Ctl
<1>2. t.m_stopping = TRUE /\ \A d \in Callers : d # c => ~Stops(t, d)
  BY <1>1 DEF Single, CtlTypes
<1>3. t.caller[c] \in Late => t.m_stop = TRUE
  BY <1>1 DEF Single, CtlTypes
<1>4. t.caller[c] \notin {"shutdown", "join"} => \A d \in Callers : t.caller[d] \notin {"shutdown", "join"}
  BY <1>2 DEF Stops, Late
<1> QED BY <1>1, <1>2, <1>3, <1>4 DEF Taking, CtlTypes

\* Only stop() goes on; the parts that it does not touch are kept.
LEMMA StopKeeps ==
  ASSUME NEW t, NEW u, Good(t), SameOwn(t, u), SameCount(t, u), u.pc = t.pc, u.scope = t.scope,
         u.todo = t.todo, t.m_stop => u.m_stop,
         u.m_stop = TRUE \/ (u.m_stop = t.m_stop /\ u.starter = t.starter)
  PROVE  Own(u) /\ Count(u)
<1>1. Own(t) /\ Count(t) /\ t.pc \in [Socks -> Pcs] /\ CtlTypes(t)
  BY DEF Good, Own, OwnTypes, Ctl
<1>2. SameKind(t, u)
  BY <1>1 DEF SameKind
<1>3. Own(u)
  BY <1>1, <1>2, OwnSame
<1>4. Count(u)
  <2>1. \A k \in Socks : t.pend[k] => u.pc[k] \in Serves
    BY <1>1 DEF Count
  <2>2. At(u, Listens) = At(t, Listens) /\ At(u, {"register"}) = At(t, {"register"})
    BY DEF At
  <2>3. t.scope \in Scopes /\ t.todo \subseteq Fds /\ u.sockets = t.sockets
    BY <1>1 DEF CtlTypes, SameOwn
  <2> QED BY <1>1, <2>1, <2>2, <2>3, CountSame
<1> QED BY <1>3, <1>4

\* The sessions and the places are the same.
LEMMA SessKept ==
  ASSUME NEW t, NEW u, Sess(t), SameSess(t, u), u.pc = t.pc
  PROVE  Sess(u)
<1>1. \A j \in Socks : t.sess[j] # NoSession => u.pc[j] \in Serves \ {"bind"}
  BY DEF Sess
<1> QED BY <1>1, SessSame

\* What start() and stop() know of each other, when a call of stop() goes to q.
LEMMA SingleGoes ==
  ASSUME NEW t, NEW u, Single(t), NEW c \in Callers, NEW q,
         t.caller \in [Callers -> {"idle", "waiting", "returned"} \cup Early \cup Late],
         u.caller = [t.caller EXCEPT ![c] = q],
         q \in Late /\ u.m_stop = TRUE /\ Stops(t, c) /\ u.m_stopping = t.m_stopping
  PROVE  Single(u)
<1>1. u.caller[c] = q /\ \A d \in Callers : d # c => u.caller[d] = t.caller[d]
  OBVIOUS
<1>2. q # "flag"
  BY DEF Late
<1>3. \A d \in Callers : Stops(u, d) <=> Stops(t, d)
  BY <1>1 DEF Stops
<1>4. \A d \in Callers : d # c => u.caller[d] # "flag"
  BY <1>1, <1>3 DEF Single, Stops, Early
<1> QED BY <1>1, <1>2, <1>3, <1>4 DEF Single

\* Waiting or not, stop() claims the right to stop.
LEMMA StopClaimStep == ASSUME IInv, NEW c \in Callers, StopClaim(c) PROVE IInv'
<1>1. /\ Good(s) /\ DOMAIN s = Fields /\ Ctl(s) /\ Sess(s) /\ s.caller[c] = "idle"
      /\ CtlTypes(s) /\ Single(s) /\ Taking(s) /\ Spawning(s)
  BY DEF IInv, Good, Ctl, StopClaim
<1>2. "waiting" \notin Early \cup Late /\ "returned" \notin Early \cup Late /\ "idle" \notin Early \cup Late
      /\ "flag" \in Early /\ "flag" \notin Late
  BY DEF Early, Late
<1>3. CASE \E q \in {"waiting", "returned"} : s' = [s EXCEPT !.caller[c] = q]
  <2>1. PICK q \in {"waiting", "returned"} : s' = [s EXCEPT !.caller[c] = q]
    BY <1>3
  <2>2. /\ DOMAIN s' = Fields /\ SameOwn(s, s') /\ SameSess(s, s') /\ SameCount(s, s') /\ s'.pc = s.pc
        /\ s'.scope = s.scope /\ s'.m_stop = s.m_stop /\ s'.m_stopping = s.m_stopping
        /\ s'.starter = s.starter /\ s'.todo = s.todo /\ s'.caller = [s.caller EXCEPT ![c] = q]
    BY <1>1, <2>1 DEF Fields, SameOwn, SameSess, SameCount
  <2>3. Own(s') /\ Count(s')
    BY <1>1, <2>2, StopKeeps
  <2>4. Sess(s')
    BY <1>1, <2>2, SessKept
  <2>5. s'.caller[c] = q /\ \A d \in Callers : d # c => s'.caller[d] = s.caller[d]
    BY <1>1, <2>2 DEF CtlTypes
  <2>6. \A d \in Callers : s'.caller[d] = s.caller[d] \/ (s'.caller[d] = q /\ s.caller[d] = "idle")
    BY <1>1, <2>5
  <2>7. \A d \in Callers : Stops(s', d) <=> Stops(s, d)
    BY <1>2, <2>6 DEF Stops
  <2>8. CtlTypes(s')
    BY <1>1, <2>2 DEF CtlTypes
  <2>9. Single(s')
    BY <1>1, <1>2, <2>2, <2>6, <2>7 DEF Single
  <2>10. Taking(s')
    <3>1. \A d \in Callers : \A p \in {"shutdown", "join", "starter"} : s'.caller[d] = p <=> s.caller[d] = p
      BY <2>6
    <3>2. s'.sockets = s.sockets /\ s'.rest = s.rest /\ s'.threads = s.threads /\ s'.snap = s.snap
      BY <2>2 DEF SameOwn
    <3> QED BY <1>1, <2>2, <3>1, <3>2 DEF Taking, NoThreads
  <2>11. Spawning(s')
    BY <1>1, <2>2 DEF Spawning, SameOwn
  <2> QED BY <2>2, <2>3, <2>4, <2>8, <2>9, <2>10, <2>11 DEF IInv, Good, Ctl
<1>4. CASE /\ ~s.m_stopping /\ ~s.m_stop
           /\ s' = [s EXCEPT !.caller[c] = "flag", !.m_stopping = TRUE, !.enabled = FALSE, !.registered = {}]
  <2>1. /\ DOMAIN s' = Fields /\ SameOwn(s, s') /\ SameCount(s, s') /\ s'.pc = s.pc
        /\ s'.scope = s.scope /\ s'.m_stop = s.m_stop /\ s'.m_stopping = TRUE
        /\ s'.starter = s.starter /\ s'.todo = s.todo /\ s'.caller = [s.caller EXCEPT ![c] = "flag"]
        /\ s'.sess = s.sess /\ s'.responder = s.responder /\ s'.registered = {} /\ s'.enabled = FALSE
    BY <1>1, <1>4 DEF Fields, SameOwn, SameCount
  <2>2. Own(s') /\ Count(s')
    BY <1>1, <2>1, StopKeeps
  <2>3. Sess(s')
    BY ZenonT(60), <1>1, <2>1 DEF Sess, SessTypes
  <2>4. s'.caller[c] = "flag" /\ \A d \in Callers : d # c => s'.caller[d] = s.caller[d]
    BY <1>1, <2>1 DEF CtlTypes
  <2>5. \A d \in Callers : ~Stops(s, d)
    BY <1>1, <1>4 DEF Single
  <2>6. \A d \in Callers : Stops(s', d) <=> d = c
    BY <1>2, <2>4, <2>5 DEF Stops
  <2>7. CtlTypes(s')
    BY <1>1, <1>2, <2>1 DEF CtlTypes
  <2>8. Single(s')
    BY <1>1, <1>2, <1>4, <2>1, <2>4, <2>6 DEF Single
  <2>9. \A d \in Callers : s.caller[d] \notin {"shutdown", "join", "starter"}
                           /\ s'.caller[d] \notin {"shutdown", "join", "starter"}
    BY <1>1, <2>4, <2>5 DEF Stops, Late
  <2>10. Taking(s')
    <3>1. s'.rest = s.rest /\ s'.snap = s.snap
      BY <2>1 DEF SameOwn
    <3> QED BY <1>1, <2>1, <2>9, <3>1 DEF Taking
  <2>11. Spawning(s')
    BY <1>1, <2>1 DEF Spawning, SameOwn
  <2> QED BY <2>1, <2>2, <2>3, <2>7, <2>8, <2>10, <2>11 DEF IInv, Good, Ctl
<1> QED BY <1>3, <1>4 DEF StopClaim

\* The call that waited for another returns.
LEMMA StopWaitedStep == ASSUME IInv, NEW c \in Callers, StopWaited(c) PROVE IInv'
<1>1. /\ Good(s) /\ DOMAIN s = Fields /\ Sess(s) /\ s.caller[c] = "waiting"
      /\ CtlTypes(s) /\ Single(s) /\ Taking(s) /\ Spawning(s) /\ s' = [s EXCEPT !.caller[c] = "returned"]
  BY DEF IInv, Good, Ctl, StopWaited
<1>2. "waiting" \notin Early \cup Late /\ "returned" \notin Early \cup Late
  BY DEF Early, Late
<1>3. /\ DOMAIN s' = Fields /\ SameOwn(s, s') /\ SameSess(s, s') /\ SameCount(s, s') /\ s'.pc = s.pc
      /\ s'.scope = s.scope /\ s'.m_stop = s.m_stop /\ s'.m_stopping = s.m_stopping
      /\ s'.starter = s.starter /\ s'.todo = s.todo /\ s'.caller = [s.caller EXCEPT ![c] = "returned"]
  BY <1>1 DEF Fields, SameOwn, SameSess, SameCount
<1>4. Own(s') /\ Count(s')
  BY <1>1, <1>3, StopKeeps
<1>5. Sess(s')
  BY <1>1, <1>3, SessKept
<1>6. \A d \in Callers : s'.caller[d] = s.caller[d] \/ (s'.caller[d] = "returned" /\ s.caller[d] = "waiting")
  BY <1>1, <1>3 DEF CtlTypes
<1>7. \A d \in Callers : Stops(s', d) <=> Stops(s, d)
  BY <1>2, <1>6 DEF Stops
<1>8. CtlTypes(s')
  BY <1>1, <1>3 DEF CtlTypes
<1>9. Single(s')
  BY <1>1, <1>2, <1>3, <1>6, <1>7 DEF Single
<1>10. Taking(s')
  <2>1. \A d \in Callers : \A p \in {"shutdown", "join", "starter"} : s'.caller[d] = p <=> s.caller[d] = p
    BY <1>6
  <2>2. s'.sockets = s.sockets /\ s'.rest = s.rest /\ s'.threads = s.threads /\ s'.snap = s.snap
    BY <1>3 DEF SameOwn
  <2> QED BY <1>1, <1>3, <2>1, <2>2 DEF Taking, NoThreads
<1>11. Spawning(s')
  BY <1>1, <1>3 DEF Spawning, SameOwn
<1> QED BY <1>3, <1>4, <1>5, <1>8, <1>9, <1>10, <1>11 DEF IInv, Good, Ctl

\* The flag is set, or the lock is taken.
LEMMA StopLockStep == ASSUME IInv, NEW c \in Callers, StopFlag(c) \/ StopLock(c) PROVE IInv'
<1>1. /\ Good(s) /\ DOMAIN s = Fields /\ Ctl(s) /\ Sess(s) /\ CtlTypes(s) /\ Single(s) /\ Taking(s)
      /\ s.caller[c] \in {"flag", "lock"}
  BY DEF IInv, Good, Ctl, StopFlag, StopLock
<1>2. Stops(s, c) /\ (s.caller[c] = "lock" => s.caller[c] \in Late)
  BY <1>1 DEF Stops, Early, Late
<1>3. /\ s.m_stopping = TRUE /\ s.caller \in [Callers -> {"idle", "waiting", "returned"} \cup Early \cup Late]
      /\ (\A d \in Callers : d # c => ~Stops(s, d)) /\ (s.caller[c] \in Late => s.m_stop = TRUE)
      /\ s.rest = {} /\ \A f \in Fds : s.snap[f] = 0
  BY <1>1, <1>2, OnlyOne
<1>4. PICK q \in {"lock", "take"} :
        /\ DOMAIN s' = Fields /\ SameOwn(s, s') /\ SameSess(s, s') /\ SameCount(s, s') /\ s'.pc = s.pc
        /\ s'.scope = s.scope /\ s'.m_stop = TRUE /\ s'.m_stopping = s.m_stopping
        /\ s'.starter = s.starter /\ s'.todo = s.todo /\ s'.caller = [s.caller EXCEPT ![c] = q]
  <2>1. CASE StopFlag(c)
    <3>1. s' = [s EXCEPT !.caller[c] = "lock", !.m_stop = TRUE]
      BY <2>1 DEF StopFlag
    <3> QED BY <1>1, <3>1 DEF Fields, SameOwn, SameSess, SameCount
  <2>2. CASE StopLock(c)
    <3>1. s' = [s EXCEPT !.caller[c] = "take", !.held = TRUE] /\ s.m_stop = TRUE
      BY <1>2, <1>3, <2>2 DEF StopLock
    <3> QED BY <1>1, <3>1 DEF Fields, SameOwn, SameSess, SameCount
  <2> QED BY <2>1, <2>2
<1>5. Own(s') /\ Count(s')
  BY <1>1, <1>4, StopKeeps
<1>6. Sess(s')
  BY <1>1, <1>4, SessKept
<1>7. q \in Late
  BY DEF Late
<1>8. Single(s')
  BY <1>1, <1>2, <1>3, <1>4, <1>7, SingleGoes
<1>9. CtlTypes(s')
  BY <1>1, <1>3, <1>4, <1>7 DEF CtlTypes
<1>10. Taking(s')
  <2>1. s'.caller[c] = q /\ \A d \in Callers : d # c => s'.caller[d] = s.caller[d]
    BY <1>3, <1>4
  <2>2. \A d \in Callers : s'.caller[d] \notin {"shutdown", "join", "starter"}
    BY <1>3, <2>1 DEF Stops, Late
  <2>3. s'.rest = {} /\ \A f \in Fds : s'.snap[f] = 0
    BY <1>3, <1>4 DEF SameOwn
  <2> QED BY <1>3, <1>4, <2>2, <2>3 DEF Taking
<1>11. Spawning(s')
  BY <1>4 DEF Spawning
<1> QED BY <1>4, <1>5, <1>6, <1>8, <1>9, <1>10, <1>11 DEF IInv, Good, Ctl

\* onStop takes the threads and the listeners that have none.
LEMMA StopTakeStep == ASSUME IInv, NEW c \in Callers, StopTake(c) PROVE IInv'
<1>1. /\ Good(s) /\ DOMAIN s = Fields /\ Own(s) /\ Ctl(s) /\ Sess(s) /\ Count(s) /\ CtlTypes(s) /\ Single(s)
      /\ s.caller[c] = "take"
  BY DEF IInv, Good, Ctl, StopTake
<1>2. Stops(s, c) /\ s.caller[c] \in Late /\ "shutdown" \in Late
  BY <1>1 DEF Stops, Early, Late
<1>3. /\ s.m_stopping = TRUE /\ s.caller \in [Callers -> {"idle", "waiting", "returned"} \cup Early \cup Late]
      /\ (\A d \in Callers : d # c => ~Stops(s, d)) /\ s.m_stop = TRUE
      /\ s.rest = {} /\ \A f \in Fds : s.snap[f] = 0
  BY <1>1, <1>2, OnlyOne
<1>4. /\ DOMAIN s' = Fields /\ SameSess(s, s') /\ SameCount(s, s') /\ s'.pc = s.pc
      /\ s'.scope = s.scope /\ s'.m_stop = s.m_stop /\ s'.m_stopping = s.m_stopping
      /\ s'.starter = s.starter /\ s'.todo = s.todo /\ s'.caller = [s.caller EXCEPT ![c] = "shutdown"]
      /\ s'.made = s.made /\ s'.open = s.open /\ s'.fd = s.fd /\ s'.hand = s.hand
      /\ s'.snap = s.threads /\ s'.threads = [f \in Fds |-> 0] /\ s'.sockets = {}
      /\ s'.rest = {f \in s.sockets : s.threads[f] = 0}
  <2>1. s' = [s EXCEPT !.caller[c] = "shutdown", !.held = FALSE, !.snap = s.threads,
                       !.threads = [f \in Fds |-> 0], !.sockets = {},
                       !.rest = {f \in s.sockets : s.threads[f] = 0}]
    BY DEF StopTake
  <2> QED BY <1>1, <2>1 DEF Fields, SameSess, SameCount
<1>5. OwnTypes(s) /\ Numbered(s) /\ Tables(s) /\ Rooted(s) /\ Hands(s) /\ Listeners(s) /\ Owned(s)
  BY <1>1 DEF Own
<1>6. \A f \in Fds : s'.threads[f] = 0
  BY <1>4
<1>7. Own(s')
  <2>1. OwnTypes(s')
    <3>1. s'.threads \in [Fds -> 0..MaxMade] /\ s'.snap \in [Fds -> 0..MaxMade]
      BY <1>4, <1>5, ThreadedAcceptorAssumption DEF OwnTypes
    <3>2. s'.sockets \in SUBSET Fds /\ s'.rest \in SUBSET Fds
      BY <1>4, <1>5 DEF OwnTypes
    <3> QED BY <1>4, <1>5, <3>1, <3>2 DEF OwnTypes
  <2>2. Numbered(s')
    BY <1>4, <1>5 DEF Numbered
  <2>3. Tables(s')
    BY <1>4, <1>5, <1>6 DEF Tables
  <2>4. Rooted(s')
    <3> SUFFICES ASSUME NEW n \in Socks, Lives(s', n)
                 PROVE  s'.fd[n] \in Fds /\ s'.snap[s'.fd[n]] = n
      BY DEF Rooted
    <3>1. Lives(s, n) /\ n # 0
      BY <1>4, <1>5, Numbers DEF Lives
    <3>2. s.fd[n] \in Fds /\ (s.threads[s.fd[n]] = n \/ s.snap[s.fd[n]] = n)
      BY <1>5, <3>1 DEF Rooted
    <3> QED BY <1>3, <1>4, <3>1, <3>2
  <2>5. Hands(s')
    <3>1. \A m \in Socks : s'.hand[m] # 0 => Fresh(s', s'.hand[m])
      BY <1>4, <1>5, <1>6 DEF Hands, Fresh
    <3> QED BY <1>4, <1>5, <3>1 DEF Hands
  <2>6. Listeners(s')
    <3>1. \A f \in s'.rest : f \in s.sockets /\ f \in Fds /\ s.threads[f] = 0
      BY <1>4, <1>5 DEF OwnTypes
    <3> QED BY <1>4, <1>5, <1>6, <3>1 DEF Listeners
  <2>7. Owned(s')
    <3> SUFFICES ASSUME NEW g \in Fds, s'.open[g] # 0
                 PROVE  \/ s'.snap[g] # 0 \/ g \in s'.rest
                        \/ \E m \in Socks : s'.hand[m] # 0 /\ s'.fd[s'.hand[m]] = g
      BY DEF Owned
    <3>1. \/ s.threads[g] # 0 \/ g \in s.sockets
          \/ \E m \in Socks : s.hand[m] # 0 /\ s.fd[s.hand[m]] = g
      BY <1>3, <1>4, <1>5 DEF Owned
    <3> QED BY <1>4, <3>1
  <2> QED BY <2>1, <2>2, <2>3, <2>4, <2>5, <2>6, <2>7 DEF Own
<1>8. Ctl(s')
  <2>1. Single(s')
    BY <1>1, <1>2, <1>3, <1>4, SingleGoes
  <2>2. CtlTypes(s')
    BY <1>1, <1>2, <1>3, <1>4 DEF CtlTypes
  <2>3. Taking(s')
    <3>1. s'.caller[c] = "shutdown"
      BY <1>3, <1>4
    <3> QED BY <1>3, <1>4, <1>6, <3>1 DEF Taking, NoThreads
  <2>4. Spawning(s')
    BY <1>3, <1>4 DEF Spawning
  <2> QED BY <2>1, <2>2, <2>3, <2>4 DEF Ctl
<1>9. Sess(s')
  BY <1>1, <1>4, SessKept
<1>10. Count(s')
  <2>1. \A k \in Socks : s.pend[k] => s'.pc[k] \in Serves
    BY <1>1, <1>4 DEF Count
  <2>2. At(s', Listens) = At(s, Listens) /\ At(s', {"register"}) = At(s, {"register"})
    BY <1>4 DEF At
  <2>3. s.scope \in Scopes /\ s.todo \subseteq Fds
    BY <1>1 DEF CtlTypes
  <2> QED BY <1>1, <1>3, <1>4, <2>1, <2>2, <2>3, CountSame
<1> QED BY <1>4, <1>7, <1>8, <1>9, <1>10 DEF IInv, Good

\* It shuts the sockets of the threads down.
LEMMA StopShutdownStep == ASSUME IInv, NEW c \in Callers, StopShutdown(c) PROVE IInv'
<1>1. /\ Good(s) /\ DOMAIN s = Fields /\ Ctl(s) /\ Sess(s) /\ CtlTypes(s) /\ Single(s) /\ Taking(s)
      /\ s.caller[c] = "shutdown"
  BY DEF IInv, Good, Ctl, StopShutdown
<1>2. Stops(s, c) /\ s.caller[c] \in Late /\ "join" \in Late
  BY <1>1 DEF Stops, Early, Late
<1>3. /\ s.m_stopping = TRUE /\ s.caller \in [Callers -> {"idle", "waiting", "returned"} \cup Early \cup Late]
      /\ s.m_stop = TRUE
  BY <1>1, <1>2, OnlyOne
<1>4. /\ DOMAIN s' = Fields /\ SameOwn(s, s') /\ SameSess(s, s') /\ SameCount(s, s') /\ s'.pc = s.pc
      /\ s'.scope = s.scope /\ s'.m_stop = TRUE /\ s'.m_stopping = s.m_stopping
      /\ s'.starter = s.starter /\ s'.todo = s.todo /\ s'.caller = [s.caller EXCEPT ![c] = "join"]
  <2>1. PICK l : s' = [s EXCEPT !.link = l, !.caller[c] = "join"]
    BY DEF StopShutdown, Shut
  <2> QED BY <1>1, <1>3, <2>1 DEF Fields, SameOwn, SameSess, SameCount
<1>5. Own(s') /\ Count(s')
  BY <1>1, <1>4, StopKeeps
<1>6. Sess(s')
  BY <1>1, <1>4, SessKept
<1>7. Single(s')
  BY <1>1, <1>2, <1>3, <1>4, SingleGoes
<1>8. CtlTypes(s')
  BY <1>1, <1>2, <1>3, <1>4 DEF CtlTypes
<1>9. Taking(s')
  <2>1. s'.caller[c] = "join"
    BY <1>3, <1>4
  <2>2. NoThreads(s) /\ s'.sockets = s.sockets /\ s'.threads = s.threads
    BY <1>1, <1>4 DEF Taking, SameOwn
  <2> QED BY <1>3, <1>4, <2>1, <2>2 DEF Taking, NoThreads
<1>10. Spawning(s')
  BY <1>4 DEF Spawning
<1> QED BY <1>4, <1>5, <1>6, <1>7, <1>8, <1>9, <1>10 DEF IInv, Good, Ctl

\* It closes the socket of a thread that has ended.
LEMMA StopJoinStep == ASSUME IInv, NEW c \in Callers, StopJoin(c) PROVE IInv'
<1> DEFINE f == Min(Taken(s.snap))
<1>1. /\ Good(s) /\ DOMAIN s = Fields /\ Own(s) /\ Ctl(s) /\ Sess(s) /\ Count(s) /\ CtlTypes(s) /\ Single(s)
      /\ Taking(s) /\ Spawning(s) /\ s.caller[c] = "join" /\ Taken(s.snap) # {} /\ s.pc[s.snap[f]] = "done"
      /\ s' = [Close(s, f) EXCEPT !.snap[f] = 0]
  BY DEF IInv, Good, Ctl, StopJoin
<1>2. f \in Fds /\ s.snap[f] # 0
  <2>1. Taken(s.snap) \in SUBSET Nat
    BY ThreadedAcceptorAssumption DEF Taken, Fds
  <2>2. f \in Taken(s.snap)
    BY <1>1, <2>1, MinExists
  <2> HIDE DEF f
  <2> QED BY <2>2 DEF Taken
<1>3. /\ DOMAIN s' = Fields /\ SameCtl(s, s') /\ SameSess(s, s') /\ SameCount(s, s') /\ s'.pc = s.pc
      /\ s'.open = [s.open EXCEPT ![f] = 0] /\ s'.snap = [s.snap EXCEPT ![f] = 0]
      /\ s'.threads = s.threads /\ s'.made = s.made /\ s'.fd = s.fd
      /\ s'.sockets = s.sockets /\ s'.rest = s.rest /\ s'.hand = s.hand
  BY <1>1 DEF Close, Fields, SameCtl, SameSess, SameCount
<1> HIDE DEF f
<1>4. OwnTypes(s) /\ Tables(s) /\ Listeners(s)
  BY <1>1 DEF Own
<1>5. s.open[f] = s.snap[f] /\ s.threads[f] = 0 /\ f \notin s.sockets \cup s.rest /\ s.open[f] \in Socks
  BY <1>2, <1>4, Numbers DEF Tables, Listeners
<1>6. Own(s')
  <2>1. s'.threads = [s.threads EXCEPT ![f] = 0]
    BY <1>2, <1>3, <1>4, <1>5 DEF OwnTypes
  <2>2. s'.pc = [s.pc EXCEPT ![s.open[f]] = "done"]
    BY <1>1, <1>3, <1>4, <1>5 DEF OwnTypes
  <2>3. s'.m_stop = s.m_stop /\ s.pc[s.open[f]] \in {"remove", "done"}
    BY <1>1, <1>3, <1>5 DEF SameCtl
  <2> QED BY <1>1, <1>2, <1>3, <1>5, <2>1, <2>2, <2>3, OwnClosed
<1>7. Ctl(s')
  <2>1. CtlTypes(s') /\ Single(s') /\ Spawning(s')
    BY <1>1, <1>3 DEF CtlTypes, Single, Stops, SameCtl, Spawning
  <2>2. \A g \in Fds : s'.snap[g] # 0 => s.snap[g] # 0
    BY <1>2, <1>3, <1>4 DEF OwnTypes
  <2>3. Taking(s')
    BY <1>1, <1>3, <2>2 DEF Taking, NoThreads, SameCtl
  <2> QED BY <2>1, <2>3 DEF Ctl
<1>8. Sess(s')
  BY <1>1, <1>3, SessKept
<1>9. Count(s')
  <2>1. \A k \in Socks : s.pend[k] => s'.pc[k] \in Serves
    BY <1>1, <1>3 DEF Count
  <2>2. At(s', Listens) = At(s, Listens) /\ At(s', {"register"}) = At(s, {"register"})
    BY <1>3 DEF At
  <2>3. s.scope \in Scopes /\ s.todo \subseteq Fds
    BY <1>1 DEF CtlTypes
  <2> QED BY <1>1, <1>3, <2>1, <2>2, <2>3, CountSame DEF SameCtl
<1> QED BY <1>3, <1>6, <1>7, <1>8, <1>9 DEF IInv, Good

\* It closes the listeners that had no thread.
LEMMA StopListenersStep == ASSUME IInv, NEW c \in Callers, StopListeners(c) PROVE IInv'
<1>1. /\ Good(s) /\ DOMAIN s = Fields /\ Own(s) /\ Ctl(s) /\ Sess(s) /\ Count(s) /\ CtlTypes(s) /\ Single(s)
      /\ Taking(s) /\ s.caller[c] = "join" /\ Taken(s.snap) = {}
  BY DEF IInv, Good, Ctl, StopListeners
<1>2. Stops(s, c) /\ s.caller[c] \in Late /\ "starter" \in Late
  BY <1>1 DEF Stops, Early, Late
<1>3. /\ s.m_stopping = TRUE /\ s.caller \in [Callers -> {"idle", "waiting", "returned"} \cup Early \cup Late]
      /\ s.m_stop = TRUE
  BY <1>1, <1>2, OnlyOne
<1>4. /\ DOMAIN s' = Fields /\ SameSess(s, s') /\ SameCount(s, s') /\ s'.pc = s.pc
      /\ s'.scope = s.scope /\ s'.m_stop = s.m_stop /\ s'.m_stopping = s.m_stopping
      /\ s'.starter = s.starter /\ s'.todo = s.todo /\ s'.caller = [s.caller EXCEPT ![c] = "starter"]
      /\ s'.made = s.made /\ s'.fd = s.fd /\ s'.hand = s.hand /\ s'.snap = s.snap
      /\ s'.threads = s.threads /\ s'.sockets = s.sockets /\ s'.rest = {}
      /\ s'.open = [f \in Fds |-> IF f \in s.rest THEN 0 ELSE s.open[f]]
  <2>1. s' = [s EXCEPT !.caller[c] = "starter", !.rest = {},
                       !.open = [f \in Fds |-> IF f \in s.rest THEN 0 ELSE s.open[f]]]
    BY <1>1 DEF StopListeners, Fields
  <2> QED BY <1>1, <2>1 DEF Fields, SameSess, SameCount
<1>5. OwnTypes(s) /\ Numbered(s) /\ Tables(s) /\ Rooted(s) /\ Hands(s) /\ Listeners(s) /\ Owned(s)
  BY <1>1 DEF Own
<1>6. \A f \in Fds : IF f \in s.rest THEN s'.open[f] = 0 ELSE s'.open[f] = s.open[f]
  BY <1>4
<1>7. NoThreads(s) /\ \A f \in Fds : s.snap[f] = 0
  BY <1>1 DEF Taking, Taken
<1>8. Own(s')
  <2>1. OwnTypes(s')
    <3>1. s'.open \in [Fds -> 0..MaxMade]
      <4>1. 0 \in 0..MaxMade
        BY ThreadedAcceptorAssumption
      <4> QED BY <1>4, <1>5, <4>1 DEF OwnTypes
    <3> QED BY <1>4, <1>5, <3>1 DEF OwnTypes
  <2>2. Numbered(s')
    BY <1>4, <1>5, <1>6 DEF Numbered
  <2>3. Tables(s')
    BY <1>4, <1>7 DEF Tables, NoThreads
  <2>4. Rooted(s')
    BY <1>4, <1>5 DEF Rooted, Lives
  <2>5. Hands(s')
    <3>1. \A m \in Socks : s'.hand[m] # 0 => Fresh(s', s'.hand[m])
      BY <1>4, <1>5, <1>6 DEF Hands, Fresh
    <3> QED BY <1>4, <1>5, <3>1 DEF Hands
  <2>6. Listeners(s')
    BY <1>4, <1>7 DEF Listeners, NoThreads
  <2>7. Owned(s')
    BY <1>4, <1>5, <1>6 DEF Owned
  <2> QED BY <2>1, <2>2, <2>3, <2>4, <2>5, <2>6, <2>7 DEF Own
<1>9. Ctl(s')
  <2>1. Single(s')
    BY <1>1, <1>2, <1>3, <1>4, SingleGoes
  <2>2. CtlTypes(s')
    BY <1>1, <1>2, <1>3, <1>4 DEF CtlTypes
  <2>3. Taking(s')
    BY <1>3, <1>4, <1>7 DEF Taking, NoThreads
  <2>4. Spawning(s')
    BY <1>3, <1>4 DEF Spawning
  <2> QED BY <2>1, <2>2, <2>3, <2>4 DEF Ctl
<1>10. Sess(s')
  BY <1>1, <1>4, SessKept
<1>11. Count(s')
  <2>1. \A k \in Socks : s.pend[k] => s'.pc[k] \in Serves
    BY <1>1, <1>4 DEF Count
  <2>2. At(s', Listens) = At(s, Listens) /\ At(s', {"register"}) = At(s, {"register"})
    BY <1>4 DEF At
  <2>3. s.scope \in Scopes /\ s.todo \subseteq Fds
    BY <1>1 DEF CtlTypes
  <2> QED BY <1>1, <1>3, <1>4, <2>1, <2>2, <2>3, CountSame
<1> QED BY <1>4, <1>8, <1>9, <1>10, <1>11 DEF IInv, Good

\* stop() returns, and the sessions may log on again.
LEMMA StopReleaseStep == ASSUME IInv, NEW c \in Callers, StopRelease(c) PROVE IInv'
<1>1. /\ Good(s) /\ DOMAIN s = Fields /\ Ctl(s) /\ Sess(s) /\ CtlTypes(s) /\ Single(s) /\ Taking(s)
      /\ s.caller[c] = "starter"
  BY DEF IInv, Good, Ctl, StopRelease
<1>2. Stops(s, c) /\ s.caller[c] \in Late
  BY <1>1 DEF Stops, Early, Late
<1>3. /\ s.m_stopping = TRUE /\ s.caller \in [Callers -> {"idle", "waiting", "returned"} \cup Early \cup Late]
      /\ (\A d \in Callers : d # c => ~Stops(s, d)) /\ s.m_stop = TRUE
      /\ s.rest = {} /\ \A f \in Fds : s.snap[f] = 0
  BY <1>1, <1>2, OnlyOne
<1>4. /\ DOMAIN s' = Fields /\ SameOwn(s, s') /\ SameCount(s, s') /\ s'.pc = s.pc
      /\ s'.scope = s.scope /\ s'.m_stop = TRUE /\ s'.m_stopping = FALSE
      /\ s'.starter = "none" /\ s'.todo = s.todo /\ s'.caller = [s.caller EXCEPT ![c] = "returned"]
      /\ s'.sess = s.sess /\ s'.responder = s.responder /\ s'.registered = s.registered /\ s'.enabled = TRUE
  <2>1. s' = [s EXCEPT !.caller[c] = "returned", !.starter = "none", !.enabled = TRUE, !.m_stopping = FALSE]
    BY DEF StopRelease
  <2> QED BY <1>1, <1>3, <2>1 DEF Fields, SameOwn, SameCount
<1>5. Own(s') /\ Count(s')
  BY <1>1, <1>4, StopKeeps
<1>6. NoThreads(s)
  BY <1>1 DEF Taking
<1>7. Sess(s')
  <2>1. \A n \in Socks : s.sess[n] = NoSession
    BY <1>1, <1>3, <1>6, Quiet
  <2>2. SessTypes(s')
    BY <1>1, <1>4 DEF Sess, SessTypes
  <2>3. \A x \in Sessions : s'.responder[x] # 0 =>
          s'.pc[s'.responder[x]] \in Serves /\ s'.sess[s'.responder[x]] = x
    BY <1>1, <1>4 DEF Sess
  <2>4. \A x \in s'.registered : \E k \in Socks : s'.sess[k] = x
    BY <1>1, <1>4 DEF Sess
  <2>5. \A k \in Socks : s'.sess[k] = NoSession
    BY <1>4, <2>1
  <2> QED BY <2>2, <2>3, <2>4, <2>5 DEF Sess
<1>8. s'.caller[c] = "returned" /\ \A d \in Callers : d # c => s'.caller[d] = s.caller[d]
  BY <1>3, <1>4
<1>9. \A d \in Callers : ~Stops(s', d)
  BY <1>3, <1>8 DEF Stops, Early, Late
<1>10. Single(s')
  BY <1>4, <1>9 DEF Single, Stops, Early
<1>11. CtlTypes(s')
  BY <1>1, <1>3, <1>4 DEF CtlTypes
<1>12. Taking(s')
  <2>1. NoThreads(s') /\ s'.rest = {} /\ \A f \in Fds : s'.snap[f] = 0
    BY <1>3, <1>4, <1>6 DEF NoThreads, SameOwn
  <2> QED BY <1>4, <2>1 DEF Taking
<1>13. Spawning(s')
  BY <1>4 DEF Spawning
<1> QED BY <1>4, <1>5, <1>7, <1>10, <1>11, <1>12, <1>13 DEF IInv, Good, Ctl

-----------------------------------------------------------------------------
(* The invariant *)

\* Nothing is open and nothing runs at first.
LEMMA InvariantInit == ASSUME Init PROVE IInv
<1>1. PICK sc \in Scopes :
        s = [scope |-> sc, starts |-> 0, made |-> 0, open |-> [f \in Fds |-> 0],
             fd |-> [n \in Socks |-> 0], link |-> [n \in Socks |-> "up"], m_stop |-> TRUE, m_stopping |-> FALSE,
             sockets |-> {}, threads |-> [f \in Fds |-> 0], held |-> FALSE, pending |-> 0,
             enabled |-> TRUE, snap |-> [f \in Fds |-> 0], rest |-> {}, todo |-> {},
             pc |-> [n \in Socks |-> "none"], hand |-> [n \in Socks |-> 0],
             sess |-> [n \in Socks |-> NoSession], tries |-> [n \in Socks |-> 0],
             left |-> [n \in Socks |-> MaxMessages], pend |-> [n \in Socks |-> FALSE],
             starter |-> "none", caller |-> [c \in Callers |-> "idle"],
             responder |-> [x \in Sessions |-> 0], registered |-> {}, logged |-> {}]
  BY DEF Init
<1>2. /\ DOMAIN s = Fields /\ s.scope = sc /\ s.made = 0 /\ s.open = [f \in Fds |-> 0]
      /\ s.fd = [n \in Socks |-> 0] /\ s.m_stop = TRUE /\ s.m_stopping = FALSE /\ s.sockets = {}
      /\ s.threads = [f \in Fds |-> 0] /\ s.snap = [f \in Fds |-> 0] /\ s.rest = {}
      /\ s.pc = [n \in Socks |-> "none"] /\ s.hand = [n \in Socks |-> 0] /\ s.todo = {} /\ s.starter = "none"
  BY <1>1 DEF Fields
<1>3. /\ s.pending = 0 /\ s.enabled = TRUE /\ s.sess = [n \in Socks |-> NoSession]
      /\ s.pend = [n \in Socks |-> FALSE] /\ s.caller = [c \in Callers |-> "idle"]
      /\ s.responder = [x \in Sessions |-> 0] /\ s.registered = {}
  BY <1>1
<1>4. MaxMade \in Nat /\ MaxFd \in Nat /\ MaxPending \in Nat /\ sc.ports \in {1, 2}
  BY ThreadedAcceptorAssumption
<1>5. 0 \in 0..MaxMade /\ 0 \in 0..MaxFd /\ "none" \in Pcs /\ "none" \notin Holding
  BY <1>4 DEF Pcs, Holding
<1>6. Own(s)
  <2>1. OwnTypes(s)
    BY <1>2, <1>5 DEF OwnTypes
  <2>2. /\ \A f \in Fds : s.open[f] = 0 /\ s.threads[f] = 0 /\ s.snap[f] = 0
        /\ \A n \in Socks : s.pc[n] = "none" /\ s.hand[n] = 0
    BY <1>2
  <2>3. Numbered(s) /\ Tables(s) /\ Rooted(s)
    BY <2>2 DEF Numbered, Tables, Rooted, Lives
  <2>4. Hands(s) /\ Listeners(s) /\ Owned(s)
    BY <1>2, <1>5, <2>2 DEF Hands, Listeners, Owned
  <2> QED BY <2>1, <2>3, <2>4 DEF Own
<1>7. Ctl(s)
  <2>1. \A c \in Callers : s.caller[c] = "idle"
    BY <1>3
  <2>2. CtlTypes(s)
    <3>1. s.caller \in [Callers -> {"idle", "waiting", "returned"} \cup Early \cup Late]
      BY <1>3
    <3>2. s.m_stop \in BOOLEAN /\ s.m_stopping \in BOOLEAN
      BY <1>2
    <3>3. s.scope \in Scopes /\ s.todo \in SUBSET Fds /\ s.starter \in {"none", "copy", "spawn", "done"}
      BY <1>2
    <3> QED BY <3>1, <3>2, <3>3 DEF CtlTypes
  <2>3. Single(s)
    BY <1>2, <2>1 DEF Single, Stops, Early, Late
  <2>4. Taking(s)
    BY <1>2, <2>1 DEF Taking, NoThreads
  <2>5. Spawning(s)
    BY <1>2 DEF Spawning
  <2> QED BY <2>2, <2>3, <2>4, <2>5 DEF Ctl
<1>8. Sess(s)
  <2>1. SessTypes(s)
    <3>1. s.sess \in [Socks -> Sessions \cup {NoSession}] /\ s.responder \in [Sessions -> 0..MaxMade]
      BY <1>3, <1>5
    <3>2. s.registered \in SUBSET Sessions /\ s.enabled \in BOOLEAN
      BY <1>3
    <3> QED BY <3>1, <3>2 DEF SessTypes
  <2>2. (\A x \in Sessions : s.responder[x] = 0) /\ (\A k \in Socks : s.sess[k] = NoSession)
    BY <1>3
  <2> QED BY <1>3, <2>1, <2>2 DEF Sess
<1>9. Count(s)
  <2>1. s.pend \in [Socks -> BOOLEAN] /\ \A k \in Socks : ~s.pend[k]
    BY <1>3
  <2>2. Waiters(s) = {}
    BY <2>1 DEF Waiters
  <2>3. At(s, Listens) = {} /\ At(s, {"register"}) = {}
    BY <1>2 DEF At, Listens, Holding
  <2>4. Cardinality({}) = 0
    BY FS_EmptySet
  <2>5. s.pending = Cardinality(Waiters(s)) /\ Cardinality(At(s, Listens)) <= s.scope.ports
    BY <1>2, <1>3, <1>4, <2>2, <2>3, <2>4
  <2>6. MaxPending > 0 => s.pending + Cardinality(At(s, {"register"})) <= MaxPending + s.scope.ports - 1
    BY <1>2, <1>3, <1>4, <2>3, <2>4
  <2> QED BY <1>2, <2>1, <2>5, <2>6 DEF Count
<1> QED BY <1>2, <1>6, <1>7, <1>8, <1>9 DEF IInv, Good

\* The invariant is kept by every step of every thread.
LEMMA InvariantStep == ASSUME IInv, [Next]_s PROVE IInv'
<1>1. CASE s' = s
  BY <1>1 DEF IInv
<1>2. CASE Start \/ Starting \/ Disconnect
  BY <1>2, StartStep, StartCopyStep, StartSpawnStep, DisconnectStep DEF Starting
<1>3. ASSUME NEW n \in Socks, Listening(n) \/ Ending(n) PROVE IInv'
  BY <1>3, AcceptStep, LimitStep, RegisterStep, LeaveStep, RemoveThreadStep DEF Listening, Ending
<1>4. ASSUME NEW n \in Socks, Serving(n) \/ Message(n) \/ ReadEnds(n) PROVE IInv'
  BY <1>4, ReadStep, SetSessionStep, CallReturnsStep, DeleteStep, MessageStep DEF Serving
<1>5. ASSUME NEW c \in Callers, StopClaim(c) \/ Stopping(c) PROVE IInv'
  BY <1>5, StopClaimStep, StopWaitedStep, StopLockStep, StopTakeStep, StopShutdownStep, StopJoinStep,
     StopListenersStep, StopReleaseStep DEF Stopping
<1> QED BY <1>1, <1>2, <1>3, <1>4, <1>5 DEF Next

\* The invariant holds in every state of the acceptor, whatever the threads of the
\* listeners, of the connections and of the application do in between.
THEOREM Inductive == Spec => []IInv
<1>1. Init => IInv
  BY InvariantInit
<1>2. IInv /\ [Next]_s => IInv'
  BY InvariantStep
<1> QED BY <1>1, <1>2, PTL DEF Spec

-----------------------------------------------------------------------------
(* What follows from it *)

\* No thread, and nothing that m_threads or onStop names, has a descriptor that was
\* closed and handed out to another socket: removeThread and onStop close what is
\* theirs.
THEOREM DescriptorsAreOwn == Spec => []OwnDescriptor
<1>1. IInv => OwnDescriptor
  <2> SUFFICES ASSUME IInv PROVE OwnDescriptor
    OBVIOUS
  <2>1. OwnTypes(s) /\ Tables(s) /\ Rooted(s)
    BY DEF IInv, Good, Own
  <2>2. ASSUME NEW n \in Alive PROVE s.open[s.fd[n]] = n
    <3>1. n \in Socks /\ Lives(s, n) /\ n # 0
      BY <2>1, Numbers DEF Alive, Lives
    <3>2. s.fd[n] \in Fds /\ (s.threads[s.fd[n]] = n \/ s.snap[s.fd[n]] = n)
      BY <2>1, <3>1 DEF Rooted
    <3> QED BY <2>1, <3>1, <3>2 DEF Tables
  <2> QED BY <2>1, <2>2 DEF OwnDescriptor, Tables
<1> QED BY <1>1, Inductive, PTL

\* Every open socket has one owner, which will close it, and a closed one has none:
\* no descriptor leaks and none is closed twice, through any number of stops, starts
\* and connections that end meanwhile.
THEOREM OneOwnerEach == Spec => []OneOwner
<1>1. IInv => OneOwner
  <2> SUFFICES ASSUME IInv, NEW f \in Fds
               PROVE  Cardinality({o \in {"threads", "snap", "listener", "hand"} :
                        CASE o = "threads"  -> s.threads[f] # 0
                          [] o = "snap"     -> s.snap[f] # 0
                          [] o = "listener" -> f \in s.sockets \cup s.rest /\ s.threads[f] = 0 /\ s.snap[f] = 0
                          [] o = "hand"     -> \E n \in Socks : s.hand[n] # 0 /\ s.fd[s.hand[n]] = f})
                        = IF s.open[f] = 0 THEN 0 ELSE 1
    BY DEF OneOwner
  <2> DEFINE listener == f \in s.sockets \cup s.rest /\ s.threads[f] = 0 /\ s.snap[f] = 0
             hand == \E n \in Socks : s.hand[n] # 0 /\ s.fd[s.hand[n]] = f
             Owners == {o \in {"threads", "snap", "listener", "hand"} :
                          CASE o = "threads"  -> s.threads[f] # 0
                            [] o = "snap"     -> s.snap[f] # 0
                            [] o = "listener" -> listener
                            [] o = "hand"     -> hand}
  <2>1. Own(s) /\ OwnTypes(s) /\ Tables(s) /\ Hands(s) /\ Listeners(s) /\ Owned(s)
    BY DEF IInv, Good, Own
  <2>2. s.threads[f] # 0 => s.open[f] # 0 /\ s.snap[f] = 0
    BY <2>1 DEF Tables
  <2>3. s.snap[f] # 0 => s.open[f] # 0
    BY <2>1 DEF Tables
  <2>4. listener => s.open[f] # 0 /\ s.threads[f] = 0 /\ s.snap[f] = 0
    BY <2>1 DEF Listeners
  <2>5. hand => s.open[f] # 0 /\ s.threads[f] = 0 /\ s.snap[f] = 0 /\ ~listener
    BY <2>1 DEF Hands, Fresh
  <2>6. s.open[f] # 0 => s.threads[f] # 0 \/ s.snap[f] # 0 \/ listener \/ hand
    BY <2>1 DEF Owned
  <2>7. Cardinality(Owners) = IF s.open[f] = 0 THEN 0 ELSE 1
    <3> HIDE DEF listener, hand
    <3>1. CASE s.open[f] = 0
      <4>1. Owners = {}
        BY <2>2, <2>3, <2>4, <2>5, <3>1
      <4> HIDE DEF Owners
      <4> QED BY <3>1, <4>1, FS_EmptySet
    <3>2. CASE s.open[f] # 0
      <4>1. PICK o : Owners = {o}
        <5>1. CASE s.threads[f] # 0
          <6>1. Owners = {"threads"}
            BY <2>2, <2>4, <2>5, <5>1
          <6> QED BY <6>1
        <5>2. CASE s.snap[f] # 0
          <6>1. Owners = {"snap"}
            BY <2>2, <2>4, <2>5, <5>2
          <6> QED BY <6>1
        <5>3. CASE listener
          <6>1. Owners = {"listener"}
            BY <2>4, <2>5, <5>3
          <6> QED BY <6>1
        <5>4. CASE hand
          <6>1. Owners = {"hand"}
            BY <2>5, <5>4
          <6> QED BY <6>1
        <5> QED BY <2>6, <3>2, <5>1, <5>2, <5>3, <5>4
      <4> HIDE DEF Owners
      <4>2. Cardinality(Owners) = 1
        BY <4>1, FS_Singleton
      <4> QED BY <3>2, <4>2
    <3> QED BY <3>1, <3>2
  <2> QED BY <2>7
<1> QED BY <1>1, Inductive, PTL

\* When stop() has returned no thread of the acceptor is left, no socket is open, no
\* connection is counted and no session has a responder.
THEOREM StopIsComplete == Spec => []StopComplete
<1>1. IInv => StopComplete
  <2> SUFFICES ASSUME IInv, s.m_stop, ~s.m_stopping
               PROVE  /\ Alive = {} /\ s.starter = "none" /\ Taken(s.open) = {}
                      /\ s.pending = 0 /\ s.registered = {} /\ \A x \in Sessions : s.responder[x] = 0
    BY DEF StopComplete
  <2>1. Good(s) /\ Sess(s) /\ Count(s)
    BY DEF IInv, Good
  <2>2. NoThreads(s) /\ s.rest = {} /\ (\A f \in Fds : s.snap[f] = 0) /\ s.starter = "none"
    BY <2>1, Stopped
  <2>3. /\ \A n \in Socks : s.pc[n] \in {"none", "done"} /\ s.hand[n] = 0 /\ s.sess[n] = NoSession /\ ~s.pend[n]
        /\ \A f \in Fds : s.open[f] = 0
        /\ Waiters(s) = {}
    BY <2>1, <2>2, Quiet
  <2>4. Alive = {} /\ Taken(s.open) = {}
    BY <2>3 DEF Alive, Taken
  <2>5. s.pending = 0
    BY <2>1, <2>3, FS_EmptySet DEF Count
  <2>6. s.registered = {}
    BY <2>1, <2>3, ThreadedAcceptorAssumption DEF Sess, SessTypes
  <2>7. \A x \in Sessions : s.responder[x] = 0
    <3>1. \A x \in Sessions : s.responder[x] # 0 => s.responder[x] \in Socks
      BY <2>1, ThreadedAcceptorAssumption DEF Sess, SessTypes, Socks
    <3> QED BY <2>1, <2>3, <3>1 DEF Sess, Serves
  <2> QED BY <2>2, <2>4, <2>5, <2>6, <2>7
<1> QED BY <1>1, Inductive, PTL

\* A session has one connection until a stop gives the sessions free, and its responder
\* is a connection that exists, with its own socket open.
THEOREM SessionsServedOnce == Spec => []OneLiveConnection
<1>1. IInv => OneLiveConnection
  <2> SUFFICES ASSUME IInv PROVE OneConnection /\ ResponderLive
    BY DEF OneLiveConnection
  <2>1. Sess(s) /\ OwnTypes(s) /\ Tables(s) /\ Rooted(s)
    BY DEF IInv, Good, Own
  <2>2. OneConnection
    <3>1. Connections \subseteq Socks
      BY DEF Connections
    <3> QED BY <2>1, <3>1 DEF OneConnection, Sess
  <2>3. ASSUME NEW x \in Sessions, s.responder[x] # 0
        PROVE  s.responder[x] \in Connections /\ s.open[s.fd[s.responder[x]]] = s.responder[x]
    <3> DEFINE k == s.responder[x]
    <3>1. k \in Socks /\ k # 0
      BY <2>1, <2>3, ThreadedAcceptorAssumption DEF Sess, SessTypes, Socks
    <3>2. s.pc[k] \in Serves
      BY <2>1, <2>3 DEF Sess
    <3> HIDE DEF k
    <3>3. k \in Connections /\ Lives(s, k)
      BY <3>1, <3>2 DEF Connections, Lives, Serves
    <3>4. s.fd[k] \in Fds /\ (s.threads[s.fd[k]] = k \/ s.snap[s.fd[k]] = k)
      BY <2>1, <3>1, <3>3 DEF Rooted
    <3>5. s.open[s.fd[k]] = k
      BY <2>1, <3>1, <3>4 DEF Tables
    <3> QED BY <3>3, <3>5 DEF k
  <2> QED BY <2>2, <2>3 DEF ResponderLive
<1> QED BY <1>1, Inductive, PTL

\* m_pendingConnections is the number of connections that wait to log on, and exceeds
\* MaxPendingConnections by one for each further port at most.
THEOREM PendingIsBounded == Spec => []PendingBounded
<1>1. IInv => PendingBounded
  <2> SUFFICES ASSUME IInv PROVE PendingBounded
    OBVIOUS
  <2>1. Count(s) /\ CtlTypes(s)
    BY DEF IInv, Good, Ctl
  <2>2. {k \in Connections : s.pend[k]} = Waiters(s)
    BY <2>1 DEF Connections, Waiters, Count, Serves
  <2>3. Cardinality(Waiters(s)) \in Nat /\ Cardinality(At(s, {"register"})) \in Nat
    BY Finite DEF Waiters, At
  <2>4. MaxPending \in Nat /\ s.scope.ports \in Nat
    BY <2>1, ThreadedAcceptorAssumption DEF CtlTypes
  <2>5. /\ s.pending = Cardinality(Waiters(s))
        /\ MaxPending > 0 => s.pending + Cardinality(At(s, {"register"})) <= MaxPending + s.scope.ports - 1
    BY <2>1 DEF Count
  <2>6. MaxPending > 0 => s.pending <= MaxPending + s.scope.ports - 1
    BY <2>3, <2>4, <2>5
  <2> QED BY <2>2, <2>5, <2>6 DEF PendingBounded
<1> QED BY <1>1, Inductive, PTL

=============================================================================
