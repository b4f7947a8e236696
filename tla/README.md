# QuickFIX session layer: specification, model checking, proofs

This directory specifies the parts of QuickFIX (`src/src/C++`) that carry the
FIX session protocol: the session state machine, two sessions talking over a
connection that breaks, the message store on files, the framing of the byte
stream, a session's hours, and the two kinds of transport with their threads,
sockets and stop protocols. Paths below are relative to `src/src/C++` unless they say
otherwise.

1. [The system](#1-the-system)
2. [Modules and how they correspond to the code](#2-modules-and-how-they-correspond-to-the-code)
3. [Runs](#3-runs)
4. [Fairness](#4-fairness)
5. [Where the code and its documents disagree](#5-where-the-code-and-its-documents-disagree)
6. [Proofs](#6-proofs)
7. [What is not modelled](#7-what-is-not-modelled)
8. [Plan](#8-plan)

## 1. The system

QuickFIX is a FIX engine: an application registers callbacks (`Application`),
an initiator or acceptor makes or takes TCP connections, and a `Session` per
counterparty runs the protocol that gives both sides numbered, ordered, gap-free
streams of messages.

| component | state | operations | correct when |
|---|---|---|---|
| `Session`, `SessionState` (`Session.cpp`, `SessionState.h`) | logon/logout/reset flags, inbound queue of messages above the expected number, resend range, heartbeat clock, the responder, the store | `next(message)` with one handler per administrative type and its error paths; `next(now)`, the timer; `send`; `logon`/`logout`; `reset`; `setNextTargetMsgSeqNum`; `disconnect` | no number is delivered twice; nothing queued is overtaken or kept past its numbering; the store has every number given out; a refused message is counted once and in its turn; a silent peer is noticed |
| `MessageStore`, `MemoryStore`, `FileStore` | the messages sent by number, the two next numbers, the creation time | `set`, `get`, the numbers, `reset`, `refresh`, opening | what was stored survives the process; reopening gives what the running store had; the creation time is that of the numbering |
| `ThreadedSocketConnection` | outgoing queue, offset in the front message, writer's role, wake-up, disconnect flag | `send`, the connection thread's poll and write, `disconnect`, destructor | messages leave whole and in order; the queue is bounded; no wake is lost; a disconnect flushes and returns; nothing uses a freed connection |
| select transports (`SocketAcceptor`, `SocketInitiator`, `SocketConnection`, `SocketMonitor`) | sockets in the read, write and connect sets, the drop queue, the wake-up pipe, a send queue per connection | one thread: poll, read, write, accept, connect, timers once a second, report dropped sockets | every socket is closed once and its end reported to its own connection; a session has one connection, and never a deleted one; nothing queued is left unsent |
| threaded transports, `Acceptor`, `Initiator`, the registry of sessions | listeners, threads by descriptor, pending connections, stop flags, `s_registered` | start, stop, accept, bind a connection to a session, end | each descriptor is closed once, and not under a thread that uses it; one connection per session; stop returns and leaves nothing behind |
| `Parser` | the bytes read so far, where the search for the length goes on | add bytes, take a message | any split of the stream gives the same messages |
| `TimeRange` | start and end of the session's hours | in range, same range | open when it should be; the numbers start over once per occurrence |
| `Message`, `FieldMap`, `DataDictionary`, settings, logs, HTTP status page, TLS, SQL stores | data, configuration, output | | |

Interaction. A transport thread reads bytes, frames them with `Parser`, and calls
`Session::next(string)`; the same thread (select) or the connection's thread
(threaded) calls `Session::next(now)` about once a second. The session calls the
application (`fromAdmin`, `fromApp`, `toAdmin`, `toApp`), which may throw to
refuse; it stores what it sends through `SessionState` and writes it to its
`Responder`, the connection. Application threads call `Session::sendToTarget` at
any time, connected or not; operators call `logon`, `logout`, `reset` and
`setNextTargetMsgSeqNum` from threads of their own. `Session::m_mutex` orders
sends; `SessionState` has a mutex of its own around the store and the queue.

What is hard here: messages come with any number in any order and handlers move
two numberings, a queue and a resend range together; a reset may come from a
Logon on either side, an operator, the calendar, a logout or a disconnect, in the
middle of any of that; connections break with messages under way and each side
notices at its own time; processes die between two writes to four files; several
threads write one socket; descriptors are numbers that the kernel hands out again
while events, reports and tables still name the old socket; stop() races accepts,
ends of connections, the thread of start() and other stops; and timers must fire although the peer keeps sending
or has stopped reading. `PROJECT.json` lists these as hazards with the line
where each bites and the properties that cover it.

## 2. Modules and how they correspond to the code

```
                               SessionHandlers                         RetransmitProofs
                               Session            MCSession            SessionProofs
OrderedDelivery <---refines--- SessionPair        MCSessionPair        SessionPairProofs
MessageStore    <---refines--- FileStore          MCFileStore          FileStoreProofs
                               SendQueue          MCSendQueue          SendQueueProofs
                               Reactor            MCReactor            ReactorProofs
                               ThreadedAcceptor   MCThreadedAcceptor   ThreadedAcceptorProofs
                               TimeRange          MCTimeRange          TimeRangeProofs
                               Parser             MCParser
```

`PROJECT.json` maps every definition to the lines it stands for. Operators
marked `mutant` in a comment are deliberately wrong variants of the definition
that follows them; they show that the property they belong to can fail.

`Session` and `SessionPair` both extend `SessionHandlers`, `SessionProofs` and
`SessionPairProofs` both extend `RetransmitProofs`.

**SessionHandlers.** The state of a session is one record, and every method of
`Session` or `SessionState` that changes state is an operator from a state to a state
with the method's name (`GenerateLogout`, `DoTargetTooHigh`, `NextLogon`, ...), so a
handler reads as the composition of the calls it makes. At its end are the steps a
session takes, each with the condition for it: `Received`, `Drained`, `Finished`,
`Ticked`, `Connected`, `Ended`.

**Session.** One session, in the variable `st`, against any peer, application and
operator. The actions are what the outside can start: `Connect`, `ConnectionLost`, `Receive(m)`, `Timer`,
`Send(body)`, `SetEnabled`, `OperatorReset`, `SetNextTargetMsgSeqNum`, the
clock and the calendar. `Receive` runs `next()` up to the end of its handlers;
`DrainQueue` is one round of `nextQueued`, and `FinishMessage` the rest of
`nextLogon` and the timer at the end of `next()`; between them application
threads may send. The peer is arbitrary: any message of the set `Incoming`, with
any number and defect, at any time. The application is arbitrary: each message
may be accepted or refused in each way it can be refused, and what it withholds
of a retransmission is all or nothing (in the property `RetransmitCovers`, any
set). Ages of the last message sent and received replace clock values; the
schedule is one of three answers of `checkSessionTime`.

**SessionPair.** An initiator and an acceptor, each taking the steps of
`SessionHandlers`, over a TCP connection: two FIFO queues that lose what is unread
when the connection breaks. Each side notices the break on its own. Processes
may die between two handlers or two rounds of `nextQueued` (`ARestart`, `BRestart`) or
inside the handler of a message, after it was passed to the application or answered and
before it was counted (`ADies`, `BDies`: between `verify()` and
`incrNextTargetMsgSeqNum`, `Session.cpp:1707` and 1711, and alike in the other
handlers), and start again with
what `FileStore` keeps. Applications number what they send, so delivery can be
compared with `OrderedDelivery`, the abstract specification of one direction: in
order, none skipped until a Logout has overtaken a message that was
still missing (`nextLogout` counts the expected number whatever the Logout's own;
`overtaken` records it), and none twice, with one exception: a message whose delivery
was cut short by the death of the process (`CutShort`) is delivered again, before any
other. `cutA` and `cutB` are those messages. A behaviour's `scope` is one of the `Scenarios`: settings of
both sides and bounds. Time is left out; a heartbeat is due whenever
all is quiet and the other side has numbers to learn of.

**FileStore.** Every call of the store is the list `todo` of the system calls it
makes, in the code's order; the process may crash before any of them, and writes
may fail, the body and header also in part. A new process opens the store over
whatever it finds. `MessageStore` is the interface as an abstract specification,
with the call under way as part of its state: a message is put under the number that
was next when `persist()` was called with it, messages go in a `reset()` under way only,
and the numbers change by the calls that set them. A crash or a failed write ends the
call and takes nothing back. The refinement mapping reads the call off `todo`, the
numbers of an open store off its cache, and what is kept off the four files as
`populateCache` would. `Windows`
names three windows in which this is false (section 5); the run `files`
keeps them closed and shows that nothing else goes wrong.

**SendQueue.** The outgoing side of `ThreadedSocketConnection` with
`SocketQueuedWrites=Y`. A section under `m_sendMutex` is one step, a
`socket_send` is one step and may take any part of a message. Application
threads call `send()` and `disconnect()` under the session's lock, as
`Session::send` and `Session::disconnect` do; the connection's thread polls,
takes the writer's role, writes, runs the session's timer (which may send),
fails, disconnects, and frees the connection.

**Reactor.** The select transports, as an acceptor or as an initiator. One step of
the reactor's thread is one event of a poll pass; the events of the pass are fixed by
`Poll`, are handled in the order of the poll list, and go stale while callbacks drop,
delete and replace what they name. The listener and the interrupt are read sockets
with descriptors of their own, which may be any, so an `accept` comes before or after
each read of the same pass. A connect for which the system has no
descriptor leaves its session pending for good (`ConnectInVain`).
Sockets in the same state may or may not have something to report, but one that is
down always has. Descriptors are handed out lowest first and `gen` tells apart the
sockets that had the same one. What a message makes a session do is one of: nothing
that matters here, a Logon, a disconnect, a message that does not parse. Other threads
send and disconnect. `stop()` gives the sessions free when it begins and sets the
flag later, `GoDown` is the end of the loop.

**ThreadedAcceptor.** A step is a section of `m_mutex`, of `m_stopMutex` or a system
call. A thread is named by the serial number of its socket, and `fd` is the descriptor
it believes to have. Application threads call `start()` and `stop()`; the application
may also call `stop()` from a callback while another one runs. The registry of
sessions is the set `registered`; `setSession` looks at it once a try. There are one or
two ports; `MaxFd`, `MaxMade` and `MaxCaller` bound the descriptors, the sockets and the
threads that call `stop()`.

**Parser.** `ReadFixMessage` is `readFixMessage` on bytes, and the actions are the
reads of a select acceptor's connection: the first reads, which look for the
session, and the loop of `readMessages`. The streams are pieces, sound
messages or noise, so the reference is the list of sound pieces that have arrived.

**TimeRange.** The comparisons as operators on two moments, with the day's length
as a parameter; beside them a clock that strikes: the hours open at a start, close
after an end, and `started` remembers the last start. `Look` is
`checkSessionTime` at any of its callers, and time passes between looks or not.

## 3. Runs

Each run is a `.cfg` beside the MC module it configures. State counts are
distinct states. Runs with `CHECK_DEADLOCK FALSE` are instances whose
environment is used up (messages, connections) or whose threads end.

| run | instance | shows |
|---|---|---|
| `session` | default acceptor, messages of every type numbered 1..3, sound and with every defect, every verdict of the application, both flags of Logon and SequenceReset, operator resets (138,301) | `QueueAhead`, `SeenBelow`, `StoreComplete`, `RetransmitCovers`, `CountsExpected` |
| `settings` | both roles with each reset option, no persistence, `SendNextExpectedMsgSeqNum` or a threaded transport; logons with every number, flag and NextExpectedMsgSeqNum, also with defects; operator, calendar (405,441) | `ConnectionClean`, `RefusedBeforeReset` (`SeenBelow` and `StoreComplete` are proved for all settings) |
| `timers` | both roles, heartbeats on and off, a running clock, a peer that sends before and after the Logons (88,282) | `PeerWatched`, `LogonTimesOut` |
| `recovery` | two sessions, two payloads each way, two connections, one process that dies, between handlers or inside one; the same with an initiator that announces NextExpectedMsgSeqNum, with two payloads and no death and with one payload and one; and one payload each way, three connections, one operator logout (2,749,822) | `NoGapLeft`, `CaughtUp`, and `Delivers`: the pair refines `OrderedDelivery` in both directions |
| `catchup` | one connection, also with redundant resend requests, fair (3,236) | `CatchUp` |
| `files` | two messages, numbers to 3, two messages to a body file, two crashes, failing writes (222,667) | `ReopenAgrees`, `CreationKept`, and `Durable`: the files refine `MessageStore` |
| `sending` | one application thread and the connection's, messages of 2 units, bound and socket buffer 3, three messages, fair (427,287) | `WireInOrder`, `WakeNotLost`, `Bounded`, `FreedUnused`, `Flushed`, `SendReturns`, `DisconnectReturns` |
| `reactor` | an acceptor, whose sessions other threads disconnect, and an initiator; one session, two descriptors, three sockets, one pending connection, fair (214,414) | `ReportsOwn`, `HeldOnce`, `OneLiveConnection`, `NoOrphan`, `WakeNotLost`, `Reaped` |
| `threads` | two ports and one stop; and one port, two threads that stop, two starts, one descriptor for connections; fair (380,377) | `OwnDescriptor`, `OneOwner`, `StopComplete`, `OneLiveConnection`, `PendingBounded`, `StopReturns` |
| `framing` | streams of three to six pieces: messages with bodies that look like ends and starts of messages, stray bytes, half headers, broken lengths, noise beyond the buffer; reads of every size to 20 bytes (565,538) | `Framed`, `RefusedForSize` |
| `hours` | every daily and weekly range over days of four seconds, for nine to sixteen days (588,625) | `OpenOnTime`, `StartedOver`, `KeptWithin` |

One more run, `leak`, ends in a counterexample on purpose: section 5.

What the properties say:

- `QueueAhead`: between two handlers every queued number is above the expected
  one. A session that has sent its Logout is exempt: an application message with a
  bad SendingTime is counted, answered with a Reject and a Logout, and `next()`
  returns without draining the queue, which then goes with the connection.
- `SeenBelow`: no number is passed to `fromApp` twice in one numbering.
- `StoreComplete`: with `PersistMessages` the store holds exactly the numbers
  given out since the last reset.
- `RetransmitCovers`: the answer to any resend request leads the peer from the
  first number to one past the last with no hole and no overlap, whatever the
  application withholds.
- `ConnectionClean`: a lost connection leaves no logon, queue or resend range to
  the next one (select transports, which always go through `Session::disconnect`).
- `CountsExpected`: however a message is refused, it is counted if it was the
  expected one and not otherwise. Exceptions recorded in the property: an application
  message without SenderCompID or TargetCompID is counted whatever its number, since
  `next()` refuses it before it looks at that and `generateBusinessReject` counts
  (`Session.cpp:1640`, 1726, 1261); a `Reject`
  above the expected number and a message of another version are counted out of turn.
- `RefusedBeforeReset`: however a Logon is refused by `next()`, `verify()` or the
  application, it does not start the numbering over. A Logon that these accept and
  whose NextExpectedMsgSeqNum is above 1 is refused after the reset, against the comment
  of `nextLogon`: the run reaches it, and the property names it (section 5).
- `PeerWatched`, `LogonTimesOut`: a silent peer is disconnected, and an initiator
  whose Logon is not answered gives up.
- `NoGapLeft`: when both sides are logged on and nothing is under way, nothing waits
  in a queue for a gap that neither side asks for. `CatchUp`: they come to have
  everything.
- `CaughtUp`: at any moment, a side that expects the number the other gives out next
  has delivered all that the other's application sent; no gap fill, resend or queued
  message was counted in the place of one that was not delivered.
- `Delivers`: what an application receives is what the other one sent, in order and
  none twice, over lost connections, restarts and logouts, but for the message a process
  died over between `fromApp` and the count, which comes again before any other; none is
  skipped unless a Logout overtook it.
- `ReopenAgrees`, `CreationKept`: a store reopened over the files answers as the running
  one. `Durable`: at every moment, also inside a call, what a reopened store would find is
  what the calls made it: no message lost or under another number, and no number set
  back, by anything but the reset or the call that does so.
- `WireInOrder`, `Bounded`, `WakeNotLost`, `Flushed`, `FreedUnused`,
  `SendReturns`, `DisconnectReturns`: see the comments in `SendQueue.tla`.
- `HeldOnce`, `ReportsOwn`, `NoOrphan`, `Reaped`: the monitor has every open socket in
  one place and closes it once; the report of a drop is about the socket that was
  dropped, although its number is in demand; no socket stays that nobody reads; and one
  that is down is closed and its connection deleted in the end, whoever dropped it.
- `OneLiveConnection` (both transports): a session has one connection, and its
  responder is one that exists. A stop is exempt from the first part, `OneConnection`:
  section 5.
- `OwnDescriptor`, `OneOwner`: a descriptor that a thread, the table of threads or a
  stop refers to is still the socket they mean, and every open one has exactly one
  owner that will close it.
- `StopComplete`, `StopReturns`: `stop()` returns on every thread that calls it, and
  then no thread, socket, count, registration or responder is left.
- `PendingBounded`: the count of pending connections is that of the connections which
  wait to log on, and passes the limit by at most one per further port.
- `Framed`, `RefusedForSize`: however the stream is cut, the session is handed exactly
  the sound messages that have arrived; and a connection is refused for the size of
  its buffer only if a message is too large.
- `OpenOnTime`, `KeptWithin`, `StartedOver`: the hours are open when the clock says so,
  the numbers are kept within an occurrence of them and never carried into another.

Why the bounds are enough. The session compares a number only with the expected
one and with the ends of a resend range, so "below, equal, one above, further
above" are the cases: expected numbers to `MaxSeq` + 1 with messages one above
that reach them all, and a queue of two messages is the shortest that needs a
second round of `nextQueued`. `MaxSent` = 3 gives resend ranges with an
administrative message, an application message and a second one. `MaxSeq` and
`MaxSent` stop new stimuli, not handlers, so no handler is cut off. `MaxAge` = 3
passes 2.4 heartbeat intervals and both timeouts. In `SessionPair` two
connections give a first one that loses messages and a second that recovers; the
third of the logout scenario follows the logout. `MaxHeartbeat` lies above the numbers the runs
reach with everything else, so it ends only repeated heartbeats. Two crashes in
`FileStore` are one that damages the files and one that a damaged store meets;
a body of two messages is the least in which a place can be wrong. In `SendQueue`
a message of two units can be written in part, a bound of three units is
passed by the second message, and a third send finds the queue above it. A
second application thread would wait for the session's lock and add no state.
In `Reactor` two descriptors for three sockets force a number to be used again while
an old one is dropped, reported or still listed in the pass, and make an `accept`
find none; a queue of two has a send with and one without a wake-up; one wake-up under
way is enough for the send that falls between the emptied queue and `unsignal`. In
`ThreadedAcceptor` two ports are what it takes to pass the limit of pending
connections, and one descriptor that every connection of the other scope uses in turn
what it takes to confuse two of them; a second start meets what the first run left.
`Tries` is 2 in place of 5: one failed look and a last one. In `Parser` a read of 20
bytes holds more than one whole message and the longest message needs two; the buffer
is two reads, so noise passes it. A day of four seconds has a second before, at, between
and after any two times of it, and comparisons of `TimeRange` look at the order of
times and the distance of dates only up to a week; the clock goes on for more than a
week after the first start, with the process down for any part of it.

## 4. Fairness

- `Session!FairSpec`. A handler that has begun goes on (weak fairness of
  `DrainQueue` and `FinishMessage`). The clock runs whatever the peer sends, and the
  select transports call each session's timer once per wall-clock second and report
  a connection the session has dropped before they wait for more
  (`SocketMonitor::block` looks at the drop queue first): these are strongly fair,
  since message handling disables and enables them for ever. No fairness is
  assumed of the peer, the application or the operator.
- `SessionPair!FairSpec`. Each side goes on reading, finishing handlers and sending
  the heartbeats that fall due; connections need not be made, nor kept.
- `Reactor!FairSpec`. The reactor's thread goes on (`Loop`): it has no wait without a
  timeout, and handles each event that poll() reported. Timers, connects, other
  threads, peers and the network are not assumed to do anything.
- `ThreadedAcceptor!FairSpec`. Every thread is scheduled, blocking calls return when
  what they wait for has happened (a shut down socket, an ended thread, the lock), and
  the waits of a stop for logouts are bounded by the clock. No peer has to send
  anything, and nobody has to call `stop()`.
- `SendQueue!FairSpec`. Threads that have begun a call run on, and the deadline of a
  disconnect passes. No call need be made and the peer need not read. `SendReturns`
  assumes a reading peer in its own premise: a sender past the bound waits for
  the peer as a direct write does.

## 5. Where the code and its documents disagree

One run checks a property taken from the code's comments and TLC finds it violated;
`findings` in `PROJECT.json` quotes the lines.

| run | what happens |
|---|---|
| `leak` | A thread other than the reactor's disconnects a session of a `SocketInitiator` (`Session::disconnect` or `reset` from an operator). `SocketMonitor::drop` only shuts the socket down and leaves the rest to the reactor, "the blocking thread sees the hang-up as a read event and drops the socket itself". `ConnectorWrapper::onEvent` does not: it calls `onDisconnect`, which would drop the socket through the session's responder, but that is gone. The connection is deleted, the socket stays in the read set, and poll() reports it for ever. In the trace the socket is connected when it is shut down; one that is still connecting is reported in error and dropped. |

Three more disagreements can be seen by a small change to a passing run:

- `RefusedBeforeReset` without its first disjunct fails in `settings`. `nextLogon` resets
  the store once `verify()` has accepted the Logon and only then compares
  NextExpectedMsgSeqNum (`Session.cpp:268`, 286), while its comment says "a Logon that is
  then refused must leave the store and the sequence numbers as they were"
  (`Session.cpp:251`). A Logon with ResetSeqNumFlag, or any Logon to an acceptor with
  ResetOnLogon, whose NextExpectedMsgSeqNum is above 1 is refused after the store was
  emptied. `RefusedBeforeReset`, proved for all settings and Logons, says that no other is
  (without ResetOnDisconnect, which starts the numbers over by itself).
- `SessionPair` with `nextExpected` on both sides, one payload and one connection:
  `NoGapLeft` fails. The reply to a Logon that was itself above the expected number
  announces one number too many (`Session.cpp:998`), and no resend request follows
  (`Session.cpp:314`).
- `FileStore` with `Windows` = {"torn"}: `ReopenAgrees` fails. An entry of the header
  file that a failed write or a crash has cut short stays, and spoils the entry after it
  (`FileStore.cpp:238`), while the store's test says "a reopened store must find
  everything" (`test/FileStoreTestCase.cpp:259`).

More places fall short of what a reader of the documentation expects. The
models contain them and the properties above are stated around them:

- An application message without SenderCompID or TargetCompID is counted whatever its
  number (`Session.cpp:1261`): above the expected one it hides a gap.
- A message that `fromApp` was given is delivered again if the process dies before
  it is counted (`Session.cpp:1707`, 1711).
- A connect for which the system has no descriptor leaves the session pending, with
  a connection under the invalid handle that no event names: it is not connected again
  (`SocketInitiator.cpp:161`).
- With HeartBtInt=0 `next(now)` returns before the logout timer (`Session.cpp:173`),
  and with a HeartBtInt shorter than LogoutTimeout each heartbeat starts the wait over:
  to a peer that goes on sending, an unanswered Logout is waited for without end.
- An initiator disabled while its Logon is unanswered leaves the timer before the
  logon timeout is looked at (`Session.cpp:154`); `LogonTimesOut` exempts it.
- A crash between `reset()`'s unlink of the body and of the header
  (`FileStore.cpp:161`) leaves an old index over a body that is written anew, and old
  numbers give new messages: the window `"unlinked"` of `FileStore`. With it open
  `Durable` fails.
- A crash between creating and writing the session file (`FileStore.cpp:211`) leaves
  it empty for good, and each start takes its own time for the creation time: the
  window `"unstamped"`. With it open `CreationKept` fails.
- `Acceptor::stop` unregisters the sessions when it begins, also those with a connection
  (`Acceptor.cpp:296`), and then waits for their logouts: a connection that comes in
  meanwhile is bound to a session that has one. `OneConnection` of both transports
  ends there, `StopComplete` does not.
- `stop()` that is called first on a transport's own thread, in a callback, joins that
  thread. `ThreadedAcceptor` lets callbacks call it only while another stop runs, the
  case the code provides for.
- After a refusal by `setSession` a threaded connection goes on with `setSession` for
  each further message in its buffer (`ThreadedSocketConnection.cpp:622`), with a wait of
  up to five seconds each.
- After a BodyLength that is no number the whole buffer is erased, and `readMessage`
  returns true with the message it had before, which the session is handed again
  (`SocketConnection.cpp:272`), under a number that is too low by now. `Framed`
  holds again from the next read on.
- What follows an acceptor's first message in the same read stays in the buffer until
  more bytes arrive (`SocketConnection.cpp:201`): the second conjunct of `Framed`.
- A daily range whose start and end are the same time is open all day and starts
  over at midnight, not at StartTime (`TimeRange.cpp:150`).
- The last second of daily hours past midnight is in the range for `isInRange` and over
  for `isInSameRange` (`TimeRange.cpp:171`): a session that looks in that second starts
  over. `KeptWithin` exempts it. With its arguments the other way round
  `isInSameRange` compares with the whole length; no caller passes them so.
- Weekly hours that start and end on the same day, the end later, are taken for
  the whole week (`TimeRange.cpp:30`).

## 6. Proofs

Eight modules hold proofs: one beside each of `Session`, `SessionPair`, `SendQueue`,
`FileStore`, `Reactor`, `ThreadedAcceptor` and `TimeRange`, and `RetransmitProofs` with
the lemmas on retransmission that the first two share. Each of the seven proves an inductive invariant
(`Inductive`: `Spec => []IInv`; in `SessionPairProofs` `PairInvariant`: `Spec => []PInv`)
and the properties that follow from it, for every value
of the constants that the `ASSUME`s of the component's module admit: any number of
threads, descriptors, sessions, messages, crashes and restarts. The invariant is always what
the properties need in addition to be kept step by step; TLC finds each of them true on the
run's instance too. The type invariants are conjuncts of these, and `TypeCorrect` states the
session's (`TypeOK`): the runs leave them to the proofs. Every theorem is listed in
`PROJECT.json`.

| module | theorem | property | further hypothesis |
|---|---|---|---|
| `SessionProofs` | `TypeCorrect`, `QueueOrdered`, `DeliveredOnce`, `StoreIsComplete`, `RetransmissionCovers`, `ConnectionIsClean`, `CountedInTurn` | `TypeOK`, `QueueAhead`, `SeenBelow`, `StoreComplete`, `RetransmitCovers`, `ConnectionClean`, `CountsExpected` | |
| | `RefusedLogonLeavesNumbers` | `RefusedBeforeReset` | |
| `SessionPairProofs` | `PairDelivers`, `PairCatchesUp` | `Delivers` (the refinement of `OrderedDelivery` in both directions), `CaughtUp` | `PlainScenarios`: both sides have PersistMessages, and neither ResetOnLogon, ResetOnLogout nor ResetOnDisconnect |
| `SendQueueProofs` | `InOrder`, `QueueIsBounded`, `NoWakeLost`, `FreedLast`, `FlushedFirst` | `WireInOrder`, `Bounded`, `WakeNotLost`, `FreedUnused`, `Flushed` | |
| `FileStoreProofs` | `MemoryAgrees` | `ReopenAgrees` | window `"torn"` closed |
| | `CreationTime` | `CreationKept` | window `"unstamped"` closed |
| | `DurableStore` | `Durable`, the refinement of `MessageStore` | windows `"torn"` and `"unlinked"` closed |
| `ReactorProofs` | `DropsReportOwn`, `SocketsHeldOnce`, `OneConnectionEach`, `NoWakeLost` | `ReportsOwn`, `HeldOnce`, `OneLiveConnection`, `WakeNotLost` | |
| | `NoneOrphaned` | `NoOrphan` | only the reactor's thread disconnects an initiator's sessions |
| `ThreadedAcceptorProofs` | `DescriptorsAreOwn`, `OneOwnerEach`, `StopIsComplete`, `SessionsServedOnce`, `PendingIsBounded` | `OwnDescriptor`, `OneOwner`, `StopComplete`, `OneLiveConnection`, `PendingBounded` | |
| `TimeRangeProofs` | `OpensOnTime`, `OccurrencesStartOver`, `NumbersKept` | `OpenOnTime`, `StartedOver`, `KeptWithin` | |

A further hypothesis excludes exactly what section 5 reports, and in the case of
`PlainScenarios` what the settings are there for: a reset gives up what was not
delivered, and without PersistMessages a resend request is answered with a gap fill over
everything. Without it TLC has a counterexample. The hypotheses hold in the passing runs that check the property
(`Windows` is empty in `files`, `"initiator"` is not in `Disconnecters` in `reactor`).

**SessionProofs.** The assumptions are those of `Session.tla`: the settings are records
of the right fields (`ConfigsAssumption`), an administrative message has no body
(`BodiesAssumption`), the bounds are numbers (`BoundsAssumption`), and an incoming
message is numbered from 1 and has a body exactly if it is an application message
(`IncomingAssumption`). `QueueAhead` is not inductive: inside a handler the count
of a message brings the expected number level with the first queued one, which
is why the queue is drained before the next message is read. So the argument
separates these facts about a state `s`:

- `Base(s)`: the types, `QueueFrom` (nothing queued below the expected number) and
  the completeness of the store. Every method leaves it behind, at any point.
- `QueueAfter(s)`: nothing queued at the expected number either. A handler starts
  from it; a handler that counts ends in `QueueFrom` only.
- `SeenOK(s)`: everything delivered is below the expected number. Inside a handler
  it weakens to `SeenUpTo`, between `fromApp` and the count.
- `Clean(s)`: a select transport's session without a connection is in no handler and has
  nothing of the connection left.

`IInv` is `Base /\ SeenOK /\ Clean`, and `QueueAfter` when no handler is in progress. The
lemmas follow the calls of the code from the leaves up. `Keeps(s, t)` says that a
method which only sends, resets or disconnects keeps the first three; each such method has a
`...Keeps` lemma and they compose by `KeepsTransitive`. `Done(s, t)` says the same
of a handler that may also have counted, and each `Next...` handler has such
a lemma. The actions are then one step each of the theorem `Inductive`.

Two theorems need to know more of a handler than that it keeps the invariant. For
`CountedInTurn`, `Stays(s, t)` says that the expected number and the logon flags are the
same, `Counts(s, t, m)` that `m` was counted if it was its turn, and each way to refuse a
message is shown to be one or the other, unless it ends the session. For
`RefusedLogonLeavesNumbers`, `Grows(s, t)` says that neither number went back: `nextLogon`
either takes the Logon (`TookLogon`) or `Grows`.

**RetransmitProofs.** `Retransmits` sends, for the numbers of a range in ascending order,
the stored message or a gap fill up to the next one resent. The lemmas order a finite set
of numbers (`AscendingOrder`), say which numbers begin a piece and what the piece is
(`RetransmitsPieces`), and that each piece ends where the next begins (`PieceReaches`,
`RetransmitsLead`). Induction enters only as the least counterexample among the numbers:
the library's theorem about well-founded orders that has no operator as a parameter.
`RetransmissionCovers` is then `StoreIsComplete` together with these.

**SessionPairProofs.** `Delivers` relates what an application sent with what the other
received, and says nothing of what is in between: the invariant `PInv` has to. For the
direction from `s` to `r` (`Dir`):

- `Numbering`: the store of `s` has each message of its application once, in the order
  they were sent, and `NoBody` under every other number;
- `UnderWay` and `Waiting`: what is on the connection or in the queue of `r` is
  `Genuine`, it stands for what `s` has stored under the number or numbers it carries: an
  application message has the stored body, a gap fill covers administrative numbers only;
- `Caught`: what `r` has delivered is what `s` stored below the number `r` expects;
- a Logout under way is numbered above everything sent before it and at or above what
  `r` expects (also in `UnderWay`). Without this `Caught` is not inductive: `nextLogout`
  counts the expected number whatever the Logout's own, and a Logout below it
  would take an application message's number for its own without `overtaken`.

A message that `r` delivers is then the next in the sender's store, and since the store is
complete and in order, the next of those sent. The lemmas follow the calls of the
code twice over, for the two parts a session plays. `Sent(o, t)`: between `o` and `t` the
session has stored administrative messages only, under new numbers, and transmitted
what is genuine. `Same(s, t)`, `Handled(s, t, m)`: it has received nothing, or has
delivered and counted `m`, or queued it. Every method has a `...Sent` lemma and every handler a
`...Handled` one; the `Dir...` lemmas turn them into preservation of a direction, and each
action of the pair is one step of `PNext`, which also shows the step of
`OrderedDelivery` it is. A process that dies inside a handler has passed the message
on and not counted it: the state it leaves differs from that of a restart before the message in what it
has sent (`UndoneSame`), the delivery it made is that of the next message due, and is a `CutShort`
(`SideDies`).

**SendQueueProofs.** `Stream` says where the wire, the offset and the queue are in the
sequence of messages sent, and is kept because one thread at a time has the writer's role
(`OneWriter`). `Bounded` for any number of senders rests on the session's lock
(`Locked`): a single sender can have pushed a message without having brought the
queue below the bound (`Past`), and gives up doing so only if there is no connection left
(`Failing`). `WakeNotLost` is its own strengthening together with those; `Owing` is what a
`disconnect()` has seen when it comes to set its flag.

**FileStoreProofs.** What the files may look like depends on how far a call has come, so
the invariants speak of the system call at the head of `todo`, and `Ordered` gives the
order in which they come: what follows the one just made is known from it. `Agreeing`
relates memory and files, `Timely` the session file and the numbering, `Placed` the header
and the body; each belongs to one theorem and is claimed only with that theorem's windows
closed. `Placed` has the reason why `reset()` is safe otherwise: a header is over a body
it does not belong to only between the two unlinks. `DurableStore` shows that each system
call is one step of `MessageStore`, or none, under the mapping of `FileStore`: the step
that the call under way may take. For this `Resetting` says what is still there at each unlink of
a `reset()` (the messages go with the header, the kept numbers after them), and `Opening` that
from `populateCache` to the end of `open()` the cache has the numbers of the file, so that
writing them back changes nothing.

**ReactorProofs.** `Tidy` (sets and drop queue hold each open socket once, with its own
serial number), `Bound` and `Registered` (connections, sessions and responders),
`Passing` (an event still to be handled is about a socket not closed since) and `Waking`
are kept by every method; between two of them `Registered` and `Attended` have an
exception for the one socket in hand. `Passing` is why a stale event is harmless: while the
loop runs only `Report` closes a socket, between two passes.

**ThreadedAcceptorProofs.** `Own` says what may name a descriptor, by where its thread
is; `Ctl` that there is one `stop()` at a time and what it has emptied when; `Sess`
relates sessions, connections and the registry; `Count` counts the connections that wait
to log on and, with them, the listeners that are past the look at the limit.
`StopIsComplete` needs `Own` and `Ctl` together: a thread that is not in the
table any more is one that ends by itself, and `stop()` waits for those.

**TimeRangeProofs.** The code computes with dates, weekdays and seconds, the
specification is a clock that strikes. `Struck` gives the date and time of the last strike
as a formula of the present moment (`StartDate`, `StartTime`), and `isInSameRange` is right
exactly when its two moments have the same last strike (`SameDaily`, `SameWeekly`). A
moment is a product of two unknowns, `SecondsPerDay * date + time`; the first lemmas say all
that is needed of it, and the others compare dates and times only.

Only model-checked:

- The liveness properties `PeerWatched`, `LogonTimesOut`, `CatchUp`, `SendReturns`,
  `DisconnectReturns`, `Reaped` and `StopReturns`: they need fairness and ENABLED, which
  TLAPS does not handle.
- `Framed` and `RefusedForSize`: what the search for a message finds in every stream of
  bytes is induction over data as well.
- `NoGapLeft` of `SessionPair`. It is false of some settings (section 5), and where it
  holds it is close to a liveness property: that a gap is always about to be closed, by a
  request, an answer or a Logon still under way. That no gap is ever passed over is proved
  (`CaughtUp`).

## 7. What is not modelled

In `Session`: `setNextSenderMsgSeqNum` and `RefreshOnLogon`, which take the store from
outside; IOExceptions of the store inside a handler; a `toAdmin` that throws; a Logon
without HeartBtInt in a session without a dictionary, for which `generateLogon` throws after
the reset was applied;
EndSeqNo 999999 of versions before FIX.4.2; messages numbered 0; interleavings of two
threads inside one handler, except at the rounds of `nextQueued`. A handler of a
message holds no lock throughout, so a send can fall into it at other points too, an
operator's `reset()` between the numbering and the storing of a message, and a new
connection between the two sections of `disconnect()`.

In `SessionPair`: a process that dies between the two calls of `persist()` (the message
stored and its number not counted: the number is given to another message, as if the
send had not happened, and nothing was written to the connection), and one that dies after a reset or a
send of a handler and before its next one; the files under such a crash are in `FileStore`.

In `FileStore`: failures inside `open()` and `reset()` other than crashes, a session
file with an unreadable time, and crashes of the host, where what matters is
`fdatasync` (`SyncFileStore`).

In `SendQueue`: direct writes and the busy-polling reader, which share nothing
beyond the socket.

In `Reactor`: `SocketInitiator`'s stop, `poll()` from the application's own loop, the
choice of the next host, a full wake-up pipe, and the Windows monitor.

In `ThreadedAcceptor`: a callback that is the first to call `stop()`, a thread that cannot
be created (`ThreadedSocketAcceptor.cpp:133` ignores the result), an exception from
`onInitialize`, and what the
sessions do with their messages beyond logging on and disconnecting.
`ThreadedSocketInitiator` has a table of threads of its own, with the same protocol
for ending them, and is not modelled.

In `Parser`: noise that contains the start of a message (`8=`), and the reads of initiators and of threaded connections, which use the same
parser without the two kinds of read. In `TimeRange`: local time.

Not at all: SQL stores, TLS, HTTP status page, logs, settings, field maps and
dictionaries, generated and vendored code (reasons in `PROJECT.json`). The larger
part of the repository's lines are generated message classes and the bindings for
other languages, which hold no state of the protocol.

## 8. Plan

Done, in this order: `Session` with its runs, `SessionProofs`, `SessionPair` with
`OrderedDelivery`, `FileStore` with `MessageStore`, `SendQueue`, `TimeRange`, `Parser`,
`Reactor`, `ThreadedAcceptor`; then the proofs about `SendQueue`, `FileStore`, `Reactor`,
`ThreadedAcceptor` and `TimeRange`, and the rest of `SessionProofs`; last, with the
handlers in a module of their own, the proofs about retransmission and about `SessionPair`.

To come, the most important first:

1. *Interleavings inside a handler.* The sections of `m_mutex` and of
   `SessionState`'s mutex as steps: `sendSequenced` against a `reset`,
   `generateRetransmits` against both, the two sections of `disconnect()` against
   a new connection. Property: a number is never given out twice in one numbering,
   and a new connection never loses its own state to the end of the old one.
2. *Initiators.* `Initiator::stop` and restart on both transports, and
   `ThreadedSocketInitiator`'s threads.
3. *Host crashes* in `FileStore`, with `SyncFileStore`.
4. *Proofs.* `NoGapLeft` for select transports of which at most one side sends
   NextExpectedMsgSeqNum: whatever waits in a queue has a request for the gap before it under
   way, or the answer.
