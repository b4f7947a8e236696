----------------------------- MODULE FileStore -----------------------------
(***************************************************************************)
(* The message store on files: src/C++/FileStore.cpp.  A call of the store *)
(* is a list of system calls, todo, and the process may crash before any   *)
(* of them: the files keep what was written, the memory is gone, and the   *)
(* next process opens the store over the files it finds.  The body and     *)
(* header files only grow; a message has the length of one, so that its    *)
(* offset is its place in the body.  Calls come one at a time, under the   *)
(* lock of SessionState.                                                   *)
(***************************************************************************)
EXTENDS Naturals, Sequences, FiniteSetsExt

CONSTANTS
  Messages,    \* what is stored
  Part,        \* the beginning of a message whose write was cut short
  Windows,     \* the crash windows open in this instance, see Crash
  MaxSeq,      \* bound: the highest number
  MaxBody,     \* bound: messages written to one body file
  MaxCrashes   \* bound: crashes of the process

ASSUME WindowsAssumption == Windows \subseteq {"torn", "unlinked", "unstamped"}
ASSUME PartAssumption == Part \notin Messages
ASSUME BoundsAssumption == MaxSeq \in Nat \ {0} /\ MaxBody \in Nat /\ MaxCrashes \in Nat

Names == {"body", "header", "seqnums", "session"}

VARIABLES
  files, \* what the four files hold: <<>> for an empty one, and for none
  there, \* the files that exist
  mem,   \* the open store: m_cache and m_offsets
  up,    \* the process runs, with its store
  todo,  \* the system calls the current call of the store has yet to make
  clock, \* the time
  stale, \* a write of the numbers has failed, and none has succeeded since
  began  \* the last time the files held the numbers 1 and 1

vars == <<files, there, mem, up, todo, clock, stale, began>>

-----------------------------------------------------------------------------
(* Reading the files *)

\* populateCache's reading of the header: the last entry of a number wins.  An
\* entry cut short runs into the next one.  If it was cut in its number, the two
\* make one entry with a number of neither; if later, it has a wrong place, and
\* what follows it is not read.
IndexFirst(h) == \* mutant: the first entry of a number wins
  [n \in {h[i].num : i \in DOMAIN h} |-> h[Min({i \in DOMAIN h : h[i].num = n})].at]
Index(h) ==
  LET cuts == {i \in DOMAIN h : h[i].cut = "place"}
      end == IF cuts = {} THEN Len(h) ELSE Min(cuts)
      read == {i \in 1..end : h[i].cut # "number" /\ ~(i > 1 /\ h[i - 1].cut = "number")}
      last(n) == Max({i \in read : h[i].num = n})
  IN [n \in {h[i].num : i \in read} |-> IF h[last(n)].cut = "no" THEN h[last(n)].at ELSE 0]

\* The numbers of a seqnums file, and of one that cannot be read.
NumbersOf(s) == IF s = <<>> THEN <<1, 1>> ELSE s

\* The numbers get() finds a message under, and the messages: a place that is
\* not in the body fails the read.
MessagesAt(b, places) ==
  [n \in {k \in DOMAIN places : places[k] \in DOMAIN b} |-> b[places[n]]]

\* MemoryStore::reset of m_cache, and m_offsets.clear().
Cleared(now) ==
  [sender |-> 1, target |-> 1, created |-> now, offsets |-> [n \in {} |-> n]]

-----------------------------------------------------------------------------
(* The calls of the store *)

Idle == up /\ todo = <<>>

Call(steps) == todo' = steps /\ UNCHANGED <<files, there, up, clock, stale>>

\* Session::persist: set() under the next number, and the number counted.
Persist(m) ==
  /\ Idle /\ mem.sender < MaxSeq /\ Len(files["body"]) < MaxBody
  /\ Call(<<[do |-> "body", msg |-> m],
            [do |-> "header", num |-> mem.sender, at |-> Len(files["body"]) + 1],
            [do |-> "count"]>>)
  /\ UNCHANGED mem

\* setNextSenderMsgSeqNum; setNextTargetMsgSeqNum and incrNextTargetMsgSeqNum.
SetNextSenderMsgSeqNum(n) ==
  /\ Idle /\ mem' = [mem EXCEPT !.sender = n]
  /\ Call(<<[do |-> "numbers"]>>)
SetNextTargetMsgSeqNum(n) ==
  /\ Idle /\ mem' = [mem EXCEPT !.target = n]
  /\ Call(<<[do |-> "numbers"]>>)

\* open(): the session file is stamped when it was missing.
OpenFiles ==
  <<[do |-> "load"],
    [do |-> "create", file |-> "body"], [do |-> "create", file |-> "header"],
    [do |-> "create", file |-> "seqnums"], [do |-> "create", file |-> "session"],
    [do |-> "rewrite"], [do |-> "rewrite"]>>
UnlinkFiles ==
  <<[do |-> "unlink", file |-> "body"], [do |-> "unlink", file |-> "header"],
    [do |-> "unlink", file |-> "seqnums"], [do |-> "unlink", file |-> "session"]>>

Reset ==
  /\ Idle /\ mem' = Cleared(clock)
  /\ Call(UnlinkFiles \o OpenFiles \o <<[do |-> "stamp"]>>)

Refresh ==
  /\ Idle /\ mem' = Cleared(clock)
  /\ Call(OpenFiles)

\* The constructor of the next process's store.
Start ==
  /\ ~up /\ up' = TRUE
  /\ mem' = Cleared(clock) /\ todo' = OpenFiles
  /\ UNCHANGED <<files, there, clock, stale>>

-----------------------------------------------------------------------------
(* The system calls *)

Doing(do) == up /\ todo # <<>> /\ Head(todo).do = do
Entry(cut) == [num |-> Head(todo).num, at |-> Head(todo).at, cut |-> cut]

WriteBody ==
  /\ Doing("body") /\ todo' = Tail(todo)
  /\ files' = [files EXCEPT !["body"] = Append(@, Head(todo).msg)]
  /\ UNCHANGED <<there, mem, up, clock, stale>>

WriteHeader ==
  /\ Doing("header") /\ todo' = Tail(todo)
  /\ files' = [files EXCEPT !["header"] = Append(@, Entry("no"))]
  /\ mem' = [mem EXCEPT !.offsets =
               [k \in DOMAIN @ \cup {Head(todo).num} |->
                  IF k = Head(todo).num THEN Head(todo).at ELSE @[k]]]
  /\ UNCHANGED <<there, up, clock, stale>>

\* incrNextSenderMsgSeqNum.
Count ==
  /\ Doing("count") /\ mem' = [mem EXCEPT !.sender = @ + 1]
  /\ Call(<<[do |-> "numbers"]>>)

\* setSeqNum, one write in place.
WriteNumbers ==
  /\ Doing("numbers") \/ Doing("rewrite")
  /\ todo' = Tail(todo) /\ stale' = FALSE
  /\ files' = [files EXCEPT !["seqnums"] = <<mem.sender, mem.target>>]
  /\ UNCHANGED <<there, mem, up, clock>>

\* setSession.
Stamp ==
  /\ Doing("stamp") /\ todo' = Tail(todo)
  /\ files' = [files EXCEPT !["session"] = <<mem.created>>]
  /\ UNCHANGED <<there, mem, up, clock, stale>>

Unlink ==
  /\ Doing("unlink") /\ todo' = Tail(todo)
  /\ files' = [files EXCEPT ![Head(todo).file] = <<>>]
  /\ there' = there \ {Head(todo).file}
  /\ UNCHANGED <<mem, up, clock, stale>>

\* populateCache: what the files say replaces what the cache was cleared to.
PopulateCache ==
  /\ Doing("load") /\ todo' = Tail(todo)
  /\ LET numbers == NumbersOf(files["seqnums"])
         session == files["session"]
     IN mem' = [sender |-> numbers[1], target |-> numbers[2],
                created |-> IF session = <<>> THEN mem.created ELSE session[1],
                offsets |-> Index(files["header"])]
  /\ UNCHANGED <<files, there, up, clock, stale>>

CreateTruncating == \* mutant: open() opens the files anew, with "w+"
  /\ Doing("create")
  /\ there' = there \cup {Head(todo).file}
  /\ files' = [files EXCEPT ![Head(todo).file] = <<>>]
  /\ todo' = Tail(todo)
  /\ UNCHANGED <<mem, up, clock, stale>>
CreateStamping == \* mutant: open() stamps whatever session file it opens
  /\ Doing("create")
  /\ there' = there \cup {Head(todo).file}
  /\ todo' = IF Head(todo).file = "session" THEN <<[do |-> "stamp"]>> \o Tail(todo) ELSE Tail(todo)
  /\ mem' = IF Head(todo).file = "session" THEN [mem EXCEPT !.created = clock] ELSE mem
  /\ UNCHANGED <<files, up, clock, stale>>

\* open()'s fopen of a file, new or not.
Create ==
  /\ Doing("create")
  /\ there' = there \cup {Head(todo).file}
  /\ todo' = IF Head(todo).file = "session" /\ "session" \notin there
             THEN <<[do |-> "stamp"]>> \o Tail(todo) ELSE Tail(todo)
  /\ UNCHANGED <<files, mem, up, clock, stale>>

-----------------------------------------------------------------------------
(* Failures and crashes *)

\* A write fails and IOException leaves the call: a message may be in the body
\* in part, and the numbers are counted in memory only.
Fail ==
  /\ up /\ todo # <<>> /\ Head(todo).do \in {"body", "header", "numbers"}
  /\ todo' = <<>>
  /\ stale' = (stale \/ Head(todo).do = "numbers")
  /\ \/ UNCHANGED files
     \/ /\ Head(todo).do = "body"
        /\ files' = [files EXCEPT !["body"] = Append(@, Part)]
     \/ /\ Head(todo).do = "header" /\ "torn" \in Windows
        /\ \E cut \in {"number", "place"} :
             files' = [files EXCEPT !["header"] = Append(@, Entry(cut))]
  /\ UNCHANGED <<there, mem, up, clock>>

\* The process crashes.  Three windows are opened by name: an entry of the header
\* is written in part; reset() has unlinked the body and not yet the header; the
\* session file is created and its time not yet written.
Crash ==
  /\ up /\ clock < MaxCrashes
  /\ "body" \in there \/ "header" \notin there \/ "unlinked" \in Windows
  /\ "session" \notin there \/ files["session"] # <<>> \/ "unstamped" \in Windows
  /\ up' = FALSE /\ todo' = <<>> /\ mem' = Cleared(0)
  /\ clock' = clock + 1 /\ stale' = FALSE
  /\ \/ UNCHANGED files
     \/ /\ Doing("body")
        /\ files' = [files EXCEPT !["body"] = Append(@, Part)]
     \/ /\ Doing("header") /\ "torn" \in Windows
        /\ \E cut \in {"number", "place"} :
             files' = [files EXCEPT !["header"] = Append(@, Entry(cut))]
  /\ UNCHANGED there

Init ==
  /\ files = [f \in Names |-> <<>>] /\ there = {}
  /\ mem = Cleared(0) /\ up = FALSE /\ todo = <<>>
  /\ clock = 0 /\ stale = FALSE /\ began = 0

Step ==
  \/ \E m \in Messages : Persist(m)
  \/ \E n \in 1..MaxSeq : SetNextSenderMsgSeqNum(n) \/ SetNextTargetMsgSeqNum(n)
  \/ Reset \/ Refresh \/ Start
  \/ WriteBody \/ WriteHeader \/ Count \/ WriteNumbers \/ Stamp \/ Unlink \/ PopulateCache \/ Create
  \/ Fail \/ Crash

Next ==
  /\ Step
  /\ began' = IF NumbersOf(files'["seqnums"]) = <<1, 1>> THEN clock' ELSE began

Spec == Init /\ [][Next]_vars

-----------------------------------------------------------------------------
(* Properties *)

\* The call of the store under way.
CallUnderWay ==
  CASE Doing("body") -> [op |-> "set", num |-> todo[2].num, msg |-> Head(todo).msg]
    [] Doing("header") ->
         [op |-> "set", num |-> Head(todo).num, msg |-> files["body"][Head(todo).at]]
    [] Doing("count") -> [op |-> "count"]
    [] Doing("numbers") -> [op |-> "numbers"]
    [] Doing("unlink") -> [op |-> "reset"]
    [] OTHER -> [op |-> "none"]

\* The store as its callers see it: the numbers of the open store are in its cache,
\* and what outlives it is what populateCache would make of the files.
Stored ==
  INSTANCE MessageStore WITH
    Numbers <- 1..MaxSeq,
    up <- up,
    next <- IF up /\ ~Doing("load") THEN <<mem.sender, mem.target>>
            ELSE NumbersOf(files["seqnums"]),
    kept <- NumbersOf(files["seqnums"]),
    messages <- MessagesAt(files["body"], Index(files["header"])),
    call <- CallUnderWay

\* Whatever crash or failed write cuts a call short, what a reopened store would find
\* is what the calls made it: a message is found under the number persist() gave it,
\* and only there; none is lost, and the numbers never go back, except by a reset or
\* by the call that sets them; and reopening and refresh() change nothing.
Durable == Stored!Spec

\* Between two calls a store reopened over the files would answer as the running
\* one does: the same messages under the same numbers and the same next numbers,
\* unless the last write of those failed.
ReopenAgrees ==
  Idle =>
    /\ MessagesAt(files["body"], mem.offsets) = MessagesAt(files["body"], Index(files["header"]))
    /\ ~stale => NumbersOf(files["seqnums"]) = <<mem.sender, mem.target>>

\* The creation time a store reports is not later than the first number of its
\* numbering was used: a session that missed its end while the process was down is
\* recognised and reset (Session::checkSessionTime).
CreationKept == Idle => mem.created <= began

=============================================================================
