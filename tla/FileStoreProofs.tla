-------------------------- MODULE FileStoreProofs --------------------------
(***************************************************************************)
(* Proofs about FileStore, for any messages, bounds and number of crashes. *)
(* Each result holds as long as the crash windows that break it are        *)
(* closed, and the theorem names them.                                     *)
(*                                                                         *)
(* Why each holds depends on how far a call has come, and the invariants   *)
(* say it by the system call at the head of todo.  That needs the order of *)
(* the system calls, Ordered: what follows the one just made is then known *)
(* from the one just made.                                                 *)
(***************************************************************************)
EXTENDS FileStore, SequenceTheorems, WellFoundedInduction, TLAPS

-----------------------------------------------------------------------------
(* The invariants *)

Numbers == 1..MaxSeq
Entries == [num : Numbers, at : Nat, cut : {"no", "number", "place"}]

\* The system calls a call of the store may have to make.
Steps ==
  [do : {"body"}, msg : Messages] \cup [do : {"header"}, num : Numbers, at : Nat]
    \cup [do : {"count", "numbers", "load", "rewrite", "stamp"}]
    \cup [do : {"create", "unlink"}, file : Names]

FilesOK ==
  /\ DOMAIN files = Names
  /\ files["body"] \in Seq(Messages \cup {Part}) /\ files["header"] \in Seq(Entries)
  /\ files["seqnums"] = <<>> \/ files["seqnums"] \in Numbers \X Numbers
  /\ files["session"] \in Seq(Nat)
MemOK ==
  /\ DOMAIN mem = {"sender", "target", "created", "offsets"}
  /\ mem.sender \in Numbers /\ mem.target \in Numbers /\ mem.created \in Nat
RestOK ==
  /\ todo \in Seq(Steps) /\ up \in BOOLEAN /\ (~up => todo = <<>>)
  /\ clock \in Nat /\ stale \in BOOLEAN /\ began \in Nat
TypeOK == FilesOK /\ MemOK /\ RestOK

\* The next system call, and whether it is one on the file.
At(do) == todo # <<>> /\ Head(todo).do = do
On(do, file) == At(do) /\ Head(todo).file = file

\* What may follow a system call in todo, and which may be the last one.
Follows(e, f) ==
  /\ e.do \in {"body", "header", "unlink", "load", "create", "rewrite", "stamp"}
  /\ e.do = "body" => f.do = "header"
  /\ e.do = "header" => f.do = "count"
  /\ e.do = "unlink" =>
       IF e.file = "session" THEN f.do = "load"
       ELSE f.do = "unlink" /\ f.file = CASE e.file = "body" -> "header"
                                          [] e.file = "header" -> "seqnums"
                                          [] e.file = "seqnums" -> "session"
  /\ e.do = "load" => f.do = "create" /\ f.file = "body"
  /\ e.do = "create" =>
       IF e.file = "session" THEN f.do = "rewrite"
       ELSE f.do = "create" /\ f.file = CASE e.file = "body" -> "header"
                                          [] e.file = "header" -> "seqnums"
                                          [] e.file = "seqnums" -> "session"
  /\ e.do = "rewrite" => f.do \in {"rewrite", "stamp"}
  /\ e.do = "stamp" => f.do = "rewrite"
Final(e) == e.do \in {"count", "numbers", "rewrite", "stamp"}

\* The system calls still to make come in the order that open(), reset() and the
\* other calls of the store make them in.
Planned(steps) ==
  /\ steps \in Seq(Steps)
  /\ \A i \in 1..(Len(steps) - 1) : Follows(steps[i], steps[i + 1])
  /\ steps # <<>> => Final(steps[Len(steps)])
Ordered == Planned(todo) /\ (At("body") \/ At("header") \/ At("count") => mem.sender < MaxSeq)

\* populateCache has been called, or needs not to.
Loaded == up /\ ~At("unlink") /\ ~At("load")

\* With no entry of the header cut short, the memory agrees with the files from
\* then on, but for a number that is to be written or whose write has failed.
Whole == \A i \in DOMAIN files["header"] : files["header"][i].cut = "no"
Agreeing ==
  /\ Whole
  /\ Loaded => mem.offsets = Index(files["header"])
  /\ Loaded /\ ~stale /\ ~At("numbers") => NumbersOf(files["seqnums"]) = <<mem.sender, mem.target>>

\* The session file is not later than the numbering, and while it is empty, from the
\* unlink of reset(), or from the beginning, to its stamp, the numbers are 1 and 1.
Timely ==
  /\ began <= clock /\ mem.created <= clock
  /\ NumbersOf(files["seqnums"]) = <<1, 1>> => began = clock
  /\ files["session"] # <<>> => files["session"][1] <= began
  /\ files["session"] = <<>> =>
       /\ NumbersOf(files["seqnums"]) = <<1, 1>>
       /\ up => At("load") \/ At("create") \/ At("stamp")
       /\ "session" \in there => At("stamp")
  /\ On("unlink", "session") => files["seqnums"] = <<>>
  /\ Loaded => mem.created <= began

\* Every entry of the header is about a message of the body, except between the two
\* unlinks; a message is in the body before its entry is written.
Placed ==
  /\ Whole
  /\ ~On("unlink", "header") =>
       \A i \in DOMAIN files["header"] : files["header"][i].at \in 1..Len(files["body"])
  /\ On("unlink", "header") =>
       files["body"] = <<>> /\ "body" \notin there
  /\ "header" \notin there => files["header"] = <<>>
  /\ Loaded /\ ~On("create", "body") /\ ~On("create", "header") => "header" \in there
  /\ On("unlink", "body") => "header" \in there
  /\ On("unlink", "header") => "header" \in there
  /\ At("body") => todo[2].at = Len(files["body"]) + 1
  /\ At("header") => /\ Head(todo).at = Len(files["body"]) /\ files["body"] # <<>>
                     /\ files["body"][Len(files["body"])] \in Messages

\* While the files are unlinked the cache stays cleared, and they go in order; from
\* the load to the end of open() the cache has the numbers of the file, so that open()
\* writes back what it has read.
Resetting ==
  /\ At("unlink") => mem.sender = 1 /\ mem.target = 1
  /\ On("unlink", "seqnums") \/ On("unlink", "session") => files["header"] = <<>>
  /\ On("unlink", "session") => files["seqnums"] = <<>>
Opening ==
  At("create") \/ At("rewrite") \/ At("stamp") =>
    NumbersOf(files["seqnums"]) = <<mem.sender, mem.target>>

IInv ==
  /\ TypeOK /\ Ordered /\ Resetting /\ Opening
  /\ "torn" \notin Windows => Agreeing
  /\ "unstamped" \notin Windows => Timely
  /\ {"torn", "unlinked"} \cap Windows = {} => Placed

-----------------------------------------------------------------------------
(* The order of the system calls *)

\* A call that has made its next system call has the rest of them to make, in order.
LEMMA TailPlanned ==
  ASSUME NEW steps, Planned(steps), steps # <<>>
  PROVE  /\ Head(steps) \in Steps /\ Planned(Tail(steps))
         /\ Tail(steps) = <<>> => Final(Head(steps))
         /\ Tail(steps) # <<>> =>
              Follows(Head(steps), Head(Tail(steps))) /\ Head(Tail(steps)) = steps[2]
<1> DEFINE rest == Tail(steps)
<1>1. /\ steps \in Seq(Steps) /\ rest \in Seq(Steps) /\ Len(rest) = Len(steps) - 1
      /\ Len(steps) \in Nat \ {0} /\ Head(steps) = steps[1] /\ steps[1] \in Steps
      /\ \A i \in 1..Len(rest) : rest[i] = steps[i + 1]
  BY HeadTailProperties, LenProperties, ElementOfSeq DEF Planned
<1> HIDE DEF rest
<1>2. rest = <<>> => Len(steps) = 1
  BY <1>1
<1>3. rest # <<>> => Len(rest) \in Nat \ {0} /\ Head(rest) = rest[1] /\ rest[1] = steps[2]
  BY <1>1, EmptySeq, HeadTailProperties, LenProperties
<1>4. \A i \in 1..(Len(steps) - 1) : Follows(steps[i], steps[i + 1])
  BY DEF Planned
<1>5. Final(steps[Len(steps)])
  BY DEF Planned
<1>6. \A i \in 1..(Len(rest) - 1) : Follows(rest[i], rest[i + 1])
  <2> TAKE i \in 1..(Len(rest) - 1)
  <2>1. i \in 1..Len(rest) /\ i + 1 \in 1..Len(rest) /\ i + 1 \in 1..(Len(steps) - 1)
    BY <1>1
  <2> QED BY <2>1, <1>1, <1>4
<1>7. rest # <<>> => Final(rest[Len(rest)])
  <2> SUFFICES ASSUME rest # <<>> PROVE Final(rest[Len(rest)])
    OBVIOUS
  <2>1. Len(rest) \in 1..Len(rest) /\ rest[Len(rest)] = steps[Len(steps)]
    BY <1>1, <1>3
  <2> QED BY <2>1, <1>5
<1>8. rest # <<>> => Follows(steps[1], steps[2])
  <2>1. rest # <<>> => 1 \in 1..(Len(steps) - 1)
    BY <1>1, <1>3
  <2> QED BY <2>1, <1>4
<1>9. Planned(rest)
  BY <1>1, <1>6, <1>7 DEF Planned
<1> QED BY <1>1, <1>2, <1>3, <1>5, <1>8, <1>9 DEF rest

\* What is next after a system call of each kind.
LEMMA NextStep ==
  ASSUME Ordered, todo # <<>>, todo' = Tail(todo)
  PROVE  /\ Planned(todo')
         /\ At("body") => At("header")' /\ Head(todo') = todo[2]
         /\ At("header") => At("count")'
         /\ At("numbers") => todo' = <<>>
         /\ On("unlink", "body") => On("unlink", "header")'
         /\ On("unlink", "header") => On("unlink", "seqnums")'
         /\ On("unlink", "seqnums") => On("unlink", "session")'
         /\ On("unlink", "session") => At("load")'
         /\ At("load") => On("create", "body")'
         /\ On("create", "body") => On("create", "header")'
         /\ On("create", "header") => On("create", "seqnums")'
         /\ On("create", "seqnums") => On("create", "session")'
         /\ On("create", "session") => At("rewrite")'
         /\ At("rewrite") => todo' = <<>> \/ At("rewrite")' \/ At("stamp")'
         /\ At("stamp") => todo' = <<>> \/ At("rewrite")'
<1>1. /\ Planned(todo')
      /\ todo' = <<>> => Final(Head(todo))
      /\ todo' # <<>> => Follows(Head(todo), Head(todo')) /\ Head(todo') = todo[2]
  BY TailPlanned DEF Ordered
<1> QED BY <1>1 DEF At, On, Follows, Final

\* The lists that the calls of the store begin with.
LEMMA ShortPlans ==
  /\ Planned(<<>>)
  /\ Planned(<<[do |-> "numbers"]>>)
  /\ \A m \in Messages, n \in Numbers, k \in Nat :
       Planned(<<[do |-> "body", msg |-> m], [do |-> "header", num |-> n, at |-> k],
                 [do |-> "count"]>>)
<1>1. Planned(<<>>)
  BY EmptySeq DEF Planned
<1>2. Planned(<<[do |-> "numbers"]>>)
  BY DEF Planned, Steps, Final, Follows
<1>3. ASSUME NEW m \in Messages, NEW n \in Numbers, NEW k \in Nat
      PROVE  Planned(<<[do |-> "body", msg |-> m], [do |-> "header", num |-> n, at |-> k],
                       [do |-> "count"]>>)
  <2> DEFINE b == [do |-> "body", msg |-> m]
             h == [do |-> "header", num |-> n, at |-> k]
             c == [do |-> "count"]
  <2>1. b \in Steps /\ h \in Steps /\ c \in Steps
    BY DEF Steps
  <2>2. Follows(b, h) /\ Follows(h, c) /\ Final(c)
    BY DEF Follows, Final
  <2> HIDE DEF b, h, c
  <2>3. Planned(<<b, h, c>>)
    BY <2>1, <2>2 DEF Planned
  <2> QED BY <2>3 DEF b, h, c
<1> QED BY <1>1, <1>2, <1>3

\* open() is a plan that begins with the load of what there is.
LEMMA OpenPlanned == Planned(OpenFiles) /\ OpenFiles # <<>> /\ Head(OpenFiles).do = "load"
<1> DEFINE a == [do |-> "load"]
           b == [do |-> "create", file |-> "body"]
           c == [do |-> "create", file |-> "header"]
           d == [do |-> "create", file |-> "seqnums"]
           e == [do |-> "create", file |-> "session"]
           f == [do |-> "rewrite"]
<1>1. a \in Steps /\ b \in Steps /\ c \in Steps /\ d \in Steps /\ e \in Steps /\ f \in Steps
  BY DEF Steps, Names
<1>2. /\ Follows(a, b) /\ Follows(b, c) /\ Follows(c, d) /\ Follows(d, e) /\ Follows(e, f)
      /\ Follows(f, f) /\ Final(f) /\ a.do = "load"
  BY DEF Follows, Final
<1>3. OpenFiles = <<a, b, c, d, e, f, f>>
  BY DEF OpenFiles
<1> HIDE DEF a, b, c, d, e, f
<1>4. Planned(<<a, b, c, d, e, f, f>>)
  BY <1>1, <1>2 DEF Planned
<1> QED BY <1>2, <1>3, <1>4

\* reset() is a plan that begins with the unlink of the body.
LEMMA ResetPlanned ==
  LET steps == UnlinkFiles \o OpenFiles \o <<[do |-> "stamp"]>>
  IN Planned(steps) /\ steps # <<>> /\ Head(steps) = [do |-> "unlink", file |-> "body"]
<1> DEFINE p == [do |-> "unlink", file |-> "body"]
           q == [do |-> "unlink", file |-> "header"]
           r == [do |-> "unlink", file |-> "seqnums"]
           t == [do |-> "unlink", file |-> "session"]
           a == [do |-> "load"]
           b == [do |-> "create", file |-> "body"]
           c == [do |-> "create", file |-> "header"]
           d == [do |-> "create", file |-> "seqnums"]
           e == [do |-> "create", file |-> "session"]
           f == [do |-> "rewrite"]
           g == [do |-> "stamp"]
<1>1. /\ a \in Steps /\ b \in Steps /\ c \in Steps /\ d \in Steps /\ e \in Steps /\ f \in Steps
      /\ p \in Steps /\ q \in Steps /\ r \in Steps /\ t \in Steps /\ g \in Steps
  BY DEF Steps, Names
<1>2. /\ Follows(p, q) /\ Follows(q, r) /\ Follows(r, t) /\ Follows(t, a)
      /\ Follows(a, b) /\ Follows(b, c) /\ Follows(c, d) /\ Follows(d, e) /\ Follows(e, f)
      /\ Follows(f, f) /\ Follows(f, g) /\ Final(g)
  BY DEF Follows, Final
<1>3. UnlinkFiles = <<p, q, r, t>> /\ OpenFiles = <<a, b, c, d, e, f, f>>
  BY DEF UnlinkFiles, OpenFiles
<1> HIDE DEF a, b, c, d, e, f, g, p, q, r, t
<1> DEFINE u == <<p, q, r, t>> \o <<a, b, c, d, e, f, f>>
           v == <<p, q, r, t, a, b, c, d, e, f, f>>
           all == u \o <<g>>
           w == <<p, q, r, t, a, b, c, d, e, f, f, g>>
<1>4. u = v
  <2>1. /\ u \in Seq(Steps) /\ Len(u) = 11 /\ v \in Seq(Steps) /\ Len(v) = 11
        /\ u[1] = p /\ u[2] = q /\ u[3] = r /\ u[4] = t
        /\ u[5] = a /\ u[6] = b /\ u[7] = c /\ u[8] = d /\ u[9] = e /\ u[10] = f /\ u[11] = f
    BY <1>1
  <2>2. \A i \in 1..11 : u[i] = v[i]
    BY <2>1
  <2> QED BY <2>1, <2>2, SeqEqual
<1>5. all = w
  <2>1. v \in Seq(Steps) /\ Len(v) = 11 /\ <<g>> \in Seq(Steps) /\ Len(<<g>>) = 1
    BY <1>1
  <2>2. /\ all \in Seq(Steps) /\ Len(all) = 12 /\ all[12] = g
        /\ \A i \in 1..11 : all[i] = v[i]
    BY <2>1, <1>4, ConcatProperties
  <2>3. w \in Seq(Steps) /\ Len(w) = 12 /\ w[12] = g /\ \A i \in 1..11 : w[i] = v[i]
    BY <1>1
  <2> HIDE DEF all, w, u, v
  <2>4. \A i \in 1..12 : all[i] = w[i]
    BY <2>2, <2>3
  <2> QED BY <2>2, <2>3, <2>4, SeqEqual
<1>6. Planned(w) /\ w # <<>> /\ Head(w) = p
  BY <1>1, <1>2 DEF Planned
<1>7. UnlinkFiles \o OpenFiles \o <<g>> = all
  BY <1>3
<1> HIDE DEF all, w, u, v
<1> QED BY <1>5, <1>6, <1>7 DEF g, p

\* A stamp before a rewrite of the numbers is a plan again.
LEMMA StampPlanned ==
  ASSUME NEW steps, Planned(steps), steps # <<>>, Head(steps).do = "rewrite"
  PROVE  LET all == <<[do |-> "stamp"]>> \o steps
         IN Planned(all) /\ all # <<>> /\ Head(all).do = "stamp"
<1> DEFINE g == [do |-> "stamp"]
           all == <<g>> \o steps
<1>1. g \in Steps /\ g.do = "stamp"
  BY DEF Steps
<1>2. steps \in Seq(Steps) /\ Len(steps) \in Nat \ {0} /\ Head(steps) = steps[1]
  BY HeadTailProperties, LenProperties, EmptySeq DEF Planned
<1>3. Follows(g, steps[1])
  BY <1>1, <1>2 DEF Follows
<1> HIDE DEF g
<1>4. /\ all \in Seq(Steps) /\ Len(all) = Len(steps) + 1 /\ all[1] = g
      /\ \A i \in 1..Len(steps) : all[i + 1] = steps[i]
  BY <1>1, <1>2
<1> HIDE DEF all
<1>5. all # <<>> /\ Head(all) = g
  BY <1>2, <1>4
<1>6. \A i \in 1..(Len(all) - 1) : Follows(all[i], all[i + 1])
  <2> TAKE i \in 1..(Len(all) - 1)
  <2>1. CASE i = 1
    BY <2>1, <1>2, <1>3, <1>4
  <2>2. CASE i # 1
    <3>1. i - 1 \in 1..(Len(steps) - 1) /\ i \in 1..Len(steps) /\ i - 1 \in 1..Len(steps)
      BY <2>2, <1>2, <1>4
    <3>2. Follows(steps[i - 1], steps[i - 1 + 1])
      BY <3>1 DEF Planned
    <3>3. all[i - 1 + 1] = steps[i - 1] /\ all[i + 1] = steps[i] /\ i - 1 + 1 = i
      BY <3>1, <1>4
    <3> QED BY <3>2, <3>3
  <2> QED BY <2>1, <2>2
<1>7. Final(all[Len(all)])
  <2>1. Len(steps) \in 1..Len(steps) /\ Final(steps[Len(steps)])
    BY <1>2 DEF Planned
  <2> QED BY <2>1, <1>2, <1>4
<1>8. Planned(all)
  BY <1>4, <1>6, <1>7 DEF Planned
<1> QED BY <1>1, <1>5, <1>8 DEF all, g

-----------------------------------------------------------------------------
(* The header *)

\* A set of natural numbers with a bound has a maximum, and it is what Max gives.
LEMMA MaxExists ==
  ASSUME NEW T \in SUBSET Nat, T # {}, NEW b \in Nat, \A x \in T : x <= b
  PROVE  Max(T) \in T /\ \A y \in T : y <= Max(T)
<1> DEFINE U == {b - x : x \in T}
<1>1. U \subseteq Nat /\ U # {}
  OBVIOUS
<1>2. IsWellFoundedOn(OpToRel(<, Nat), Nat)
  BY NatLessThanWellFounded
<1>3. PICK u \in U : \A y \in U : ~(<<y, u>> \in OpToRel(<, Nat))
  BY <1>1, <1>2, WFMin
<1>4. PICK m \in T : u = b - m
  OBVIOUS
<1>5. \A y \in T : y <= m
  <2> TAKE y \in T
  <2>1. b - y \in Nat /\ b - y \in U /\ u \in Nat
    BY <1>1
  <2>2. ~(b - y < u)
    BY <2>1, <1>3 DEF OpToRel
  <2> QED BY <2>2, <1>4
<1>6. \E x \in T : \A y \in T : x >= y
  BY <1>5
<1> QED BY <1>6 DEF Max

\* The one element that is not below any is what Max gives.
LEMMA MaxIs ==
  ASSUME NEW T \in SUBSET Nat, NEW m \in T, \A y \in T : y <= m
  PROVE  Max(T) = m
<1>1. Max(T) \in T /\ \A y \in T : y <= Max(T)
  BY MaxExists
<1>2. Max(T) \in Nat /\ m \in Nat /\ Max(T) <= m /\ m <= Max(T)
  BY <1>1
<1> QED BY <1>2

\* The entry that counts for a number.
LastOf(h, n) == Max({i \in DOMAIN h : h[i].num = n})
NumsOf(h) == {h[i].num : i \in DOMAIN h}
WholeHeader(h) == h \in Seq(Entries) /\ \A i \in DOMAIN h : h[i].cut = "no"

\* The last entry for a number is one of its entries.
LEMMA LastEntry ==
  ASSUME NEW h, WholeHeader(h), NEW n \in NumsOf(h)
  PROVE  LastOf(h, n) \in DOMAIN h /\ h[LastOf(h, n)].num = n
<1> DEFINE T == {i \in DOMAIN h : h[i].num = n}
<1>1. T \in SUBSET Nat /\ T # {} /\ Len(h) \in Nat /\ \A x \in T : x <= Len(h)
  BY DEF WholeHeader, NumsOf
<1>2. Max(T) \in T
  <2> HIDE DEF T
  <2> QED BY <1>1, MaxExists
<1> QED BY <1>2 DEF LastOf

\* A header without a cut has, for each of its numbers, the place in the last entry.
LEMMA IndexOfWhole ==
  ASSUME NEW h, WholeHeader(h)
  PROVE  Index(h) = [n \in NumsOf(h) |-> h[LastOf(h, n)].at]
<1> DEFINE cuts == {i \in DOMAIN h : h[i].cut = "place"}
           end == IF cuts = {} THEN Len(h) ELSE Min(cuts)
           read == {i \in 1..end : h[i].cut # "number" /\ ~(i > 1 /\ h[i - 1].cut = "number")}
           last(n) == Max({i \in read : h[i].num = n})
<1>1. cuts = {}
  BY DEF WholeHeader
<1>2. end = Len(h) /\ 1..end = DOMAIN h
  BY <1>1 DEF WholeHeader
<1>3. read = DOMAIN h
  <2> SUFFICES ASSUME NEW i \in DOMAIN h PROVE h[i].cut # "number" /\ ~(i > 1 /\ h[i - 1].cut = "number")
    BY <1>2
  <2>1. i \in 1..Len(h) /\ (i > 1 => i - 1 \in 1..Len(h)) /\ DOMAIN h = 1..Len(h)
    BY DEF WholeHeader
  <2> QED BY <2>1 DEF WholeHeader
<1>4. \A n : last(n) = LastOf(h, n)
  BY <1>3 DEF LastOf
<1>5. Index(h) = [n \in {h[i].num : i \in read} |-> IF h[last(n)].cut = "no" THEN h[last(n)].at ELSE 0]
  BY DEF Index
<1> HIDE DEF cuts, end, read, last
<1>6. Index(h) = [n \in NumsOf(h) |-> IF h[last(n)].cut = "no" THEN h[last(n)].at ELSE 0]
  BY <1>3, <1>5 DEF NumsOf
<1>7. \A n \in NumsOf(h) : h[last(n)].cut = "no"
  BY <1>4, LastEntry DEF WholeHeader
<1> QED BY <1>4, <1>6, <1>7

\* One more entry gives its number a place and leaves the others alone.
LEMMA IndexOfAppend ==
  ASSUME NEW h, WholeHeader(h), NEW e \in Entries, e.cut = "no"
  PROVE  /\ WholeHeader(Append(h, e))
         /\ Index(Append(h, e)) =
              [k \in DOMAIN Index(h) \cup {e.num} |-> IF k = e.num THEN e.at ELSE Index(h)[k]]
<1> DEFINE g == Append(h, e)
<1>1. /\ h \in Seq(Entries) /\ g \in Seq(Entries) /\ Len(h) \in Nat /\ Len(g) = Len(h) + 1
      /\ g[Len(h) + 1] = e /\ DOMAIN h = 1..Len(h) /\ DOMAIN g = 1..(Len(h) + 1)
      /\ \A i \in DOMAIN h : g[i] = h[i]
  BY AppendProperties, LenProperties DEF WholeHeader
<1> HIDE DEF g
<1>2. WholeHeader(g)
  BY <1>1 DEF WholeHeader
<1>3. NumsOf(g) = NumsOf(h) \cup {e.num}
  <2>1. DOMAIN g = DOMAIN h \cup {Len(h) + 1}
    BY <1>1
  <2> QED BY <1>1, <2>1 DEF NumsOf
<1>4. LastOf(g, e.num) = Len(h) + 1
  <2> DEFINE T == {i \in DOMAIN g : g[i].num = e.num}
  <2>1. T \in SUBSET Nat /\ Len(h) + 1 \in T /\ \A y \in T : y <= Len(h) + 1
    BY <1>1
  <2> HIDE DEF T
  <2>2. Max(T) = Len(h) + 1
    BY <2>1, MaxIs
  <2> QED BY <2>2 DEF LastOf, T
<1>5. ASSUME NEW k \in NumsOf(h), k # e.num PROVE LastOf(g, k) = LastOf(h, k)
  <2>1. {i \in DOMAIN g : g[i].num = k} = {i \in DOMAIN h : h[i].num = k}
    BY <1>1, <1>5
  <2> QED BY <2>1 DEF LastOf
<1>6. ASSUME NEW k \in NumsOf(h), k # e.num PROVE g[LastOf(g, k)].at = h[LastOf(h, k)].at
  BY <1>1, <1>5, <1>6, LastEntry
<1>7. Index(g) = [k \in NumsOf(g) |-> g[LastOf(g, k)].at]
  BY <1>2, IndexOfWhole
<1>8. Index(h) = [k \in NumsOf(h) |-> h[LastOf(h, k)].at]
  BY IndexOfWhole
<1>9. \A k \in NumsOf(g) : g[LastOf(g, k)].at = IF k = e.num THEN e.at ELSE Index(h)[k]
  BY <1>1, <1>3, <1>4, <1>6, <1>8
<1> QED BY <1>2, <1>3, <1>7, <1>8, <1>9 DEF g

\* The place of an entry that counts is the place of some entry.
LEMMA IndexPlaces ==
  ASSUME NEW h, WholeHeader(h), NEW k \in DOMAIN Index(h)
  PROVE  k \in Numbers /\ \E i \in DOMAIN h : Index(h)[k] = h[i].at
<1>1. k \in NumsOf(h) /\ Index(h)[k] = h[LastOf(h, k)].at
  BY IndexOfWhole
<1>2. PICK i \in DOMAIN h : k = h[i].num
  BY <1>1 DEF NumsOf
<1>3. h \in Seq(Entries) /\ i \in 1..Len(h)
  BY DEF WholeHeader
<1>4. h[i] \in Entries
  BY <1>3, ElementOfSeq
<1>5. k \in Numbers
  BY <1>2, <1>4 DEF Entries
<1> QED BY <1>1, <1>5, LastEntry

\* An empty header has an empty index.
LEMMA IndexOfNone == WholeHeader(<<>>) /\ Index(<<>>) = [n \in {} |-> n]
<1>1. WholeHeader(<<>>) /\ DOMAIN <<>> = {}
  BY EmptySeq DEF WholeHeader
<1>2. NumsOf(<<>>) = {}
  BY <1>1 DEF NumsOf
<1> QED BY <1>1, <1>2, IndexOfWhole

-----------------------------------------------------------------------------
(* Types and the order of the system calls *)

\* The kind of a system call decides which fields it has.
LEMMA StepFields ==
  ASSUME NEW e \in Steps
  PROVE  /\ e.do = "body" => e.msg \in Messages
         /\ e.do = "header" => e.num \in Numbers /\ e.at \in Nat
         /\ e.do \in {"create", "unlink"} => e.file \in Names
BY DEF Steps

\* Every step but Create, whatever else it does, leaves a list that is in order.
LEMMA CallsOrdered ==
  ASSUME TypeOK, Ordered, Step
  PROVE  Planned(todo')
<1>1. ASSUME NEW m \in Messages, Persist(m) PROVE Planned(todo')
  <2>1. mem.sender \in Numbers /\ Len(files["body"]) + 1 \in Nat
    BY LenProperties DEF TypeOK, MemOK, FilesOK
  <2> QED BY <1>1, <2>1, ShortPlans DEF Persist, Call
<1>2. ASSUME NEW n \in 1..MaxSeq, SetNextSenderMsgSeqNum(n) \/ SetNextTargetMsgSeqNum(n)
      PROVE  Planned(todo')
  BY <1>2, ShortPlans DEF SetNextSenderMsgSeqNum, SetNextTargetMsgSeqNum, Call
<1>3. ASSUME Reset PROVE Planned(todo')
  BY <1>3, ResetPlanned DEF Reset, Call
<1>4. ASSUME Refresh \/ Start PROVE Planned(todo')
  BY <1>4, OpenPlanned DEF Refresh, Start, Call
<1>5. ASSUME todo # <<>>, todo' = Tail(todo) PROVE Planned(todo')
  BY <1>5, NextStep
<1>6. ASSUME WriteBody \/ WriteHeader \/ WriteNumbers \/ Stamp \/ Unlink \/ PopulateCache
      PROVE  Planned(todo')
  BY <1>5, <1>6 DEF WriteBody, WriteHeader, WriteNumbers, Stamp, Unlink, PopulateCache, Doing
<1>7. ASSUME Count PROVE Planned(todo')
  BY <1>7, ShortPlans DEF Count, Call
<1>8. ASSUME Create PROVE Planned(todo')
  <2> DEFINE rest == Tail(todo)
  <2>1. todo # <<>> /\ Head(todo).do = "create"
    BY <1>8 DEF Create, Doing
  <2>2. Planned(rest) /\ (rest # <<>> => Follows(Head(todo), Head(rest)))
        /\ (rest = <<>> => Final(Head(todo)))
    BY <2>1, TailPlanned DEF Ordered
  <2>3. CASE todo' = rest
    BY <2>2, <2>3
  <2>4. CASE Head(todo).file = "session" /\ todo' = <<[do |-> "stamp"]>> \o rest
    <3>1. rest # <<>> /\ Head(rest).do = "rewrite"
      BY <2>1, <2>2, <2>4 DEF Follows, Final
    <3> HIDE DEF rest
    <3> QED BY <3>1, <2>2, <2>4, StampPlanned
  <2> QED BY <1>8, <2>3, <2>4 DEF Create
<1>9. ASSUME Fail \/ Crash PROVE Planned(todo')
  BY <1>9, ShortPlans DEF Fail, Crash
<1> QED BY <1>1, <1>2, <1>3, <1>4, <1>6, <1>7, <1>8, <1>9 DEF Step

\* The types of the variables are kept.
LEMMA TypesKept ==
  ASSUME TypeOK, Ordered, Next
  PROVE  TypeOK'
<1> USE BoundsAssumption
<1>1. Planned(todo') /\ Step
  BY CallsOrdered DEF Next
<1>2. todo' \in Seq(Steps)
  BY <1>1 DEF Planned
<1>3. clock' \in Nat /\ began' \in Nat /\ up' \in BOOLEAN /\ stale' \in BOOLEAN /\ (~up' => todo' = <<>>)
  <2>1. up \in BOOLEAN /\ stale \in BOOLEAN /\ clock \in Nat /\ began \in Nat /\ (~up => todo = <<>>)
    BY DEF TypeOK, RestOK
  <2>2. clock' = clock \/ clock' = clock + 1
    BY <1>1 DEF Step, Persist, SetNextSenderMsgSeqNum, SetNextTargetMsgSeqNum, Reset, Refresh, Start,
          WriteBody, WriteHeader, Count, WriteNumbers, Stamp, Unlink, PopulateCache, Create, Fail,
          Crash, Call
  <2>3. stale' \in BOOLEAN
    BY <1>1, <2>1 DEF Step, Persist, SetNextSenderMsgSeqNum, SetNextTargetMsgSeqNum, Reset, Refresh, Start,
          WriteBody, WriteHeader, Count, WriteNumbers, Stamp, Unlink, PopulateCache, Create, Fail,
          Crash, Call
  <2>4. up' = up \/ (up' = TRUE) \/ (up' = FALSE /\ todo' = <<>>)
    BY <1>1 DEF Step, Persist, SetNextSenderMsgSeqNum, SetNextTargetMsgSeqNum, Reset, Refresh, Start,
          WriteBody, WriteHeader, Count, WriteNumbers, Stamp, Unlink, PopulateCache, Create, Fail,
          Crash, Call
  <2>5. up' = up => up
    BY <1>1 DEF Step, Persist, SetNextSenderMsgSeqNum, SetNextTargetMsgSeqNum, Reset, Refresh, Start,
          WriteBody, WriteHeader, Count, WriteNumbers, Stamp, Unlink, PopulateCache, Create, Fail,
          Crash, Call, Idle, Doing
  <2>6. clock' \in Nat
    BY <2>1, <2>2
  <2>7. began' = clock' \/ began' = began
    BY DEF Next
  <2>8. up' \in BOOLEAN /\ (~up' => todo' = <<>>)
    BY <2>1, <2>4, <2>5
  <2> QED BY <2>1, <2>3, <2>6, <2>7, <2>8
<1>4. RestOK'
  BY <1>2, <1>3 DEF RestOK
<1>5. MemOK'
  <2> USE <1>1
  <2>1. MemOK /\ FilesOK /\ 1 \in Numbers /\ clock \in Nat
    BY DEF TypeOK, RestOK, Numbers
  <2>2. ASSUME NEW t \in Nat, mem' = Cleared(t) PROVE MemOK'
    BY <2>1, <2>2 DEF MemOK, Cleared
  <2>3. ASSUME NEW n \in 1..MaxSeq, SetNextSenderMsgSeqNum(n) \/ SetNextTargetMsgSeqNum(n)
        PROVE  MemOK'
    BY <2>1, <2>3 DEF SetNextSenderMsgSeqNum, SetNextTargetMsgSeqNum, MemOK, Numbers
  <2>4. ASSUME Reset \/ Refresh \/ Start \/ Crash PROVE MemOK'
    BY <2>1, <2>2, <2>4 DEF Reset, Refresh, Start, Crash
  <2>5. ASSUME WriteHeader PROVE MemOK'
    BY <2>1, <2>5 DEF WriteHeader, MemOK
  <2>6. ASSUME Count PROVE MemOK'
    <3>1. mem.sender < MaxSeq
      BY <2>6 DEF Count, Doing, Ordered, At
    <3> QED BY <2>1, <2>6, <3>1 DEF Count, MemOK, Numbers
  <2>7. ASSUME PopulateCache PROVE MemOK'
    <3>1. NumbersOf(files["seqnums"])[1] \in Numbers /\ NumbersOf(files["seqnums"])[2] \in Numbers
      BY <2>1 DEF NumbersOf, FilesOK
    <3>2. files["session"] # <<>> => files["session"][1] \in Nat
      BY <2>1 DEF FilesOK
    <3> QED BY <2>1, <2>7, <3>1, <3>2 DEF PopulateCache, MemOK
  <2>8. ASSUME mem' = mem PROVE MemOK'
    BY <2>1, <2>8 DEF MemOK
  <2> QED BY <2>3, <2>4, <2>5, <2>6, <2>7, <2>8 DEF Step, Persist, WriteBody, WriteNumbers, Stamp,
             Unlink, Create, Fail
<1>6. FilesOK'
  <2> USE <1>1
  <2>1. FilesOK /\ MemOK /\ (todo # <<>> => Head(todo) \in Steps)
    BY TailPlanned DEF TypeOK, Ordered
  <2>2. ASSUME files' = files PROVE FilesOK'
    BY <2>1, <2>2 DEF FilesOK
  <2>3. ASSUME NEW m \in Messages \cup {Part}, files' = [files EXCEPT !["body"] = Append(@, m)]
        PROVE  FilesOK'
    BY <2>1, <2>3, AppendProperties DEF FilesOK, Names
  <2>4. ASSUME NEW cut \in {"no", "number", "place"}, todo # <<>>, Head(todo).do = "header",
               files' = [files EXCEPT !["header"] = Append(@, Entry(cut))]
        PROVE  FilesOK'
    <3>1. Entry(cut) \in Entries
      BY <2>1, <2>4, StepFields DEF Entry, Entries
    <3> HIDE DEF Entry
    <3> QED BY <2>1, <2>4, <3>1, AppendProperties DEF FilesOK, Names
  <2>5. ASSUME WriteBody PROVE FilesOK'
    BY <2>1, <2>3, <2>5, StepFields DEF WriteBody, Doing
  <2>6. ASSUME WriteHeader PROVE FilesOK'
    BY <2>4, <2>6 DEF WriteHeader, Doing
  <2>7. ASSUME WriteNumbers PROVE FilesOK'
    BY <2>1, <2>7 DEF WriteNumbers, FilesOK, MemOK, Names
  <2>8. ASSUME Stamp PROVE FilesOK'
    BY <2>1, <2>8 DEF Stamp, FilesOK, MemOK, Names
  <2>9. ASSUME Unlink PROVE FilesOK'
    BY <2>1, <2>9, EmptySeq, StepFields DEF Unlink, Doing, FilesOK, Names
  <2>10. ASSUME Fail PROVE FilesOK'
    BY <2>2, <2>3, <2>4, <2>10 DEF Fail
  <2>11. ASSUME Crash PROVE FilesOK'
    BY <2>2, <2>3, <2>4, <2>11 DEF Crash, Doing
  <2> QED BY <2>2, <2>5, <2>6, <2>7, <2>8, <2>9, <2>10, <2>11 DEF Step, Persist,
             SetNextSenderMsgSeqNum, SetNextTargetMsgSeqNum, Reset, Refresh, Start, Call, Count,
             PopulateCache, Create
<1> QED BY <1>4, <1>5, <1>6 DEF TypeOK

\* A message is stored under a number that leaves room for the next one.
LEMMA OrderKept ==
  ASSUME TypeOK, Ordered, Next
  PROVE  Ordered'
<1>1. Planned(todo') /\ Step
  BY CallsOrdered DEF Next
<1> DEFINE Storing == At("body") \/ At("header") \/ At("count")
<1>2. SUFFICES ASSUME Storing' PROVE mem'.sender < MaxSeq
  BY <1>1 DEF Ordered
<1>3. ASSUME NEW m \in Messages, Persist(m) PROVE mem'.sender < MaxSeq
  BY <1>3 DEF Persist
<1>4. ASSUME todo' = <<>> \/ (\E x : todo' = <<[do |-> "numbers"]>>) PROVE FALSE
  BY <1>2, <1>4 DEF At
<1>5. ASSUME Reset \/ Refresh \/ Start PROVE FALSE
  BY <1>2, <1>5, ResetPlanned, OpenPlanned DEF Reset, Refresh, Start, Call, At
<1>6. ASSUME WriteNumbers \/ Stamp \/ Unlink \/ PopulateCache PROVE FALSE
  <2>1. todo # <<>> /\ todo' = Tail(todo)
    BY <1>6 DEF WriteNumbers, Stamp, Unlink, PopulateCache, Doing
  <2>2. At("numbers") \/ At("rewrite") \/ At("stamp") \/ At("unlink") \/ At("load")
    BY <1>6 DEF WriteNumbers, Stamp, Unlink, PopulateCache, Doing, At
  <2>3. At("unlink") => Head(todo).file \in Names
    BY <2>1, TailPlanned, StepFields DEF Ordered, At
  <2> QED BY <1>2, <2>1, <2>2, <2>3, NextStep DEF At, On, Names
<1>7. ASSUME Create PROVE FALSE
  <2>1. todo # <<>> /\ At("create") /\ Head(todo).file \in Names
    BY <1>7, TailPlanned, StepFields DEF Ordered, Create, Doing, At
  <2>2. /\ Planned(Tail(todo)) /\ (Tail(todo) = <<>> => Final(Head(todo)))
        /\ (Tail(todo) # <<>> => Follows(Head(todo), Head(Tail(todo))))
    BY <2>1, TailPlanned DEF Ordered
  <2>3. Tail(todo) # <<>> /\ Head(Tail(todo)).do \in {"create", "rewrite"}
        /\ (Head(todo).file = "session" => Head(Tail(todo)).do = "rewrite")
    BY <2>1, <2>2 DEF Follows, Final, At, Names
  <2>4. LET all == <<[do |-> "stamp"]>> \o Tail(todo)
        IN Head(todo).file = "session" => all # <<>> /\ Head(all).do = "stamp"
    BY <2>2, <2>3, StampPlanned
  <2> QED BY <1>2, <1>7, <2>3, <2>4 DEF Create, At
<1>8. ASSUME WriteBody \/ WriteHeader PROVE mem'.sender < MaxSeq
  <2>1. mem.sender < MaxSeq
    BY <1>8 DEF WriteBody, WriteHeader, Ordered, At, Doing
  <2> QED BY <1>8, <2>1 DEF WriteBody, WriteHeader, TypeOK, MemOK
<1> QED BY <1>1, <1>3, <1>4, <1>5, <1>6, <1>7, <1>8 DEF Step, SetNextSenderMsgSeqNum,
           SetNextTargetMsgSeqNum, Call, Count, Fail, Crash

\* Where each action leaves the call of the store.
LEMMA HeadAfter ==
  ASSUME TypeOK, Ordered
  PROVE  /\ \A m \in Messages :
              Persist(m) => At("body")' /\ todo'[2].at = Len(files["body"]) + 1
         /\ \A n \in Numbers :
              SetNextSenderMsgSeqNum(n) \/ SetNextTargetMsgSeqNum(n) => At("numbers")'
         /\ Count => At("numbers")'
         /\ Reset => On("unlink", "body")'
         /\ Refresh \/ Start => At("load")'
         /\ WriteBody => At("header")' /\ Head(todo') = todo[2]
         /\ WriteHeader => At("count")'
         /\ WriteNumbers => todo' = <<>> \/ At("rewrite")' \/ At("stamp")'
         /\ Stamp => todo' = <<>> \/ At("rewrite")'
         /\ PopulateCache => On("create", "body")'
         /\ Fail \/ Crash => todo' = <<>>
<1>1. ASSUME NEW m \in Messages, Persist(m)
      PROVE  At("body")' /\ todo'[2].at = Len(files["body"]) + 1
  BY <1>1 DEF Persist, Call, At
<1>2. ASSUME NEW n \in Numbers, SetNextSenderMsgSeqNum(n) \/ SetNextTargetMsgSeqNum(n)
      PROVE  At("numbers")'
  BY <1>2 DEF SetNextSenderMsgSeqNum, SetNextTargetMsgSeqNum, Call, At
<1>3. Count => At("numbers")'
  BY DEF Count, Call, At
<1>4. Reset => On("unlink", "body")'
  BY ResetPlanned DEF Reset, Call, At, On
<1>5. Refresh \/ Start => At("load")'
  BY OpenPlanned DEF Refresh, Start, Call, At
<1>6. WriteBody => At("header")' /\ Head(todo') = todo[2]
  BY NextStep DEF WriteBody, Doing, At
<1>7. WriteHeader => At("count")'
  BY NextStep DEF WriteHeader, Doing, At
<1>8. WriteNumbers => todo' = <<>> \/ At("rewrite")' \/ At("stamp")'
  BY NextStep DEF WriteNumbers, Doing, At
<1>9. Stamp => todo' = <<>> \/ At("rewrite")'
  BY NextStep DEF Stamp, Doing, At
<1>10. PopulateCache => On("create", "body")'
  BY NextStep DEF PopulateCache, Doing, At
<1>11. Fail \/ Crash => todo' = <<>>
  BY DEF Fail, Crash
<1> QED BY <1>1, <1>2, <1>3, <1>4, <1>5, <1>6, <1>7, <1>8, <1>9, <1>10, <1>11

\* The files are unlinked in order, and the load follows the last.
LEMMA HeadAfterUnlink ==
  ASSUME TypeOK, Ordered, Unlink
  PROVE  \/ On("unlink", "body") /\ On("unlink", "header")'
         \/ On("unlink", "header") /\ On("unlink", "seqnums")'
         \/ On("unlink", "seqnums") /\ On("unlink", "session")'
         \/ On("unlink", "session") /\ At("load")'
<1>1. todo # <<>> /\ todo' = Tail(todo) /\ At("unlink")
  BY DEF Unlink, Doing, At
<1>2. Head(todo).file \in Names
  BY <1>1, TailPlanned, StepFields DEF Ordered, At
<1> QED BY <1>1, <1>2, NextStep DEF On, Names

\* fopen of the session file: if it was missing, its stamp comes next.
LEMMA HeadAfterCreate ==
  ASSUME TypeOK, Ordered, Create
  PROVE  \/ On("create", "body") /\ On("create", "header")'
         \/ On("create", "header") /\ On("create", "seqnums")'
         \/ On("create", "seqnums") /\ On("create", "session")'
         \/ On("create", "session") /\ "session" \in there /\ At("rewrite")'
         \/ On("create", "session") /\ "session" \notin there /\ At("stamp")'
<1>1. todo # <<>> /\ At("create") /\ Head(todo).file \in Names
  BY TailPlanned, StepFields DEF Ordered, Create, Doing, At
<1>2. /\ Planned(Tail(todo)) /\ (Tail(todo) = <<>> => Final(Head(todo)))
      /\ (Tail(todo) # <<>> => Follows(Head(todo), Head(Tail(todo))))
  BY <1>1, TailPlanned DEF Ordered
<1>3. CASE Head(todo).file = "session" /\ "session" \notin there
  <2>1. Tail(todo) # <<>> /\ Head(Tail(todo)).do = "rewrite"
    BY <1>1, <1>2, <1>3 DEF Follows, Final, At
  <2>2. LET all == <<[do |-> "stamp"]>> \o Tail(todo) IN all # <<>> /\ Head(all).do = "stamp"
    BY <1>2, <2>1, StampPlanned
  <2> QED BY <1>1, <1>3, <2>2 DEF Create, At, On
<1>4. CASE ~(Head(todo).file = "session" /\ "session" \notin there)
  <2>1. todo' = Tail(todo)
    BY <1>4 DEF Create
  <2> QED BY <1>1, <1>4, <2>1, NextStep DEF On, At, Names
<1> QED BY <1>3, <1>4

\* Which system call is next after each action, in short.
LEMMA NotAfter ==
  ASSUME TypeOK, Ordered, Step
  PROVE  /\ At("unlink")' => Reset \/ Unlink
         /\ At("create")' \/ At("rewrite")' \/ At("stamp")' =>
              WriteNumbers \/ Stamp \/ PopulateCache \/ Create
<1>1. ASSUME NEW m \in Messages, Persist(m) PROVE At("body")'
  BY <1>1, HeadAfter
<1>2. ASSUME NEW n \in 1..MaxSeq, SetNextSenderMsgSeqNum(n) \/ SetNextTargetMsgSeqNum(n)
      PROVE  At("numbers")'
  BY <1>2, HeadAfter DEF Numbers
<1>3. ASSUME Unlink PROVE At("unlink")' \/ At("load")'
  BY <1>3, HeadAfterUnlink DEF On
<1>4. ASSUME Create PROVE At("create")' \/ At("rewrite")' \/ At("stamp")'
  BY <1>4, HeadAfterCreate DEF On
<1>5. ASSUME WriteNumbers \/ Stamp \/ PopulateCache
      PROVE  todo' = <<>> \/ At("rewrite")' \/ At("stamp")' \/ At("create")'
  BY <1>5, HeadAfter DEF On
<1>6. ASSUME Reset PROVE At("unlink")'
  BY <1>6, HeadAfter DEF On
<1>7. ASSUME Count \/ Refresh \/ Start \/ WriteBody \/ WriteHeader \/ Fail \/ Crash
      PROVE  todo' = <<>> \/ At("numbers")' \/ At("load")' \/ At("header")' \/ At("count")'
  BY <1>7, HeadAfter
<1>8. \A d, e : d # e => ~(At(d)' /\ At(e)')
  BY DEF At
<1>9. ASSUME todo' = <<>> PROVE \A d : ~At(d)'
  BY <1>9 DEF At
<1> QED BY <1>1, <1>2, <1>3, <1>4, <1>5, <1>6, <1>7, <1>8, <1>9 DEF Step

\* reset() goes on as it began.
LEMMA ResettingKept ==
  ASSUME TypeOK, Ordered, Resetting, Next
  PROVE  Resetting'
<1>1. DOMAIN files = Names
  BY DEF TypeOK, FilesOK
<1>2. ASSUME ~At("unlink")' PROVE Resetting'
  BY <1>2 DEF Resetting, On
<1>3. ASSUME Reset PROVE Resetting'
  <2>1. On("unlink", "body")' /\ mem' = Cleared(clock)
    BY <1>3, HeadAfter DEF Reset
  <2>2. ~On("unlink", "seqnums")' /\ ~On("unlink", "session")'
    BY <2>1 DEF On
  <2> QED BY <2>1, <2>2 DEF Resetting, Cleared
<1>4. ASSUME Unlink PROVE Resetting'
  <2>1. At("unlink") /\ mem' = mem /\ files' = [files EXCEPT ![Head(todo).file] = <<>>]
    BY <1>4 DEF Unlink, Doing, At
  <2>2. mem'.sender = 1 /\ mem'.target = 1
    BY <2>1 DEF Resetting
  <2>3. CASE On("unlink", "body") /\ On("unlink", "header")'
    BY <2>2, <2>3 DEF Resetting, On
  <2>4. CASE On("unlink", "header") /\ On("unlink", "seqnums")'
    <3>1. files'["header"] = <<>>
      BY <1>1, <2>1, <2>4 DEF On, Names
    <3> QED BY <2>2, <2>4, <3>1 DEF Resetting, On
  <2>5. CASE On("unlink", "seqnums") /\ On("unlink", "session")'
    <3>1. files'["header"] = <<>> /\ files'["seqnums"] = <<>>
      BY <1>1, <2>1, <2>5 DEF Resetting, On, Names
    <3> QED BY <2>2, <2>5, <3>1 DEF Resetting, On
  <2>6. CASE On("unlink", "session") /\ At("load")'
    BY <1>2, <2>6 DEF At
  <2> QED BY <1>4, <2>3, <2>4, <2>5, <2>6, HeadAfterUnlink
<1> QED BY <1>2, <1>3, <1>4, NotAfter DEF Next

\* open() writes back the numbers it has read.
LEMMA OpeningKept ==
  ASSUME TypeOK, Ordered, Opening, Next
  PROVE  Opening'
<1>1. DOMAIN files = Names
  BY DEF TypeOK, FilesOK
<1>2. ASSUME WriteNumbers PROVE Opening'
  <2>1. files'["seqnums"] = <<mem'.sender, mem'.target>>
    BY <1>1, <1>2 DEF WriteNumbers, Names
  <2> QED BY <2>1 DEF Opening, NumbersOf
<1>3. ASSUME Stamp \/ Create PROVE Opening'
  <2>1. files'["seqnums"] = files["seqnums"] /\ mem' = mem /\ (At("stamp") \/ At("create"))
    BY <1>1, <1>3 DEF Stamp, Create, Doing, At, Names
  <2> QED BY <2>1 DEF Opening
<1>4. ASSUME PopulateCache PROVE Opening'
  <2>1. /\ files' = files /\ mem'.sender = NumbersOf(files["seqnums"])[1]
        /\ mem'.target = NumbersOf(files["seqnums"])[2]
    BY <1>4 DEF PopulateCache
  <2>2. NumbersOf(files["seqnums"]) = <<mem'.sender, mem'.target>>
    BY <2>1 DEF NumbersOf, TypeOK, FilesOK
  <2> QED BY <2>1, <2>2 DEF Opening
<1>5. ASSUME ~(At("create")' \/ At("rewrite")' \/ At("stamp")') PROVE Opening'
  BY <1>5 DEF Opening
<1> QED BY <1>2, <1>3, <1>4, <1>5, NotAfter DEF Next

-----------------------------------------------------------------------------
(* The memory agrees with the files *)

\* No system call, failure or whole crash makes the files and the memory differ.
LEMMA AgreeingKept ==
  ASSUME TypeOK, Ordered, Agreeing, Next, "torn" \notin Windows
  PROVE  Agreeing'
<1> DEFINE Offsets == Loaded => mem.offsets = Index(files["header"])
           Nums == Loaded /\ ~stale /\ ~At("numbers") =>
                     NumbersOf(files["seqnums"]) = <<mem.sender, mem.target>>
<1>1. Agreeing <=> Whole /\ Offsets /\ Nums
  BY DEF Agreeing
<1>2. Agreeing' <=> Whole' /\ Offsets' /\ Nums'
  BY DEF Agreeing
<1>3. DOMAIN files = Names /\ files["header"] \in Seq(Entries) /\ WholeHeader(files["header"])
  BY <1>1 DEF TypeOK, FilesOK, Whole, WholeHeader
<1>4. ASSUME files'["header"] = files["header"] PROVE Whole'
  BY <1>1, <1>4 DEF Whole
<1>5. ASSUME NEW m \in Messages, Persist(m) PROVE Agreeing'
  <2>1. At("body")' /\ files' = files /\ mem' = mem /\ up' = up /\ stale' = stale
    BY <1>5, HeadAfter DEF Persist, Call
  <2>2. Loaded /\ ~At("numbers")
    BY <1>5 DEF Persist, Idle, Loaded, At
  <2> QED BY <1>1, <1>2, <1>4, <2>1, <2>2
<1>6. ASSUME NEW n \in 1..MaxSeq, SetNextSenderMsgSeqNum(n) \/ SetNextTargetMsgSeqNum(n)
      PROVE  Agreeing'
  <2>1. At("numbers")' /\ files' = files /\ mem'.offsets = mem.offsets
    BY <1>6, HeadAfter DEF SetNextSenderMsgSeqNum, SetNextTargetMsgSeqNum, Call, Numbers, TypeOK, MemOK
  <2>2. Loaded
    BY <1>6 DEF SetNextSenderMsgSeqNum, SetNextTargetMsgSeqNum, Idle, Loaded, At
  <2> QED BY <1>1, <1>2, <1>4, <2>1, <2>2
<1>7. ASSUME Count PROVE Agreeing'
  <2>1. At("numbers")' /\ files' = files /\ mem'.offsets = mem.offsets
    BY <1>7, HeadAfter DEF Count, Call, TypeOK, MemOK
  <2>2. Loaded
    BY <1>7 DEF Count, Doing, Loaded, At
  <2> QED BY <1>1, <1>2, <1>4, <2>1, <2>2
<1>8. ASSUME Reset \/ Refresh \/ Start PROVE Agreeing'
  <2>1. (At("unlink")' \/ At("load")') /\ files' = files
    BY <1>8, HeadAfter DEF Reset, Refresh, Start, Call, On
  <2>2. ~Loaded'
    BY <2>1 DEF Loaded
  <2> QED BY <1>1, <1>2, <1>4, <2>1, <2>2
<1>9. ASSUME Crash PROVE Agreeing'
  <2>1. ~Loaded' /\ files'["header"] = files["header"]
    BY <1>3, <1>9 DEF Crash, Loaded, Names
  <2> QED BY <1>1, <1>2, <1>4, <2>1
<1>10. ASSUME Unlink PROVE Agreeing'
  <2>1. ~Loaded'
    BY <1>10, HeadAfterUnlink DEF On, Loaded
  <2>2. files'["header"] = files["header"] \/ files'["header"] = <<>>
    BY <1>3, <1>10 DEF Unlink, Names
  <2>3. ASSUME files'["header"] = <<>> PROVE Whole'
    BY <2>3, IndexOfNone DEF Whole, WholeHeader
  <2> QED BY <1>2, <1>4, <2>1, <2>2, <2>3
<1>11. ASSUME WriteBody \/ Stamp \/ Create PROVE Agreeing'
  <2>1. /\ files'["header"] = files["header"] /\ files'["seqnums"] = files["seqnums"]
        /\ mem' = mem /\ stale' = stale
    BY <1>3, <1>11 DEF WriteBody, Stamp, Create, Names
  <2>2. Loaded /\ ~At("numbers")
    BY <1>11 DEF WriteBody, Stamp, Create, Doing, Loaded, At
  <2> QED BY <1>1, <1>2, <1>4, <2>1, <2>2
<1>12. ASSUME WriteHeader PROVE Agreeing'
  <2> DEFINE h == files["header"]
             e == Entry("no")
  <2>1. todo # <<>> /\ Head(todo) \in Steps /\ Head(todo).do = "header"
    BY <1>12, TailPlanned DEF WriteHeader, Doing, Ordered
  <2>2. e \in Entries /\ e.cut = "no" /\ e.num = Head(todo).num /\ e.at = Head(todo).at
    BY <2>1, StepFields DEF Entry, Entries
  <2>3. Loaded /\ ~At("numbers")
    BY <1>12 DEF WriteHeader, Doing, Loaded, At
  <2>4. /\ files'["header"] = Append(h, e) /\ files'["seqnums"] = files["seqnums"] /\ stale' = stale
        /\ mem'.sender = mem.sender /\ mem'.target = mem.target
        /\ mem'.offsets = [k \in DOMAIN mem.offsets \cup {Head(todo).num} |->
                             IF k = Head(todo).num THEN Head(todo).at ELSE mem.offsets[k]]
    BY <1>3, <1>12 DEF WriteHeader, Names, TypeOK, MemOK
  <2> HIDE DEF h, e
  <2>5. WholeHeader(h)
    BY <1>3 DEF h
  <2>6. WholeHeader(Append(h, e)) /\ Index(Append(h, e)) = mem'.offsets
    <3>1. mem.offsets = Index(h)
      BY <1>1, <2>3 DEF h
    <3>2. mem'.offsets = [k \in DOMAIN Index(h) \cup {e.num} |-> IF k = e.num THEN e.at ELSE Index(h)[k]]
      BY <2>2, <2>4, <3>1
    <3>3. /\ WholeHeader(Append(h, e))
          /\ Index(Append(h, e)) =
               [k \in DOMAIN Index(h) \cup {e.num} |-> IF k = e.num THEN e.at ELSE Index(h)[k]]
      BY <2>2, <2>5, IndexOfAppend
    <3> QED BY <3>2, <3>3
  <2>7. Whole' /\ Offsets'
    BY <2>4, <2>6 DEF Whole, WholeHeader
  <2>8. Nums'
    BY <1>1, <2>3, <2>4
  <2> QED BY <1>2, <2>7, <2>8
<1>13. ASSUME WriteNumbers PROVE Agreeing'
  <2>1. /\ files'["header"] = files["header"] /\ files'["seqnums"] = <<mem.sender, mem.target>>
        /\ mem' = mem
    BY <1>3, <1>13 DEF WriteNumbers, Names
  <2>2. Loaded
    BY <1>13 DEF WriteNumbers, Doing, Loaded, At
  <2>3. NumbersOf(files'["seqnums"]) = <<mem'.sender, mem'.target>>
    BY <2>1 DEF NumbersOf
  <2> QED BY <1>1, <1>2, <1>4, <2>1, <2>2, <2>3
<1>14. ASSUME PopulateCache PROVE Agreeing'
  <2>1. /\ files' = files /\ mem'.offsets = Index(files["header"])
        /\ mem'.sender = NumbersOf(files["seqnums"])[1]
        /\ mem'.target = NumbersOf(files["seqnums"])[2]
    BY <1>14 DEF PopulateCache
  <2>2. NumbersOf(files["seqnums"]) = <<mem'.sender, mem'.target>>
    BY <2>1 DEF NumbersOf, TypeOK, FilesOK
  <2> QED BY <1>1, <1>2, <1>4, <2>1, <2>2
<1>15. ASSUME Fail PROVE Agreeing'
  <2>1. /\ files'["header"] = files["header"] /\ files'["seqnums"] = files["seqnums"]
        /\ mem' = mem
    BY <1>3, <1>15 DEF Fail, Names
  <2>2. Loaded /\ (At("numbers") => stale') /\ (stale => stale')
    BY <1>15 DEF Fail, Loaded, At
  <2> QED BY <1>1, <1>2, <1>4, <2>1, <2>2
<1>16. Step
  BY DEF Next
<1> QED BY <1>5, <1>6, <1>7, <1>8, <1>9, <1>10, <1>11, <1>12, <1>13, <1>14, <1>15, <1>16 DEF Step

-----------------------------------------------------------------------------
(* The creation time *)

\* No step makes the creation time later than the beginning of the numbering.
LEMMA TimelyKept ==
  ASSUME TypeOK, Ordered, Timely, Next, "unstamped" \notin Windows
  PROVE  Timely'
<1> DEFINE nums == NumbersOf(files["seqnums"])
           session == files["session"]
<1>1. /\ DOMAIN files = Names /\ session \in Seq(Nat) /\ (session # <<>> => session[1] \in Nat)
      /\ began \in Nat /\ clock \in Nat /\ mem.created \in Nat
  BY DEF TypeOK, FilesOK, MemOK, RestOK
<1>2. began' = (IF nums' = <<1, 1>> THEN clock' ELSE began) /\ Step
  BY DEF Next
<1>3. ASSUME files'["seqnums"] = files["seqnums"], clock' = clock PROVE began' = began
  BY <1>2, <1>3 DEF Timely
<1>4. ASSUME files'["seqnums"] = files["seqnums"], session' = session, clock' = clock,
             session = <<>> => (up' => At("load")' \/ At("create")' \/ At("stamp")')
                               /\ ("session" \in there' => At("stamp")'),
             On("unlink", "session")' => files["seqnums"] = <<>>,
             Loaded' => mem'.created <= began, mem'.created <= clock
      PROVE  Timely'
  <2>1. began' = began
    BY <1>3, <1>4
  <2> QED BY <1>4, <2>1 DEF Timely
<1>5. ASSUME NEW m \in Messages, Persist(m) PROVE Timely'
  <2>1. At("body")' /\ files' = files /\ mem' = mem /\ there' = there /\ clock' = clock
    BY <1>5, HeadAfter DEF Persist, Call
  <2>2. up /\ todo = <<>> /\ Loaded
    BY <1>5 DEF Persist, Idle, Loaded, At
  <2>3. session # <<>>
    BY <2>2 DEF Timely, At
  <2>4. ~On("unlink", "session")'
    BY <2>1 DEF On, At
  <2> QED BY <1>4, <2>1, <2>2, <2>3, <2>4 DEF Timely
<1>6. ASSUME NEW n \in 1..MaxSeq, SetNextSenderMsgSeqNum(n) \/ SetNextTargetMsgSeqNum(n)
      PROVE  Timely'
  <2>1. /\ At("numbers")' /\ files' = files /\ mem'.created = mem.created /\ there' = there
        /\ clock' = clock
    BY <1>6, HeadAfter DEF SetNextSenderMsgSeqNum, SetNextTargetMsgSeqNum, Call, Numbers, TypeOK, MemOK
  <2>2. up /\ todo = <<>> /\ Loaded
    BY <1>6 DEF SetNextSenderMsgSeqNum, SetNextTargetMsgSeqNum, Idle, Loaded, At
  <2>3. session # <<>>
    BY <2>2 DEF Timely, At
  <2>4. ~On("unlink", "session")'
    BY <2>1 DEF On, At
  <2> QED BY <1>4, <2>1, <2>2, <2>3, <2>4 DEF Timely
<1>7. ASSUME Count PROVE Timely'
  <2>1. /\ At("numbers")' /\ files' = files /\ mem'.created = mem.created /\ there' = there
        /\ clock' = clock
    BY <1>7, HeadAfter DEF Count, Call, TypeOK, MemOK
  <2>2. up /\ At("count") /\ Loaded
    BY <1>7 DEF Count, Doing, Loaded, At
  <2>3. session # <<>>
    BY <2>2 DEF Timely, At
  <2>4. ~On("unlink", "session")'
    BY <2>1 DEF On, At
  <2> QED BY <1>4, <2>1, <2>2, <2>3, <2>4 DEF Timely
<1>8. ASSUME Reset PROVE Timely'
  <2>1. /\ On("unlink", "body")' /\ files' = files /\ mem'.created = clock /\ there' = there
        /\ clock' = clock
    BY <1>8, HeadAfter DEF Reset, Call, Cleared
  <2>2. up /\ todo = <<>>
    BY <1>8 DEF Reset, Idle
  <2>3. session # <<>>
    BY <2>2 DEF Timely, At
  <2>4. ~On("unlink", "session")' /\ ~Loaded'
    BY <2>1 DEF On, At, Loaded
  <2> QED BY <1>1, <1>4, <2>1, <2>3, <2>4
<1>9. ASSUME Refresh \/ Start PROVE Timely'
  <2>0. At("load")'
    BY <1>9, HeadAfter
  <2>1. files' = files /\ mem'.created = clock /\ there' = there /\ clock' = clock
    BY <1>9 DEF Refresh, Start, Call, Cleared
  <2>2. todo = <<>> \/ ~up
    BY <1>9 DEF Refresh, Start, Idle
  <2>3. session = <<>> => "session" \notin there
    BY <2>2 DEF Timely, At, TypeOK, RestOK
  <2>4. ~On("unlink", "session")' /\ ~Loaded'
    BY <2>0 DEF On, At, Loaded
  <2> QED BY <1>1, <1>4, <2>0, <2>1, <2>3, <2>4
<1>10. ASSUME Crash PROVE Timely'
  <2>1. /\ ~up' /\ todo' = <<>> /\ mem'.created = 0 /\ there' = there /\ clock' = clock + 1
        /\ session' = session /\ files'["seqnums"] = files["seqnums"]
        /\ "session" \notin there \/ session # <<>>
    BY <1>1, <1>10 DEF Crash, Cleared, Names
  <2>2. ~Loaded' /\ ~On("unlink", "session")'
    BY <2>1 DEF Loaded, On, At
  <2>3. began <= began' /\ began' <= clock' /\ (nums' = <<1, 1>> => began' = clock')
    <3>1. began <= clock /\ (nums = <<1, 1>> => began = clock) /\ nums' = nums
      BY <2>1 DEF Timely
    <3> HIDE DEF nums
    <3> QED BY <1>1, <1>2, <2>1, <3>1
  <2>4. began' \in Nat
    BY <1>1, <1>2, <2>1
  <2>5. session # <<>> => session[1] <= began'
    BY <1>1, <2>3, <2>4 DEF Timely
  <2>6. mem'.created <= clock' /\ (session' = <<>> => nums' = <<1, 1>>)
    BY <1>1, <2>1 DEF Timely
  <2> QED BY <2>1, <2>2, <2>3, <2>5, <2>6 DEF Timely
<1>11. ASSUME WriteBody \/ WriteHeader PROVE Timely'
  <2>1. /\ At("header")' \/ At("count")'
        /\ session' = session /\ files'["seqnums"] = files["seqnums"]
        /\ mem'.created = mem.created /\ there' = there /\ clock' = clock
    BY <1>1, <1>11, HeadAfter DEF WriteBody, WriteHeader, Names, TypeOK, MemOK
  <2>2. up /\ (At("body") \/ At("header")) /\ Loaded
    BY <1>11 DEF WriteBody, WriteHeader, Doing, Loaded, At
  <2>3. session # <<>>
    BY <2>2 DEF Timely, At
  <2>4. ~On("unlink", "session")'
    BY <2>1 DEF On, At
  <2> QED BY <1>4, <2>1, <2>2, <2>3, <2>4 DEF Timely
<1>12. ASSUME WriteNumbers PROVE Timely'
  <2>1. /\ todo' = <<>> \/ At("rewrite")' \/ At("stamp")'
        /\ session' = session /\ mem' = mem /\ there' = there /\ clock' = clock
    BY <1>1, <1>12, HeadAfter DEF WriteNumbers, Names
  <2>2. up /\ (At("numbers") \/ At("rewrite")) /\ Loaded
    BY <1>12 DEF WriteNumbers, Doing, Loaded, At
  <2>3. session # <<>>
    BY <2>2 DEF Timely, At
  <2>4. ~On("unlink", "session")'
    BY <2>1 DEF On, At
  <2>5. /\ began <= began' /\ began' <= clock' /\ (nums' = <<1, 1>> => began' = clock')
        /\ began' \in Nat
    BY <1>1, <1>2, <2>1 DEF Timely
  <2>6. session[1] <= began' /\ mem'.created <= began' /\ mem'.created <= clock'
    BY <1>1, <2>1, <2>2, <2>3, <2>5 DEF Timely
  <2> QED BY <2>1, <2>3, <2>4, <2>5, <2>6 DEF Timely
<1>13. ASSUME Stamp PROVE Timely'
  <2>1. /\ todo' = <<>> \/ At("rewrite")'
        /\ files'["seqnums"] = files["seqnums"] /\ session' = <<mem.created>>
        /\ mem' = mem /\ there' = there /\ clock' = clock
    BY <1>1, <1>13, HeadAfter DEF Stamp, Names
  <2>2. Loaded
    BY <1>13 DEF Stamp, Doing, Loaded, At
  <2>3. session' # <<>> /\ session'[1] = mem.created
    BY <2>1
  <2>4. ~On("unlink", "session")'
    BY <2>1 DEF On, At
  <2>5. began' = began
    BY <1>3, <2>1
  <2> QED BY <2>1, <2>2, <2>3, <2>4, <2>5 DEF Timely
<1>14. ASSUME Unlink PROVE Timely'
  <2>1. /\ mem' = mem /\ clock' = clock /\ up' = up /\ up /\ At("unlink")
        /\ files' = [files EXCEPT ![Head(todo).file] = <<>>] /\ there' = there \ {Head(todo).file}
    BY <1>14 DEF Unlink, Doing, At
  <2>2. session # <<>>
    BY <2>1 DEF Timely, At
  <2>3. ~Loaded' /\ (On("unlink", "session")' => On("unlink", "seqnums"))
        /\ (On("unlink", "session") => At("load")')
        /\ (Head(todo).file \in Names)
    BY <1>14, HeadAfterUnlink DEF On, At, Loaded, Names
  <2>4. CASE Head(todo).file = "session"
    <3>1. On("unlink", "session") /\ ~On("unlink", "session")' /\ At("load")'
      BY <2>1, <2>3, <2>4 DEF On, At
    <3>2. files["seqnums"] = <<>> /\ files'["seqnums"] = <<>> /\ session' = <<>> /\ "session" \notin there'
      BY <1>1, <2>1, <2>4, <3>1 DEF Timely, Names
    <3>3. nums = <<1, 1>> /\ nums' = <<1, 1>> /\ began' = began
      BY <1>3, <2>1, <3>2 DEF NumbersOf
    <3> QED BY <2>1, <2>3, <3>1, <3>2, <3>3 DEF Timely
  <2>5. CASE Head(todo).file = "seqnums"
    <3>1. files'["seqnums"] = <<>> /\ session' = session
      BY <1>1, <2>1, <2>5 DEF Names
    <3>2. nums' = <<1, 1>> /\ began' = clock /\ began <= clock
      BY <1>2, <2>1, <3>1 DEF NumbersOf, Timely
    <3>3. session[1] <= began' /\ mem'.created <= clock'
      BY <1>1, <2>1, <2>2, <3>2 DEF Timely
    <3> QED BY <1>1, <2>1, <2>2, <2>3, <3>1, <3>2, <3>3 DEF Timely
  <2>6. CASE Head(todo).file \in {"body", "header"}
    <3>1. files'["seqnums"] = files["seqnums"] /\ session' = session
      BY <1>1, <2>1, <2>6 DEF Names
    <3>2. ~On("unlink", "session")'
      BY <2>3, <2>6 DEF On
    <3>3. mem'.created <= clock
      BY <2>1 DEF Timely
    <3> QED BY <1>4, <2>1, <2>2, <2>3, <3>1, <3>2, <3>3
  <2> QED BY <2>3, <2>4, <2>5, <2>6 DEF Names
<1>15. ASSUME PopulateCache PROVE Timely'
  <2>1. /\ On("create", "body")' /\ files' = files /\ there' = there /\ clock' = clock
        /\ mem'.created = (IF session = <<>> THEN mem.created ELSE session[1])
    BY <1>15, HeadAfter DEF PopulateCache
  <2>2. up /\ At("load")
    BY <1>15 DEF PopulateCache, Doing, At
  <2>3. session = <<>> => "session" \notin there /\ began = clock
    BY <2>2 DEF Timely, At
  <2>4. ~On("unlink", "session")' /\ At("create")'
    BY <2>1 DEF On, At
  <2>5. mem'.created <= began /\ began <= clock
    BY <2>1, <2>3 DEF Timely
  <2>6. mem'.created <= clock
    BY <1>1, <2>1, <2>5
  <2> QED BY <1>4, <2>1, <2>3, <2>4, <2>5, <2>6
<1>16. ASSUME Create PROVE Timely'
  <2>1. /\ files' = files /\ mem' = mem /\ clock' = clock /\ there' = there \cup {Head(todo).file}
    BY <1>16 DEF Create
  <2>2. up /\ At("create") /\ Loaded
    BY <1>16 DEF Create, Doing, At, Loaded
  <2>3. session = <<>> => "session" \notin there
    BY <2>2 DEF Timely, At
  <2>4. ~On("unlink", "session")' /\ ~At("unlink")' /\ ~At("load")'
    BY <1>16, HeadAfterCreate DEF On, At
  <2>5. session = <<>> => (At("create")' \/ At("stamp")') /\ ("session" \in there' => At("stamp")')
    <3>1. CASE On("create", "session")
      BY <1>16, <2>3, <3>1, HeadAfterCreate DEF On
    <3>2. CASE ~On("create", "session")
      <4>1. Head(todo).file # "session" /\ At("create")'
        BY <1>16, <2>2, <3>2, HeadAfterCreate DEF On
      <4> QED BY <2>1, <2>3, <4>1
    <3> QED BY <3>1, <3>2
  <2>6. began' = began
    BY <1>3, <2>1
  <2> QED BY <2>1, <2>2, <2>4, <2>5, <2>6 DEF Timely
<1>17. ASSUME Fail PROVE Timely'
  <2>1. /\ todo' = <<>> /\ session' = session /\ files'["seqnums"] = files["seqnums"]
        /\ mem' = mem /\ there' = there /\ clock' = clock
    BY <1>1, <1>17 DEF Fail, Names
  <2>2. up /\ (At("body") \/ At("header") \/ At("numbers")) /\ Loaded
    BY <1>17 DEF Fail, Loaded, At
  <2>3. session # <<>>
    BY <2>2 DEF Timely, At
  <2>4. ~On("unlink", "session")'
    BY <2>1 DEF On, At
  <2> QED BY <1>4, <2>1, <2>2, <2>3, <2>4 DEF Timely
<1> QED BY <1>2, <1>5, <1>6, <1>7, <1>8, <1>9, <1>10, <1>11, <1>12, <1>13, <1>14, <1>15, <1>16, <1>17
        DEF Step

-----------------------------------------------------------------------------
(* The entries of the header and the messages of the body *)

\* No step leaves an entry of the index with another message in its place.
LEMMA PlacedKept ==
  ASSUME TypeOK, Ordered, Placed, Next, {"torn", "unlinked"} \cap Windows = {}
  PROVE  Placed'
<1> DEFINE b == files["body"]
           h == files["header"]
           Within == \A i \in DOMAIN h : h[i].at \in 1..Len(b)
           Kept == files'["body"] = b /\ files'["header"] = h /\ there' = there
<1>1. DOMAIN files = Names /\ b \in Seq(Messages \cup {Part}) /\ h \in Seq(Entries) /\ Len(b) \in Nat
  BY LenProperties DEF TypeOK, FilesOK
<1>2. Step
  BY DEF Next
<1>3. ASSUME Kept, ~On("unlink", "header"), ~On("unlink", "header")',
             Loaded' /\ ~On("create", "body")' /\ ~On("create", "header")' => "header" \in there,
             On("unlink", "body")' => "header" \in there,
             At("body")' => todo'[2].at = Len(b) + 1, ~At("header")'
      PROVE  Placed'
  <2>1. Whole' /\ Within'
    BY <1>3 DEF Placed, Whole
  <2> HIDE DEF b, h
  <2> QED BY <1>3, <2>1 DEF Placed, b, h
<1>4. ASSUME NEW m \in Messages, Persist(m) PROVE Placed'
  <2>1. At("body")' /\ todo'[2].at = Len(b) + 1 /\ Kept
    BY <1>4, HeadAfter DEF Persist, Call
  <2>2. ~On("unlink", "header")' /\ ~On("unlink", "body")' /\ ~At("header")'
    BY <2>1 DEF On, At
  <2>3. todo = <<>> /\ Loaded
    BY <1>4 DEF Persist, Idle, Loaded, At
  <2>4. ~On("unlink", "header") /\ "header" \in there
    BY <2>3 DEF Placed, On, At
  <2> QED BY <1>3, <2>1, <2>2, <2>4
<1>5. ASSUME NEW n \in 1..MaxSeq, SetNextSenderMsgSeqNum(n) \/ SetNextTargetMsgSeqNum(n)
      PROVE  Placed'
  <2>1. At("numbers")' /\ Kept
    BY <1>5, HeadAfter DEF SetNextSenderMsgSeqNum, SetNextTargetMsgSeqNum, Call, Numbers
  <2>2. ~On("unlink", "header")' /\ ~On("unlink", "body")' /\ ~At("header")' /\ ~At("body")'
    BY <2>1 DEF On, At
  <2>3. todo = <<>> /\ Loaded
    BY <1>5 DEF SetNextSenderMsgSeqNum, SetNextTargetMsgSeqNum, Idle, Loaded, At
  <2>4. ~On("unlink", "header") /\ "header" \in there
    BY <2>3 DEF Placed, On, At
  <2> QED BY <1>3, <2>1, <2>2, <2>4
<1>6. ASSUME Count PROVE Placed'
  <2>1. At("numbers")' /\ Kept
    BY <1>6, HeadAfter DEF Count, Call
  <2>2. ~On("unlink", "header")' /\ ~On("unlink", "body")' /\ ~At("header")' /\ ~At("body")'
    BY <2>1 DEF On, At
  <2>3. At("count") /\ Loaded
    BY <1>6 DEF Count, Doing, Loaded, At
  <2>4. ~On("unlink", "header") /\ "header" \in there
    BY <2>3 DEF Placed, On, At
  <2> QED BY <1>3, <2>1, <2>2, <2>4
<1>7. ASSUME Reset PROVE Placed'
  <2>1. On("unlink", "body")'
    BY <1>7, HeadAfter
  <2>2. ~On("unlink", "header")' /\ ~At("header")' /\ ~At("body")' /\ ~Loaded'
    BY <2>1 DEF On, At, Loaded
  <2>3. todo = <<>> /\ Loaded /\ Kept
    BY <1>7 DEF Reset, Idle, Loaded, At, Call
  <2>4. ~On("unlink", "header") /\ "header" \in there
    BY <2>3 DEF Placed, On, At
  <2> QED BY <1>3, <2>1, <2>2, <2>3, <2>4
<1>8. ASSUME Refresh \/ Start PROVE Placed'
  <2>1. At("load")'
    BY <1>8, HeadAfter
  <2>2. ~On("unlink", "header")' /\ ~On("unlink", "body")' /\ ~At("header")' /\ ~At("body")' /\ ~Loaded'
    BY <2>1 DEF On, At, Loaded
  <2>3. todo = <<>> /\ Kept
    BY <1>8 DEF Refresh, Start, Idle, Call, TypeOK, RestOK
  <2>4. ~On("unlink", "header")
    BY <2>3 DEF On, At
  <2> QED BY <1>3, <2>1, <2>2, <2>3, <2>4
<1>9. ASSUME WriteNumbers \/ Stamp PROVE Placed'
  <2>1. todo' = <<>> \/ At("rewrite")' \/ At("stamp")'
    BY <1>9, HeadAfter
  <2>2. ~On("unlink", "header")' /\ ~On("unlink", "body")' /\ ~At("header")' /\ ~At("body")'
    BY <2>1 DEF On, At
  <2>3. (At("numbers") \/ At("rewrite") \/ At("stamp")) /\ Loaded /\ Kept
    BY <1>1, <1>9 DEF WriteNumbers, Stamp, Doing, Loaded, At, Names
  <2>4. ~On("unlink", "header") /\ "header" \in there
    BY <2>3 DEF Placed, On, At
  <2> QED BY <1>3, <2>1, <2>2, <2>3, <2>4
<1>10. ASSUME PopulateCache PROVE Placed'
  <2>1. On("create", "body")'
    BY <1>10, HeadAfter
  <2>2. ~On("unlink", "header")' /\ ~On("unlink", "body")' /\ ~At("header")' /\ ~At("body")'
    BY <2>1 DEF On, At
  <2>3. At("load") /\ Kept
    BY <1>10 DEF PopulateCache, Doing, At
  <2>4. ~On("unlink", "header")
    BY <2>3 DEF On, At
  <2> QED BY <1>3, <2>1, <2>2, <2>3, <2>4
<1>11. ASSUME Create PROVE Placed'
  <2>1. files' = files /\ there' = there \cup {Head(todo).file} /\ Loaded /\ At("create")
    BY <1>11 DEF Create, Doing, At, Loaded
  <2>2. /\ ~On("unlink", "header")' /\ ~On("unlink", "body")' /\ ~At("header")' /\ ~At("body")'
        /\ ~On("unlink", "header")
        /\ On("create", "body") => On("create", "header")'
    BY <1>11, HeadAfterCreate DEF On, At
  <2>3. "header" \in there => "header" \in there'
    BY <2>1
  <2>4. ~On("create", "header")' => "header" \in there'
    <3>1. CASE On("create", "header")
      BY <2>1, <3>1 DEF On
    <3>2. CASE ~On("create", "header") /\ ~On("create", "body")
      BY <2>1, <2>3, <3>2 DEF Placed
    <3> QED BY <2>2, <3>1, <3>2
  <2>5. Whole' /\ Within' /\ ("header" \notin there' => files'["header"] = <<>>)
    BY <2>1, <2>2, <2>3 DEF Placed, Whole
  <2> QED BY <2>2, <2>4, <2>5 DEF Placed
<1>12. ASSUME Unlink PROVE Placed'
  <2>1. /\ At("unlink") /\ files' = [files EXCEPT ![Head(todo).file] = <<>>]
        /\ there' = there \ {Head(todo).file}
    BY <1>12 DEF Unlink, Doing, At
  <2>2. /\ ~At("header")' /\ ~At("body")' /\ ~Loaded' /\ ~On("unlink", "body")'
        /\ On("unlink", "header")' <=> On("unlink", "body")
        /\ Head(todo).file \in Names
    BY <1>12, HeadAfterUnlink DEF On, At, Loaded, Names
  <2>3. CASE Head(todo).file = "body"
    <3>1. On("unlink", "body") /\ On("unlink", "header")' /\ ~On("unlink", "header")
      BY <2>1, <2>2, <2>3 DEF On
    <3>2. files'["body"] = <<>> /\ files'["header"] = h /\ "body" \notin there'
          /\ ("header" \in there' <=> "header" \in there)
      BY <1>1, <2>1, <2>3 DEF Names
    <3> QED BY <2>2, <3>1, <3>2 DEF Placed, Whole
  <2>4. CASE Head(todo).file = "header"
    <3>1. ~On("unlink", "header")'
      BY <2>2, <2>4 DEF On
    <3>2. files'["header"] = <<>>
      BY <1>1, <2>1, <2>4 DEF Names
    <3>3. Whole' /\ Within'
      BY <3>2, EmptySeq DEF Whole
    <3> QED BY <2>2, <3>1, <3>2, <3>3 DEF Placed
  <2>5. CASE Head(todo).file \in {"seqnums", "session"}
    <3>1. ~On("unlink", "header")' /\ ~On("unlink", "header")
      BY <2>2, <2>5 DEF On
    <3>2. files'["header"] = h /\ files'["body"] = b /\ ("header" \in there' <=> "header" \in there)
      BY <1>1, <2>1, <2>5 DEF Names
    <3>3. Whole' /\ Within'
      BY <3>1, <3>2 DEF Placed, Whole
    <3> QED BY <2>2, <3>1, <3>2, <3>3 DEF Placed
  <2> QED BY <2>2, <2>3, <2>4, <2>5 DEF Names
<1>13. ASSUME NEW m \in Messages \cup {Part}, files'["body"] = Append(b, m), Within
       PROVE  Len(files'["body"]) = Len(b) + 1 /\ files'["body"][Len(b) + 1] = m
              /\ \A i \in DOMAIN h : h[i].at \in 1..Len(files'["body"])
  <2>1. Len(files'["body"]) = Len(b) + 1 /\ files'["body"][Len(b) + 1] = m
    BY <1>1, <1>13, AppendProperties
  <2> HIDE DEF b, h
  <2> QED BY <1>1, <1>13, <2>1
<1>14. ASSUME WriteBody PROVE Placed'
  <2>1. /\ At("body") /\ Loaded /\ files' = [files EXCEPT !["body"] = Append(@, Head(todo).msg)]
        /\ there' = there
    BY <1>14 DEF WriteBody, Doing, At, Loaded
  <2>2. Head(todo).msg \in Messages
    BY <2>1, TailPlanned, StepFields DEF Ordered, At
  <2>3. files'["body"] = Append(b, Head(todo).msg) /\ files'["header"] = h
    BY <1>1, <2>1 DEF Names
  <2>4. At("header")' /\ Head(todo') = todo[2]
    BY <1>14, HeadAfter
  <2>5. /\ ~On("unlink", "header")' /\ ~On("unlink", "body")' /\ ~At("body")' /\ ~On("unlink", "header")
        /\ ~On("create", "body") /\ ~On("create", "header")
    BY <2>1, <2>4 DEF On, At
  <2>6. Whole' /\ Within
    BY <2>3, <2>5 DEF Placed, Whole
  <2>7. Len(files'["body"]) = Len(b) + 1 /\ files'["body"][Len(b) + 1] \in Messages /\ Within'
    BY <1>13, <2>2, <2>3, <2>6
  <2>8. Head(todo').at = Len(b) + 1 /\ "header" \in there'
    BY <2>1, <2>4, <2>5 DEF Placed
  <2>9. files'["body"] # <<>>
    BY <1>1, <2>7, EmptySeq
  <2> QED BY <2>4, <2>5, <2>6, <2>7, <2>8, <2>9 DEF Placed
<1>15. ASSUME WriteHeader PROVE Placed'
  <2> DEFINE e == Entry("no")
  <2>1. /\ At("header") /\ Loaded /\ files' = [files EXCEPT !["header"] = Append(@, e)]
        /\ there' = there
    BY <1>15 DEF WriteHeader, Doing, At, Loaded
  <2>2. e \in Entries /\ e.cut = "no" /\ e.at = Head(todo).at
    BY <2>1, TailPlanned, StepFields DEF Ordered, At, Entry, Entries
  <2>3. files'["body"] = b /\ files'["header"] = Append(h, e)
    BY <1>1, <2>1 DEF Names
  <2>4. At("count")'
    BY <1>15, HeadAfter
  <2>5. /\ ~On("unlink", "header")' /\ ~On("unlink", "body")' /\ ~At("body")' /\ ~On("unlink", "header")
        /\ ~On("create", "body") /\ ~On("create", "header") /\ ~At("header")'
    BY <2>1, <2>4 DEF On, At
  <2>6. Whole /\ Within /\ e.at = Len(b) /\ b # <<>> /\ "header" \in there
    BY <2>1, <2>2, <2>5 DEF Placed
  <2>7. e.at \in 1..Len(b)
    BY <1>1, <2>6, EmptySeq
  <2> HIDE DEF e
  <2>8. /\ \A i \in DOMAIN h : Append(h, e)[i] = h[i]
        /\ DOMAIN Append(h, e) = DOMAIN h \cup {Len(h) + 1} /\ Append(h, e)[Len(h) + 1] = e
    BY <1>1, <2>2, AppendProperties, LenProperties
  <2>9. Whole'
    BY <2>2, <2>3, <2>6, <2>8 DEF Whole
  <2>10. Within'
    BY <2>3, <2>6, <2>7, <2>8
  <2> QED BY <2>1, <2>5, <2>6, <2>9, <2>10 DEF Placed
<1>16. ASSUME Fail PROVE Placed'
  <2>1. /\ todo' = <<>> /\ there' = there /\ files'["header"] = h
        /\ files'["body"] = b \/ files'["body"] = Append(b, Part)
    BY <1>1, <1>16 DEF Fail, Names
  <2>2. (At("body") \/ At("header") \/ At("numbers")) /\ Loaded
    BY <1>16 DEF Fail, Loaded, At
  <2>3. /\ ~On("unlink", "header") /\ ~On("create", "body") /\ ~On("create", "header")
        /\ ~On("unlink", "header")' /\ ~On("unlink", "body")' /\ ~At("body")' /\ ~At("header")'
    BY <2>1, <2>2 DEF On, At
  <2>4. Whole' /\ Within /\ "header" \in there
    BY <2>1, <2>2, <2>3 DEF Placed, Whole
  <2>5. Within'
    BY <1>13, <2>1, <2>4
  <2> QED BY <2>1, <2>3, <2>4, <2>5 DEF Placed
<1>17. ASSUME Crash PROVE Placed'
  <2>1. /\ todo' = <<>> /\ ~up' /\ there' = there /\ files'["header"] = h
        /\ files'["body"] = b \/ files'["body"] = Append(b, Part)
        /\ "body" \in there \/ "header" \notin there
    BY <1>1, <1>17 DEF Crash, Names
  <2>2. ~On("unlink", "header")
    BY <2>1 DEF Placed
  <2>3. /\ ~On("unlink", "header")' /\ ~On("unlink", "body")' /\ ~At("body")' /\ ~At("header")'
        /\ ~Loaded'
    BY <2>1 DEF On, At, Loaded
  <2>4. Whole' /\ Within /\ ("header" \notin there => h = <<>>)
    BY <2>1, <2>2 DEF Placed, Whole
  <2>5. Within'
    BY <1>13, <2>1, <2>4
  <2> QED BY <2>1, <2>3, <2>4, <2>5 DEF Placed
<1> QED BY <1>2, <1>4, <1>5, <1>6, <1>7, <1>8, <1>9, <1>10, <1>11, <1>12, <1>14, <1>15, <1>16, <1>17
        DEF Step

-----------------------------------------------------------------------------
(* The results about states *)

\* The first process finds no files.
LEMMA InvariantInit == Init => IInv
<1> SUFFICES ASSUME Init PROVE IInv
  OBVIOUS
<1> USE BoundsAssumption
<1>1. /\ files["body"] = <<>> /\ files["header"] = <<>> /\ files["seqnums"] = <<>>
      /\ files["session"] = <<>> /\ DOMAIN files = Names /\ there = {} /\ todo = <<>> /\ up = FALSE
  BY DEF Init, Names
<1>2. TypeOK
  <2>1. FilesOK
    BY <1>1, EmptySeq DEF FilesOK
  <2>2. MemOK
    BY DEF Init, MemOK, Cleared, Numbers
  <2>3. RestOK
    BY <1>1, EmptySeq DEF Init, RestOK
  <2> QED BY <2>1, <2>2, <2>3 DEF TypeOK
<1>3. \A d, f : ~At(d) /\ ~On(d, f)
  BY <1>1 DEF At, On
<1>4. Ordered
  BY <1>1, <1>3, ShortPlans DEF Ordered
<1>5. Whole /\ ~Loaded /\ DOMAIN files["header"] = {}
  BY <1>1, EmptySeq DEF Whole, Loaded
<1>6. Agreeing
  BY <1>5 DEF Agreeing
<1>7. Timely
  <2>1. NumbersOf(files["seqnums"]) = <<1, 1>>
    BY <1>1 DEF NumbersOf
  <2>2. began = clock /\ began <= clock /\ mem.created <= clock
    BY DEF Init, Cleared
  <2> QED BY <1>1, <1>3, <1>5, <2>1, <2>2 DEF Timely
<1>8. Placed
  BY <1>1, <1>3, <1>5 DEF Placed
<1>9. Resetting /\ Opening
  BY <1>3 DEF Resetting, Opening
<1> QED BY <1>2, <1>4, <1>6, <1>7, <1>8, <1>9 DEF IInv

\* The invariant is kept by every step.
LEMMA InvariantStep == IInv /\ [Next]_vars => IInv'
<1> SUFFICES ASSUME IInv, [Next]_vars PROVE IInv'
  OBVIOUS
<1>1. CASE Next
  BY <1>1, TypesKept, OrderKept, ResettingKept, OpeningKept, AgreeingKept, TimelyKept,
     PlacedKept DEF IInv
<1>2. CASE UNCHANGED vars
  <2>1. /\ files' = files /\ there' = there /\ mem' = mem /\ up' = up /\ todo' = todo
        /\ clock' = clock /\ stale' = stale /\ began' = began
    BY <1>2 DEF vars
  <2>3. TypeOK' /\ Ordered'
    BY <2>1 DEF IInv, TypeOK, FilesOK, MemOK, RestOK, Ordered, At
  <2>4. Agreeing => Agreeing'
    BY <2>1 DEF Agreeing, Whole, Loaded, At
  <2>5. Timely => Timely'
    BY <2>1 DEF Timely, Loaded, At, On
  <2>6. Placed => Placed'
    BY <2>1 DEF Placed, Whole, Loaded, At, On
  <2>7. Resetting' /\ Opening'
    BY <2>1 DEF IInv, Resetting, Opening, At, On
  <2> QED BY <2>3, <2>4, <2>5, <2>6, <2>7 DEF IInv
<1> QED BY <1>1, <1>2

\* What is known of the store at any moment, crashes and failures included: the
\* inductive invariant of the results below.
THEOREM Inductive == Spec => []IInv
BY InvariantInit, InvariantStep, PTL DEF Spec

\* Between two calls the files and the memory of the store agree (ReopenAgrees),
\* however many writes have failed and processes crashed, as long as no entry of the
\* header is written in part: FileStore::set, setSeqNum and populateCache.
THEOREM MemoryAgrees == ASSUME "torn" \notin Windows PROVE Spec => []ReopenAgrees
<1>1. IInv => ReopenAgrees
  BY DEF IInv, Agreeing, ReopenAgrees, Idle, Loaded, At
<1> QED BY <1>1, Inductive, PTL

\* The creation time a store reports is never later than the beginning of its
\* numbering (CreationKept), as long as no crash falls between the fopen and the
\* first write of the session file: FileStore::open, reset and setSession.
THEOREM CreationTime == ASSUME "unstamped" \notin Windows PROVE Spec => []CreationKept
<1>1. IInv => CreationKept
  BY DEF IInv, Timely, CreationKept, Idle, Loaded, At
<1> QED BY <1>1, Inductive, PTL

-----------------------------------------------------------------------------
(* The files implement MessageStore *)

Places(b, h) == \A i \in DOMAIN h : h[i].at \in 1..Len(b)
NoMessages == [n \in {} |-> n]
With(f, n, m) == [k \in DOMAIN f \cup {n} |-> IF k = n THEN m ELSE f[k]]

\* Nothing is found in an empty body, or by an empty header.
LEMMA FoundNone ==
  ASSUME NEW b, NEW places
  PROVE  /\ MessagesAt(<<>>, places) = NoMessages
         /\ MessagesAt(b, Index(<<>>)) = NoMessages
<1>1. {k \in DOMAIN places : places[k] \in DOMAIN <<>>} = {}
  BY EmptySeq
<1>2. {k \in DOMAIN Index(<<>>) : Index(<<>>)[k] \in DOMAIN b} = {}
  BY IndexOfNone
<1>3. MessagesAt(<<>>, places) = NoMessages
  BY <1>1 DEF MessagesAt, NoMessages
<1>4. MessagesAt(b, Index(<<>>)) = NoMessages
  BY <1>2 DEF MessagesAt, NoMessages
<1> QED BY <1>3, <1>4

\* All the numbers of a header whose places are in the body are found.
LEMMA FoundAll ==
  ASSUME NEW b, DOMAIN b = 1..Len(b), NEW h, WholeHeader(h), Places(b, h)
  PROVE  /\ MessagesAt(b, Index(h)) = [n \in DOMAIN Index(h) |-> b[Index(h)[n]]]
         /\ \A n \in DOMAIN Index(h) : Index(h)[n] \in 1..Len(b)
<1>1. \A n \in DOMAIN Index(h) : Index(h)[n] \in 1..Len(b)
  BY IndexPlaces DEF Places
<1>2. {k \in DOMAIN Index(h) : Index(h)[k] \in DOMAIN b} = DOMAIN Index(h)
  BY <1>1
<1> QED BY <1>1, <1>2 DEF MessagesAt

\* A message added to the body is not found until there is an entry for it.
LEMMA FoundAfterBody ==
  ASSUME NEW S, NEW b \in Seq(S), NEW h, WholeHeader(h), Places(b, h), NEW m \in S
  PROVE  MessagesAt(Append(b, m), Index(h)) = MessagesAt(b, Index(h))
<1>1. /\ DOMAIN b = 1..Len(b) /\ DOMAIN Append(b, m) = 1..Len(Append(b, m))
      /\ Len(Append(b, m)) = Len(b) + 1 /\ Len(b) \in Nat
      /\ \A i \in 1..Len(b) : Append(b, m)[i] = b[i]
  BY AppendProperties, LenProperties
<1>2. Places(Append(b, m), h)
  BY <1>1 DEF Places
<1>3. \A n \in DOMAIN Index(h) : Index(h)[n] \in 1..Len(b) /\ Append(b, m)[Index(h)[n]] = b[Index(h)[n]]
  BY <1>1, FoundAll
<1>4. MessagesAt(b, Index(h)) = [n \in DOMAIN Index(h) |-> b[Index(h)[n]]]
  BY <1>1, FoundAll
<1>5. MessagesAt(Append(b, m), Index(h)) = [n \in DOMAIN Index(h) |-> Append(b, m)[Index(h)[n]]]
  <2> DEFINE c == Append(b, m)
  <2>1. DOMAIN c = 1..Len(c) /\ Places(c, h)
    BY <1>1, <1>2
  <2> HIDE DEF c
  <2>2. MessagesAt(c, Index(h)) = [n \in DOMAIN Index(h) |-> c[Index(h)[n]]]
    BY <2>1, FoundAll
  <2> QED BY <2>2 DEF c
<1> QED BY <1>3, <1>4, <1>5

\* Its entry makes it found under its number.
LEMMA FoundAfterHeader ==
  ASSUME NEW b, DOMAIN b = 1..Len(b), NEW h, WholeHeader(h), Places(b, h),
         NEW e \in Entries, e.cut = "no", e.at \in 1..Len(b)
  PROVE  MessagesAt(b, Index(Append(h, e))) = With(MessagesAt(b, Index(h)), e.num, b[e.at])
<1> DEFINE g == Append(h, e)
<1>1. /\ WholeHeader(g)
      /\ Index(g) = [k \in DOMAIN Index(h) \cup {e.num} |-> IF k = e.num THEN e.at ELSE Index(h)[k]]
  BY IndexOfAppend
<1>2. Places(b, g)
  <2>1. /\ \A i \in DOMAIN h : g[i] = h[i]
        /\ DOMAIN g = DOMAIN h \cup {Len(h) + 1} /\ g[Len(h) + 1] = e
    BY AppendProperties, LenProperties DEF WholeHeader
  <2> QED BY <2>1 DEF Places
<1> HIDE DEF g
<1>3. MessagesAt(b, Index(g)) = [k \in DOMAIN Index(g) |-> b[Index(g)[k]]]
  <2>1. WholeHeader(g)
    BY <1>1
  <2> QED BY <2>1, <1>2, FoundAll
<1>4. MessagesAt(b, Index(h)) = [k \in DOMAIN Index(h) |-> b[Index(h)[k]]]
  BY FoundAll
<1>5. DOMAIN Index(g) = DOMAIN MessagesAt(b, Index(h)) \cup {e.num}
  BY <1>1, <1>4
<1>6. \A k \in DOMAIN Index(g) :
        b[Index(g)[k]] = IF k = e.num THEN b[e.at] ELSE MessagesAt(b, Index(h))[k]
  BY <1>1, <1>4
<1> QED BY <1>3, <1>5, <1>6 DEF g, With

\* What a store opened over the files would find.
Found == MessagesAt(files["body"], Index(files["header"]))
Nums == NumbersOf(files["seqnums"])

\* The next numbers the store answers.
Answered == IF up /\ ~Doing("load") THEN <<mem.sender, mem.target>> ELSE Nums

\* The call that system calls td, over the body b, are part of.
CallOf(on, td, b) ==
  CASE on /\ td # <<>> /\ Head(td).do = "body" ->
         [op |-> "set", num |-> td[2].num, msg |-> Head(td).msg]
    [] on /\ td # <<>> /\ Head(td).do = "header" ->
         [op |-> "set", num |-> Head(td).num, msg |-> b[Head(td).at]]
    [] on /\ td # <<>> /\ Head(td).do = "count" -> [op |-> "count"]
    [] on /\ td # <<>> /\ Head(td).do = "numbers" -> [op |-> "numbers"]
    [] on /\ td # <<>> /\ Head(td).do = "unlink" -> [op |-> "reset"]
    [] OTHER -> [op |-> "none"]

\* The first system call decides which call it is.
LEMMA CallIs ==
  ASSUME NEW on \in BOOLEAN, NEW td, NEW b, NEW d, on, td # <<>>, Head(td).do = d
  PROVE  /\ d = "body" => CallOf(on, td, b) = [op |-> "set", num |-> td[2].num, msg |-> Head(td).msg]
         /\ d = "header" =>
              CallOf(on, td, b) = [op |-> "set", num |-> Head(td).num, msg |-> b[Head(td).at]]
         /\ d = "count" => CallOf(on, td, b) = [op |-> "count"]
         /\ d = "numbers" => CallOf(on, td, b) = [op |-> "numbers"]
         /\ d = "unlink" => CallOf(on, td, b) = [op |-> "reset"]
         /\ d \in {"load", "create", "rewrite", "stamp"} => CallOf(on, td, b) = [op |-> "none"]
BY DEF CallOf

\* No call is under way when there is nothing to do.
LEMMA CallNone ==
  ASSUME NEW on, NEW b
  PROVE  CallOf(on, <<>>, b) = [op |-> "none"]
BY DEF CallOf

\* What a reopened store would find after each system call.
LEMMA FilesAfter ==
  ASSUME IInv, Next, {"torn", "unlinked"} \cap Windows = {}
  PROVE  /\ files' = files => UNCHANGED <<Nums, Found>>
         /\ WriteBody \/ Stamp \/ Fail \/ Crash => UNCHANGED <<Nums, Found>>
         /\ WriteHeader =>
              /\ Nums' = Nums
              /\ Found' = With(Found, Head(todo).num, files["body"][Head(todo).at])
         /\ WriteNumbers => Nums' = <<mem.sender, mem.target>> /\ Found' = Found
         /\ Unlink =>
              /\ On("unlink", "body") => Nums' = Nums /\ Found' = NoMessages
              /\ On("unlink", "header") => UNCHANGED <<Nums, Found>>
              /\ On("unlink", "seqnums") =>
                   Found = NoMessages /\ Found' = NoMessages /\ Nums' = <<1, 1>>
              /\ On("unlink", "session") =>
                   UNCHANGED <<Nums, Found>> /\ Found = NoMessages /\ Nums = <<1, 1>>
<1> DEFINE b == files["body"]
           h == files["header"]
<1>1. /\ DOMAIN files = Names /\ b \in Seq(Messages \cup {Part}) /\ WholeHeader(h)
      /\ Len(b) \in Nat /\ DOMAIN b = 1..Len(b)
  BY LenProperties DEF IInv, Placed, TypeOK, FilesOK, Whole, WholeHeader
<1>2. ~On("unlink", "header") => Places(b, h)
  BY DEF IInv, Placed, Places
<1>4. ASSUME files'["body"] = b, files'["header"] = h PROVE Found' = Found
  BY <1>4 DEF Found
<1>5. ASSUME files'["seqnums"] = files["seqnums"] PROVE Nums' = Nums
  BY <1>5 DEF Nums
<1>6. ASSUME files' = files PROVE UNCHANGED <<Nums, Found>>
  BY <1>4, <1>5, <1>6
<1>7. ASSUME NEW m \in Messages \cup {Part}, files' = [files EXCEPT !["body"] = Append(@, m)],
             ~On("unlink", "header")
      PROVE  UNCHANGED <<Nums, Found>>
  <2>1. files'["body"] = Append(b, m) /\ files'["header"] = h /\ files'["seqnums"] = files["seqnums"]
    BY <1>1, <1>7 DEF Names
  <2>2. MessagesAt(Append(b, m), Index(h)) = MessagesAt(b, Index(h))
    BY <1>1, <1>2, <1>7, FoundAfterBody
  <2> QED BY <1>5, <2>1, <2>2 DEF Found
<1>8. ASSUME WriteBody PROVE UNCHANGED <<Nums, Found>>
  <2>1. At("body") /\ files' = [files EXCEPT !["body"] = Append(@, Head(todo).msg)]
    BY <1>8 DEF WriteBody, Doing, At
  <2>2. Head(todo).msg \in Messages /\ ~On("unlink", "header")
    BY <2>1, TailPlanned, StepFields DEF IInv, Ordered, At, On
  <2> QED BY <1>7, <2>1, <2>2
<1>9. ASSUME WriteHeader
      PROVE  /\ Nums' = Nums
             /\ Found' = With(Found, Head(todo).num, b[Head(todo).at])
  <2> DEFINE e == Entry("no")
  <2>1. At("header") /\ files' = [files EXCEPT !["header"] = Append(@, e)]
    BY <1>9 DEF WriteHeader, Doing, At
  <2>2. e \in Entries /\ e.cut = "no" /\ e.at = Head(todo).at /\ e.num = Head(todo).num
    BY <2>1, TailPlanned, StepFields DEF IInv, Ordered, At, Entry, Entries
  <2>3. ~On("unlink", "header") /\ e.at = Len(b) /\ b # <<>>
    BY <2>1, <2>2 DEF IInv, Placed, On, At
  <2>4. files'["body"] = b /\ files'["header"] = Append(h, e) /\ files'["seqnums"] = files["seqnums"]
    BY <1>1, <2>1 DEF Names
  <2>5. e.at \in 1..Len(b)
    BY <1>1, <2>3, EmptySeq
  <2> HIDE DEF e
  <2>6. MessagesAt(b, Index(Append(h, e))) = With(Found, e.num, b[e.at])
    <3>1. /\ WholeHeader(h) /\ DOMAIN b = 1..Len(b) /\ Places(b, h)
          /\ e \in Entries /\ e.cut = "no" /\ e.at \in 1..Len(b)
      BY <1>1, <1>2, <2>2, <2>3, <2>5
    <3> HIDE DEF b, h
    <3>2. MessagesAt(b, Index(Append(h, e))) = With(MessagesAt(b, Index(h)), e.num, b[e.at])
      BY <3>1, FoundAfterHeader
    <3> QED BY <3>2 DEF Found, b, h
  <2>7. Found' = With(Found, e.num, b[e.at])
    BY <2>4, <2>6 DEF Found
  <2> QED BY <1>5, <2>2, <2>4, <2>7
<1>10. ASSUME WriteNumbers PROVE Nums' = <<mem.sender, mem.target>> /\ Found' = Found
  <2>1. files'["body"] = b /\ files'["header"] = h /\ files'["seqnums"] = <<mem.sender, mem.target>>
    BY <1>1, <1>10 DEF WriteNumbers, Names
  <2> QED BY <1>4, <2>1 DEF Nums, NumbersOf
<1>11. ASSUME Stamp PROVE UNCHANGED <<Nums, Found>>
  <2>1. files'["body"] = b /\ files'["header"] = h /\ files'["seqnums"] = files["seqnums"]
    BY <1>1, <1>11 DEF Stamp, Names
  <2> QED BY <1>4, <1>5, <2>1
<1>12. ASSUME Fail \/ Crash PROVE UNCHANGED <<Nums, Found>>
  <2>1. files' = files \/ (At("body") /\ files' = [files EXCEPT !["body"] = Append(@, Part)])
    BY <1>12 DEF Fail, Crash, Doing, At
  <2> QED BY <1>6, <1>7, <2>1 DEF On, At
<1>13. ASSUME Unlink
       PROVE  /\ On("unlink", "body") => Nums' = Nums /\ Found' = NoMessages
              /\ On("unlink", "header") => UNCHANGED <<Nums, Found>>
              /\ On("unlink", "seqnums") =>
                   Found = NoMessages /\ Found' = NoMessages /\ Nums' = <<1, 1>>
              /\ On("unlink", "session") =>
                   UNCHANGED <<Nums, Found>> /\ Found = NoMessages /\ Nums = <<1, 1>>
  <2>1. At("unlink") /\ files' = [files EXCEPT ![Head(todo).file] = <<>>]
    BY <1>13 DEF Unlink, Doing, At
  <2>2. ASSUME On("unlink", "body") PROVE Nums' = Nums /\ Found' = NoMessages
    <3>1. files'["body"] = <<>> /\ files'["seqnums"] = files["seqnums"]
      BY <1>1, <2>1, <2>2 DEF Names, On
    <3> QED BY <1>5, <3>1, FoundNone DEF Found
  <2>3. ASSUME On("unlink", "header") PROVE UNCHANGED <<Nums, Found>>
    <3>1. files'["header"] = <<>> /\ files'["seqnums"] = files["seqnums"]
      BY <1>1, <2>1, <2>3 DEF Names, On
    <3>2. Found' = NoMessages
      BY <3>1, FoundNone DEF Found
    <3>3. b = <<>>
      BY <2>3 DEF IInv, Placed
    <3>4. Found = NoMessages
      BY <3>3, FoundNone DEF Found
    <3> QED BY <1>5, <3>1, <3>2, <3>4
  <2>4. ASSUME h = <<>> PROVE Found = NoMessages
    BY <2>4, FoundNone DEF Found
  <2>5. ASSUME On("unlink", "seqnums")
        PROVE  Found = NoMessages /\ Found' = NoMessages /\ Nums' = <<1, 1>>
    <3>1. files'["body"] = b /\ files'["header"] = h /\ files'["seqnums"] = <<>>
      BY <1>1, <2>1, <2>5 DEF Names, On
    <3>2. h = <<>>
      BY <2>5 DEF IInv, Resetting
    <3>3. Nums' = <<1, 1>>
      BY <3>1 DEF Nums, NumbersOf
    <3> QED BY <1>4, <2>4, <3>1, <3>2, <3>3
  <2>6. ASSUME On("unlink", "session")
        PROVE  UNCHANGED <<Nums, Found>> /\ Found = NoMessages /\ Nums = <<1, 1>>
    <3>1. files'["body"] = b /\ files'["header"] = h /\ files'["seqnums"] = files["seqnums"]
      BY <1>1, <2>1, <2>6 DEF Names, On
    <3>2. h = <<>> /\ files["seqnums"] = <<>>
      BY <2>6 DEF IInv, Resetting
    <3>3. Nums = <<1, 1>>
      BY <3>2 DEF Nums, NumbersOf
    <3> QED BY <1>4, <1>5, <2>4, <3>1, <3>2, <3>3
  <2> QED BY <2>2, <2>3, <2>5, <2>6
<1> QED BY <1>6, <1>8, <1>9, <1>10, <1>11, <1>12, <1>13

\* Every step of the code is a step of the call of a MessageStore that is under way,
\* or none.
LEMMA StoredStep ==
  ASSUME IInv, Next, {"torn", "unlinked"} \cap Windows = {}
  PROVE  Stored!Next \/ UNCHANGED <<up, Answered, Nums, Found, CallUnderWay>>
<1> DEFINE c == CallOf(up, todo, files["body"])
           d == CallOf(up', todo', files'["body"])
<1>1. /\ TypeOK /\ Ordered /\ Resetting /\ Opening /\ Placed /\ Step
      /\ up \in BOOLEAN /\ (~up => todo = <<>>)
      /\ Nums = <<Nums[1], Nums[2]>>
  BY DEF IInv, TypeOK, RestOK, Next, FilesOK, Nums, NumbersOf
<1>2. CallUnderWay = c /\ CallUnderWay' = d
  BY DEF CallUnderWay, CallOf, Doing
<1>3. /\ todo = <<>> => c = [op |-> "none"]
      /\ todo' = <<>> => d = [op |-> "none"]
      /\ \A x : At(x) => up
  BY <1>1, CallNone DEF At
<1> HIDE DEF c, d
<1>4. /\ At("body") => c = [op |-> "set", num |-> todo[2].num, msg |-> Head(todo).msg]
      /\ At("header") =>
           c = [op |-> "set", num |-> Head(todo).num, msg |-> files["body"][Head(todo).at]]
      /\ At("count") => c = [op |-> "count"]
      /\ At("numbers") => c = [op |-> "numbers"]
      /\ At("unlink") => c = [op |-> "reset"]
      /\ At("load") \/ At("create") \/ At("rewrite") \/ At("stamp") => c = [op |-> "none"]
  BY <1>1, <1>3, CallIs DEF At, c
<1>5. ASSUME up' = TRUE
      PROVE  /\ At("body")' => d = [op |-> "set", num |-> todo'[2].num, msg |-> Head(todo').msg]
             /\ At("header")' =>
                  d = [op |-> "set", num |-> Head(todo').num, msg |-> files'["body"][Head(todo').at]]
             /\ At("count")' => d = [op |-> "count"]
             /\ At("numbers")' => d = [op |-> "numbers"]
             /\ At("unlink")' => d = [op |-> "reset"]
             /\ At("load")' \/ At("create")' \/ At("rewrite")' \/ At("stamp")' =>
                  d = [op |-> "none"]
  BY <1>5, CallIs DEF At, d
<1>6. /\ up /\ ~At("load") => Answered = <<mem.sender, mem.target>>
      /\ ~up \/ At("load") => Answered = Nums
      /\ up' /\ ~At("load")' => Answered' = <<mem'.sender, mem'.target>>
      /\ ~up' \/ At("load")' => Answered' = Nums'
  BY <1>1, <1>3 DEF Answered, Doing, At
<1>7. \A x, y : x # y => ~(At(x) /\ At(y)) /\ ~(At(x)' /\ At(y)')
  BY DEF At
<1>8. (todo = <<>> => \A x : ~At(x)) /\ (todo' = <<>> => \A x : ~At(x)')
  BY DEF At
<1> DEFINE Idles == UNCHANGED <<up, Answered, Nums, Found, CallUnderWay>>
<1>10. ASSUME NEW m \in Messages, Persist(m) PROVE Stored!Persist(m)
  <2>1. todo = <<>> /\ up /\ up' /\ files' = files /\ mem' = mem /\ up' = up
    BY <1>10 DEF Persist, Idle, Call
  <2>2. At("body")' /\ todo'[2].num = mem.sender /\ Head(todo').msg = m
    BY <1>10, HeadAfter, <1>1 DEF Persist, Call
  <2>3. c = [op |-> "none"] /\ d = [op |-> "set", num |-> mem.sender, msg |-> m]
    BY <1>3, <1>5, <2>1, <2>2
  <2>4. Answered = <<mem.sender, mem.target>> /\ Answered' = Answered
    BY <1>6, <1>7, <1>8, <2>1, <2>2
  <2>5. Nums' = Nums /\ Found' = Found
    BY <2>1, FilesAfter
  <2> QED BY <1>2, <2>1, <2>3, <2>4, <2>5
          DEF Stored!Persist, Stored!NoCall, Nums, Found, Answered
<1>11. ASSUME NEW n \in 1..MaxSeq, SetNextSenderMsgSeqNum(n) \/ SetNextTargetMsgSeqNum(n)
       PROVE  \E x, y \in 1..MaxSeq : Stored!SetNext(x, y)
  <2> DEFINE x == mem'.sender
             y == mem'.target
  <2>1. todo = <<>> /\ up /\ up' /\ files' = files /\ up' = up
    BY <1>11 DEF SetNextSenderMsgSeqNum, SetNextTargetMsgSeqNum, Idle, Call
  <2>2. /\ x \in 1..MaxSeq /\ y \in 1..MaxSeq
        /\ x = mem.sender \/ y = mem.target
    BY <1>1, <1>11 DEF SetNextSenderMsgSeqNum, SetNextTargetMsgSeqNum, TypeOK, MemOK, Numbers
  <2>3. At("numbers")'
    BY <1>1, <1>11, HeadAfter DEF Numbers
  <2>4. c = [op |-> "none"] /\ d = [op |-> "numbers"]
    BY <1>3, <1>5, <2>1, <2>3
  <2>5. Answered = <<mem.sender, mem.target>> /\ Answered' = <<x, y>>
    BY <1>6, <1>7, <1>8, <2>1, <2>3
  <2>6. Nums' = Nums /\ Found' = Found
    BY <2>1, FilesAfter
  <2> HIDE DEF x, y
  <2>7. Answered[1] = mem.sender /\ Answered[2] = mem.target
    BY <2>5
  <2>8. Stored!SetNext(x, y)
    BY <1>2, <2>1, <2>2, <2>4, <2>5, <2>6, <2>7
       DEF Stored!SetNext, Stored!NoCall, Nums, Found, Answered
  <2> QED BY <2>2, <2>8
<1>12. ASSUME Reset PROVE Stored!Reset
  <2>1. todo = <<>> /\ up /\ up' /\ files' = files /\ up' = up /\ mem'.sender = 1 /\ mem'.target = 1
    BY <1>12 DEF Reset, Idle, Call, Cleared
  <2>2. At("unlink")'
    BY <1>1, <1>12, HeadAfter DEF On
  <2>3. c = [op |-> "none"] /\ d = [op |-> "reset"]
    BY <1>3, <1>5, <2>1, <2>2
  <2>4. Answered' = <<1, 1>>
    BY <1>6, <1>7, <2>1, <2>2
  <2>5. Nums' = Nums /\ Found' = Found
    BY <2>1, FilesAfter
  <2> QED BY <1>2, <2>1, <2>3, <2>4, <2>5 DEF Stored!Reset, Stored!NoCall, Nums, Found, Answered
<1>13. ASSUME Refresh PROVE Stored!Refresh
  <2>1. todo = <<>> /\ up /\ up' /\ files' = files /\ up' = up
    BY <1>13 DEF Refresh, Idle, Call
  <2>2. At("load")'
    BY <1>1, <1>13, HeadAfter
  <2>3. c = [op |-> "none"] /\ d = [op |-> "none"]
    BY <1>3, <1>5, <2>1, <2>2
  <2>4. Nums' = Nums /\ Found' = Found
    BY <2>1, FilesAfter
  <2>5. Answered' = Nums
    BY <1>6, <2>2, <2>4
  <2> QED BY <1>2, <2>1, <2>3, <2>4, <2>5 DEF Stored!Refresh, Stored!NoCall, Nums, Found, Answered
<1>14. ASSUME Start PROVE Stored!Start
  <2>1. ~up /\ up' = TRUE /\ files' = files /\ todo = <<>>
    BY <1>1, <1>14 DEF Start
  <2>2. At("load")'
    BY <1>1, <1>14, HeadAfter
  <2>3. c = [op |-> "none"] /\ d = [op |-> "none"]
    BY <1>3, <1>5, <2>1, <2>2
  <2>4. Nums' = Nums /\ Found' = Found
    BY <2>1, FilesAfter
  <2>5. Answered' = Answered
    BY <1>6, <2>1, <2>2, <2>4
  <2> QED BY <1>2, <2>1, <2>3, <2>4, <2>5 DEF Stored!Start, Nums, Found, Answered
<1>15. ASSUME WriteBody PROVE Idles
  <2>1. At("body") /\ up /\ up' = up /\ mem' = mem
        /\ files' = [files EXCEPT !["body"] = Append(@, Head(todo).msg)]
    BY <1>15 DEF WriteBody, Doing, At
  <2>2. At("header")' /\ Head(todo') = todo[2]
    BY <1>1, <1>15, HeadAfter
  <2>3. files'["body"][todo[2].at] = Head(todo).msg
    <3>1. /\ files["body"] \in Seq(Messages \cup {Part}) /\ DOMAIN files = Names
          /\ Head(todo).msg \in Messages
      BY <1>1, <2>1, TailPlanned, StepFields DEF TypeOK, FilesOK, Ordered, At
    <3>2. files'["body"] = Append(files["body"], Head(todo).msg)
      BY <2>1, <3>1 DEF Names
    <3>3. todo[2].at = Len(files["body"]) + 1
      BY <1>1, <2>1 DEF Placed
    <3> QED BY <3>1, <3>2, <3>3, AppendProperties
  <2>4. c = d
    BY <1>4, <1>5, <2>1, <2>2, <2>3
  <2>5. Answered' = Answered
    BY <1>6, <1>7, <2>1, <2>2
  <2> QED BY <1>2, <1>15, <2>1, <2>4, <2>5, FilesAfter
<1>16. ASSUME WriteHeader PROVE Stored!Put
  <2> DEFINE n == Head(todo).num
             m == files["body"][Head(todo).at]
  <2>1. /\ At("header") /\ up /\ up' = up /\ mem'.sender = mem.sender /\ mem'.target = mem.target
    BY <1>1, <1>16 DEF WriteHeader, Doing, At, TypeOK, MemOK
  <2>2. At("count")'
    BY <1>1, <1>16, HeadAfter
  <2>3. c = [op |-> "set", num |-> n, msg |-> m] /\ d = [op |-> "count"]
    BY <1>4, <1>5, <2>1, <2>2
  <2>4. Answered' = Answered
    BY <1>6, <1>7, <2>1, <2>2
  <2>5. Nums' = Nums /\ Found' = With(Found, n, m)
    BY <1>16, FilesAfter
  <2> HIDE DEF n, m
  <2>6. c.op = "set" /\ c.num = n /\ c.msg = m
    BY <2>3
  <2>7. Found' = [k \in DOMAIN Found \cup {c.num} |-> IF k = c.num THEN c.msg ELSE Found[k]]
    BY <2>5, <2>6 DEF With
  <2> QED BY <1>2, <2>1, <2>3, <2>4, <2>5, <2>6, <2>7 DEF Stored!Put, Nums, Found, Answered
<1>17. ASSUME Count PROVE Stored!Count
  <2>1. /\ At("count") /\ up /\ up' = up /\ files' = files
        /\ mem'.sender = mem.sender + 1 /\ mem'.target = mem.target
    BY <1>1, <1>17 DEF Count, Call, Doing, At, TypeOK, MemOK
  <2>2. At("numbers")'
    BY <1>1, <1>17, HeadAfter
  <2>3. c = [op |-> "count"] /\ d = [op |-> "numbers"] /\ c.op = "count"
    BY <1>4, <1>5, <2>1, <2>2
  <2>4. Answered = <<mem.sender, mem.target>> /\ Answered' = <<mem.sender + 1, mem.target>>
    BY <1>6, <1>7, <2>1, <2>2
  <2>5. Nums' = Nums /\ Found' = Found
    BY <2>1, FilesAfter
  <2>6. Answered' = <<Answered[1] + 1, Answered[2]>>
    BY <2>4
  <2> QED BY <1>2, <2>1, <2>3, <2>5, <2>6 DEF Stored!Count, Nums, Found, Answered
<1>18. ASSUME WriteNumbers PROVE Stored!Keep \/ Idles
  <2>1. /\ At("numbers") \/ At("rewrite")
        /\ up /\ up' = up /\ mem' = mem /\ todo' = Tail(todo) /\ todo # <<>>
    BY <1>18 DEF WriteNumbers, Doing, At
  <2>2. Nums' = <<mem.sender, mem.target>> /\ Found' = Found
    BY <1>18, FilesAfter
  <2>3. todo' = <<>> \/ At("rewrite")' \/ At("stamp")'
    BY <1>1, <1>18, HeadAfter
  <2>4. d = [op |-> "none"]
    BY <1>3, <1>5, <2>1, <2>3
  <2>5. Answered = <<mem.sender, mem.target>> /\ Answered' = Answered
    BY <1>6, <1>7, <1>8, <2>1, <2>3
  <2>6. CASE At("numbers")
    <3>1. c = [op |-> "numbers"] /\ c.op = "numbers"
      BY <1>4, <2>6
    <3>2. Nums' = Answered
      BY <2>2, <2>5
    <3> QED BY <1>2, <2>1, <2>2, <2>4, <2>5, <3>1, <3>2
            DEF Stored!Keep, Stored!NoCall, Nums, Found, Answered
  <2>7. CASE At("rewrite")
    <3>1. c = [op |-> "none"]
      BY <1>4, <2>7
    <3>2. Nums' = Nums
      BY <1>1, <2>2, <2>7 DEF Opening, Nums
    <3> QED BY <1>2, <2>1, <2>2, <2>4, <2>5, <3>1, <3>2
  <2> QED BY <2>1, <2>6, <2>7
<1>19. ASSUME Stamp \/ Create PROVE Idles
  <2>1. /\ At("stamp") \/ At("create")
        /\ up /\ up' = up /\ mem' = mem
    BY <1>19 DEF Stamp, Create, Doing, At
  <2>2. Nums' = Nums /\ Found' = Found
    BY <1>19, FilesAfter DEF Create
  <2>3. todo' = <<>> \/ At("create")' \/ At("rewrite")' \/ At("stamp")'
    BY <1>1, <1>19, HeadAfter, HeadAfterCreate DEF On
  <2>4. c = [op |-> "none"] /\ d = [op |-> "none"]
    BY <1>3, <1>4, <1>5, <2>1, <2>3
  <2>5. Answered' = Answered
    BY <1>6, <1>7, <1>8, <2>1, <2>3
  <2> QED BY <1>2, <2>1, <2>2, <2>4, <2>5
<1>20. ASSUME PopulateCache PROVE Idles
  <2>1. /\ At("load") /\ up /\ up' = up /\ files' = files
        /\ mem'.sender = Nums[1] /\ mem'.target = Nums[2]
    BY <1>20 DEF PopulateCache, Doing, At, Nums
  <2>2. Nums' = Nums /\ Found' = Found
    BY <2>1, FilesAfter
  <2>3. At("create")'
    BY <1>1, <1>20, HeadAfter DEF On
  <2>4. c = [op |-> "none"] /\ d = [op |-> "none"]
    BY <1>4, <1>5, <2>1, <2>3
  <2>5. Answered' = Answered
    <3>1. Answered = Nums /\ Answered' = <<mem'.sender, mem'.target>>
      BY <1>6, <1>7, <2>1, <2>3
    <3> QED BY <1>1, <2>1, <3>1
  <2> QED BY <1>2, <2>1, <2>2, <2>4, <2>5
<1>21. ASSUME Unlink PROVE Stored!Forget \/ Stored!StartOver \/ Stored!EndReset \/ Idles
  <2>1. At("unlink") /\ up /\ up' = up /\ mem' = mem
    BY <1>21 DEF Unlink, Doing, At
  <2>2. c = [op |-> "reset"] /\ c.op = "reset"
    BY <1>4, <2>1
  <2>3. Answered = <<1, 1>> /\ mem'.sender = 1 /\ mem'.target = 1
    BY <1>1, <1>6, <1>7, <2>1 DEF Resetting
  <2>4. ASSUME At("unlink")' PROVE Answered' = Answered /\ d = c
    BY <1>5, <1>6, <1>7, <2>1, <2>2, <2>3, <2>4
  <2>5. CASE On("unlink", "body") /\ On("unlink", "header")'
    <3>1. Nums' = Nums /\ Found' = NoMessages
      BY <1>21, <2>5, FilesAfter
    <3>2. Answered' = Answered /\ d = c
      BY <2>4, <2>5 DEF On
    <3> QED BY <1>2, <2>1, <2>2, <3>1, <3>2
            DEF Stored!Forget, Stored!Empty, Nums, Found, Answered, NoMessages
  <2>6. CASE On("unlink", "header") /\ On("unlink", "seqnums")'
    <3>1. Nums' = Nums /\ Found' = Found
      BY <1>21, <2>6, FilesAfter
    <3>2. Answered' = Answered /\ d = c
      BY <2>4, <2>6 DEF On
    <3> QED BY <1>2, <2>1, <3>1, <3>2
  <2>7. CASE On("unlink", "seqnums") /\ On("unlink", "session")'
    <3>1. Found = NoMessages /\ Found' = NoMessages /\ Nums' = <<1, 1>>
      BY <1>21, <2>7, FilesAfter
    <3>2. Answered' = Answered /\ d = c
      BY <2>4, <2>7 DEF On
    <3> QED BY <1>2, <2>1, <2>2, <3>1, <3>2
            DEF Stored!StartOver, Stored!Empty, Nums, Found, Answered, NoMessages
  <2>8. CASE On("unlink", "session") /\ At("load")'
    <3>1. Nums' = Nums /\ Found' = Found /\ Found = NoMessages /\ Nums = <<1, 1>>
      BY <1>21, <2>8, FilesAfter
    <3>2. d = [op |-> "none"]
      BY <1>5, <2>1, <2>8
    <3>3. Answered' = Answered
      BY <1>6, <2>3, <2>8, <3>1
    <3> QED BY <1>2, <2>1, <2>2, <3>1, <3>2, <3>3
            DEF Stored!EndReset, Stored!NoCall, Stored!Empty, Nums, Found, Answered, NoMessages
  <2> QED BY <1>1, <1>21, <2>5, <2>6, <2>7, <2>8, HeadAfterUnlink
<1>22. ASSUME Fail PROVE Stored!Fail
  <2>1. /\ At("body") \/ At("header") \/ At("numbers")
        /\ up /\ up' = up /\ mem' = mem /\ todo' = <<>>
    BY <1>22 DEF Fail, At
  <2>2. Nums' = Nums /\ Found' = Found
    BY <1>22, FilesAfter
  <2>3. c.op \in {"set", "numbers"} /\ d = [op |-> "none"]
    BY <1>3, <1>4, <2>1
  <2>4. c # [op |-> "none"]
    BY <2>3
  <2>5. Answered' = Answered
    BY <1>6, <1>7, <1>8, <2>1
  <2> QED BY <1>2, <2>1, <2>2, <2>3, <2>4, <2>5 DEF Stored!Fail, Stored!NoCall, Nums, Found, Answered
<1>23. ASSUME Crash PROVE Stored!Crash
  <2>1. up /\ up' = FALSE /\ todo' = <<>>
    BY <1>23 DEF Crash
  <2>2. Nums' = Nums /\ Found' = Found
    BY <1>23, FilesAfter
  <2>3. d = [op |-> "none"] /\ Answered' = Nums
    BY <1>3, <1>6, <2>1, <2>2
  <2> QED BY <1>2, <2>1, <2>2, <2>3 DEF Stored!Crash, Stored!NoCall, Nums, Found, Answered
<1> QED BY <1>1, <1>10, <1>11, <1>12, <1>13, <1>14, <1>15, <1>16, <1>17, <1>18, <1>19, <1>20,
           <1>21, <1>22, <1>23 DEF Step, Stored!Next

\* The files implement the store that MessageStore promises (Durable): whatever crash
\* or failed write cuts a call of FileStore short, a message is found under the number
\* Session::persist gave it from the moment its entry is written until a reset, and
\* nothing else is found; the kept numbers change only to those the call under way has
\* set; a reopen and a refresh() change nothing; as long as no crash falls between the
\* two unlinks of reset() and none leaves an entry of the header in part.
THEOREM DurableStore == ASSUME {"torn", "unlinked"} \cap Windows = {} PROVE Spec => Durable
<1> DEFINE view == <<up, Answered, Nums, Found, CallUnderWay>>
<1>1. Init => Stored!Init
  <2> SUFFICES ASSUME Init PROVE Stored!Init
    OBVIOUS
  <2>1. files["seqnums"] = <<>> /\ files["body"] = <<>> /\ up = FALSE /\ todo = <<>>
    BY DEF Init, Names
  <2>2. Found = NoMessages
    BY <2>1, FoundNone DEF Found
  <2>3. Nums = <<1, 1>> /\ Answered = <<1, 1>>
    BY <2>1 DEF Nums, NumbersOf, Answered
  <2>4. CallUnderWay = [op |-> "none"]
    BY <2>1 DEF CallUnderWay, Doing
  <2> QED BY <2>1, <2>2, <2>3, <2>4
          DEF Stored!Init, Stored!Empty, Stored!NoCall, Found, Nums, Answered, NoMessages
<1>2. IInv /\ [Next]_vars => [Stored!Next]_view
  <2> SUFFICES ASSUME IInv, [Next]_vars PROVE [Stored!Next]_view
    OBVIOUS
  <2>1. CASE UNCHANGED vars
    BY <2>1 DEF vars, Nums, Found, Answered, CallUnderWay, Doing
  <2>2. CASE Next
    BY <2>2, StoredStep
  <2> QED BY <2>1, <2>2
<1>3. Durable <=> Stored!Init /\ [][Stored!Next]_view
  BY DEF Durable, Stored!Spec, Stored!vars, Nums, Found, Answered
<1> QED BY <1>1, <1>2, <1>3, Inductive, PTL DEF Spec

=============================================================================
