-------------------------- MODULE RetransmitProofs --------------------------
(***************************************************************************)
(* What a retransmission consists of, for every store, every range and     *)
(* whatever the application withholds: lemmas about Retransmits for the    *)
(* proofs about one session and about two.                                 *)
(***************************************************************************)
EXTENDS SessionHandlers, FiniteSetTheorems, WellFoundedInduction, TLAPS

-----------------------------------------------------------------------------
(* Numbers in order *)

\* A set of natural numbers that is not empty has a least one.
LEMMA LeastNumber ==
  ASSUME NEW S \in SUBSET Nat, S # {}
  PROVE  \E n \in S : \A k \in S : n <= k
<1>1. IsWellFoundedOn(OpToRel(<, Nat), Nat)
  BY NatLessThanWellFounded
<1>2. PICK n \in S : \A k \in S : ~(<<k, n>> \in OpToRel(<, Nat))
  BY <1>1, WFMin
<1>3. \A k \in S : ~(k < n)
  BY <1>2 DEF OpToRel
<1> QED BY <1>3

\* One that is bounded as well has a greatest one.
LEMMA GreatestNumber ==
  ASSUME NEW S \in SUBSET Nat, S # {}, NEW u \in Nat, \A n \in S : n <= u
  PROVE  \E n \in S : \A k \in S : n >= k
<1> DEFINE U == {k \in Nat : \A n \in S : n <= k}
<1>1. U \in SUBSET Nat /\ U # {}
  OBVIOUS
<1>2. PICK k \in U : \A j \in U : k <= j
  BY <1>1, LeastNumber
<1>3. k \in S
  <2>1. SUFFICES ASSUME k \notin S PROVE FALSE
    OBVIOUS
  <2>2. \A n \in S : n <= k - 1 /\ k - 1 \in Nat
    BY <2>1, <1>2
  <2>3. k - 1 \in U
    BY <2>2
  <2> QED BY <1>2, <2>3
<1> QED BY <1>2, <1>3

\* Min and Max choose them.
LEMMA MinOf ==
  ASSUME NEW S \in SUBSET Nat, S # {}
  PROVE  Min(S) \in S /\ \A k \in S : Min(S) <= k
BY LeastNumber DEF Min

\* The community modules' Max of such a set.
LEMMA MaxOf ==
  ASSUME NEW S \in SUBSET Nat, S # {}, NEW u \in Nat, \A n \in S : n <= u
  PROVE  Max(S) \in S /\ \A k \in S : Max(S) >= k
BY GreatestNumber DEF Max

\* The rank of an element counts the elements below it: different elements have
\* different ranks.
LEMMA RankGrows ==
  ASSUME NEW S \in SUBSET Nat, IsFiniteSet(S), NEW m \in S, NEW n \in S, m < n
  PROVE  Cardinality({k \in S : k < m}) < Cardinality({k \in S : k < n})
<1> DEFINE M == {k \in S : k < m}
           N == {k \in S : k < n}
<1>1. IsFiniteSet(N) /\ IsFiniteSet(M) /\ Cardinality(M) \in Nat /\ Cardinality(N) \in Nat
  BY FS_Subset, FS_CardinalityType
<1>2. M \in SUBSET N /\ m \in N /\ m \notin M
  <2>1. m \in Nat /\ n \in Nat /\ \A k \in S : k \in Nat
    OBVIOUS
  <2>2. \A k \in S : k < m => k < n
    BY <2>1
  <2>3. ~(m < m)
    BY <2>1
  <2> QED BY <2>2, <2>3
<1>3. Cardinality(M) <= Cardinality(N) /\ Cardinality(M) # Cardinality(N)
  BY <1>1, <1>2, FS_Subset
<1> QED BY <1>1, <1>3

\* Ranks are below the number of elements, and each of these is a rank.
LEMMA RanksAll ==
  ASSUME NEW S \in SUBSET Nat, IsFiniteSet(S)
  PROVE  /\ \A n \in S : Cardinality({k \in S : k < n}) \in 0..(Cardinality(S) - 1)
         /\ \A i \in 0..(Cardinality(S) - 1) :
              \E n \in S : Cardinality({k \in S : k < n}) = i
<1> DEFINE c == Cardinality(S)
           rank == [n \in S |-> Cardinality({k \in S : k < n})]
<1>1. c \in Nat
  BY FS_CardinalityType
<1>2. ASSUME NEW n \in S PROVE rank[n] \in 0..(c - 1)
  <2> DEFINE N == {k \in S : k < n}
  <2>1. N \in SUBSET S /\ n \notin N
    OBVIOUS
  <2>2. IsFiniteSet(N) /\ Cardinality(N) <= c /\ Cardinality(N) # c
    BY <2>1, FS_Subset
  <2>3. Cardinality(N) \in Nat
    BY <2>2, FS_CardinalityType
  <2> QED BY <1>1, <2>2, <2>3
<1>3. \A m, n \in S : m < n => rank[m] < rank[n]
  BY RankGrows
<1>4. \A m, n \in S : rank[m] = rank[n] => m = n
  <2> SUFFICES ASSUME NEW m \in S, NEW n \in S, rank[m] = rank[n], m # n PROVE FALSE
    OBVIOUS
  <2>1. rank[m] \in 0..(c - 1) /\ rank[n] \in 0..(c - 1)
    BY <1>2
  <2>2. m \in Nat /\ n \in Nat
    OBVIOUS
  <2>3. CASE m < n
    BY <1>3, <2>1, <2>3
  <2>4. CASE n < m
    BY <1>3, <2>1, <2>4
  <2> QED BY <2>2, <2>3, <2>4
<1>5. rank \in Injection(S, 0..(c - 1))
  <2>1. rank \in [S -> 0..(c - 1)]
    BY <1>2
  <2> QED BY <1>4, <2>1 DEF Injection, IsInjective
<1>6. IsFiniteSet(0..(c - 1)) /\ Cardinality(0..(c - 1)) = c
  <2>1. 0 \in Int /\ c - 1 \in Int /\ (0 > c - 1 => c = 0)
    BY <1>1
  <2> HIDE DEF c
  <2> QED BY <1>1, <2>1, FS_Interval
<1>7. rank \in Surjection(S, 0..(c - 1))
  BY <1>5, <1>6, FS_Injection
<1> QED BY <1>2, <1>7 DEF Surjection

\* Ascending lists the elements of a finite set of numbers, each once and in order.
LEMMA AscendingOrder ==
  ASSUME NEW S \in SUBSET Nat, IsFiniteSet(S)
  PROVE  /\ Cardinality(S) \in Nat
         /\ DOMAIN Ascending(S) = 1..Cardinality(S)
         /\ \A i \in 1..Cardinality(S) : Ascending(S)[i] \in S
         /\ \A i, j \in 1..Cardinality(S) : i < j => Ascending(S)[i] < Ascending(S)[j]
         /\ \A n \in S : \E i \in 1..Cardinality(S) : Ascending(S)[i] = n
<1> DEFINE c == Cardinality(S)
           rank(n) == Cardinality({k \in S : k < n})
           o == Ascending(S)
<1>1. c \in Nat
  BY FS_CardinalityType
<1>2. \A i \in 1..c : o[i] \in S /\ rank(o[i]) = i - 1
  <2> SUFFICES ASSUME NEW i \in 1..c PROVE o[i] \in S /\ rank(o[i]) = i - 1
    OBVIOUS
  <2>1. i - 1 \in 0..(c - 1)
    BY <1>1
  <2>2. \E n \in S : rank(n) = i - 1
    BY <2>1, RanksAll
  <2>3. o[i] = CHOOSE n \in S : rank(n) = i - 1
    BY DEF Ascending
  <2> QED BY <2>2, <2>3
<1>3. \A m, n \in S : m < n => rank(m) < rank(n)
  BY RankGrows
<1>4. \A n \in S : rank(n) \in 0..(c - 1)
  BY RanksAll
<1>8. DOMAIN o = 1..c
  BY DEF Ascending
<1> HIDE DEF c, o, rank
<1>5. \A i, j \in 1..c : i < j => o[i] < o[j]
  <2> SUFFICES ASSUME NEW i \in 1..c, NEW j \in 1..c, i < j, ~(o[i] < o[j]) PROVE FALSE
    OBVIOUS
  <2>1. o[i] \in S /\ o[j] \in S /\ rank(o[i]) = i - 1 /\ rank(o[j]) = j - 1
    BY <1>2
  <2>2. o[j] < o[i] \/ o[j] = o[i]
    <3>1. o[i] \in Nat /\ o[j] \in Nat
      BY <2>1
    <3> QED BY <3>1
  <2>3. CASE o[j] = o[i]
    BY <2>1, <2>3, <1>1
  <2>4. CASE o[j] < o[i]
    <3>1. rank(o[j]) < rank(o[i])
      BY <2>1, <2>4, <1>3
    <3>2. i \in Nat /\ j \in Nat
      BY <1>1
    <3> QED BY <2>1, <3>1, <3>2
  <2> QED BY <2>2, <2>3, <2>4
<1>6. ASSUME NEW n \in S PROVE \E i \in 1..c : o[i] = n
  <2> DEFINE i == rank(n) + 1
  <2>1. i \in 1..c /\ rank(n) = i - 1
    BY <1>1, <1>4
  <2>2. o[i] \in S /\ rank(o[i]) = i - 1
    BY <2>1, <1>2
  <2>3. ~(o[i] < n) /\ ~(n < o[i])
    <3>1. (o[i] < n => i - 1 < i - 1) /\ (n < o[i] => i - 1 < i - 1)
      BY <2>1, <2>2, <1>3
    <3>2. i \in Nat
      BY <1>1, <2>1
    <3> HIDE DEF i
    <3> QED BY <3>1, <3>2
  <2>4. o[i] = n
    <3>1. o[i] \in Nat /\ n \in Nat
      BY <2>2
    <3> HIDE DEF i
    <3> QED BY <2>3, <3>1
  <2> QED BY <2>1, <2>4
<1> QED BY <1>1, <1>2, <1>5, <1>6, <1>8 DEF c, o

-----------------------------------------------------------------------------
(* The pieces of a retransmission *)

\* The numbers resent of b..e, the numbers at which a gap begins, and the message
\* sent for each.
Resent(s, b, e, w) == {n \in b..e : s.store[n] # NoBody /\ n \notin w}
Gaps(s, b, e, w) ==
  {n \in b..e : n \notin Resent(s, b, e, w) /\ (n = b \/ n - 1 \in Resent(s, b, e, w))}
Starts(s, b, e, w) == Resent(s, b, e, w) \cup Gaps(s, b, e, w)
Until(s, b, e, w, n) == Min({k \in Resent(s, b, e, w) : k > n} \cup {e + 1})
Resend(s, n) == [NewMessage("App") EXCEPT !.seq = n, !.body = s.store[n], !.possDup = TRUE]
Piece(s, b, e, w, n) ==
  IF n \in Resent(s, b, e, w) THEN Resend(s, n) ELSE GapFill(n, Until(s, b, e, w, n))

\* A range of numbers that were given out and kept.
Kept(s, b, e) ==
  /\ s.sender \in Nat /\ DOMAIN s.store = 1..(s.sender - 1)
  /\ b \in Nat \ {0} /\ e \in Nat /\ b <= e /\ e < s.sender

\* A retransmission of a kept range is its pieces in order.
LEMMA RetransmitsPieces ==
  ASSUME NEW s, NEW b, NEW e, NEW w, Kept(s, b, e)
  PROVE  LET o == Ascending(Starts(s, b, e, w)) IN
           /\ Starts(s, b, e, w) \in SUBSET (b..e) /\ IsFiniteSet(Starts(s, b, e, w))
           /\ Retransmits(s, b, e, w) =
                [i \in 1..Cardinality(Starts(s, b, e, w)) |-> Piece(s, b, e, w, o[i])]
<1> DEFINE S == Starts(s, b, e, w)
           o == Ascending(S)
           f == [i \in DOMAIN o |-> Piece(s, b, e, w, o[i])]
<1>1. s.sender \in Nat /\ b \in Nat \ {0} /\ e \in Nat /\ b <= e /\ e < s.sender
  BY DEF Kept
<1>2. {n \in DOMAIN s.store : b <= n /\ n <= e} = b..e
  BY <1>1 DEF Kept
<1>3. Max(b..e) = e
  <2>1. b..e \in SUBSET Nat /\ e \in b..e /\ \A n \in b..e : n <= e
    BY <1>1
  <2>2. Max(b..e) \in b..e /\ \A k \in b..e : Max(b..e) >= k
    BY <2>1, <1>1, MaxOf
  <2>3. Max(b..e) <= e /\ Max(b..e) >= e /\ Max(b..e) \in Nat
    BY <2>1, <2>2
  <2> QED BY <2>3, <1>1
<1>4. b..e # {} /\ b # 0
  BY <1>1
<1>5. S \in SUBSET (b..e) /\ IsFiniteSet(S)
  <2>1. S \in SUBSET (b..e)
    BY DEF Starts, Resent, Gaps
  <2>2. IsFiniteSet(b..e)
    BY <1>1, FS_Interval
  <2> QED BY <2>1, <2>2, FS_Subset
<1>6. S \in SUBSET Nat
  BY <1>1, <1>5
<1>7. DOMAIN o = 1..Cardinality(S) /\ Cardinality(S) \in Nat
  BY <1>5, <1>6, AscendingOrder
<1>8. Retransmits(s, b, e, w) = f \o <<>>
  <2>1. {n \in b..e : s.store[n] # NoBody /\ n \notin w} = Resent(s, b, e, w)
    BY DEF Resent
  <2>2. {n \in b..e : n \notin Resent(s, b, e, w) /\ (n = b \/ n - 1 \in Resent(s, b, e, w))}
          = Gaps(s, b, e, w)
    BY DEF Gaps
  <2>3. e <= e
    BY <1>1
  <2> QED BY ZenonT(60), <1>2, <1>3, <1>4, <2>1, <2>2, <2>3
      DEF Retransmits, Starts, Piece, Resend, Until
<1> HIDE DEF o, S
<1>9. f = [i \in 1..Cardinality(S) |-> Piece(s, b, e, w, o[i])]
  BY <1>7
<1>10. f \o <<>> = f
  BY <1>7, <1>9
<1> QED BY <1>5, <1>8, <1>9, <1>10 DEF o, S

\* A gap reaches to the next number resent, or past the end of the range.
LEMMA GapReaches ==
  ASSUME NEW s, NEW b, NEW e, NEW w, Kept(s, b, e), NEW n \in b..e, n \notin Resent(s, b, e, w)
  PROVE  /\ Until(s, b, e, w, n) \in (n + 1)..(e + 1)
         /\ Until(s, b, e, w, n) \in Resent(s, b, e, w) \cup {e + 1}
         /\ \A j \in n..(Until(s, b, e, w, n) - 1) : j \notin Resent(s, b, e, w)
<1> DEFINE R == Resent(s, b, e, w)
           K == {k \in R : k > n} \cup {e + 1}
           u == Until(s, b, e, w, n)
<1>1. b \in Nat /\ e \in Nat /\ n \in Nat /\ n <= e
  BY DEF Kept
<1>2. R \in SUBSET (b..e)
  BY DEF Resent
<1>3. K \in SUBSET ((n + 1)..(e + 1)) /\ e + 1 \in K
  BY <1>1, <1>2
<1>4. u \in K /\ \A k \in K : u <= k
  <2>1. K \in SUBSET Nat
    BY <1>1, <1>3
  <2> QED BY <2>1, <1>3, MinOf DEF Until
<1>5. n \notin R
  OBVIOUS
<1> HIDE DEF u, R
<1>6. ASSUME NEW j \in n..(u - 1), j \in R PROVE FALSE
  <2>1. j \in Nat /\ u \in Nat /\ j < u /\ j # n
    BY <1>1, <1>3, <1>4, <1>5, <1>6
  <2>2. j > n
    BY <2>1, <1>1
  <2>3. u <= j
    BY <1>4, <1>6, <2>2
  <2> QED BY <2>1, <2>3
<1> QED BY <1>3, <1>4, <1>6 DEF u, R

\* The piece that starts at a number leads to the next start, or past the end.
LEMMA PieceReaches ==
  ASSUME NEW s, NEW b, NEW e, NEW w, Kept(s, b, e), NEW n \in Starts(s, b, e, w)
  PROVE  LET x == NumberAfter(Piece(s, b, e, w, n)) IN
           /\ n \in b..e /\ x \in (n + 1)..(e + 1)
           /\ x \in Starts(s, b, e, w) \cup {e + 1}
           /\ \A j \in Starts(s, b, e, w) : j > n => j >= x
           /\ Piece(s, b, e, w, n).seq = n
<1> DEFINE R == Resent(s, b, e, w)
           G == Gaps(s, b, e, w)
           S == Starts(s, b, e, w)
           x == NumberAfter(Piece(s, b, e, w, n))
<1>1. b \in Nat /\ e \in Nat
  BY DEF Kept
<1>2. R \in SUBSET (b..e) /\ G \in SUBSET (b..e) /\ S = R \cup G
  BY DEF Resent, Gaps, Starts
<1>3. n \in b..e /\ n \in Nat /\ n <= e /\ b <= n
  BY <1>1, <1>2
<1>4. CASE n \in R
  <2>1. x = n + 1 /\ Piece(s, b, e, w, n).seq = n
    BY <1>4 DEF Piece, Resend, NewMessage, NumberAfter
  <2>2. n + 1 \in b..e => n + 1 \in S
    BY <1>3, <1>4 DEF Gaps, Starts
  <2>3. n + 1 = e + 1 \/ n + 1 \in b..e
    BY <1>1, <1>3
  <2>4. \A j \in S : j > n => j >= n + 1
    BY <1>1, <1>2, <1>3
  <2> QED BY <1>1, <1>3, <2>1, <2>2, <2>3, <2>4
<1>5. CASE n \notin R
  <2> DEFINE u == Until(s, b, e, w, n)
  <2>1. x = u /\ Piece(s, b, e, w, n).seq = n
    BY <1>5 DEF Piece, GapFill, NewMessage, NumberAfter
  <2>2. /\ u \in (n + 1)..(e + 1) /\ u \in R \cup {e + 1}
        /\ \A j \in n..(u - 1) : j \notin R
    BY <1>3, <1>5, GapReaches
  <2> HIDE DEF u
  <2>3. ASSUME NEW j \in S, j > n, ~(j >= u) PROVE FALSE
    <3>1. j \in Nat /\ u \in Nat /\ j \in b..e
      BY <1>1, <1>2, <1>3, <2>2
    <3>2. j \in n..(u - 1) /\ j - 1 \in n..(u - 1) /\ j # b
      BY <1>1, <1>3, <2>3, <3>1
    <3>3. j \notin R /\ j - 1 \notin R
      BY <2>2, <3>2
    <3>4. j \in G
      BY <1>2, <3>3
    <3> QED BY <3>2, <3>3, <3>4 DEF Gaps
  <2> QED BY <1>2, <1>3, <2>1, <2>2, <2>3
<1> QED BY <1>4, <1>5

\* A retransmission of a kept range leads from its first number to one past its last,
\* each message to the next; it resends what is kept, and fills only over what is
\* administrative or withheld.
LEMMA RetransmitsLead ==
  ASSUME NEW s, NEW b, NEW e, NEW w, Kept(s, b, e)
  PROVE  LET r == Retransmits(s, b, e, w)
             c == Cardinality(Starts(s, b, e, w)) IN
           /\ c \in Nat \ {0} /\ DOMAIN r = 1..c /\ Len(r) = c
           /\ \E o \in [1..c -> b..e] : r = [i \in 1..c |-> Piece(s, b, e, w, o[i])]
           /\ r[1].seq = b /\ NumberAfter(r[c]) = e + 1
           /\ \A i \in 1..(c - 1) : NumberAfter(r[i]) = r[i + 1].seq
<1> DEFINE S == Starts(s, b, e, w)
           c == Cardinality(S)
           o == Ascending(S)
           P(n) == Piece(s, b, e, w, n)
           x(n) == NumberAfter(P(n))
           r == Retransmits(s, b, e, w)
<1>1. b \in Nat \ {0} /\ e \in Nat /\ b <= e
  BY DEF Kept
<1>2. S \in SUBSET (b..e) /\ IsFiniteSet(S) /\ r = [i \in 1..c |-> P(o[i])]
  BY RetransmitsPieces
<1>3. S \in SUBSET Nat
  BY <1>1, <1>2
<1>4. /\ c \in Nat /\ \A i \in 1..c : o[i] \in S
      /\ \A i, j \in 1..c : i < j => o[i] < o[j]
      /\ \A n \in S : \E i \in 1..c : o[i] = n
  BY <1>2, <1>3, AscendingOrder
<1>5. \A n \in S : /\ n \in b..e /\ x(n) \in (n + 1)..(e + 1) /\ x(n) \in S \cup {e + 1}
                   /\ \A j \in S : j > n => j >= x(n)
                   /\ P(n).seq = n
  BY PieceReaches
<1>6. b \in S
  BY <1>1 DEF Starts, Gaps, Resent
<1>13. DOMAIN o = 1..c
  BY <1>2, <1>3, AscendingOrder
<1> HIDE DEF S, c, o, P, x, r
<1>7. c \in Nat \ {0} /\ DOMAIN r = 1..c /\ Len(r) = c
  BY <1>2, <1>4, <1>6
<1>8. \A i \in 1..c : r[i] = P(o[i]) /\ r[i].seq = o[i] /\ NumberAfter(r[i]) = x(o[i])
  BY <1>2, <1>4, <1>5 DEF x
<1>9. r[1].seq = b
  <2>1. PICK i \in 1..c : o[i] = b
    BY <1>4, <1>6
  <2>2. 1 \in 1..c /\ o[1] \in b..e
    BY <1>4, <1>5, <1>7
  <2>3. i = 1
    <3>1. 1 < i => o[1] < o[i]
      BY <1>4, <2>2
    <3> QED BY <1>1, <1>7, <2>1, <2>2, <3>1
  <2> QED BY <1>8, <2>1, <2>2, <2>3
<1>10. NumberAfter(r[c]) = e + 1
  <2>1. c \in 1..c /\ o[c] \in S
    BY <1>4, <1>7
  <2>2. SUFFICES ASSUME x(o[c]) \in S PROVE FALSE
    BY <1>5, <1>8, <2>1
  <2>3. PICK j \in 1..c : o[j] = x(o[c])
    BY <1>4, <2>2
  <2>4. o[c] \in Nat /\ x(o[c]) \in Nat /\ o[c] < x(o[c])
    <3>1. o[c] \in b..e /\ x(o[c]) \in (o[c] + 1)..(e + 1)
      BY <1>5, <2>1
    <3> QED BY <1>1, <3>1
  <2>5. j < c \/ j = c
    BY <1>7
  <2>6. CASE j = c
    BY <2>3, <2>4, <2>6
  <2>7. CASE j < c
    <3>1. o[j] < o[c]
      BY <1>4, <2>1, <2>7
    <3> QED BY <2>3, <2>4, <3>1
  <2> QED BY <2>5, <2>6, <2>7
<1>11. ASSUME NEW i \in 1..(c - 1) PROVE NumberAfter(r[i]) = r[i + 1].seq
  <2>1. i \in 1..c /\ i + 1 \in 1..c /\ i \in Nat /\ i < i + 1
    BY <1>7
  <2>2. o[i] \in S /\ o[i + 1] \in S /\ o[i] < o[i + 1]
    BY <1>4, <2>1
  <2>3. o[i + 1] >= x(o[i]) /\ x(o[i]) \in (o[i] + 1)..(e + 1) /\ x(o[i]) \in S \cup {e + 1}
        /\ o[i + 1] \in b..e /\ o[i] \in b..e
    BY <1>5, <2>2
  <2>4. x(o[i]) \in S
    BY <1>1, <2>3
  <2>5. PICK j \in 1..c : o[j] = x(o[i])
    BY <1>4, <2>4
  <2>6. o[i] < o[j] /\ o[i] \in Nat /\ o[j] \in Nat /\ o[i + 1] \in Nat
    BY <1>1, <2>3, <2>5
  <2>7. ~(j < i) /\ j # i
    <3>1. j < i => o[j] < o[i]
      BY <1>4, <2>1
    <3> QED BY <2>6, <3>1
  <2>8. i + 1 = j \/ i + 1 < j
    BY <1>7, <2>1, <2>7
  <2>9. i + 1 < j => o[i + 1] < o[j]
    BY <1>4, <2>1
  <2>10. o[i + 1] = o[j]
    BY <2>3, <2>5, <2>6, <2>8, <2>9
  <2> QED BY <1>8, <2>1, <2>5, <2>10
<1>12. o \in [1..c -> b..e] /\ r = [i \in 1..c |-> P(o[i])]
  <2>1. \A i \in 1..c : o[i] \in b..e
    BY <1>2, <1>4
  <2>2. o = [i \in 1..c |-> o[i]]
    BY DEF o, c, Ascending
  <2> QED BY <1>2, <2>1, <2>2
<1> QED BY <1>7, <1>9, <1>10, <1>11, <1>12 DEF S, c, o, P, r

=============================================================================
