---------------------------- MODULE PlausibleProofs ----------------------------
(***************************************************************************)
(* Proofs about PlausibleStorage, for any number of items: as many come    *)
(* out as were asked for, and, where an int is wide enough for the time    *)
(* between two of them, each is created before anything else is done to it. *)
(***************************************************************************)
EXTENDS PlausibleStorage, SequenceTheorems, WellFoundedInduction, TLAPS

LEMMA LeastExists ==
  ASSUME NEW S \in SUBSET Nat, S # {}
  PROVE  \E x \in S : \A y \in S : x <= y
  <1> DEFINE R == OpToRel(<, Nat)
  <1>1. IsWellFoundedOn(R, Nat)
    BY NatLessThanWellFounded
  <1> HIDE DEF R
  <1>2. PICK x \in S : \A y \in S : ~ (<<y, x>> \in R)
    BY <1>1, WFMin
  <1>3. \A y \in S : ~(y < x)
    BY <1>2 DEF R, OpToRel
  <1> QED BY <1>3

LEMMA LargestExists ==
  ASSUME NEW n \in Nat, NEW S \in SUBSET (1..n), S # {}
  PROVE  \E x \in S : \A y \in S : y <= x
  <1> DEFINE T == {n - i : i \in S}
  <1>1. T \in SUBSET Nat /\ T # {}
    <2>1. \A i \in S : n - i \in Nat
      OBVIOUS
    <2> QED BY <2>1
  <1> HIDE DEF T
  <1>2. PICK m \in T : \A y \in T : m <= y
    BY <1>1, LeastExists
  <1>3. PICK x \in S : m = n - x
    BY <1>2 DEF T
  <1>4. ASSUME NEW y \in S PROVE y <= x
    <2>1. n - y \in T
      BY DEF T
    <2>2. n - x <= n - y
      BY <1>2, <1>3, <2>1
    <2> QED BY <2>2
  <1> QED BY <1>4

-----------------------------------------------------------------------------
(* t is s, which is of length L, and a after it. *)
AtTheEnd(t, s, a, L) == (\A i \in 1..L : t[i] = s[i]) /\ t[L + 1] = a

(* A sequence with one more item in it, or at its end. *)
Splice(s, a, at) == SubSeq(s, 1, at) \o <<a>> \o SubSeq(s, at + 1, Len(s))

LEMMA Spliced ==
  ASSUME NEW A, NEW s \in Seq(A), NEW a \in A, NEW L \in Nat, L = Len(s), NEW at \in 0..L
  PROVE  /\ Splice(s, a, at) \in Seq(A)
         /\ Len(Splice(s, a, at)) = L + 1
         /\ at = L => AtTheEnd(Splice(s, a, at), s, a, L)
  <1> DEFINE first == SubSeq(s, 1, at)
             rest == SubSeq(s, at + 1, Len(s))
             both == first \o <<a>>
  <1>1. \A i \in 1..L : s[i] \in A
    BY LenProperties
  <1>2. at \in Nat /\ at <= L
    OBVIOUS
  <1>3. /\ first \in Seq(A) /\ Len(first) = at
        /\ \A i \in 1..at : first[i] = s[i]
    <2>1. \A i \in 1..at : s[i] \in A
      BY <1>1, <1>2
    <2>2. /\ first \in Seq(A) /\ Len(first) = IF 1 <= at THEN at - 1 + 1 ELSE 0
          /\ \A i \in 1..(at - 1 + 1) : first[i] = s[1 + i - 1]
      BY <1>2, <2>1, SubSeqProperties
    <2> HIDE DEF first
    <2>3. at - 1 + 1 = at /\ (\A i \in 1..at : 1 + i - 1 = i) /\ (1 <= at \/ at = 0)
      BY <1>2
    <2> QED BY <2>2, <2>3
  <1>4. rest \in Seq(A) /\ Len(rest) = L - at
    <2>1. \A i \in (at + 1)..L : s[i] \in A
      BY <1>1, <1>2
    <2>2. at + 1 \in Int /\ L \in Int
      BY <1>2
    <2>3. rest \in Seq(A) /\ Len(rest) = IF at + 1 <= L THEN L - (at + 1) + 1 ELSE 0
      BY <2>1, <2>2, SubSeqProperties
    <2> HIDE DEF rest
    <2>4. (IF at + 1 <= L THEN L - (at + 1) + 1 ELSE 0) = L - at
      BY <1>2
    <2> QED BY <2>3, <2>4
  <1> HIDE DEF first, rest
  <1>5. /\ both \in Seq(A) /\ Len(both) = at + 1 /\ both[at + 1] = a
        /\ \A i \in 1..at : both[i] = first[i]
    <2>1. <<a>> \in Seq(A) /\ Len(<<a>>) = 1 /\ <<a>>[1] = a
      OBVIOUS
    <2>2. /\ both \in Seq(A) /\ Len(both) = Len(first) + Len(<<a>>)
          /\ \A i \in 1..(Len(first) + Len(<<a>>)) :
               both[i] = IF i <= Len(first) THEN first[i] ELSE <<a>>[i - Len(first)]
      BY <1>3, <2>1, ConcatProperties
    <2> HIDE DEF both
    <2>3. \A i \in 1..(at + 1) : both[i] = IF i <= at THEN first[i] ELSE <<a>>[i - at]
      BY <1>3, <2>1, <2>2
    <2>4. both[at + 1] = <<a>>[(at + 1) - at]
      BY <1>2, <2>3
    <2>5. (at + 1) - at = 1
      BY <1>2
    <2> QED BY <1>2, <1>3, <2>1, <2>2, <2>3, <2>4, <2>5
  <1> HIDE DEF both
  <1> DEFINE all == both \o rest
  <1>6. /\ all \in Seq(A) /\ Len(all) = Len(both) + Len(rest)
        /\ \A i \in 1..(Len(both) + Len(rest)) :
             all[i] = IF i <= Len(both) THEN both[i] ELSE rest[i - Len(both)]
    BY <1>4, <1>5, ConcatProperties
  <1> HIDE DEF all
  <1>7. Len(both) + Len(rest) = L + 1
    BY <1>2, <1>4, <1>5
  <1>8. \A i \in 1..(at + 1) : all[i] = both[i]
    <2>1. \A i \in 1..(at + 1) : i \in 1..(L + 1)
      BY <1>2
    <2> QED BY <1>5, <1>6, <1>7, <2>1
  <1>9. ASSUME at = L
        PROVE  AtTheEnd(all, s, a, L)
    BY <1>2, <1>3, <1>5, <1>8, <1>9 DEF AtTheEnd
  <1> QED BY <1>6, <1>7, <1>9 DEF all, both, first, rest, Splice

(* One insertion adds the item, and at the end when none is later. *)
Latest(s, a, L) == \A i \in 1..L : ItemCollectionByTimestamp(a, s[i]) >= 0

LEMMA Inserts ==
  ASSUME NEW A, NEW s \in Seq(A), NEW a \in A, NEW L \in Nat, L = Len(s)
  PROVE  /\ Insert(s, a) \in Seq(A)
         /\ Len(Insert(s, a)) = L + 1
         /\ Latest(s, a, L) => AtTheEnd(Insert(s, a), s, a, L)
  <1> DEFINE before == {i \in DOMAIN s : ItemCollectionByTimestamp(a, s[i]) >= 0}
             at == IF before = {} THEN 0 ELSE CHOOSE i \in before : \A j \in before : j <= i
  <1>1. before \in SUBSET (1..L) /\ (Latest(s, a, L) => before = 1..L)
    BY LenProperties DEF Latest
  <1>2. Insert(s, a) = Splice(s, a, at)
    BY DEF Insert, Splice
  <1> HIDE DEF before
  <1>3. at \in 0..L /\ (Latest(s, a, L) => at = L)
    <2>1. CASE before = {}
      <3>1. at = 0
        BY <2>1
      <3>2. Latest(s, a, L) => L = 0
        <4>1. L # 0 => 1 \in 1..L
          OBVIOUS
        <4> QED BY <1>1, <2>1, <4>1
      <3> HIDE DEF at
      <3> QED BY <3>1, <3>2
    <2>2. CASE before # {}
      <3>1. at \in before /\ \A j \in before : j <= at
        BY <1>1, <2>2, LargestExists
      <3> HIDE DEF at
      <3>2. at \in 1..L
        BY <1>1, <3>1
      <3>3. ASSUME Latest(s, a, L) PROVE at = L
        <4>1. L \in 1..L
          BY <3>2
        <4>2. L <= at
          BY <1>1, <3>1, <3>3, <4>1
        <4> QED BY <3>2, <4>2
      <3> QED BY <3>2, <3>3
    <2> QED BY <2>1, <2>2
  <1> HIDE DEF at
  <1>4. PICK p \in 0..L : /\ Insert(s, a) = Splice(s, a, p)
                          /\ Latest(s, a, L) => p = L
    BY <1>2, <1>3
  <1>5. /\ Insert(s, a) \in Seq(A)
        /\ Len(Insert(s, a)) = L + 1
        /\ p = L => AtTheEnd(Insert(s, a), s, a, L)
    BY <1>4, Spliced
  <1> QED BY <1>4, <1>5

-----------------------------------------------------------------------------
(* The steps of the sort of s: what comes out for each set of places. *)
Sorts(f, s, n) ==
    f = [S \in SUBSET (1..n) |-> IF S = {} THEN <<>>
                                 ELSE Insert(f[S \ {Max(S)}], s[Max(S)])]

LEMMA FoldIsSort ==
  ASSUME NEW s, DOMAIN s = 1..Len(s)
  PROVE  FoldLeft(Insert, <<>>, s) = (CHOOSE f : Sorts(f, s, Len(s)))[1..Len(s)]
  BY DEF FoldLeft, MapThenFoldSet, Sorts

LEMMA LastPlace ==
  ASSUME NEW n \in Nat, NEW S \in SUBSET (1..n), S # {}
  PROVE  /\ Max(S) \in S /\ \A y \in S : y <= Max(S)
         /\ S \ {Max(S)} \in SUBSET (1..(n - 1))
  <1>1. \E x \in S : \A y \in S : x >= y
    <2>1. PICK x \in S : \A y \in S : y <= x
      BY LargestExists
    <2>2. \A y \in S : x >= y
      BY <2>1
    <2> QED BY <2>2
  <1>2. Max(S) \in S /\ \A y \in S : Max(S) >= y
    BY <1>1 DEF Max
  <1>3. \A y \in S : y <= Max(S)
    BY <1>2
  <1>4. ASSUME NEW y \in S, y # Max(S) PROVE y \in 1..(n - 1)
    <2>1. Max(S) \in 1..n /\ y \in 1..n /\ y <= Max(S)
      BY <1>2, <1>3
    <2> QED BY <1>4, <2>1
  <1> QED BY <1>2, <1>3, <1>4

LEMMA SortsExist ==
  ASSUME NEW s, NEW L \in Nat
  PROVE  \E f : Sorts(f, s, L)
  <1> DEFINE Without == {n \in 0..L : ~\E f : Sorts(f, s, n)}
  <1> SUFFICES ASSUME Without # {} PROVE FALSE
    OBVIOUS
  <1>1. PICK x \in Without : \A y \in Without : x <= y
    <2>1. Without \in SUBSET Nat
      OBVIOUS
    <2> HIDE DEF Without
    <2> QED BY <2>1, LeastExists
  <1>2. x \in Nat /\ x \in 0..L /\ ~\E f : Sorts(f, s, x)
    OBVIOUS
  <1>3. x # 0
    <2>1. ASSUME x = 0 PROVE FALSE
      <3> DEFINE f == [S \in SUBSET (1..0) |-> <<>>]
      <3>1. \A S \in SUBSET (1..0) : S = {}
        OBVIOUS
      <3>2. Sorts(f, s, 0)
        BY <3>1 DEF Sorts
      <3> HIDE DEF f
      <3> QED BY <1>2, <2>1, <3>2
    <2> QED BY <2>1
  <1>4. PICK f : Sorts(f, s, x - 1)
    <2>1. x - 1 \in 0..L /\ ~(x <= x - 1)
      BY <1>2, <1>3
    <2>2. x - 1 \notin Without
      BY <1>1, <2>1
    <2> QED BY <2>1, <2>2
  <1> DEFINE step(S) == Insert(f[S \ {Max(S)}], s[Max(S)])
             g == [S \in SUBSET (1..x) |-> IF S = {} THEN <<>> ELSE step(S)]
  <1>5. ASSUME NEW S \in SUBSET (1..(x - 1)) PROVE g[S] = f[S]
    <2>1. f[S] = IF S = {} THEN <<>> ELSE Insert(f[S \ {Max(S)}], s[Max(S)])
      BY <1>4 DEF Sorts
    <2>2. S \in SUBSET (1..x)
      BY <1>2
    <2> QED BY <2>1, <2>2
  <1>6. ASSUME NEW S \in SUBSET (1..x), S # {}
        PROVE  g[S] = Insert(g[S \ {Max(S)}], s[Max(S)])
    <2>1. S \ {Max(S)} \in SUBSET (1..(x - 1))
      BY <1>2, <1>6, LastPlace
    <2>2. g[S \ {Max(S)}] = f[S \ {Max(S)}]
      BY <1>5, <2>1
    <2>3. g[S] = Insert(f[S \ {Max(S)}], s[Max(S)])
      BY <1>6
    <2> HIDE DEF g
    <2> QED BY <2>2, <2>3
  <1>7. g[{}] = <<>> /\ g = [S \in SUBSET (1..x) |-> g[S]]
    OBVIOUS
  <1> HIDE DEF g
  <1>8. Sorts(g, s, x)
    BY <1>6, <1>7 DEF Sorts
  <1> QED BY <1>2, <1>8

(* What the sort of a sequence comes to, one item after the other. *)
LEMMA SortSteps ==
  ASSUME NEW s, NEW L \in Nat, L = Len(s), DOMAIN s = 1..L
  PROVE  \E r : /\ r[0] = <<>>
                /\ \A n \in 1..L : r[n] = Insert(r[n - 1], s[n])
                /\ FoldLeft(Insert, <<>>, s) = r[L]
  <1> DEFINE f == CHOOSE f : Sorts(f, s, L)
             r == [n \in 0..L |-> f[1..n]]
  <1>1. Sorts(f, s, L)
    BY SortsExist
  <1>2. FoldLeft(Insert, <<>>, s) = f[1..L]
    BY FoldIsSort
  <1> HIDE DEF f
  <1>3. ASSUME NEW n \in 1..L
        PROVE  f[1..n] = Insert(f[1..(n - 1)], s[n])
    <2>1. n \in Nat /\ n \in 1..n /\ 1..n # {} /\ 1..n \in SUBSET (1..n)
      <3>1. n \in Nat /\ n \in 1..n
        OBVIOUS
      <3> QED BY <3>1, Zenon
    <2>a. 1..n \in SUBSET (1..L)
      <3>1. \A i \in 1..n : i \in 1..L
        OBVIOUS
      <3> QED BY <3>1
    <2>2. Max(1..n) \in 1..n /\ \A y \in 1..n : y <= Max(1..n)
      BY <2>1, LastPlace
    <2>3. Max(1..n) = n
      BY <2>1, <2>2
    <2>4. (1..n) \ {n} = 1..(n - 1)
      BY <2>1
    <2>5. f[1..n] = Insert(f[(1..n) \ {Max(1..n)}], s[Max(1..n)])
      BY <1>1, <2>1, <2>a DEF Sorts
    <2> QED BY <2>3, <2>4, <2>5
  <1>4. 1..0 = {} /\ {} \in SUBSET (1..L)
    OBVIOUS
  <1>5. f[1..0] = <<>>
    BY <1>1, <1>4 DEF Sorts
  <1>6. r[0] = <<>> /\ r[L] = f[1..L] /\ \A n \in 1..L : r[n] = Insert(r[n - 1], s[n])
    <2>1. r[0] = f[1..0] /\ r[L] = f[1..L]
      OBVIOUS
    <2>2. \A n \in 1..L : r[n] = f[1..n] /\ r[n - 1] = f[1..(n - 1)]
      OBVIOUS
    <2> HIDE DEF r
    <2> QED BY <1>3, <1>5, <2>1, <2>2
  <1> HIDE DEF r
  <1> QED BY <1>2, <1>6

(* The sort keeps the items, or as many of their kind; and it keeps their order where *)
(* none is dated before one that is earlier in the sequence.                           *)
InOrder(s) == \A i, j \in 1..Len(s) : i <= j => ItemCollectionByTimestamp(s[j], s[i]) >= 0

LEMMA SortKeeps ==
  ASSUME NEW A, NEW s \in Seq(A)
  PROVE  /\ FoldLeft(Insert, <<>>, s) \in Seq(A)
         /\ Len(FoldLeft(Insert, <<>>, s)) = Len(s)
         /\ InOrder(s) => FoldLeft(Insert, <<>>, s) = s
  <1> DEFINE L == Len(s)
  <1>1. L \in Nat /\ DOMAIN s = 1..L /\ \A i \in 1..L : s[i] \in A
    BY LenProperties
  <1> HIDE DEF L
  <1>2. PICK r : /\ r[0] = <<>>
                 /\ \A n \in 1..L : r[n] = Insert(r[n - 1], s[n])
                 /\ FoldLeft(Insert, <<>>, s) = r[L]
    BY <1>1, SortSteps DEF L
  <1> DEFINE Right(n) == /\ r[n] \in Seq(A) /\ Len(r[n]) = n
                         /\ InOrder(s) => \A i \in 1..n : r[n][i] = s[i]
             Wrong == {n \in 0..L : ~Right(n)}
  <1>3. Right(0)
    <2>1. <<>> \in Seq(A) /\ Len(<<>>) = 0
      BY EmptySeq
    <2> QED BY <1>2, <2>1
  <1>4. ASSUME NEW n \in 1..L, Right(n - 1) PROVE Right(n)
    <2>1. /\ r[n] = Insert(r[n - 1], s[n]) /\ s[n] \in A
          /\ r[n - 1] \in Seq(A) /\ Len(r[n - 1]) = n - 1
      BY <1>1, <1>2, <1>4
    <2>a. n - 1 \in Nat
      BY <1>1
    <2>2. /\ r[n] \in Seq(A) /\ Len(r[n]) = (n - 1) + 1
          /\ Latest(r[n - 1], s[n], n - 1) => AtTheEnd(r[n], r[n - 1], s[n], n - 1)
      <3>1. PICK m, q, a : m = n - 1 /\ q = r[n - 1] /\ a = s[n]
        OBVIOUS
      <3>2. /\ Insert(q, a) \in Seq(A)
            /\ Len(Insert(q, a)) = m + 1
            /\ Latest(q, a, m) => AtTheEnd(Insert(q, a), q, a, m)
        <4>1. m \in Nat /\ q \in Seq(A) /\ a \in A /\ m = Len(q)
          BY <2>1, <2>a, <3>1
        <4> QED BY <4>1, Inserts
      <3>3. r[n] = Insert(q, a)
        BY <2>1, <3>1
      <3> QED BY <3>1, <3>2, <3>3
    <2>3. n \in Nat /\ n >= 1 /\ (n - 1) + 1 = n
      BY <1>1
    <2>4. ASSUME InOrder(s) PROVE \A i \in 1..n : r[n][i] = s[i]
      <3>1. \A i \in 1..(n - 1) : r[n - 1][i] = s[i] /\ i \in 1..L /\ i <= n
        BY <1>1, <1>4, <2>3, <2>4
      <3>2. Latest(r[n - 1], s[n], n - 1)
        BY <2>4, <3>1 DEF InOrder, L, Latest
      <3>3. /\ \A i \in 1..(n - 1) : r[n][i] = s[i]
            /\ r[n][n] = s[n]
        BY <2>2, <2>3, <3>1, <3>2 DEF AtTheEnd
      <3>4. \A i \in 1..n : i \in 1..(n - 1) \/ i = n
        BY <2>3
      <3> QED BY <3>3, <3>4
    <2> QED BY <2>2, <2>3, <2>4
  <1> HIDE DEF Right
  <1>5. Wrong = {}
    <2> SUFFICES ASSUME Wrong # {} PROVE FALSE
      OBVIOUS
    <2>1. Wrong \in SUBSET Nat
      OBVIOUS
    <2>2. PICK x \in Wrong : \A y \in Wrong : x <= y
      <3> HIDE DEF Wrong
      <3> QED BY <2>1, LeastExists
    <2>3. x \in 0..L /\ ~Right(x) /\ x # 0
      BY <1>3
    <2>4. x - 1 \in 0..L /\ x \in 1..L /\ ~(x <= x - 1)
      BY <1>1, <2>3
    <2>5. Right(x - 1)
      BY <2>2, <2>4
    <2> QED BY <1>4, <2>3, <2>4, <2>5
  <1>6. Right(L)
    <2>1. L \in 0..L
      BY <1>1
    <2> QED BY <1>5, <2>1
  <1>7. InOrder(s) => r[L] = s
    <2> SUFFICES ASSUME InOrder(s) PROVE r[L] = s
      OBVIOUS
    <2>1. /\ r[L] \in Seq(A) /\ Len(r[L]) = Len(s)
          /\ \A i \in 1..Len(r[L]) : r[L][i] = s[i]
      BY <1>6 DEF Right, L
    <2> QED BY <2>1, SeqEqual
  <1> QED BY <1>2, <1>6, <1>7 DEF Right, L

-----------------------------------------------------------------------------
(* How far each loop has come. *)
Item == [verb : {"Create", "Like"}, object : 1..(actors + objects), published : Nat]

Numbers ==
    /\ cnt \in 0..MaxCount
    /\ left \in Nat
    /\ actors \in Nat
    /\ objects \in Nat
    /\ BaseTime \in Nat
    /\ activities \in Seq(Item)

Many == Len(activities)

Counts ==
    \/ /\ pc = "actors"
       /\ actors + left = obCnt \div 2 /\ objects = 0 /\ Many = actors
    \/ /\ pc = "objects"
       /\ actors = obCnt \div 2 /\ objects + left = obCnt /\ Many = actors + objects
       /\ actors = 0 => objects = 0
    \/ /\ pc = "activities"
       /\ actors = obCnt \div 2 /\ objects = obCnt /\ Many + left = cnt
       /\ actors = 0 => Many = 0
       /\ actors + objects <= Many
    \/ /\ pc = "done"
       /\ actors = obCnt \div 2 /\ objects = obCnt /\ left = 0 /\ Many = cnt
       /\ actors = 0 => Many = 0
       /\ actors + objects <= Many
    \/ /\ pc = "panic"
       /\ actors = 0 /\ actors = obCnt \div 2 /\ objects = 0 /\ Many = 0
       /\ left \in 1..cnt

IInv == Numbers /\ Counts

(* An item is an item of the larger population too. *)
LEMMA MoreItems ==
  ASSUME NEW a, NEW n \in Nat, NEW m \in Nat, n <= m,
         a \in [verb : {"Create", "Like"}, object : 1..n, published : Nat]
  PROVE  a \in [verb : {"Create", "Like"}, object : 1..m, published : Nat]
  OBVIOUS

LEMMA Divided ==
  ASSUME cnt \in 0..MaxCount
  PROVE  /\ cnt \in Nat /\ obCnt \in Nat /\ obCnt \div 2 \in Nat
         /\ 4 * obCnt <= cnt /\ cnt < 4 * obCnt + 4
         /\ 2 * (obCnt \div 2) <= obCnt /\ obCnt < 2 * (obCnt \div 2) + 2
         /\ cnt <= MaxCount
  <1>1. cnt \in Nat /\ cnt <= MaxCount
    BY PlausibleAssumption
  <1>2. obCnt \in Nat /\ 4 * obCnt <= cnt /\ cnt < 4 * obCnt + 4
    BY <1>1 DEF obCnt
  <1>3. \A q \in Nat : q \div 2 \in Nat /\ 2 * (q \div 2) <= q /\ q < 2 * (q \div 2) + 2
    OBVIOUS
  <1> QED BY <1>1, <1>2, <1>3

(* One more activity at the end. *)
LEMMA Acted ==
  ASSUME NEW A, NEW s \in Seq(A), NEW B, NEW a \in B, \A x \in A : x \in B
  PROVE  /\ Append(s, a) \in Seq(B) /\ Len(Append(s, a)) = Len(s) + 1
         /\ \A i \in 1..Len(s) : Append(s, a)[i] = s[i]
         /\ Append(s, a)[Len(s) + 1] = a
  <1>1. s \in Seq(B)
    <2>1. Len(s) \in Nat /\ DOMAIN s = 1..Len(s) /\ s = [i \in 1..Len(s) |-> s[i]]
      BY LenProperties
    <2>2. \A i \in 1..Len(s) : s[i] \in B
      BY <2>1, ElementOfSeq
    <2> QED BY <2>1, <2>2, IsASeq
  <1> QED BY <1>1, AppendProperties

LEMMA CountsInitially == Init => IInv
  <1> SUFFICES ASSUME Init PROVE IInv
    OBVIOUS
  <1>1. cnt \in 0..MaxCount /\ pc = "actors" /\ left = obCnt \div 2 /\ actors = 0
        /\ objects = 0 /\ activities = <<>> /\ BaseTime = 0
    BY DEF Init
  <1>2. obCnt \div 2 \in Nat
    BY <1>1, Divided
  <1>3. activities \in Seq(Item) /\ Many = 0
    BY <1>1, EmptySeq DEF Many
  <1> QED BY <1>1, <1>2, <1>3 DEF IInv, Numbers, Counts

(* What one activity does, whatever its verb and object. *)
LEMMA ActsOn ==
  ASSUME IInv, NEW verb \in {"Create", "Like"}, NEW object \in Nat, Act(verb, object),
         actors' \in Nat, objects' \in Nat, actors + objects <= actors' + objects',
         object \in 1..(actors' + objects')
  PROVE  /\ BaseTime' \in Nat /\ BaseTime <= BaseTime' /\ BaseTime' <= BaseTime + MaxTick
         /\ activities' \in Seq(Item') /\ Many' = Many + 1
         /\ \A i \in 1..Many : activities'[i] = activities[i]
         /\ activities'[Many + 1] = [verb |-> verb, object |-> object, published |-> BaseTime']
  <1>1. PICK n \in 0..MaxTick : /\ BaseTime' = BaseTime + n
                               /\ activities' = Append(activities,
                                    [verb |-> verb, object |-> object, published |-> BaseTime'])
    BY DEF Act
  <1>2. MaxTick \in Nat /\ n \in Nat /\ n <= MaxTick /\ BaseTime \in Nat
    BY PlausibleAssumption DEF IInv, Numbers
  <1>3. BaseTime' \in Nat /\ BaseTime <= BaseTime' /\ BaseTime' <= BaseTime + MaxTick
    BY <1>1, <1>2
  <1> DEFINE a == [verb |-> verb, object |-> object, published |-> BaseTime']
  <1>4. a \in Item'
    BY <1>3 DEF Item
  <1> HIDE DEF a
  <1>5. \A x \in Item : x \in Item'
    <2>1. PICK p \in Nat, q \in Nat : p = actors + objects /\ q = actors' + objects' /\ p <= q
      <3>1. actors \in Nat /\ objects \in Nat
        BY DEF IInv, Numbers
      <3>2. \A x, y \in Nat : x + y \in Nat
        OBVIOUS
      <3>3. actors + objects \in Nat /\ actors' + objects' \in Nat
        BY <3>1, <3>2, Zenon
      <3> QED BY <3>3
    <2> QED BY <2>1, MoreItems DEF Item
  <1>6. activities \in Seq(Item) /\ activities' = Append(activities, a)
    BY <1>1 DEF IInv, Numbers, a
  <1>7. /\ Append(activities, a) \in Seq(Item')
        /\ Len(Append(activities, a)) = Len(activities) + 1
        /\ \A i \in 1..Len(activities) : Append(activities, a)[i] = activities[i]
        /\ Append(activities, a)[Len(activities) + 1] = a
    BY <1>4, <1>5, <1>6, Acted
  <1> QED BY <1>3, <1>6, <1>7 DEF Many, a

(* Every step keeps the counts. *)
LEMMA CountsPreserved == IInv /\ [Next]_vars => IInv'
  <1> SUFFICES ASSUME IInv, [Next]_vars PROVE IInv'
    OBVIOUS
  <1>1. /\ cnt \in 0..MaxCount /\ left \in Nat /\ actors \in Nat /\ objects \in Nat
        /\ BaseTime \in Nat /\ activities \in Seq(Item) /\ Many \in Nat
    BY LenProperties DEF IInv, Numbers, Many
  <1> DEFINE O == obCnt
             H == obCnt \div 2
  <1>2. /\ cnt \in Nat /\ O \in Nat /\ H \in Nat /\ 4 * O <= cnt /\ cnt < 4 * O + 4
        /\ 2 * H <= O /\ O < 2 * H + 2 /\ cnt <= MaxCount
    BY <1>1, Divided
  <1>3. cnt' = cnt => O' = O /\ H' = H
    BY DEF obCnt
  <1>4. ASSUME UNCHANGED <<actors, objects, activities>>
        PROVE  activities' \in Seq(Item') /\ Many' = Many
    BY <1>1, <1>4 DEF Item, Many
  <1>5. ASSUME pc = "actors"
        PROVE  actors + left = H /\ objects = 0 /\ Many = actors
    BY <1>5 DEF IInv, Counts
  <1>6. ASSUME pc = "objects"
        PROVE  /\ actors = H /\ objects + left = O /\ Many = actors + objects
               /\ actors = 0 => objects = 0
    BY <1>6 DEF IInv, Counts
  <1>7. ASSUME pc = "activities"
        PROVE  /\ actors = H /\ objects = O /\ Many + left = cnt
               /\ actors = 0 => Many = 0
               /\ actors + objects <= Many
    BY <1>7 DEF IInv, Counts
  <1> HIDE DEF O, H
  <1>8. CASE MakeActor
    <2>1. /\ pc = "actors" /\ pc' = "actors" /\ left > 0 /\ left' = left - 1
          /\ actors' = actors + 1 /\ cnt' = cnt /\ objects' = objects
          /\ Act("Create", actors')
      BY <1>8 DEF MakeActor
    <2>2. actors' \in Nat /\ objects' \in Nat /\ left' \in Nat
          /\ actors + objects <= actors' + objects' /\ actors' \in 1..(actors' + objects')
      BY <1>1, <2>1
    <2>3. BaseTime' \in Nat /\ activities' \in Seq(Item') /\ Many' = Many + 1
      BY <2>1, <2>2, ActsOn
    <2>4. Numbers'
      BY <1>1, <2>1, <2>2, <2>3 DEF Numbers
    <2>5. actors' + left' = H' /\ objects' = 0 /\ Many' = actors'
      BY <1>1, <1>2, <1>3, <1>5, <2>1, <2>3
    <2> QED BY <2>1, <2>4, <2>5 DEF IInv, Counts, H
  <1>9. CASE MakeObjects
    <2>1. /\ pc = "actors" /\ pc' = "objects" /\ left = 0 /\ left' = O
          /\ UNCHANGED <<cnt, actors, objects, activities, BaseTime>>
      BY <1>9 DEF MakeObjects, O
    <2>2. Numbers'
      BY <1>1, <1>2, <1>4, <2>1 DEF Numbers
    <2>3. /\ actors' = H' /\ objects' + left' = O' /\ Many' = actors' + objects'
          /\ actors' = 0 => objects' = 0
      BY <1>1, <1>2, <1>3, <1>4, <1>5, <2>1
    <2> QED BY <2>1, <2>2, <2>3 DEF IInv, Counts, H, O
  <1>10. CASE MakeObject
    <2>1. /\ pc = "objects" /\ pc' = "objects" /\ left > 0 /\ left' = left - 1 /\ actors > 0
          /\ objects' = objects + 1 /\ cnt' = cnt /\ actors' = actors
          /\ Act("Create", actors + objects')
      BY <1>10 DEF MakeObject
    <2>2. /\ actors' \in Nat /\ objects' \in Nat /\ left' \in Nat
          /\ actors + objects <= actors' + objects' /\ actors + objects' \in Nat
          /\ actors + objects' \in 1..(actors' + objects')
      BY <1>1, <2>1
    <2>3. BaseTime' \in Nat /\ activities' \in Seq(Item') /\ Many' = Many + 1
      BY <2>1, <2>2, ActsOn
    <2>4. Numbers'
      BY <1>1, <2>1, <2>2, <2>3 DEF Numbers
    <2>5. /\ actors' = H' /\ objects' + left' = O' /\ Many' = actors' + objects'
          /\ actors' = 0 => objects' = 0
      BY <1>1, <1>2, <1>3, <1>6, <2>1, <2>3
    <2> QED BY <2>1, <2>4, <2>5 DEF IInv, Counts, H, O
  <1>11. CASE MakeActivities
    <2>1. /\ pc = "objects" /\ pc' = "activities" /\ left = 0 /\ left' = cnt - (objects + actors)
          /\ UNCHANGED <<cnt, actors, objects, activities, BaseTime>>
      BY <1>11 DEF MakeActivities
    <2>2. actors = H /\ objects = O /\ Many = actors + objects /\ (actors = 0 => objects = 0)
      BY <1>1, <1>6, <2>1
    <2>3. left' \in Nat /\ Many + left' = cnt
      BY <1>1, <1>2, <2>1, <2>2
    <2>4. Numbers'
      BY <1>1, <1>4, <2>1, <2>3 DEF Numbers
    <2>5. /\ actors' = H' /\ objects' = O' /\ Many' + left' = cnt'
          /\ actors' = 0 => Many' = 0
          /\ actors' + objects' <= Many'
      BY <1>1, <1>2, <1>3, <1>4, <2>1, <2>2, <2>3
    <2> QED BY <2>1, <2>4, <2>5 DEF IInv, Counts, H, O
  <1>12. CASE MakeActivity
    <2>1. /\ pc = "activities" /\ pc' = "activities" /\ left > 0 /\ left' = left - 1 /\ actors > 0
          /\ UNCHANGED <<cnt, actors, objects>>
          /\ \E object \in 1..(actors + objects) : Act("Like", object)
      BY <1>12 DEF MakeActivity
    <2>2. PICK object \in 1..(actors + objects) : Act("Like", object)
      BY <2>1
    <2>3. /\ actors' \in Nat /\ objects' \in Nat /\ left' \in Nat /\ object \in Nat
          /\ actors + objects <= actors' + objects' /\ object \in 1..(actors' + objects')
      BY <1>1, <2>1
    <2>4. BaseTime' \in Nat /\ activities' \in Seq(Item') /\ Many' = Many + 1
      BY <2>2, <2>3, ActsOn
    <2>5. Numbers'
      BY <1>1, <2>1, <2>3, <2>4 DEF Numbers
    <2>6. /\ actors' = H' /\ objects' = O' /\ Many' + left' = cnt'
          /\ actors' = 0 => Many' = 0
          /\ actors' + objects' <= Many'
      BY <1>1, <1>2, <1>3, <1>7, <2>1, <2>4
    <2> QED BY <2>1, <2>5, <2>6 DEF IInv, Counts, H, O
  <1>13. CASE Panic
    <2>1. /\ pc \in {"objects", "activities"} /\ pc' = "panic" /\ left > 0 /\ actors = 0
          /\ UNCHANGED <<cnt, left, actors, objects, activities, BaseTime>>
      BY <1>13 DEF Panic
    <2>2. Numbers'
      BY <1>1, <1>4, <2>1 DEF Numbers
    <2>3. actors = H /\ objects = 0 /\ Many = 0 /\ left <= cnt
      BY <1>1, <1>2, <1>6, <1>7, <2>1
    <2>4. /\ actors' = 0 /\ actors' = H' /\ objects' = 0 /\ Many' = 0 /\ left' \in 1..cnt'
      BY <1>1, <1>2, <1>3, <1>4, <2>1, <2>3
    <2> QED BY <2>1, <2>2, <2>4 DEF IInv, Counts, H, O
  <1>14. CASE Sort
    <2>1. /\ pc = "activities" /\ pc' = "done" /\ left = 0
          /\ activities' = FoldLeft(Insert, <<>>, activities)
          /\ UNCHANGED <<cnt, left, actors, objects, BaseTime>>
      BY <1>14 DEF Sort
    <2>2. activities' \in Seq(Item) /\ Many' = Many
      BY <1>1, <2>1, SortKeeps DEF Many
    <2>3. Numbers'
      BY <1>1, <2>1, <2>2 DEF Numbers, Item
    <2>4. /\ actors' = H' /\ objects' = O' /\ left' = 0 /\ Many' = cnt'
          /\ actors' = 0 => Many' = 0
          /\ actors' + objects' <= Many'
      BY <1>1, <1>2, <1>3, <1>7, <2>1, <2>2
    <2> QED BY <2>1, <2>3, <2>4 DEF IInv, Counts, H, O
  <1>15. CASE UNCHANGED vars
    BY <1>15 DEF vars, IInv, Numbers, Counts, Item, Many, obCnt
  <1> QED BY <1>8, <1>9, <1>10, <1>11, <1>12, <1>13, <1>14, <1>15 DEF Next

LEMMA Counted == Spec => []IInv
  BY CountsInitially, CountsPreserved, PTL DEF Spec

LEMMA CountsGive == IInv => TypeOK /\ AsManyAsAsked
  <1> SUFFICES ASSUME IInv PROVE TypeOK /\ AsManyAsAsked
    OBVIOUS
  <1>1. /\ cnt \in 0..MaxCount /\ left \in Nat /\ actors \in Nat /\ objects \in Nat
        /\ BaseTime \in Nat /\ activities \in Seq(Item) /\ Many \in Nat /\ Counts
    BY LenProperties DEF IInv, Numbers, Many
  <1> DEFINE O == obCnt
             H == obCnt \div 2
  <1>2. /\ cnt \in Nat /\ O \in Nat /\ H \in Nat /\ 4 * O <= cnt /\ cnt < 4 * O + 4
        /\ 2 * H <= O /\ O < 2 * H + 2 /\ cnt <= MaxCount /\ MaxCount \in Nat
    BY <1>1, Divided, PlausibleAssumption
  <1>3. /\ pc \in {"actors", "objects", "activities", "sort", "done", "panic"}
        /\ left <= cnt
        /\ actors + objects <= cnt
    <2>1. \/ actors + left = H /\ objects = 0
          \/ actors = H /\ objects + left = O
          \/ actors = H /\ objects = O /\ Many + left = cnt
          \/ actors = H /\ objects = O /\ left = 0
          \/ actors = 0 /\ objects = 0 /\ left \in 1..cnt
      BY <1>1 DEF Counts
    <2>2. pc \in {"actors", "objects", "activities", "sort", "done", "panic"}
      BY <1>1 DEF Counts
    <2> HIDE DEF O, H
    <2> QED BY <1>1, <1>2, <2>1, <2>2
  <1>4. \A i \in DOMAIN activities : activities[i].object \in 1..(actors + objects)
    <2>1. \A i \in DOMAIN activities : activities[i] \in Item
      BY <1>1, LenProperties, ElementOfSeq
    <2> QED BY <2>1 DEF Item
  <1>5. TypeOK
    BY <1>1, <1>2, <1>3, <1>4 DEF TypeOK
  <1>6. ASSUME pc = "done" PROVE Len(activities) = cnt /\ cnt \notin 1..7
    <2>1. Many = cnt /\ actors = H /\ (actors = 0 => Many = 0)
      BY <1>1, <1>6 DEF Counts
    <2> HIDE DEF O, H
    <2> QED BY <1>2, <2>1 DEF Many
  <1>7. ASSUME pc = "panic" PROVE activities = <<>> /\ cnt \in 1..7
    <2>1. Many = 0 /\ actors = 0 /\ actors = H /\ left \in 1..cnt
      BY <1>1, <1>7 DEF Counts
    <2>2. activities = <<>>
      BY <1>1, <2>1, EmptySeq DEF Many
    <2> HIDE DEF O, H
    <2> QED BY <1>2, <2>1, <2>2
  <1> QED BY <1>5, <1>6, <1>7 DEF AsManyAsAsked

(* Whatever is asked for, the loops never run past it, and whom an activity is about *)
(* has been made (gen/mock_build.go:609-660).                                        *)
THEOREM PlausibleTypes == Spec => []TypeOK
  BY Counted, CountsGive, PTL

(* As many items as were asked for come out; one to seven make the call panic, for  *)
(* want of an actor, before it has any (gen/mock_build.go:613-643).                 *)
THEOREM AllThatWereAsked == Spec => []AsManyAsAsked
  BY Counted, CountsGive, PTL

-----------------------------------------------------------------------------
(* An int is wide enough for the time between any two of the items. *)
Wide == \A n \in 0..(MaxTick * MaxCount) : Truncated(n) = n

(* The items are dated one after the other, and none is later than the clock, which *)
(* moves by MaxTick at most for each; the k-th item creates the k-th object.        *)
Dated ==
    /\ BaseTime <= MaxTick * Many
    /\ \A i \in 1..Many : activities[i].published <= BaseTime
    /\ \A i, j \in 1..Many : i <= j => activities[i].published <= activities[j].published

Made ==
    /\ actors + objects <= Many
    /\ \A k \in 1..(actors + objects) : /\ activities[k].verb = "Create"
                                        /\ activities[k].object = k

OrderInv == IInv /\ Dated /\ Made

LEMMA OneMore ==
  ASSUME NEW n \in Nat, NEW k \in Nat
  PROVE  n * (k + 1) = n * k + n
  OBVIOUS

LEMMA NoMore ==
  ASSUME NEW n \in Nat, NEW k \in Nat, NEW m \in Nat, k <= m
  PROVE  n * k \in Nat /\ n * m \in Nat /\ n * k <= n * m
  <1>1. PICK d \in Nat : m = k + d
    <2>1. m - k \in Nat /\ m = k + (m - k)
      OBVIOUS
    <2> QED BY <2>1
  <1>2. n * k \in Nat /\ n * d \in Nat
    OBVIOUS
  <1>3. n * (k + d) = n * k + n * d
    OBVIOUS
  <1> QED BY <1>1, <1>2, <1>3

LEMMA OrderInitially == Init => OrderInv
  <1> SUFFICES ASSUME Init PROVE OrderInv
    OBVIOUS
  <1>1. IInv
    BY CountsInitially
  <1>2. Many = 0 /\ BaseTime = 0 /\ actors = 0 /\ objects = 0
    BY EmptySeq DEF Init, Many
  <1>3. MaxTick * 0 = 0
    BY PlausibleAssumption
  <1> QED BY <1>1, <1>2, <1>3 DEF OrderInv, Dated, Made

(* An activity is the latest so far. *)
LEMMA ActsLater ==
  ASSUME IInv, Dated, NEW verb \in {"Create", "Like"}, NEW object \in Nat, Act(verb, object),
         actors' \in Nat, objects' \in Nat, actors + objects <= actors' + objects',
         object \in 1..(actors' + objects')
  PROVE  Dated'
  <1>1. /\ BaseTime' \in Nat /\ BaseTime <= BaseTime' /\ BaseTime' <= BaseTime + MaxTick
        /\ Many' = Many + 1
        /\ \A i \in 1..Many : activities'[i] = activities[i]
        /\ activities'[Many + 1] = [verb |-> verb, object |-> object, published |-> BaseTime']
    BY ActsOn
  <1>2. /\ Many \in Nat /\ BaseTime \in Nat /\ MaxTick \in Nat
        /\ \A i \in 1..Many : activities[i].published \in Nat
    <2>1. activities \in Seq(Item) /\ BaseTime \in Nat
      BY DEF IInv, Numbers
    <2>2. Many \in Nat /\ \A i \in 1..Many : activities[i] \in Item
      BY <2>1, LenProperties, ElementOfSeq DEF Many
    <2> QED BY <2>1, <2>2, PlausibleAssumption DEF Item
  <1>3. BaseTime' <= MaxTick * Many'
    <2>1. MaxTick * (Many + 1) = MaxTick * Many + MaxTick /\ MaxTick * Many \in Nat
      BY <1>2, OneMore, NoMore
    <2>2. BaseTime <= MaxTick * Many
      BY DEF Dated
    <2> QED BY <1>1, <1>2, <2>1, <2>2
  <1>4. /\ \A i \in 1..Many : activities'[i].published = activities[i].published
        /\ activities'[Many + 1].published = BaseTime'
    BY <1>1
  <1>5. \A i \in 1..Many' : i \in 1..Many \/ i = Many + 1
    BY <1>1, <1>2
  <1>6. \A i \in 1..Many' : activities'[i].published <= BaseTime'
    <2>1. \A i \in 1..Many : activities[i].published <= BaseTime
      BY DEF Dated
    <2> QED BY <1>1, <1>2, <1>4, <1>5, <2>1
  <1>7. ASSUME NEW i \in 1..Many', NEW j \in 1..Many', i <= j
        PROVE  activities'[i].published <= activities'[j].published
    <2>1. CASE j = Many + 1
      BY <1>4, <1>6, <2>1
    <2>2. CASE j \in 1..Many
      <3>1. i \in 1..Many
        BY <1>2, <1>7, <2>2
      <3>2. activities[i].published <= activities[j].published
        BY <1>7, <2>2, <3>1 DEF Dated
      <3> QED BY <1>4, <2>2, <3>1, <3>2
    <2> QED BY <1>5, <2>1, <2>2
  <1> QED BY <1>3, <1>6, <1>7 DEF Dated

(* Items that are dated one after the other are in order, where an int is wide enough. *)
LEMMA DatedInOrder ==
  ASSUME Wide, IInv, Dated, Many <= MaxCount
  PROVE  InOrder(activities)
  <1>1. /\ Many \in Nat /\ BaseTime \in Nat /\ MaxTick \in Nat /\ MaxCount \in Nat
        /\ \A i \in 1..Many : activities[i].published \in Nat
    <2>1. activities \in Seq(Item) /\ BaseTime \in Nat
      BY DEF IInv, Numbers
    <2>2. Many \in Nat /\ \A i \in 1..Many : activities[i] \in Item
      BY <2>1, LenProperties, ElementOfSeq DEF Many
    <2> QED BY <2>1, <2>2, PlausibleAssumption DEF Item
  <1>2. MaxTick * MaxCount \in Nat /\ BaseTime <= MaxTick * MaxCount
    <2>1. /\ MaxTick * Many \in Nat /\ MaxTick * MaxCount \in Nat
          /\ MaxTick * Many <= MaxTick * MaxCount
      BY <1>1, NoMore
    <2> QED BY <1>1, <2>1 DEF Dated
  <1> DEFINE D == MaxTick * MaxCount
  <1>3. D \in Nat /\ BaseTime <= D /\ \A n \in 0..D : Truncated(n) = n
    BY <1>2 DEF Wide
  <1> HIDE DEF D
  <1>4. ASSUME NEW i \in 1..Many, NEW j \in 1..Many, i <= j
        PROVE  ItemCollectionByTimestamp(activities[j], activities[i]) >= 0
    <2>1. /\ activities[i].published \in Nat /\ activities[j].published \in Nat
          /\ activities[i].published <= activities[j].published
          /\ activities[j].published <= BaseTime
      BY <1>1, <1>4 DEF Dated
    <2>2. activities[j].published - activities[i].published \in 0..D
      BY <1>1, <1>3, <2>1
    <2>3. ItemCollectionByTimestamp(activities[j], activities[i]) =
            activities[j].published - activities[i].published
      BY <1>3, <2>2 DEF ItemCollectionByTimestamp
    <2> QED BY <2>2, <2>3
  <1> QED BY <1>4 DEF InOrder, Many

(* Every step keeps the order. *)
LEMMA OrderPreserved ==
  ASSUME Wide, OrderInv, [Next]_vars
  PROVE  OrderInv'
  <1>1. IInv /\ IInv' /\ Dated /\ Made
    BY CountsPreserved DEF OrderInv
  <1>2. /\ cnt \in 0..MaxCount /\ left \in Nat /\ actors \in Nat /\ objects \in Nat
        /\ BaseTime \in Nat /\ activities \in Seq(Item) /\ Many \in Nat
        /\ actors' \in Nat /\ objects' \in Nat
    BY <1>1, LenProperties DEF IInv, Numbers, Many
  <1>3. ASSUME UNCHANGED <<actors, objects, activities, BaseTime>>
        PROVE  OrderInv'
    BY <1>1, <1>3 DEF OrderInv, Dated, Made, Many
  <1>4. CASE MakeActor
    <2>1. actors' = actors + 1 /\ objects' = objects /\ Act("Create", actors') /\ pc = "actors"
      BY <1>4 DEF MakeActor
    <2>2. actors + objects <= actors' + objects' /\ actors' \in 1..(actors' + objects')
          /\ actors' \in Nat
      BY <1>2, <2>1
    <2>3. Dated'
      BY <1>1, <1>2, <2>1, <2>2, ActsLater
    <2>4. /\ Many' = Many + 1
          /\ \A i \in 1..Many : activities'[i] = activities[i]
          /\ activities'[Many + 1] = [verb |-> "Create", object |-> actors',
                                      published |-> BaseTime']
      BY <1>1, <1>2, <2>1, <2>2, ActsOn
    <2>5. actors = Many /\ objects = 0
      BY <1>1, <2>1 DEF IInv, Counts
    <2>6. \A k \in 1..(actors' + objects') : k \in 1..(actors + objects) \/ k = Many + 1
      BY <1>2, <2>1, <2>5
    <2>7. \A k \in 1..(actors + objects) :
            activities'[k].verb = "Create" /\ activities'[k].object = k
      BY <1>1, <1>2, <2>4, <2>5 DEF Made
    <2>8. Made'
      BY <1>2, <2>1, <2>4, <2>5, <2>6, <2>7 DEF Made
    <2> QED BY <1>1, <2>3, <2>8 DEF OrderInv
  <1>5. CASE MakeObjects
    BY <1>3, <1>5 DEF MakeObjects
  <1>6. CASE MakeObject
    <2>1. /\ objects' = objects + 1 /\ actors' = actors /\ pc = "objects"
          /\ Act("Create", actors + objects')
      BY <1>6 DEF MakeObject
    <2>2. /\ actors + objects <= actors' + objects' /\ actors + objects' \in Nat
          /\ actors + objects' \in 1..(actors' + objects')
      BY <1>2, <2>1
    <2>3. Dated'
      BY <1>1, <1>2, <2>1, <2>2, ActsLater
    <2>4. /\ Many' = Many + 1
          /\ \A i \in 1..Many : activities'[i] = activities[i]
          /\ activities'[Many + 1] = [verb |-> "Create", object |-> actors + objects',
                                      published |-> BaseTime']
      BY <1>1, <1>2, <2>1, <2>2, ActsOn
    <2>5. actors + objects = Many
      BY <1>1, <2>1 DEF IInv, Counts
    <2>6. \A k \in 1..(actors' + objects') : k \in 1..(actors + objects) \/ k = Many + 1
      BY <1>2, <2>1, <2>5
    <2>7. \A k \in 1..(actors + objects) :
            activities'[k].verb = "Create" /\ activities'[k].object = k
      BY <1>1, <1>2, <2>4, <2>5 DEF Made
    <2>8. Made'
      BY <1>2, <2>1, <2>4, <2>5, <2>6, <2>7 DEF Made
    <2> QED BY <1>1, <2>3, <2>8 DEF OrderInv
  <1>7. CASE MakeActivities
    BY <1>3, <1>7 DEF MakeActivities
  <1>8. CASE MakeActivity
    <2>1. /\ UNCHANGED <<actors, objects>>
          /\ \E object \in 1..(actors + objects) : Act("Like", object)
      BY <1>8 DEF MakeActivity
    <2>2. PICK object \in 1..(actors + objects) : Act("Like", object)
      BY <2>1
    <2>3. /\ actors + objects <= actors' + objects' /\ object \in 1..(actors' + objects')
          /\ object \in Nat
      BY <1>2, <2>1
    <2>4. Dated'
      BY <1>1, <1>2, <2>2, <2>3, ActsLater
    <2>5. /\ Many' = Many + 1
          /\ \A i \in 1..Many : activities'[i] = activities[i]
      BY <1>1, <1>2, <2>2, <2>3, ActsOn
    <2>6. Made'
      BY <1>1, <1>2, <2>1, <2>5 DEF Made
    <2> QED BY <1>1, <2>4, <2>6 DEF OrderInv
  <1>9. CASE Panic
    BY <1>3, <1>9 DEF Panic
  <1>10. CASE Sort
    <2>1. /\ pc = "activities" /\ left = 0 /\ activities' = FoldLeft(Insert, <<>>, activities)
          /\ UNCHANGED <<actors, objects, BaseTime>>
      BY <1>10 DEF Sort
    <2>2. Many + left = cnt
      BY <1>1, <2>1 DEF IInv, Counts
    <2>3. Many <= MaxCount
      BY <1>2, <2>1, <2>2, PlausibleAssumption
    <2>4. InOrder(activities)
      BY <1>1, <2>3, DatedInOrder
    <2>5. activities' = activities
      BY <1>2, <2>1, <2>4, SortKeeps
    <2> QED BY <1>3, <2>1, <2>5
  <1>11. CASE UNCHANGED vars
    BY <1>3, <1>11 DEF vars
  <1> QED BY <1>4, <1>5, <1>6, <1>7, <1>8, <1>9, <1>10, <1>11 DEF Next

LEMMA OrderGives == OrderInv => CreatedBeforeUsed
  <1> SUFFICES ASSUME OrderInv, NEW j \in DOMAIN activities, activities[j].verb # "Create"
               PROVE  \E i \in 1..(j - 1) : /\ activities[i].verb = "Create"
                                            /\ activities[i].object = activities[j].object
    BY DEF CreatedBeforeUsed
  <1>1. /\ actors \in Nat /\ objects \in Nat /\ Many \in Nat /\ j \in 1..Many
        /\ activities[j] \in Item
    BY LenProperties, ElementOfSeq DEF OrderInv, IInv, Numbers, Many
  <1>2. activities[j].object \in 1..(actors + objects)
    BY <1>1 DEF Item
  <1>3. ~(j \in 1..(actors + objects))
    BY DEF OrderInv, Made
  <1>4. activities[j].object \in 1..(j - 1)
    BY <1>1, <1>2, <1>3
  <1>5. /\ activities[activities[j].object].verb = "Create"
        /\ activities[activities[j].object].object = activities[j].object
    BY <1>2 DEF OrderInv, Made
  <1> QED BY <1>4, <1>5

(* Where an int is wide enough for the time between any two of the items, the sort  *)
(* leaves them as they were made, and the creation of each object comes before any   *)
(* other activity on it, in the order in which the tests save them                   *)
(* (gen/mock_build.go:609-667).                                                      *)
THEOREM CreationsComeFirst ==
  ASSUME Wide
  PROVE  Spec => []CreatedBeforeUsed
  <1>1. OrderInv /\ [Next]_vars => OrderInv'
    BY OrderPreserved
  <1> QED BY <1>1, OrderInitially, OrderGives, PTL DEF Spec
=============================================================================
