----------------------------- MODULE DataLemmas -----------------------------
(***************************************************************************)
(* What the proofs about the app and about the Firestore client need of    *)
(* naturals, sequences and sums.  A sum is a fold of the community         *)
(* modules, and a fold a recursive function, so that first there must be   *)
(* one: by induction, in the form that a set with zero and with each       *)
(* member's successor holds all the naturals.                              *)
(***************************************************************************)
EXTENDS Integers, Sequences, SequencesExt, Functions, FiniteSetTheorems,
        SequenceTheorems, WellFoundedInduction, TLAPS

(***************************************************************************)
(* Induction and maxima                                                    *)
(***************************************************************************)

\* Of a set of naturals that is not empty one is the least.
LEMMA Least ==
    ASSUME NEW S \in SUBSET Nat, S # {}
    PROVE  \E n \in S : \A m \in S : n <= m
  <1>1. PICK n \in S : \A m \in S : ~ (<<m, n>> \in OpToRel(<, Nat))
    BY WFMin, NatLessThanWellFounded, Zenon
  <1>2. \A m \in S : ~ (m < n)
    BY <1>1, Zenon DEF OpToRel
  <1> QED
    BY <1>2

\* What holds of 0, and of n + 1 when it holds of n, holds of every natural.
LEMMA Induction ==
    ASSUME NEW T \in SUBSET Nat, 0 \in T, \A n \in T : n + 1 \in T
    PROVE  T = Nat
  <1> SUFFICES ASSUME Nat \ T # {} PROVE FALSE
    BY Zenon
  <1>1. PICK n \in Nat \ T : \A m \in Nat \ T : n <= m
    BY Least
  <1>2. n # 0 /\ n - 1 \in Nat
    BY <1>1
  <1>3. n - 1 \in T
    BY <1>1, <1>2
  <1>4. (n - 1) + 1 \in T /\ (n - 1) + 1 = n
    BY <1>1, <1>3
  <1> QED
    BY <1>1, <1>4

\* A set of naturals with a bound has a maximum.
LEMMA MaxOfBounded ==
    ASSUME NEW S \in SUBSET Nat, S # {}, NEW n \in Nat, \A x \in S : x <= n
    PROVE  Max(S) \in S /\ \A y \in S : Max(S) >= y
  <1> DEFINE Gaps == {g \in Nat : n - g \in S}
  <1>1. \A x \in S : n - x \in Gaps
    OBVIOUS
  <1>2. PICK g \in Gaps : \A h \in Gaps : g <= h
    <2>1. Gaps \in SUBSET Nat /\ Gaps # {}
      BY <1>1, Zenon
    <2> QED
      BY <2>1, Least, Zenon
  <1>3. n - g \in S /\ \A y \in S : n - g >= y
    BY <1>1, <1>2
  <1> QED
    BY <1>3, Zenon DEF Max

(***************************************************************************)
(* Sequences: the beginning of another, and one without an element         *)
(***************************************************************************)

\* One sequence begins another if it agrees with it as far as it goes.
LEMMA PrefixPointwise ==
    ASSUME NEW S, NEW p \in Seq(S), NEW q \in Seq(S)
    PROVE  IsPrefix(p, q) <=> /\ Len(p) <= Len(q)
                              /\ \A i \in 1 .. Len(p) : p[i] = q[i]
  <1>1. SubSeq(p, 1, Len(p)) = p
    BY SubSeqFull
  <1>2. ASSUME Len(p) <= Len(q)
        PROVE  /\ SubSeq(q, 1, Len(p)) \in Seq(S)
               /\ Len(SubSeq(q, 1, Len(p))) = Len(p)
               /\ \A i \in 1 .. Len(p) : SubSeq(q, 1, Len(p))[i] = q[i]
    BY <1>2, SubSeqProperties
  <1>3. ASSUME Len(p) <= Len(q), \A i \in 1 .. Len(p) : p[i] = q[i]
        PROVE  p = SubSeq(q, 1, Len(p))
    BY <1>2, <1>3, SeqEqual
  <1> QED
    BY <1>1, <1>2, <1>3 DEF IsPrefix

\* The empty sequence begins every other.
LEMMA EmptyIsPrefix ==
    ASSUME NEW S, NEW q \in Seq(S)
    PROVE  IsPrefix(<< >>, q)
  <1>1. SubSeq(<< >>, 1, 0) = << >> /\ SubSeq(q, 1, 0) = << >>
    BY SubSeqEmpty
  <1> QED
    BY <1>1 DEF IsPrefix

\* To begin another sequence is an order.
LEMMA PrefixReflexive ==
    ASSUME NEW S, NEW p \in Seq(S)
    PROVE  IsPrefix(p, p)
  BY PrefixPointwise

\* ... and an order is transitive.
LEMMA PrefixTransitive ==
    ASSUME NEW S, NEW p \in Seq(S), NEW q \in Seq(S), NEW r \in Seq(S),
           IsPrefix(p, q), IsPrefix(q, r)
    PROVE  IsPrefix(p, r)
  <1>1. /\ Len(p) \in Nat /\ Len(q) \in Nat /\ Len(r) \in Nat
        /\ Len(p) <= Len(q) /\ \A i \in 1 .. Len(p) : p[i] = q[i]
        /\ Len(q) <= Len(r) /\ \A i \in 1 .. Len(q) : q[i] = r[i]
    BY PrefixPointwise
  <1>2. Len(p) <= Len(r) /\ \A i \in 1 .. Len(p) : p[i] = r[i]
    BY <1>1
  <1> QED
    BY <1>2, PrefixPointwise

\* Of two sequences that begin a third, one begins the other.
LEMMA PrefixesAgree ==
    ASSUME NEW S, NEW p \in Seq(S), NEW q \in Seq(S), NEW r \in Seq(S),
           IsPrefix(p, r), IsPrefix(q, r)
    PROVE  IsPrefix(p, q) \/ IsPrefix(q, p)
  <1>1. /\ Len(p) \in Nat /\ Len(q) \in Nat
        /\ Len(p) <= Len(r) /\ \A i \in 1 .. Len(p) : p[i] = r[i]
        /\ Len(q) <= Len(r) /\ \A i \in 1 .. Len(q) : q[i] = r[i]
    BY PrefixPointwise
  <1>2. CASE Len(p) <= Len(q)
    <2>1. \A i \in 1 .. Len(p) : p[i] = q[i]
      BY <1>1, <1>2
    <2> QED
      BY <1>2, <2>1, PrefixPointwise
  <1>3. CASE Len(q) <= Len(p)
    <2>1. \A i \in 1 .. Len(q) : q[i] = p[i]
      BY <1>1, <1>3
    <2> QED
      BY <1>3, <2>1, PrefixPointwise
  <1> QED
    BY <1>1, <1>2, <1>3

\* A sequence that begins another does so after both lost their head.
LEMMA PrefixTail ==
    ASSUME NEW S, NEW p \in Seq(S), NEW q \in Seq(S), IsPrefix(p, q), p # << >>
    PROVE  q # << >> /\ Head(p) = Head(q) /\ IsPrefix(Tail(p), Tail(q))
  <1>1. Len(p) <= Len(q) /\ \A i \in 1 .. Len(p) : p[i] = q[i]
    BY PrefixPointwise
  <1>2. q # << >> /\ Head(p) = Head(q)
    BY <1>1
  <1>3. Tail(p) \in Seq(S) /\ Tail(q) \in Seq(S)
    BY <1>2
  <1>4. Len(Tail(p)) <= Len(Tail(q)) /\ \A i \in 1 .. Len(Tail(p)) : Tail(p)[i] = Tail(q)[i]
    BY <1>1, <1>2, HeadTailProperties
  <1> QED
    BY <1>2, <1>3, <1>4, PrefixPointwise

\* A sequence that begins another begins it after it grew.
LEMMA PrefixAppend ==
    ASSUME NEW S, NEW p \in Seq(S), NEW q \in Seq(S), IsPrefix(p, q), NEW e \in S
    PROVE  IsPrefix(p, Append(q, e))
  <1>1. Len(p) <= Len(q) /\ \A i \in 1 .. Len(p) : p[i] = q[i]
    BY PrefixPointwise
  <1>2. Append(q, e) \in Seq(S)
    OBVIOUS
  <1>3. Len(p) <= Len(Append(q, e)) /\ \A i \in 1 .. Len(p) : p[i] = Append(q, e)[i]
    BY <1>1
  <1> QED
    BY <1>2, <1>3, PrefixPointwise

\* A sequence without its element at i: the elements before it, then those after.
LEMMA RemoveAtPointwise ==
    ASSUME NEW S, NEW s \in Seq(S), NEW i \in 1 .. Len(s)
    PROVE  /\ RemoveAt(s, i) \in Seq(S) /\ Len(RemoveAt(s, i)) = Len(s) - 1
           /\ \A k \in 1 .. Len(s) - 1 :
                 RemoveAt(s, i)[k] = IF k < i THEN s[k] ELSE s[k + 1]
  <1>0. PICK n \in Nat : n = Len(s)
    BY LenProperties
  <1>1. i \in 1 .. n /\ \A k \in 1 .. n : s[k] \in S
    BY <1>0, LenProperties
  <1>2. /\ SubSeq(s, 1, i - 1) \in Seq(S) /\ Len(SubSeq(s, 1, i - 1)) = i - 1
        /\ \A k \in 1 .. i - 1 : SubSeq(s, 1, i - 1)[k] = s[k]
    BY <1>1, SubSeqProperties
  <1>3. PICK p \in Seq(S) : p = SubSeq(s, 1, i - 1)
    BY <1>2
  <1>4. /\ SubSeq(s, i + 1, n) \in Seq(S) /\ Len(SubSeq(s, i + 1, n)) = n - i
        /\ \A k \in 1 .. n - i : SubSeq(s, i + 1, n)[k] = s[i + k]
    BY <1>1, SubSeqProperties
  <1>5. PICK q \in Seq(S) : q = SubSeq(s, i + 1, n)
    BY <1>4
  <1>6. RemoveAt(s, i) = p \o q
    BY <1>0, <1>3, <1>5 DEF RemoveAt
  <1>7. /\ p \o q \in Seq(S) /\ Len(p \o q) = n - 1
        /\ \A k \in 1 .. (i - 1) + (n - i) :
              (p \o q)[k] = IF k <= i - 1 THEN p[k] ELSE q[k - (i - 1)]
    BY <1>1, <1>2, <1>3, <1>4, <1>5, ConcatProperties
  <1>8. ASSUME NEW k \in 1 .. n - 1
        PROVE  (p \o q)[k] = IF k < i THEN s[k] ELSE s[k + 1]
    <2>1. (p \o q)[k] = IF k <= i - 1 THEN p[k] ELSE q[k - (i - 1)]
      BY <1>7
    <2>2. CASE k < i
      BY <1>2, <1>3, <2>1, <2>2
    <2>3. CASE ~ (k < i)
      <3>1. k - (i - 1) \in 1 .. n - i /\ i + (k - (i - 1)) = k + 1
        BY <2>3
      <3>2. q[k - (i - 1)] = s[k + 1]
        BY <1>4, <1>5, <3>1
      <3> QED
        BY <2>1, <2>3, <3>2
    <2> QED
      BY <2>2, <2>3
  <1> QED
    BY <1>0, <1>6, <1>7, <1>8

\* Of two sequences in a row, removing an element of one removes it from the whole.
LEMMA RemoveAtConcat ==
    ASSUME NEW S, NEW c \in Seq(S), NEW b \in Seq(S), 
           NEW i \in 1 .. Len(c) + Len(b)
    PROVE  RemoveAt(c \o b, i) = IF i <= Len(c) THEN RemoveAt(c, i) \o b
                                 ELSE c \o RemoveAt(b, i - Len(c))
  <1>0. PICK n \in Nat, m \in Nat : n = Len(c) /\ m = Len(b)
    BY LenProperties
  <1>6. i \in 1 .. n + m
    BY <1>0
  <1>1. PICK cb \in Seq(S) : cb = c \o b
    BY ConcatProperties
  <1>2. /\ Len(cb) = n + m
        /\ \A k \in 1 .. n + m : cb[k] = IF k <= n THEN c[k] ELSE b[k - n]
    BY <1>0, <1>1, ConcatProperties
  <1>3. /\ RemoveAt(cb, i) \in Seq(S) /\ Len(RemoveAt(cb, i)) = n + m - 1
        /\ \A k \in 1 .. n + m - 1 :
              RemoveAt(cb, i)[k] = IF k < i THEN cb[k] ELSE cb[k + 1]
    <2>1. i \in 1 .. Len(cb)
      BY <1>2, <1>6
    <2>2. /\ RemoveAt(cb, i) \in Seq(S) /\ Len(RemoveAt(cb, i)) = Len(cb) - 1
          /\ \A k \in 1 .. Len(cb) - 1 :
                RemoveAt(cb, i)[k] = IF k < i THEN cb[k] ELSE cb[k + 1]
      BY <2>1, RemoveAtPointwise
    <2> QED
      BY <1>2, <1>6, <2>2
  <1>4. CASE i <= n
    <2>1. /\ RemoveAt(c, i) \in Seq(S) /\ Len(RemoveAt(c, i)) = n - 1
          /\ \A k \in 1 .. n - 1 : RemoveAt(c, i)[k] = IF k < i THEN c[k] ELSE c[k + 1]
      <3>1. i \in 1 .. Len(c)
        BY <1>0, <1>4, <1>6
      <3>2. /\ RemoveAt(c, i) \in Seq(S) /\ Len(RemoveAt(c, i)) = Len(c) - 1
            /\ \A k \in 1 .. Len(c) - 1 :
                  RemoveAt(c, i)[k] = IF k < i THEN c[k] ELSE c[k + 1]
        BY <3>1, RemoveAtPointwise
      <3> QED
        BY <1>0, <1>4, <1>6, <3>2
    <2>2. PICK r \in Seq(S) : r = RemoveAt(c, i)
      BY <2>1
    <2>3. /\ r \o b \in Seq(S) /\ Len(r \o b) = n + m - 1
          /\ \A k \in 1 .. (n - 1) + m :
                (r \o b)[k] = IF k <= n - 1 THEN r[k] ELSE b[k - (n - 1)]
      <3>1. /\ r \o b \in Seq(S) /\ Len(r \o b) = Len(r) + Len(b)
            /\ \A k \in 1 .. Len(r) + Len(b) :
                  (r \o b)[k] = IF k <= Len(r) THEN r[k] ELSE b[k - Len(r)]
        BY ConcatProperties
      <3>2. Len(r) = n - 1 /\ Len(b) = m
        BY <1>0, <2>1, <2>2
      <3> QED
        BY <3>1, <3>2
    <2>4. ASSUME NEW k \in 1 .. n + m - 1
          PROVE  (r \o b)[k] = RemoveAt(cb, i)[k]
      <3>1. (r \o b)[k] = IF k <= n - 1 THEN r[k] ELSE b[k - (n - 1)]
        <4>1. k \in 1 .. (n - 1) + m
          OBVIOUS
        <4> QED
          BY <2>3, <4>1
      <3>2. RemoveAt(cb, i)[k] = IF k < i THEN cb[k] ELSE cb[k + 1]
        BY <1>3
      <3>3. k <= n - 1 => r[k] = IF k < i THEN c[k] ELSE c[k + 1]
        BY <2>1, <2>2
      <3>4. /\ cb[k] = IF k <= n THEN c[k] ELSE b[k - n]
            /\ cb[k + 1] = IF k + 1 <= n THEN c[k + 1] ELSE b[k + 1 - n]
        BY <1>2
      <3>5. k - (n - 1) = k + 1 - n
        OBVIOUS
      <3> QED
        BY <1>4, <1>6, <3>1, <3>2, <3>3, <3>4, <3>5
    <2>5. r \o b = RemoveAt(cb, i)
      BY <1>3, <2>3, <2>4, SeqEqual
    <2> QED
      BY <1>0, <1>1, <1>4, <2>2, <2>5
  <1>5. CASE ~ (i <= n)
    <2>0. i - n \in 1 .. m
      BY <1>5, <1>6
    <2>1. /\ RemoveAt(b, i - n) \in Seq(S) /\ Len(RemoveAt(b, i - n)) = m - 1
          /\ \A k \in 1 .. m - 1 :
                RemoveAt(b, i - n)[k] = IF k < i - n THEN b[k] ELSE b[k + 1]
      BY <1>0, <2>0, RemoveAtPointwise
    <2>2. PICK r \in Seq(S) : r = RemoveAt(b, i - n)
      BY <2>1
    <2>3. /\ c \o r \in Seq(S) /\ Len(c \o r) = n + m - 1
          /\ \A k \in 1 .. n + (m - 1) : (c \o r)[k] = IF k <= n THEN c[k] ELSE r[k - n]
      <3>1. /\ c \o r \in Seq(S) /\ Len(c \o r) = Len(c) + Len(r)
            /\ \A k \in 1 .. Len(c) + Len(r) :
                  (c \o r)[k] = IF k <= Len(c) THEN c[k] ELSE r[k - Len(c)]
        BY ConcatProperties
      <3>2. Len(c) = n /\ Len(r) = m - 1
        BY <1>0, <2>1, <2>2
      <3> QED
        BY <3>1, <3>2
    <2>4. ASSUME NEW k \in 1 .. n + m - 1
          PROVE  (c \o r)[k] = RemoveAt(cb, i)[k]
      <3>1. (c \o r)[k] = IF k <= n THEN c[k] ELSE r[k - n]
        BY <2>3
      <3>2. RemoveAt(cb, i)[k] = IF k < i THEN cb[k] ELSE cb[k + 1]
        BY <1>3
      <3>3. ~ (k <= n) => r[k - n] = IF k - n < i - n THEN b[k - n] ELSE b[k - n + 1]
        <4>1. ~ (k <= n) => k - n \in 1 .. m - 1
          OBVIOUS
        <4> QED
          BY <2>1, <2>2, <4>1
      <3>4. /\ cb[k] = IF k <= n THEN c[k] ELSE b[k - n]
            /\ cb[k + 1] = IF k + 1 <= n THEN c[k + 1] ELSE b[k + 1 - n]
        BY <1>2
      <3>5. k - n + 1 = k + 1 - n /\ (k - n < i - n <=> k < i)
        OBVIOUS
      <3> QED
        BY <1>5, <1>6, <3>1, <3>2, <3>3, <3>4, <3>5
    <2>5. c \o r = RemoveAt(cb, i)
      BY <1>3, <2>3, <2>4, SeqEqual
    <2> QED
      BY <1>0, <1>1, <1>5, <2>2, <2>5
  <1> QED
    BY <1>4, <1>5

(***************************************************************************)
(* There is a function that sums as the folds do: what `cost` says of a    *)
(* set, and the sum over the set without the element `pick` takes.         *)
(***************************************************************************)

Sums(S, pick, cost, g) ==
    g = [s \in SUBSET S |-> IF s = {} THEN 0 ELSE cost[s] + g[s \ {pick[s]}]]

\* The subsets of S with at most n members.
UpTo(S, n) == {s \in SUBSET S : Cardinality(s) <= n}

\* A function that sums so over all sets with at most n members.
SumsUpTo(S, pick, cost, n, g) ==
    g \in [UpTo(S, n) -> Int] /\
    \A s \in UpTo(S, n) : g[s] = IF s = {} THEN 0 ELSE cost[s] + g[s \ {pick[s]}]

LEMMA SumsExist ==
    ASSUME NEW S, IsFiniteSet(S), NEW pick, NEW cost,
           \A s \in SUBSET S : s # {} => pick[s] \in s /\ cost[s] \in Int
    PROVE  \E g \in [SUBSET S -> Int] : Sums(S, pick, cost, g)
  <1> DEFINE T == {n \in Nat : \E g : SumsUpTo(S, pick, cost, n, g)}
  <1>1. \A s \in SUBSET S : /\ IsFiniteSet(s) /\ Cardinality(s) \in Nat
                            /\ Cardinality(s) <= Cardinality(S)
                            /\ (Cardinality(s) = 0 <=> s = {})
    BY FS_Subset, FS_CardinalityType, FS_EmptySet
  <1>2. ASSUME NEW n \in Nat, NEW s \in UpTo(S, n + 1), s # {}
        PROVE  s \ {pick[s]} \in UpTo(S, n)
    <2>1. s \in SUBSET S /\ Cardinality(s) <= n + 1 /\ pick[s] \in s
      BY <1>2 DEF UpTo
    <2>2. Cardinality(s \ {pick[s]}) = Cardinality(s) - 1
      BY <1>1, <2>1, FS_RemoveElement
    <2>3. Cardinality(s) - 1 <= n
      BY <1>1, <2>1
    <2> QED
      BY <2>1, <2>2, <2>3 DEF UpTo
  <1>3. 0 \in T
    <2> DEFINE g == [s \in UpTo(S, 0) |-> 0]
    <2>1. \A s \in UpTo(S, 0) : s = {}
      BY <1>1 DEF UpTo
    <2>2. SumsUpTo(S, pick, cost, 0, g)
      BY <2>1 DEF SumsUpTo
    <2> HIDE DEF g
    <2> QED
      BY <2>2
  <1>4. ASSUME NEW n \in T
        PROVE  n + 1 \in T
    <2>1. PICK g : SumsUpTo(S, pick, cost, n, g)
      OBVIOUS
    <2> DEFINE h == [s \in UpTo(S, n + 1) |->
                       IF s = {} THEN 0 ELSE cost[s] + g[s \ {pick[s]}]]
    <2>2. n \in Nat /\ n + 1 \in Nat
      OBVIOUS
    <2>3. \A s \in UpTo(S, n + 1) : s \in SUBSET S
      BY DEF UpTo
    <2>4. \A s \in UpTo(S, n) : s \in UpTo(S, n + 1) /\ g[s] \in Int
      BY <1>1, <2>1, <2>2 DEF UpTo, SumsUpTo
    <2>5. ASSUME NEW s \in UpTo(S, n + 1), s # {}
          PROVE  cost[s] + g[s \ {pick[s]}] \in Int
      BY <1>2, <2>2, <2>3, <2>4, <2>5
    <2>6. h \in [UpTo(S, n + 1) -> Int]
      BY <2>5
    <2>7. \A s \in UpTo(S, n) : h[s] = g[s]
      BY <2>1, <2>4 DEF SumsUpTo
    <2>8. \A s \in UpTo(S, n + 1) : s # {} => h[s \ {pick[s]}] = g[s \ {pick[s]}]
      BY <1>2, <2>2, <2>7
    <2>9. SumsUpTo(S, pick, cost, n + 1, h)
      BY <2>6, <2>8 DEF SumsUpTo
    <2> HIDE DEF h
    <2> QED
      BY <2>2, <2>9
  <1>5. T = Nat
    <2> HIDE DEF T
    <2>1. T \in SUBSET Nat
      BY DEF T
    <2> QED
      BY <1>3, <1>4, <2>1, Induction
  <1>6. Cardinality(S) \in Nat
    BY FS_CardinalityType
  <1>7. PICK g : SumsUpTo(S, pick, cost, Cardinality(S), g)
    BY <1>5, <1>6
  <1>8. UpTo(S, Cardinality(S)) = SUBSET S
    BY <1>1 DEF UpTo
  <1>9. g \in [SUBSET S -> Int] /\ Sums(S, pick, cost, g)
    BY <1>7, <1>8 DEF SumsUpTo, Sums
  <1> QED
    BY <1>9

(***************************************************************************)
(* The sum of a function over a finite set                                 *)
(***************************************************************************)

\* A sum of naturals is a natural, and a sum of zeros is zero.
LEMMA SumOfNaturals ==
    ASSUME NEW S, IsFiniteSet(S), NEW f, \A x \in S : f[x] \in Nat
    PROVE  /\ FoldFunctionOnSet(+, 0, f, S) \in Nat
           /\ (\A x \in S : f[x] = 0) => FoldFunctionOnSet(+, 0, f, S) = 0
  <1> DEFINE OneOf(s) == CHOOSE x \in s : TRUE
             pick == [s \in SUBSET S |-> OneOf(s)]
             cost == [s \in SUBSET S |-> f[OneOf(s)]]
             total == CHOOSE g : Sums(S, pick, cost, g)
             T == {n \in Nat : \A s \in UpTo(S, n) :
                       total[s] \in Nat /\ (total[s] # 0 => \E x \in S : f[x] # 0)}
  <1>1. FoldFunctionOnSet(+, 0, f, S) = total[S]
    <2> DEFINE Fold(g) == [s \in SUBSET S |->
                             IF s = {} THEN 0 ELSE f[OneOf(s)] + g[s \ {OneOf(s)}]]
    <2>1. FoldFunctionOnSet(+, 0, f, S) = (CHOOSE g : g = Fold(g))[S]
      BY DEF FoldFunctionOnSet, MapThenFoldSet
    <2>2. \A s \in SUBSET S : pick[s] = OneOf(s) /\ cost[s] = f[OneOf(s)]
      OBVIOUS
    <2> HIDE DEF OneOf, pick, cost
    <2>3. \A g : Sums(S, pick, cost, g) <=> g = Fold(g)
      BY <2>2 DEF Sums
    <2> HIDE DEF Fold
    <2>4. (CHOOSE g : g = Fold(g)) = total
      BY <2>3
    <2> QED
      BY <2>1, <2>4
  <1>2. \A s \in SUBSET S : s # {} => pick[s] \in s /\ cost[s] = f[pick[s]]
                                      /\ pick[s] \in S /\ cost[s] \in Nat
    <2>1. \A s \in SUBSET S : s # {} => OneOf(s) \in s
      OBVIOUS
    <2> HIDE DEF OneOf
    <2> QED
      BY <2>1
  <1> HIDE DEF OneOf, pick, cost
  <1>3. Sums(S, pick, cost, total)
    <2>0. \A s \in SUBSET S : s # {} => pick[s] \in s /\ cost[s] \in Int
      BY <1>2
    <2>1. \E g : Sums(S, pick, cost, g)
      BY <2>0, SumsExist
    <2> QED
      BY <2>1
  <1>4. \A s \in SUBSET S :
           total[s] = IF s = {} THEN 0 ELSE cost[s] + total[s \ {pick[s]}]
    <2> HIDE DEF pick, cost, total
    <2> QED
      BY <1>3 DEF Sums
  <1>6. \A s \in SUBSET S : /\ IsFiniteSet(s) /\ Cardinality(s) \in Nat
                            /\ Cardinality(s) <= Cardinality(S)
                            /\ (Cardinality(s) = 0 <=> s = {})
    BY FS_Subset, FS_CardinalityType, FS_EmptySet
  <1> HIDE DEF total
  <1>5. total[{}] = 0
    <2>1. {} \in SUBSET S
      OBVIOUS
    <2> QED
      BY <1>4, <2>1
  <1>7. 0 \in T
    <2>1. \A s \in UpTo(S, 0) : s = {}
      BY <1>6 DEF UpTo
    <2>2. ASSUME NEW s \in UpTo(S, 0)
          PROVE  total[s] = 0
      <3>1. s = {}
        BY <2>1
      <3> QED
        BY <1>5, <3>1, Zenon
    <2> QED
      BY <2>2
  <1>8. ASSUME NEW n \in T
        PROVE  n + 1 \in T
    <2>1. n \in Nat /\ n + 1 \in Nat
      OBVIOUS
    <2> SUFFICES ASSUME NEW s \in UpTo(S, n + 1)
                 PROVE  total[s] \in Nat /\ (total[s] # 0 => \E x \in S : f[x] # 0)
      BY <2>1
    <2>2. s \in SUBSET S /\ Cardinality(s) <= n + 1
      BY DEF UpTo
    <2>3. CASE s = {}
      BY <1>5, <2>3
    <2>4. CASE s # {}
      <3>1. Cardinality(s \ {pick[s]}) = Cardinality(s) - 1
        BY <1>2, <1>6, <2>2, <2>4, FS_RemoveElement
      <3>2. s \ {pick[s]} \in UpTo(S, n)
        BY <1>6, <2>1, <2>2, <3>1 DEF UpTo
      <3>3. /\ total[s \ {pick[s]}] \in Nat
            /\ total[s \ {pick[s]}] # 0 => \E x \in S : f[x] # 0
        BY <3>2
      <3>4. /\ total[s] = cost[s] + total[s \ {pick[s]}] /\ cost[s] \in Nat
            /\ cost[s] # 0 => \E x \in S : f[x] # 0
        BY <1>2, <1>4, <2>2, <2>4
      <3> QED
        BY <3>3, <3>4
    <2> QED
      BY <2>3, <2>4
  <1>9. T = Nat
    <2>1. T \in SUBSET Nat
      OBVIOUS
    <2> HIDE DEF T
    <2> QED
      BY <1>7, <1>8, <2>1, Induction
  <1>10. S \in UpTo(S, Cardinality(S)) /\ Cardinality(S) \in Nat
    BY <1>6 DEF UpTo
  <1>11. total[S] \in Nat /\ (total[S] # 0 => \E x \in S : f[x] # 0)
    BY <1>9, <1>10
  <1> QED
    BY <1>1, <1>11

(***************************************************************************)
(* The sum of a price over a sequence                                      *)
(***************************************************************************)

\* r[k] is the sum over the first k elements of s.
Running(s, p, r) ==
    /\ r \in [0 .. Len(s) -> Int] /\ r[0] = 0
    /\ \A k \in 1 .. Len(s) : r[k] = r[k - 1] + p[s[k]]

SumAlong(s, p) == FoldLeft(LAMBDA sum, i : p[i] + sum, 0, s)

\* The fold over a sequence is what the running sum comes to; and there is one.
LEMMA FoldIsRunning ==
    ASSUME NEW V, NEW s \in Seq(V), NEW p \in [V -> Int]
    PROVE  \E r : /\ Running(s, p, r)
                  /\ SumAlong(s, p) = r[Len(s)]
  <1> DEFINE S == DOMAIN s
             pick == [t \in SUBSET S |-> Max(t)]
             cost == [t \in SUBSET S |-> p[s[Max(t)]]]
             total == CHOOSE g : Sums(S, pick, cost, g)
             r == [k \in 0 .. Len(s) |-> total[1 .. k]]
  <1>0. PICK n \in Nat : n = Len(s) /\ S = 1 .. n
    OBVIOUS
  <1>1. SumAlong(s, p) = total[S]
    <2> DEFINE Fold(g) == [t \in SUBSET S |->
                             IF t = {} THEN 0 ELSE p[s[Max(t)]] + g[t \ {Max(t)}]]
    <2>1. SumAlong(s, p) = (CHOOSE g : g = Fold(g))[S]
      BY DEF SumAlong, FoldLeft, MapThenFoldSet
    <2>2. \A t \in SUBSET S : pick[t] = Max(t) /\ cost[t] = p[s[Max(t)]]
      OBVIOUS
    <2> HIDE DEF pick, cost, S
    <2>3. \A g : Sums(S, pick, cost, g) <=> g = Fold(g)
      BY <2>2 DEF Sums
    <2> HIDE DEF Fold
    <2>4. (CHOOSE g : g = Fold(g)) = total
      BY <2>3
    <2> QED
      BY <2>1, <2>4
  <1>2. ASSUME NEW t \in SUBSET S, t # {}
        PROVE  /\ pick[t] \in t /\ \A y \in t : pick[t] >= y
               /\ cost[t] = p[s[pick[t]]] /\ cost[t] \in Int
    <2>1. t \in SUBSET Nat /\ \A y \in t : y <= n
      BY <1>0
    <2>2. Max(t) \in t /\ \A y \in t : Max(t) >= y
      BY <1>2, <2>1, MaxOfBounded
    <2>3. s[Max(t)] \in V
      BY <2>2
    <2> QED
      BY <2>2, <2>3
  <1>3. IsFiniteSet(S)
    BY <1>0, FS_Interval
  <1> HIDE DEF pick, cost, S
  <1>4. Sums(S, pick, cost, total)
    <2>0. \A t \in SUBSET S : t # {} => pick[t] \in t /\ cost[t] \in Int
      BY <1>2
    <2>1. \E g : Sums(S, pick, cost, g)
      BY <1>3, <2>0, SumsExist
    <2> QED
      BY <2>1
  <1> HIDE DEF total
  <1>5. \A t \in SUBSET S :
           total[t] = IF t = {} THEN 0 ELSE cost[t] + total[t \ {pick[t]}]
    BY <1>4 DEF Sums
  <1>6. ASSUME NEW k \in 1 .. n, total[1 .. (k - 1)] \in Int
        PROVE  total[1 .. k] = total[1 .. (k - 1)] + p[s[k]] /\ total[1 .. k] \in Int
    <2> DEFINE t == 1 .. k
    <2>1. k \in t /\ \A y \in t : y \in Nat /\ y <= k
      OBVIOUS
    <2>9. t \in SUBSET S /\ t # {}
      <3>1. \A y \in t : y \in 1 .. n
        OBVIOUS
      <3> QED
        BY <1>0, <2>1, <3>1
    <2>2. pick[t] \in t /\ pick[t] >= k /\ cost[t] = p[s[pick[t]]]
      BY <1>2, <2>1, <2>9
    <2>3. t \ {k} = 1 .. (k - 1)
      OBVIOUS
    <2> HIDE DEF t
    <2>4. pick[t] = k
      <3>1. pick[t] <= k /\ pick[t] \in Nat
        BY <2>1, <2>2
      <3> QED
        BY <2>2, <3>1
    <2>5. p[s[k]] \in Int
      BY <1>0
    <2>6. total[t] = cost[t] + total[t \ {k}]
      BY <1>5, <2>4, <2>9
    <2>7. total[t] = p[s[k]] + total[1 .. (k - 1)]
      BY <2>2, <2>3, <2>4, <2>6
    <2>8. total[t] = total[1 .. (k - 1)] + p[s[k]] /\ total[t] \in Int
      BY <1>6, <2>5, <2>7
    <2> QED
      BY <2>8 DEF t
  <1>7. \A k \in 0 .. n : total[1 .. k] \in Int
    <2> DEFINE T == {k \in Nat : k <= n => total[1 .. k] \in Int}
    <2>1. 0 \in T
      <3>1. 1 .. 0 = {} /\ {} \in SUBSET S
        OBVIOUS
      <3>2. total[{}] = 0
        BY <1>5, <3>1
      <3> QED
        BY <3>1, <3>2
    <2>2. ASSUME NEW k \in T
          PROVE  k + 1 \in T
      <3> SUFFICES ASSUME k + 1 <= n PROVE total[1 .. (k + 1)] \in Int
        OBVIOUS
      <3>1. k + 1 \in 1 .. n /\ (k + 1) - 1 = k /\ total[1 .. k] \in Int
        OBVIOUS
      <3>2. total[1 .. ((k + 1) - 1)] \in Int
        BY <3>1
      <3> QED
        BY <1>6, <3>1, <3>2
    <2>3. T = Nat
      <3>1. T \in SUBSET Nat
        OBVIOUS
      <3> HIDE DEF T
      <3> QED
        BY <2>1, <2>2, <3>1, Induction
    <2> QED
      BY <2>3
  <1>8. \A k \in 0 .. n : r[k] = total[1 .. k]
    BY <1>0
  <1>9. r \in [0 .. Len(s) -> Int]
    BY <1>0, <1>7
  <1>11. r[0] = 0
    <2>1. 1 .. 0 = {} /\ {} \in SUBSET S /\ 0 \in 0 .. n
      OBVIOUS
    <2>2. total[{}] = 0
      BY <1>5, <2>1
    <2> QED
      BY <1>8, <2>1, <2>2
  <1> HIDE DEF r
  <1>12. ASSUME NEW k \in 1 .. n
         PROVE  r[k] = r[k - 1] + p[s[k]]
    <2>1. k \in 0 .. n /\ k - 1 \in 0 .. n
      OBVIOUS
    <2> QED
      BY <1>6, <1>7, <1>8, <2>1
  <1>10. Running(s, p, r) /\ r[Len(s)] = total[S]
    <2>1. Running(s, p, r)
      BY <1>0, <1>9, <1>11, <1>12 DEF Running
    <2>2. n \in 0 .. n
      OBVIOUS
    <2>3. r[n] = total[1 .. n]
      BY <1>8, <2>2
    <2> QED
      BY <1>0, <2>1, <2>3
  <1> QED
    BY <1>1, <1>10

\* Two running sums of one sequence come to the same.
LEMMA RunningUnique ==
    ASSUME NEW V, NEW s \in Seq(V), NEW p \in [V -> Int],
           NEW q, NEW r, Running(s, p, q), Running(s, p, r)
    PROVE  q[Len(s)] = r[Len(s)]
  <1> DEFINE T == {k \in Nat : k <= Len(s) => q[k] = r[k]}
  <1>0. PICK n \in Nat : n = Len(s)
    OBVIOUS
  <1>1. 0 \in T
    BY DEF Running
  <1>2. ASSUME NEW k \in T
        PROVE  k + 1 \in T
    <2> SUFFICES ASSUME k + 1 <= n PROVE q[k + 1] = r[k + 1]
      BY <1>0
    <2>1. k + 1 \in 1 .. n /\ (k + 1) - 1 = k /\ q[k] = r[k]
      BY <1>0
    <2> QED
      BY <1>0, <2>1 DEF Running
  <1>3. T = Nat
    <2>1. T \in SUBSET Nat
      OBVIOUS
    <2> HIDE DEF T
    <2> QED
      BY <1>1, <1>2, <2>1, Induction
  <1> QED
    BY <1>0, <1>3


\* Whatever the running sum, the fold is what it comes to.
LEMMA SumIsTheRunning ==
    ASSUME NEW V, NEW s \in Seq(V), NEW p \in [V -> Int], NEW r, Running(s, p, r)
    PROVE  SumAlong(s, p) = r[Len(s)]
  <1>1. PICK q : Running(s, p, q) /\ SumAlong(s, p) = q[Len(s)]
    BY FoldIsRunning
  <1>2. q[Len(s)] = r[Len(s)]
    BY <1>1, RunningUnique
  <1> QED
    BY <1>1, <1>2

\* The sum over no element is nothing, and an element more adds its price.
LEMMA SumOfEmpty ==
    ASSUME NEW V, NEW p \in [V -> Int]
    PROVE  SumAlong(<< >>, p) = 0
  <1>1. << >> \in Seq(V) /\ Len(<< >>) = 0
    OBVIOUS
  <1>2. PICK r : Running(<< >>, p, r) /\ SumAlong(<< >>, p) = r[Len(<< >>)]
    BY <1>1, FoldIsRunning
  <1>3. r[0] = 0
    BY <1>2 DEF Running
  <1> QED
    BY <1>1, <1>2, <1>3

LEMMA SumOfAppend ==
    ASSUME NEW V, NEW s \in Seq(V), NEW p \in [V -> Int], NEW e \in V
    PROVE  SumAlong(Append(s, e), p) = SumAlong(s, p) + p[e]
  <1>1. PICK r : Running(s, p, r) /\ SumAlong(s, p) = r[Len(s)]
    BY FoldIsRunning
  <1>2. PICK n \in Nat : n = Len(s)
    OBVIOUS
  <1>3. /\ Append(s, e) \in Seq(V) /\ Len(Append(s, e)) = n + 1
        /\ Append(s, e)[n + 1] = e
        /\ \A k \in 1 .. n : Append(s, e)[k] = s[k]
    BY <1>2
  <1>4. PICK t : t = Append(s, e)
    OBVIOUS
  <1>5. /\ r \in [0 .. n -> Int] /\ r[0] = 0
        /\ \A k \in 1 .. n : r[k] = r[k - 1] + p[s[k]]
    BY <1>1, <1>2 DEF Running
  <1>6. p[e] \in Int /\ r[n] \in Int
    BY <1>5
  <1> DEFINE q == [k \in 0 .. n + 1 |-> IF k <= n THEN r[k] ELSE r[n] + p[e]]
  <1>7. q \in [0 .. n + 1 -> Int] /\ q[0] = 0
    BY <1>5, <1>6
  <1>8. q[n + 1] = r[n] + p[e]
    OBVIOUS
  <1>9. \A k \in 0 .. n : q[k] = r[k]
    OBVIOUS
  <1> HIDE DEF q
  <1>10. ASSUME NEW k \in 1 .. n + 1
         PROVE  q[k] = q[k - 1] + p[t[k]]
    <2>1. CASE k = n + 1
      <3>1. k - 1 = n /\ t[k] = e /\ n \in 0 .. n
        BY <1>3, <1>4, <2>1
      <3> QED
        BY <1>8, <1>9, <2>1, <3>1
    <2>2. CASE k # n + 1
      <3>1. k \in 1 .. n /\ k \in 0 .. n /\ k - 1 \in 0 .. n
        BY <2>2
      <3>2. t[k] = s[k]
        BY <1>3, <1>4, <3>1
      <3> QED
        BY <1>5, <1>9, <3>1, <3>2
    <2> QED
      BY <2>1, <2>2
  <1>11. t \in Seq(V) /\ Len(t) = n + 1
    BY <1>3, <1>4
  <1>12. Running(t, p, q)
    BY <1>7, <1>10, <1>11 DEF Running
  <1>13. SumAlong(t, p) = q[n + 1]
    BY <1>11, <1>12, SumIsTheRunning
  <1> QED
    BY <1>1, <1>2, <1>4, <1>8, <1>13

\* An element less takes its price away.
LEMMA SumOfRemoveAt ==
    ASSUME NEW V, NEW s \in Seq(V), NEW p \in [V -> Int], NEW i \in 1 .. Len(s)
    PROVE  SumAlong(RemoveAt(s, i), p) = SumAlong(s, p) - p[s[i]]
  <1>1. PICK r : Running(s, p, r) /\ SumAlong(s, p) = r[Len(s)]
    BY FoldIsRunning
  <1>2. PICK n \in Nat : n = Len(s) /\ i \in 1 .. n
    OBVIOUS
  <1>3. /\ RemoveAt(s, i) \in Seq(V) /\ Len(RemoveAt(s, i)) = n - 1
        /\ \A k \in 1 .. n - 1 :
              RemoveAt(s, i)[k] = IF k < i THEN s[k] ELSE s[k + 1]
    BY <1>2, RemoveAtPointwise
  <1>4. PICK t : t = RemoveAt(s, i)
    OBVIOUS
  <1>5. /\ r \in [0 .. n -> Int] /\ r[0] = 0
        /\ \A k \in 1 .. n : r[k] = r[k - 1] + p[s[k]]
    BY <1>1, <1>2 DEF Running
  <1>6. \A k \in 1 .. n : s[k] \in V /\ p[s[k]] \in Int
    BY <1>2
  <1>14. PICK c \in Int : c = p[s[i]]
    BY <1>2, <1>6
  <1> DEFINE q == [k \in 0 .. n - 1 |-> IF k < i THEN r[k] ELSE r[k + 1] - c]
  <1>7. \A k \in 0 .. n - 1 : q[k] = IF k < i THEN r[k] ELSE r[k + 1] - c
    OBVIOUS
  <1>15. q \in [0 .. n - 1 -> Int]
    <2>1. \A k \in 0 .. n - 1 : k \in 0 .. n /\ k + 1 \in 0 .. n
      BY <1>2
    <2>2. \A k \in 0 .. n - 1 : r[k] \in Int /\ r[k + 1] - c \in Int
      BY <1>5, <2>1
    <2>3. \A k \in 0 .. n - 1 : (IF k < i THEN r[k] ELSE r[k + 1] - c) \in Int
      BY <2>2
    <2> QED
      BY <2>3
  <1> HIDE DEF q
  <1>16. q[0] = 0
    <2>1. 0 \in 0 .. n - 1 /\ 0 < i
      BY <1>2
    <2> QED
      BY <1>5, <1>7, <2>1
  <1>10. ASSUME NEW k \in 1 .. n - 1
         PROVE  q[k] = q[k - 1] + p[t[k]]
    <2>0. /\ k \in Int /\ n \in Int
          /\ k \in 0 .. n - 1 /\ k - 1 \in 0 .. n - 1 /\ k \in 1 .. n /\ k + 1 \in 1 .. n
          /\ k - 1 \in 0 .. n /\ k \in 0 .. n /\ k + 1 \in 0 .. n
          /\ (k + 1) - 1 = k /\ (k - 1) + 1 = k
      BY <1>2
    <2>1. q[k - 1] = IF k - 1 < i THEN r[k - 1] ELSE r[k] - c
      BY <1>7, <2>0
    <2>6. q[k] = IF k < i THEN r[k] ELSE r[k + 1] - c
      BY <1>7, <2>0
    <2>2. /\ r[k] = r[k - 1] + p[s[k]]
          /\ r[k + 1] = r[k] + p[s[k + 1]]
      BY <1>5, <2>0
    <2>7. r[k - 1] \in Int /\ r[k] \in Int /\ r[k + 1] \in Int
      BY <1>5, <2>0
    <2>8. p[s[k]] \in Int /\ p[s[k + 1]] \in Int
      BY <1>6, <2>0
    <2>9. t[k] = IF k < i THEN s[k] ELSE s[k + 1]
      BY <1>3, <1>4
    <2>3. CASE k < i
      <3>1. q[k] = r[k] /\ q[k - 1] = r[k - 1] /\ t[k] = s[k]
        BY <1>2, <2>0, <2>1, <2>3, <2>6, <2>9
      <3> QED
        BY <2>2, <3>1
    <2>4. CASE k = i
      <3>1. q[k] = r[k + 1] - c /\ q[k - 1] = r[k - 1] /\ t[k] = s[k + 1]
        BY <1>2, <2>0, <2>1, <2>4, <2>6, <2>9
      <3>2. c = p[s[k]]
        BY <1>14, <2>4
      <3>3. r[k] = r[k - 1] + c
        BY <2>2, <3>2
      <3>4. q[k] = ((r[k - 1] + c) + p[s[k + 1]]) - c
        BY <2>2, <3>1, <3>3, Zenon
      <3>5. \A x, y, z \in Int : ((x + y) + z) - y = x + z
        OBVIOUS
      <3> QED
        BY <2>7, <2>8, <3>1, <3>2, <3>4, <3>5
    <2>5. CASE k > i
      <3>1. q[k] = r[k + 1] - c /\ q[k - 1] = r[k] - c /\ t[k] = s[k + 1]
        BY <1>2, <2>0, <2>1, <2>5, <2>6, <2>9
      <3> QED
        BY <2>2, <2>7, <2>8, <3>1
    <2> QED
      BY <1>2, <2>0, <2>3, <2>4, <2>5
  <1>8. q[n - 1] = r[n] - c
    <2>1. n - 1 \in 0 .. n - 1 /\ n \in 1 .. n /\ (n - 1) + 1 = n /\ n - 1 \in 0 .. n
      BY <1>2
    <2>2. q[n - 1] = IF n - 1 < i THEN r[n - 1] ELSE r[n] - c
      BY <1>7, <2>1
    <2>3. CASE i = n
      <3>1. q[n - 1] = r[n - 1]
        BY <1>2, <2>2, <2>3
      <3>2. r[n] = r[n - 1] + c /\ r[n - 1] \in Int
        BY <1>5, <1>14, <2>1, <2>3
      <3> QED
        BY <3>1, <3>2
    <2>4. CASE i # n
      BY <1>2, <2>2, <2>4
    <2> QED
      BY <2>3, <2>4
  <1>11. t \in Seq(V) /\ Len(t) = n - 1
    BY <1>3, <1>4
  <1>12. Running(t, p, q)
    BY <1>10, <1>11, <1>15, <1>16 DEF Running
  <1>13. SumAlong(t, p) = q[n - 1]
    BY <1>11, <1>12, SumIsTheRunning
  <1> QED
    BY <1>1, <1>2, <1>4, <1>8, <1>13, <1>14
=============================================================================
