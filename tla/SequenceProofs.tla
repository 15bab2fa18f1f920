----------------------------- MODULE SequenceProofs -----------------------------
(***************************************************************************)
(* What the proofs about the components cite: facts about numbers,         *)
(* sequences, loops over them, and the ways to cut a batch into ubatches.  *)
(*                                                                         *)
(* The lemmas hold for every sequence and for every batch, which takes     *)
(* induction over a length.  UpTo is that induction in a form without an   *)
(* operator: its parameter is the set of the numbers for which a statement *)
(* holds.  A loop of the code is a recursive function in the models:       *)
(* LoopExists shows that it has a value, and LoopReaches what that value   *)
(* is, from sets G[n] that the n-th step leads to from G[n - 1].           *)
(***************************************************************************)
EXTENDS SequenceCounts, UbatchSplit, FunctionTheorems, FiniteSetTheorems, SequenceTheorems,
        WellFoundedInduction, TLAPS

-----------------------------------------------------------------------------
(* Induction and loops                                                     *)

\* The numbers up to N, one step at a time: every element but 0 has a predecessor.
LEMMA UpTo ==
    ASSUME NEW n \in Nat, NEW P \in SUBSET Nat, 0 \in P,
           \A k \in 0 .. (n - 1) : k \in P => k + 1 \in P
    PROVE  \A k \in 0 .. n : k \in P
<1> SUFFICES ASSUME NEW m \in 0 .. n, m \notin P PROVE FALSE
  OBVIOUS
<1> DEFINE R == OpToRel(<, Nat)
           T == {k \in 0 .. n : k \notin P}
<1>1. IsWellFoundedOn(R, Nat)
  BY NatLessThanWellFounded
<1>2. T \subseteq Nat /\ T # {}
  OBVIOUS
<1>3. PICK k \in T : \A j \in T : ~(<<j, k>> \in R)
  BY <1>1, <1>2, WFMin
<1>4. \A j \in T : ~(j < k)
  <2> SUFFICES ASSUME NEW j \in T, j < k PROVE <<j, k>> \in R
    BY <1>3
  <2>1. <<j, k>> \in {ss \in Nat \X Nat : ss[1] < ss[2]}
    OBVIOUS
  <2> QED
    BY <2>1, Zenon DEF OpToRel
<1>5. k # 0 /\ k - 1 \in 0 .. (n - 1) /\ k - 1 \in P
  BY <1>4
<1>6. (k - 1) + 1 \in P
  BY <1>5
<1> QED
  BY <1>6

\* A loop that starts in G[0] and whose n-th step leads from G[n - 1] to G[n] is at every
\* n in G[n].
LEMMA LoopReaches ==
    ASSUME NEW N \in Nat, NEW G, NEW f, f[0] \in G[0],
           \A n \in 1 .. N : f[n - 1] \in G[n - 1] => f[n] \in G[n]
    PROVE  f[N] \in G[N]
<1> DEFINE P == {n \in 0 .. N : f[n] \in G[n]}
<1>1. P \in SUBSET Nat /\ 0 \in P
  OBVIOUS
<1>2. ASSUME NEW n \in 0 .. (N - 1), n \in P PROVE n + 1 \in P
  <2>1. n + 1 \in 1 .. N /\ (n + 1) - 1 = n
    OBVIOUS
  <2>2. f[(n + 1) - 1] \in G[(n + 1) - 1] => f[n + 1] \in G[n + 1]
    BY <2>1
  <2> QED
    BY <1>2, <2>1, <2>2
<1> HIDE DEF P
<1>3. \A n \in 0 .. N : n \in P
  BY <1>1, <1>2, UpTo
<1>4. N \in P
  BY <1>3
<1> QED
  BY <1>4 DEF P

\* f has the values of the first n steps h of a loop, each of them begun in its set.
Runs(f, c, h, G, n) ==
    f[0] = c /\ \A k \in 1 .. n : f[k - 1] \in G[k - 1] /\ f[k] = h[k][f[k - 1]]

\* f is a loop of N steps.
IsLoop(f, c, h, G, N) == f = [n \in 0 .. N |-> f[n]] /\ Runs(f, c, h, G, N)

\* If the n-th step leads from G[n - 1] to G[n], the recursive definition of the loop has a
\* value.
LEMMA LoopExists ==
    ASSUME NEW N \in Nat, NEW G, NEW h, NEW c, c \in G[0],
           \A n \in 1 .. N : \A x \in G[n - 1] : h[n][x] \in G[n]
    PROVE  \E f : IsLoop(f, c, h, G, N)
<1> DEFINE U == UNION {G[n] : n \in 0 .. N}
           F == [0 .. N -> U]
           P == {n \in 0 .. N : \E f \in F : Runs(f, c, h, G, n) /\ f[n] \in G[n]}
<1>1. \A k \in 0 .. (N - 1) : k \in 0 .. N /\ k + 1 \in 1 .. N /\ k + 1 \in 0 .. N /\ (k + 1) - 1 = k
  OBVIOUS
<1>2. 0 \in P
  <2> DEFINE f == [k \in 0 .. N |-> c]
  <2>1. c \in U
    OBVIOUS
  <2>2. f \in F /\ Runs(f, c, h, G, 0) /\ f[0] \in G[0]
    BY <2>1 DEF Runs
  <2> HIDE DEF f, F
  <2> QED
    BY <1>1, <2>2
<1>3. ASSUME NEW n \in 0 .. (N - 1), n \in P PROVE n + 1 \in P
  <2>1. PICK f \in F : Runs(f, c, h, G, n) /\ f[n] \in G[n]
    BY <1>3
  <2> DEFINE y == h[n + 1][f[n]]
             g == [f EXCEPT ![n + 1] = y]
  <2>2. y \in G[n + 1]
    <3>1. \A x \in G[(n + 1) - 1] : h[n + 1][x] \in G[n + 1]
      BY <1>1
    <3> QED
      BY <1>1, <2>1, <3>1
  <2>3. y \in U
    BY <1>1, <2>2
  <2> HIDE DEF y
  <2>4. g \in F
    BY <2>3
  <2>5. g[n + 1] = y /\ \A k \in 0 .. n : g[k] = f[k]
    <3>1. DOMAIN f = 0 .. N /\ n + 1 \in 0 .. N
      BY <1>1
    <3>2. \A k \in 0 .. n : k \in 0 .. N /\ k # n + 1
      OBVIOUS
    <3> HIDE DEF F, U
    <3> QED
      BY <3>1, <3>2
  <2> HIDE DEF g, F
  <2>6. ASSUME NEW k \in 1 .. (n + 1) PROVE g[k - 1] \in G[k - 1] /\ g[k] = h[k][g[k - 1]]
    <3>1. CASE k = n + 1
      BY <1>1, <2>1, <2>5, <3>1 DEF y
    <3>2. CASE k # n + 1
      <4>1. k \in 1 .. n /\ k \in 0 .. n /\ k - 1 \in 0 .. n
        BY <3>2
      <4>2. f[k - 1] \in G[k - 1] /\ f[k] = h[k][f[k - 1]]
        BY <2>1, <4>1 DEF Runs
      <4> QED
        BY <2>5, <4>1, <4>2
    <3> QED
      BY <3>1, <3>2
  <2>7. Runs(g, c, h, G, n + 1)
    BY <2>1, <2>5, <2>6 DEF Runs
  <2> QED
    BY <1>1, <2>2, <2>4, <2>5, <2>7
<1>4. P \in SUBSET Nat
  BY <1>1
<1> HIDE DEF P
<1>5. N \in P
  <2>1. \A n \in 0 .. (N - 1) : n \in P => n + 1 \in P
    BY <1>3
  <2>2. \A n \in 0 .. N : n \in P
    BY <1>2, <1>4, <2>1, UpTo
  <2> QED
    BY <2>2
<1>6. PICK f \in F : Runs(f, c, h, G, N)
  BY <1>5 DEF P
<1> QED
  BY <1>6 DEF IsLoop

-----------------------------------------------------------------------------
(* Numbers                                                                 *)

\* A position divided by a positive factor is a position, and no larger.
LEMMA DivBound == ASSUME NEW p \in Nat, NEW n \in Nat \ {0} PROVE p \div n \in 0 .. p
  OBVIOUS

\* Products and quotients
LEMMA ProductGrows ==
    ASSUME NEW a \in Nat, NEW b \in Nat, NEW c \in Nat, NEW d \in Nat, a <= c, b <= d
    PROVE  a * b <= c * d
<1>1. a * b <= c * b
  <2>1. \A x \in Nat : x * b \in Nat
    OBVIOUS
  <2>2. (c - a) * b \in Nat /\ c * b = a * b + (c - a) * b
    OBVIOUS
  <2> QED
    BY <2>1, <2>2
<1>2. c * b <= c * d
  <2>1. \A x \in Nat : c * x \in Nat
    OBVIOUS
  <2>2. c * (d - b) \in Nat /\ c * d = c * b + c * (d - b)
    OBVIOUS
  <2> QED
    BY <2>1, <2>2
<1>3. a * b \in Nat /\ c * b \in Nat /\ c * d \in Nat
  OBVIOUS
<1> QED
  BY <1>1, <1>2, <1>3

LEMMA QuotientFits ==
    ASSUME NEW p \in Nat, NEW n \in Nat \ {0}, n <= p
    PROVE  p \div n > 0 /\ n * (p \div n) <= p
<1>1. p \div n > 0
  OBVIOUS
<1>2. n * (p \div n) <= p
  OBVIOUS
<1> QED
  BY <1>1, <1>2

\* The least element of a set of natural numbers
LEMMA MinIsLeast ==
    ASSUME NEW S \in SUBSET Nat, S # {}
    PROVE  Min(S) \in S /\ \A n \in S : Min(S) <= n
<1> DEFINE R == OpToRel(<, Nat)
<1>1. PICK k \in S : \A j \in S : ~(<<j, k>> \in R)
  BY NatLessThanWellFounded, WFMin
<1>2. ASSUME NEW j \in S PROVE k <= j
  <2>1. SUFFICES ASSUME j < k PROVE FALSE
    OBVIOUS
  <2>2. <<j, k>> \in {ss \in Nat \X Nat : ss[1] < ss[2]}
    BY <2>1
  <2>3. <<j, k>> \in R
    BY <2>2, Zenon DEF OpToRel
  <2> QED
    BY <1>1, <2>3
<1> QED
  BY <1>2 DEF Min

\* The greater of two numbers
LEMMA MaxOfTwo == ASSUME NEW a \in Int, NEW b \in Int PROVE Max({a, b}) \in {a, b}
<1>1. \E x \in {a, b} : \A y \in {a, b} : x >= y
  <2>1. CASE a >= b
    BY <2>1
  <2>2. CASE ~(a >= b)
    BY <2>2
  <2> QED
    BY <2>1, <2>2
<1> QED
  BY <1>1 DEF Max

\* A number, but at least one
LEMMA MaxWithOne == ASSUME NEW n \in Nat PROVE Max({1, n}) \in Nat \ {0} /\ (n > 0 => Max({1, n}) = n)
<1> DEFINE S == {1, n}
<1>1. \E x \in S : \A y \in S : x >= y
  <2>1. CASE n = 0
    BY <2>1
  <2>2. CASE n # 0
    BY <2>2
  <2> QED
    BY <2>1, <2>2
<1> HIDE DEF S
<1>2. Max(S) \in S /\ \A y \in S : Max(S) >= y
  BY <1>1 DEF Max
<1> QED
  BY <1>2 DEF S

-----------------------------------------------------------------------------
(* FlattenSeq                                                              *)

\* f[k] is the concatenation of the first k sequences of seqs, up to n of them.
Prefixed(f, seqs, n) ==
    /\ f[0] = <<>>
    /\ \A k \in 0 .. (n - 1) : f[k + 1] = f[k] \o seqs[k + 1]

\* There is a function that builds the flattening prefix by prefix.
LEMMA PrefixedExists ==
    ASSUME NEW S, NEW N \in Nat, NEW seqs \in [1 .. N -> Seq(S)]
    PROVE  \E f \in [0 .. N -> Seq(S)] : Prefixed(f, seqs, N)
<1> DEFINE F == [0 .. N -> Seq(S)]
           P == {n \in 0 .. N : \E f \in F : Prefixed(f, seqs, n)}
<1>1. \A k \in 0 .. (N - 1) : k \in 0 .. N /\ k + 1 \in 1 .. N /\ k + 1 \in 0 .. N
  OBVIOUS
<1>2. 0 \in P
  <2> DEFINE f == [k \in 0 .. N |-> <<>>]
  <2>1. f \in F /\ Prefixed(f, seqs, 0)
    BY <1>1 DEF Prefixed
  <2> HIDE DEF f, F
  <2> QED
    BY <1>1, <2>1
<1>3. ASSUME NEW n \in 0 .. (N - 1), n \in P PROVE n + 1 \in P
  <2>1. PICK f \in F : Prefixed(f, seqs, n)
    BY <1>3
  <2> DEFINE g == [f EXCEPT ![n + 1] = f[n] \o seqs[n + 1]]
  <2>2. f[n] \in Seq(S) /\ seqs[n + 1] \in Seq(S)
    BY <1>1, <1>3
  <2>3. f[n] \o seqs[n + 1] \in Seq(S)
    BY <2>2
  <2>4. g \in F
    BY <2>3
  <2>5. g[n + 1] = f[n] \o seqs[n + 1] /\ \A k \in 0 .. n : g[k] = f[k]
    BY <1>1, <1>3, SMTT(30)
  <2>6. Prefixed(g, seqs, n + 1)
    <3> HIDE DEF g, F
    <3>1. g[0] = <<>>
      BY <2>1, <2>5 DEF Prefixed
    <3>2. ASSUME NEW k \in 0 .. n PROVE g[k + 1] = g[k] \o seqs[k + 1]
      <4>1. CASE k = n
        BY <2>5, <4>1
      <4>2. CASE k # n
        <5>1. k \in 0 .. (n - 1) /\ k + 1 \in 0 .. n
          BY <4>2
        <5>2. f[k + 1] = f[k] \o seqs[k + 1]
          BY <2>1, <5>1 DEF Prefixed
        <5> QED
          BY <2>5, <5>1, <5>2
      <4> QED
        BY <4>1, <4>2
    <3>3. (n + 1) - 1 = n
      OBVIOUS
    <3> QED
      BY <3>1, <3>2, <3>3 DEF Prefixed
  <2> HIDE DEF g, F
  <2> QED
    BY <1>1, <2>4, <2>6
<1>4. P \in SUBSET Nat
  BY <1>1
<1> HIDE DEF P
<1>5. N \in P
  <2>1. \A n \in 0 .. (N - 1) : n \in P => n + 1 \in P
    BY <1>3
  <2>2. \A n \in 0 .. N : n \in P
    BY <1>2, <1>4, <2>1, UpTo
  <2> QED
    BY <2>2
<1> QED
  BY <1>5 DEF P

\* FlattenSeq concatenates all of them.
LEMMA FlattenIsPrefixed ==
    ASSUME NEW S, NEW N \in Nat, NEW seqs \in [1 .. N -> Seq(S)],
           NEW f \in [0 .. N -> Seq(S)], Prefixed(f, seqs, N)
    PROVE  FlattenSeq(seqs) = f[N]
<1> DEFINE Def(g, i) == IF i = 1 THEN seqs[i] ELSE g[i - 1] \o seqs[i]
           h == [i \in 1 .. N |-> f[i]]
           flat == CHOOSE g : g = [i \in 1 .. N |-> Def(g, i)]
<1>1. Len(seqs) = N /\ \A k \in 1 .. N : seqs[k] \in Seq(S)
  OBVIOUS
<1>2. ASSUME NEW i \in 1 .. N PROVE f[i] = f[i - 1] \o seqs[i]
  <2>1. i - 1 \in 0 .. (N - 1) /\ (i - 1) + 1 = i
    BY <1>1
  <2>2. f[(i - 1) + 1] = f[i - 1] \o seqs[(i - 1) + 1]
    BY <2>1 DEF Prefixed
  <2> QED
    BY <2>1, <2>2
<1>3. ASSUME 1 \in 1 .. N PROVE f[1] = seqs[1]
  <2>1. f[1] = f[1 - 1] \o seqs[1] /\ 1 - 1 = 0
    BY <1>2, <1>3
  <2>3. f[0] = <<>>
    BY DEF Prefixed
  <2>2. seqs[1] \in Seq(S)
    BY <1>1, <1>3
  <2> QED
    BY <2>1, <2>2, <2>3, ConcatEmptySeq
<1>4. ASSUME NEW i \in 1 .. N PROVE h[i] = Def(h, i)
  <2>1. CASE i = 1
    BY <1>3, <2>1
  <2>2. CASE i # 1
    <3>1. i - 1 \in 1 .. N
      BY <2>2
    <3> QED
      BY <1>2, <2>2, <3>1
  <2> QED
    BY <2>1, <2>2
<1>5. h = [i \in 1 .. N |-> Def(h, i)]
  BY <1>4
<1>6. CASE N = 0
  <2>1. seqs = <<>>
    BY <1>1, <1>6
  <2> QED
    BY <1>1, <1>6, <2>1 DEF FlattenSeq, Prefixed
<1>7. CASE N # 0
  <2>1. flat = [i \in 1 .. N |-> Def(flat, i)]
    <3> HIDE DEF h, Def
    <3> QED
      BY <1>5
  <2>2. FlattenSeq(seqs) = flat[N]
    BY <1>1, <1>7 DEF FlattenSeq
  <2> HIDE DEF flat
  <2>3. ASSUME NEW i \in 1 .. N PROVE flat[i] = Def(flat, i)
    <3> HIDE DEF Def
    <3> QED
      BY <2>1
  <2> DEFINE Q == {n \in 0 .. N : n # 0 => flat[n] = f[n]}
  <2>4. ASSUME NEW n \in 0 .. (N - 1), n \in Q PROVE n + 1 \in Q
    <3>1. n + 1 \in 1 .. N /\ (n + 1) - 1 = n
      BY <1>1
    <3>2. flat[n + 1] = Def(flat, n + 1)
      BY <2>3, <3>1
    <3>3. f[n + 1] = f[n] \o seqs[n + 1]
      BY <1>2, <3>1
    <3>4. flat[n + 1] = f[n + 1]
      <4>1. CASE n = 0
        BY <1>1, <1>3, <3>1, <3>2, <4>1
      <4>2. CASE n # 0
        <5>1. flat[n] = f[n]
          BY <2>4, <4>2
        <5>2. flat[n + 1] = flat[n] \o seqs[n + 1]
          <6>1. ~(n + 1 = 1)
            BY <4>2
          <6>2. Def(flat, n + 1) = flat[(n + 1) - 1] \o seqs[n + 1]
            BY <6>1
          <6> HIDE DEF Def
          <6> QED
            BY <3>1, <3>2, <6>2
        <5> QED
          BY <3>3, <5>1, <5>2
      <4> QED
        BY <4>1, <4>2
    <3> QED
      BY <3>1, <3>4
  <2>5. Q \in SUBSET Nat /\ 0 \in Q
    BY <1>1
  <2> HIDE DEF Q
  <2>6. N \in Q
    <3>1. \A n \in 0 .. (N - 1) : n \in Q => n + 1 \in Q
      BY <2>4
    <3>2. \A n \in 0 .. N : n \in Q
      BY <2>5, <3>1, UpTo
    <3> QED
      BY <3>2
  <2> QED
    BY <1>1, <1>7, <2>2, <2>6 DEF Q
<1> QED
  BY <1>6, <1>7

\* FlattenSeq as a loop: f[k] is what has been collected after the first k sequences.
LEMMA FlattenLoop ==
    ASSUME NEW S, NEW N \in Nat, NEW seqs \in [1 .. N -> Seq(S)]
    PROVE  \E f \in [0 .. N -> Seq(S)] :
              /\ f[0] = <<>>
              /\ \A k \in 0 .. (N - 1) : f[k + 1] = f[k] \o seqs[k + 1]
              /\ FlattenSeq(seqs) = f[N]
<1>1. PICK f \in [0 .. N -> Seq(S)] : Prefixed(f, seqs, N)
  BY PrefixedExists
<1>2. FlattenSeq(seqs) = f[N]
  BY <1>1, FlattenIsPrefixed
<1> QED
  BY <1>1, <1>2 DEF Prefixed

-----------------------------------------------------------------------------
(* Occurrences                                                             *)

\* A count is a number: the positions of an entry are finitely many.
LEMMA OccurrencesType ==
    ASSUME NEW S, NEW s \in Seq(S), NEW e
    PROVE  /\ IsFiniteSet({i \in DOMAIN s : s[i] = e})
           /\ Occurrences(s, e) \in Nat
<1>1. IsFiniteSet(1 .. Len(s)) /\ DOMAIN s = 1 .. Len(s)
  BY FS_Interval
<1> QED
  BY <1>1, FS_Subset, FS_CardinalityType DEF Occurrences

\* An element that does not occur, that occurs, and that occurs only once.
LEMMA OccurrencesMeaning ==
    ASSUME NEW S, NEW s \in Seq(S), NEW e
    PROVE  /\ Occurrences(s, e) = 0 <=> \A i \in 1 .. Len(s) : s[i] # e
           /\ Occurrences(s, e) <= 1 <=>
                 \A i, j \in 1 .. Len(s) : s[i] = e /\ s[j] = e => i = j
<1> DEFINE I == {i \in DOMAIN s : s[i] = e}
<1>1. IsFiniteSet(I) /\ Cardinality(I) \in Nat /\ Occurrences(s, e) = Cardinality(I)
  BY OccurrencesType DEF Occurrences
<1>2. DOMAIN s = 1 .. Len(s)
  OBVIOUS
<1>3. Cardinality(I) = 0 <=> I = {}
  BY <1>1, FS_EmptySet
<1>4. Cardinality(I) = 1 <=> \E x : I = {x}
  BY <1>1, FS_Singleton
<1>5. ASSUME NEW i \in I, \A j \in I : i = j PROVE Cardinality(I) = 1
  <2>1. I = {i}
    BY <1>5
  <2> QED
    BY <1>4, <2>1
<1>6. ASSUME Cardinality(I) <= 1, NEW i \in I, NEW j \in I PROVE i = j
  <2>1. Cardinality(I) = 1
    BY <1>1, <1>3, <1>6
  <2> QED
    BY <1>4, <2>1
<1>7. (\A i, j \in I : i = j) => Cardinality(I) <= 1
  BY <1>1, <1>3, <1>5
<1> HIDE DEF I
<1>8. Cardinality(I) <= 1 <=> \A i, j \in I : i = j
  BY <1>6, <1>7
<1> QED
  BY <1>1, <1>2, <1>3, <1>8 DEF I

\* Nothing occurs in the empty sequence.
LEMMA OccurrencesEmpty ==
    ASSUME NEW e
    PROVE  Occurrences(<<>>, e) = 0
<1>1. {i \in DOMAIN <<>> : <<>>[i] = e} = {}
  OBVIOUS
<1> QED
  BY <1>1, FS_EmptySet DEF Occurrences

\* One entry occurs once in the sequence of itself.
LEMMA OccurrencesSingleton ==
    ASSUME NEW x, NEW e
    PROVE  Occurrences(<<x>>, e) = IF x = e THEN 1 ELSE 0
<1>1. {i \in DOMAIN <<x>> : <<x>>[i] = e} = IF x = e THEN {1} ELSE {}
  OBVIOUS
<1> QED
  BY <1>1, FS_EmptySet, FS_Singleton DEF Occurrences

\* The counts of a concatenation add up.
LEMMA OccurrencesConcat ==
    ASSUME NEW S, NEW s \in Seq(S), NEW t \in Seq(S), NEW e
    PROVE  Occurrences(s \o t, e) = Occurrences(s, e) + Occurrences(t, e)
<1> DEFINE I == {i \in DOMAIN s : s[i] = e}
           J == {i \in DOMAIN t : t[i] = e}
           K == {k \in (Len(s) + 1) .. (Len(s) + Len(t)) : t[k - Len(s)] = e}
           f == [j \in J |-> Len(s) + j]
<1>1. /\ Len(s) \in Nat /\ Len(t) \in Nat
      /\ DOMAIN s = 1 .. Len(s) /\ DOMAIN t = 1 .. Len(t)
  OBVIOUS
<1>2. {i \in DOMAIN (s \o t) : (s \o t)[i] = e} = I \cup K
  <2>1. DOMAIN (s \o t) = 1 .. (Len(s) + Len(t))
    BY ConcatProperties
  <2>2. \A i \in 1 .. (Len(s) + Len(t)) :
           (s \o t)[i] = IF i <= Len(s) THEN s[i] ELSE t[i - Len(s)]
    BY ConcatProperties
  <2> QED
    BY <1>1, <2>1, <2>2
<1>3. I \cap K = {}
  BY <1>1
<1>4. IsFiniteSet(I) /\ IsFiniteSet(J)
  BY OccurrencesType
<1>5. IsFiniteSet(K) /\ Cardinality(K) = Cardinality(J)
  <2>1. f \in [J -> K]
    BY <1>1
  <2>2. \A i, j \in J : f[i] = f[j] => i = j
    BY <1>1
  <2>3. \A k \in K : k - Len(s) \in J /\ f[k - Len(s)] = k
    BY <1>1
  <2>4. f \in Bijection(J, K)
    <3> HIDE DEF f, J, K
    <3> QED
      BY <2>1, <2>2, <2>3 DEF Bijection, Injection, Surjection, IsInjective
  <2> QED
    BY <1>4, <2>4, FS_Bijection DEF ExistsBijection
<1>6. Cardinality(I \cup K) = Cardinality(I) + Cardinality(K)
  <2> HIDE DEF I, J, K
  <2>1. Cardinality(I \cap K) = 0
    BY <1>3, FS_EmptySet
  <2>2. Cardinality(I) \in Nat /\ Cardinality(K) \in Nat
    BY <1>4, <1>5, FS_CardinalityType
  <2>3. Cardinality(I \cup K) = Cardinality(I) + Cardinality(K) - Cardinality(I \cap K)
    BY <1>4, <1>5, FS_Union
  <2> QED
    BY <2>1, <2>2, <2>3
<1> QED
  BY <1>2, <1>5, <1>6 DEF Occurrences

\* Appending an entry raises its count by one.
LEMMA OccurrencesAppend ==
    ASSUME NEW S, NEW s \in Seq(S), NEW x \in S, NEW e
    PROVE  Occurrences(Append(s, x), e) = Occurrences(s, e) + (IF x = e THEN 1 ELSE 0)
<1>1. Append(s, x) = s \o <<x>> /\ <<x>> \in Seq(S)
  BY AppendIsConcat
<1>2. Occurrences(s \o <<x>>, e) = Occurrences(s, e) + Occurrences(<<x>>, e)
  BY <1>1, OccurrencesConcat
<1>3. Occurrences(<<x>>, e) = IF x = e THEN 1 ELSE 0
  BY OccurrencesSingleton
<1> QED
  BY <1>1, <1>2, <1>3

\* What occurs in a pair of entries.
LEMMA OccurrencesPair ==
    ASSUME NEW S, NEW x \in S, NEW y \in S, NEW e
    PROVE  Occurrences(<<x, y>>, e) = (IF x = e THEN 1 ELSE 0) + (IF y = e THEN 1 ELSE 0)
<1>1. <<x>> \in Seq(S) /\ <<y>> \in Seq(S)
  OBVIOUS
<1>2. <<x, y>> = Append(<<x>>, y)
  OBVIOUS
<1>3. <<x, y>> = <<x>> \o <<y>>
  BY <1>1, <1>2, AppendIsConcat
<1>4. Occurrences(<<x>> \o <<y>>, e) = Occurrences(<<x>>, e) + Occurrences(<<y>>, e)
  BY <1>1, OccurrencesConcat
<1> QED
  BY <1>3, <1>4, OccurrencesSingleton

\* An entry occurs exactly when it is in the sequence.
LEMMA OccursIn ==
    ASSUME NEW S, NEW s \in Seq(S), NEW e
    PROVE  Occurrences(s, e) > 0 <=> e \in ToSet(s)
<1>1. Occurrences(s, e) \in Nat
  BY OccurrencesType
<1>2. Occurrences(s, e) = 0 <=> \A i \in 1 .. Len(s) : s[i] # e
  BY OccurrencesMeaning
<1>3. e \in ToSet(s) <=> \E i \in 1 .. Len(s) : s[i] = e
  BY DEF ToSet
<1> QED
  BY <1>1, <1>2, <1>3

\* Taking the head lowers its count by one.
LEMMA OccurrencesTail ==
    ASSUME NEW S, NEW s \in Seq(S), s # <<>>, NEW e
    PROVE  Occurrences(s, e) = (IF Head(s) = e THEN 1 ELSE 0) + Occurrences(Tail(s), e)
<1>1. Len(s) \in Nat \ {0}
  BY EmptySeq
<1>2. Tail(s) \in Seq(S) /\ <<Head(s)>> \in Seq(S) /\ Head(s) = s[1]
  BY <1>1, HeadTailProperties
<1>3. s = <<Head(s)>> \o Tail(s)
  BY <1>1, <1>2, SubSeqRecursiveFirst, SubSeqFull, TailIsSubSeq
<1>4. Occurrences(s, e) = Occurrences(<<Head(s)>>, e) + Occurrences(Tail(s), e)
  BY <1>2, <1>3, OccurrencesConcat, ZenonT(40)
<1>5. Occurrences(<<Head(s)>>, e) = IF Head(s) = e THEN 1 ELSE 0
  BY OccurrencesSingleton
<1> QED
  BY <1>4, <1>5

\* RemoveAt erases one element and moves those behind it one place up.
LEMMA RemoveAtProperties ==
    ASSUME NEW S, NEW s \in Seq(S), NEW i \in 1 .. Len(s)
    PROVE  /\ RemoveAt(s, i) \in Seq(S)
           /\ Len(RemoveAt(s, i)) = Len(s) - 1
           /\ \A j \in 1 .. (Len(s) - 1) :
                 RemoveAt(s, i)[j] = IF j < i THEN s[j] ELSE s[j + 1]
<1> DEFINE a == SubSeq(s, 1, i - 1)
           b == SubSeq(s, i + 1, Len(s))
<1>1. Len(s) \in Nat /\ \A j \in 1 .. Len(s) : s[j] \in S
  OBVIOUS
<1>2. /\ a \in Seq(S) /\ Len(a) = i - 1
      /\ \A j \in 1 .. (i - 1) : a[j] = s[j]
  BY <1>1, SubSeqProperties
<1>3. /\ b \in Seq(S) /\ Len(b) = Len(s) - i
      /\ \A j \in 1 .. (Len(s) - i) : b[j] = s[i + j]
  <2>1. /\ b \in Seq(S)
        /\ Len(b) = IF i + 1 <= Len(s) THEN Len(s) - (i + 1) + 1 ELSE 0
        /\ \A j \in 1 .. (Len(s) - (i + 1) + 1) : b[j] = s[(i + 1) + j - 1]
    <3>1. \A j \in (i + 1) .. Len(s) : s[j] \in S
      BY <1>1
    <3> QED
      BY <1>1, <3>1, SubSeqProperties
  <2> HIDE DEF b
  <2> QED
    BY <1>1, <2>1
<1> HIDE DEF a, b
<1>4. /\ a \o b \in Seq(S) /\ Len(a \o b) = Len(s) - 1
      /\ \A j \in 1 .. (Len(s) - 1) : (a \o b)[j] = IF j <= i - 1 THEN a[j] ELSE b[j - (i - 1)]
  <2>1. Len(a) + Len(b) = Len(s) - 1 /\ Len(a) = i - 1
    BY <1>1, <1>2, <1>3
  <2>2. /\ a \o b \in Seq(S) /\ Len(a \o b) = Len(a) + Len(b)
        /\ \A j \in 1 .. (Len(a) + Len(b)) :
              (a \o b)[j] = IF j <= Len(a) THEN a[j] ELSE b[j - Len(a)]
    BY <1>2, <1>3, ConcatProperties
  <2> QED
    BY <2>1, <2>2
<1>5. ASSUME NEW j \in 1 .. (Len(s) - 1)
      PROVE  (a \o b)[j] = IF j < i THEN s[j] ELSE s[j + 1]
  <2>1. CASE j < i
    BY <1>1, <1>2, <1>4, <2>1
  <2>2. CASE ~(j < i)
    <3>1. j - (i - 1) \in 1 .. (Len(s) - i) /\ i + (j - (i - 1)) = j + 1 /\ ~(j <= i - 1)
      BY <1>1, <2>2
    <3> QED
      BY <1>3, <1>4, <2>2, <3>1
  <2> QED
    BY <2>1, <2>2
<1> QED
  BY <1>4, <1>5 DEF a, b, RemoveAt

\* Erasing an entry (std::deque::erase) lowers its count by one.
LEMMA OccurrencesRemoveAt ==
    ASSUME NEW S, NEW s \in Seq(S), NEW i \in 1 .. Len(s), NEW e
    PROVE  Occurrences(s, e) = Occurrences(RemoveAt(s, i), e) + (IF s[i] = e THEN 1 ELSE 0)
<1> DEFINE a == SubSeq(s, 1, i - 1)
           b == SubSeq(s, i + 1, Len(s))
<1>1. Len(s) \in Nat /\ s[i] \in S
  OBVIOUS
<1>2. a \in Seq(S) /\ b \in Seq(S) /\ <<s[i]>> \in Seq(S)
  BY <1>1, SubSeqProperties
<1>3. SubSeq(s, i, Len(s)) = <<s[i]>> \o b
  BY <1>1, SubSeqRecursiveFirst
<1>4. s = a \o SubSeq(s, i, Len(s))
  <2>1. a \o SubSeq(s, (i - 1) + 1, Len(s)) = SubSeq(s, 1, Len(s))
    <3>1. 1 \in 1 .. (Len(s) + 1) /\ i - 1 \in (1 - 1) .. Len(s) /\ Len(s) \in (i - 1) .. Len(s)
      BY <1>1
    <3> HIDE DEF a
    <3> QED
      BY <3>1, ConcatAdjacentSubSeq DEF a
  <2>2. (i - 1) + 1 = i
    OBVIOUS
  <2> QED
    BY <2>1, <2>2, SubSeqFull
<1>5. <<s[i]>> \o b \in Seq(S)
  BY <1>2, ConcatProperties
<1> HIDE DEF a, b
<1>6. Occurrences(s, e) = Occurrences(a, e) + Occurrences(<<s[i]>>, e) + Occurrences(b, e)
  <2>1. Occurrences(s, e) = Occurrences(a, e) + Occurrences(<<s[i]>> \o b, e)
    <3>1. s = a \o (<<s[i]>> \o b)
      BY <1>3, <1>4
    <3>2. Occurrences(a \o (<<s[i]>> \o b), e) = Occurrences(a, e) + Occurrences(<<s[i]>> \o b, e)
      BY <1>2, <1>5, OccurrencesConcat, ZenonT(40)
    <3> QED
      BY <3>1, <3>2, ZenonT(40)
  <2>2. Occurrences(<<s[i]>> \o b, e) = Occurrences(<<s[i]>>, e) + Occurrences(b, e)
    BY <1>2, OccurrencesConcat
  <2>3. Occurrences(a, e) \in Nat /\ Occurrences(b, e) \in Nat /\ Occurrences(<<s[i]>>, e) \in Nat
    BY <1>2, OccurrencesType
  <2> QED
    BY <2>1, <2>2, <2>3
<1>7. Occurrences(RemoveAt(s, i), e) = Occurrences(a, e) + Occurrences(b, e)
  BY <1>2, OccurrencesConcat DEF RemoveAt, a, b
<1>8. Occurrences(<<s[i]>>, e) = IF s[i] = e THEN 1 ELSE 0
  BY OccurrencesSingleton
<1>9. Occurrences(a, e) \in Nat /\ Occurrences(b, e) \in Nat
  BY <1>2, OccurrencesType
<1> QED
  BY <1>6, <1>7, <1>8, <1>9

\* Reversing keeps the length and turns the positions round.
LEMMA ReverseProperties ==
    ASSUME NEW S, NEW s \in Seq(S)
    PROVE  /\ Reverse(s) \in Seq(S)
           /\ Len(Reverse(s)) = Len(s)
           /\ \A i \in 1 .. Len(s) : Reverse(s)[i] = s[(Len(s) - i) + 1]
  BY DEF Reverse

\* Reversing keeps every count.
LEMMA OccurrencesReverse ==
    ASSUME NEW S, NEW s \in Seq(S), NEW e
    PROVE  Occurrences(Reverse(s), e) = Occurrences(s, e)
<1> DEFINE I == {i \in 1 .. Len(s) : s[i] = e}
           J == {i \in 1 .. Len(s) : s[(Len(s) - i) + 1] = e}
           f == [i \in I |-> (Len(s) - i) + 1]
<1>1. Len(s) \in Nat /\ DOMAIN s = 1 .. Len(s)
  OBVIOUS
<1>2. Occurrences(s, e) = Cardinality(I) /\ IsFiniteSet(I)
  <2>1. I = {i \in DOMAIN s : s[i] = e}
    BY <1>1
  <2> HIDE DEF I
  <2> QED
    BY <2>1, OccurrencesType DEF Occurrences
<1>3. Occurrences(Reverse(s), e) = Cardinality(J)
  <2>1. J = {i \in DOMAIN Reverse(s) : Reverse(s)[i] = e}
    BY <1>1, ReverseProperties
  <2> HIDE DEF J
  <2> QED
    BY <2>1 DEF Occurrences
<1>4. f \in [I -> J]
  BY <1>1
<1>5. \A i, j \in I : f[i] = f[j] => i = j
  BY <1>1
<1>6. \A j \in J : (Len(s) - j) + 1 \in I /\ f[(Len(s) - j) + 1] = j
  BY <1>1
<1>7. f \in Bijection(I, J)
  <2> HIDE DEF f, I, J
  <2> QED
    BY <1>4, <1>5, <1>6 DEF Bijection, Injection, Surjection, IsInjective
<1> HIDE DEF I, J
<1> QED
  BY <1>2, <1>3, <1>7, FS_Bijection DEF ExistsBijection

-----------------------------------------------------------------------------
(* What FlattenSeq collects                                                *)

\* Flattening sequences over S gives a sequence over S.
LEMMA FlattenType ==
    ASSUME NEW S, NEW N \in Nat, NEW seqs \in [1 .. N -> Seq(S)]
    PROVE  FlattenSeq(seqs) \in Seq(S)
<1>1. PICK f \in [0 .. N -> Seq(S)] :
         /\ f[0] = <<>>
         /\ \A k \in 0 .. (N - 1) : f[k + 1] = f[k] \o seqs[k + 1]
         /\ FlattenSeq(seqs) = f[N]
  BY FlattenLoop
<1> QED
  BY <1>1

\* Flattening no sequences gives the empty one.
LEMMA FlattenNothing ==
    ASSUME NEW S, NEW seqs \in [1 .. 0 -> Seq(S)]
    PROVE  FlattenSeq(seqs) = <<>>
<1>1. PICK N \in Nat : N = 0
  OBVIOUS
<1>2. seqs \in [1 .. N -> Seq(S)]
  BY <1>1
<1>3. PICK f \in [0 .. N -> Seq(S)] :
         /\ f[0] = <<>>
         /\ \A k \in 0 .. (N - 1) : f[k + 1] = f[k] \o seqs[k + 1]
         /\ FlattenSeq(seqs) = f[N]
  BY <1>2, FlattenLoop
<1> QED
  BY <1>1, <1>3

\* An element of none of the sequences is not in their concatenation.
LEMMA FlattenWithout ==
    ASSUME NEW S, NEW N \in Nat, NEW seqs \in [1 .. N -> Seq(S)], NEW e,
           \A k \in 1 .. N : Occurrences(seqs[k], e) = 0
    PROVE  Occurrences(FlattenSeq(seqs), e) = 0
<1>1. PICK f \in [0 .. N -> Seq(S)] :
         /\ f[0] = <<>>
         /\ \A k \in 0 .. (N - 1) : f[k + 1] = f[k] \o seqs[k + 1]
         /\ FlattenSeq(seqs) = f[N]
  BY FlattenLoop
<1> DEFINE P == {n \in 0 .. N : Occurrences(f[n], e) = 0}
<1>2. 0 \in P /\ P \in SUBSET Nat
  BY <1>1, OccurrencesEmpty
<1>3. \A n \in 0 .. (N - 1) : n \in P => n + 1 \in P
  <2> SUFFICES ASSUME NEW n \in 0 .. (N - 1), n \in P PROVE n + 1 \in P
    OBVIOUS
  <2>1. f[n] \in Seq(S) /\ seqs[n + 1] \in Seq(S) /\ n + 1 \in 1 .. N
    OBVIOUS
  <2>2. Occurrences(f[n + 1], e) = Occurrences(f[n], e) + Occurrences(seqs[n + 1], e)
    <3>1. f[n + 1] = f[n] \o seqs[n + 1]
      BY <1>1
    <3> QED
      BY <2>1, <3>1, OccurrencesConcat
  <2>3. Occurrences(f[n], e) = 0 /\ Occurrences(seqs[n + 1], e) = 0
    BY <2>1
  <2> QED
    BY <2>1, <2>2, <2>3
<1> HIDE DEF P
<1>4. \A n \in 0 .. N : n \in P
  BY <1>2, <1>3, UpTo
<1> QED
  BY <1>1, <1>4 DEF P

\* An element of one of them only is in the concatenation as often as in that one.
LEMMA FlattenOnce ==
    ASSUME NEW S, NEW N \in Nat, NEW seqs \in [1 .. N -> Seq(S)], NEW e
    PROVE  \A m \in 1 .. N : (\A k \in 1 .. N : k # m => Occurrences(seqs[k], e) = 0)
              => Occurrences(FlattenSeq(seqs), e) = Occurrences(seqs[m], e)
<1> SUFFICES ASSUME NEW m \in 1 .. N,
                    \A k \in 1 .. N : k # m => Occurrences(seqs[k], e) = 0
             PROVE  Occurrences(FlattenSeq(seqs), e) = Occurrences(seqs[m], e)
  OBVIOUS
<1>1. PICK f \in [0 .. N -> Seq(S)] :
         /\ f[0] = <<>>
         /\ \A k \in 0 .. (N - 1) : f[k + 1] = f[k] \o seqs[k + 1]
         /\ FlattenSeq(seqs) = f[N]
  BY FlattenLoop
<1> DEFINE so(n) == IF n >= m THEN Occurrences(seqs[m], e) ELSE 0
           P == {n \in 0 .. N : Occurrences(f[n], e) = so(n)}
<1>2. 0 \in P /\ P \in SUBSET Nat
  BY <1>1, OccurrencesEmpty
<1>3. \A n \in 0 .. (N - 1) : n \in P => n + 1 \in P
  <2> SUFFICES ASSUME NEW n \in 0 .. (N - 1), n \in P PROVE n + 1 \in P
    OBVIOUS
  <2>1. f[n] \in Seq(S) /\ seqs[n + 1] \in Seq(S) /\ n + 1 \in 1 .. N
    OBVIOUS
  <2>2. Occurrences(f[n + 1], e) = Occurrences(f[n], e) + Occurrences(seqs[n + 1], e)
    <3>1. f[n + 1] = f[n] \o seqs[n + 1]
      BY <1>1
    <3> QED
      BY <2>1, <3>1, OccurrencesConcat
  <2>3. Occurrences(f[n], e) = so(n) /\ Occurrences(seqs[m], e) \in Nat
    BY OccurrencesType
  <2>4. CASE n + 1 = m
    <3>1. so(n) = 0 /\ so(n + 1) = Occurrences(seqs[n + 1], e)
      BY <2>4
    <3>2. Occurrences(seqs[n + 1], e) \in Nat
      BY <2>1, OccurrencesType
    <3> HIDE DEF so
    <3> QED
      BY <2>1, <2>2, <2>3, <3>1, <3>2
  <2>5. CASE n + 1 # m
    <3>1. Occurrences(seqs[n + 1], e) = 0
      BY <2>1, <2>5
    <3>2. so(n + 1) = so(n) /\ so(n) \in Nat
      BY <2>3, <2>5
    <3> HIDE DEF so
    <3> QED
      BY <2>1, <2>2, <2>3, <3>1, <3>2
  <2> QED
    BY <2>4, <2>5
<1> HIDE DEF P
<1>4. \A n \in 0 .. N : n \in P
  BY <1>2, <1>3, UpTo
<1> QED
  BY <1>1, <1>4 DEF P

-----------------------------------------------------------------------------
(* Kept                                                                    *)

\* r consists of the elements of s at the positions of the set pos, b naming the
\* position of each: in the order they have in s, none left out.
Selects(r, s, pos, b) ==
    /\ b \in [1 .. Len(r) -> pos]
    /\ \A i, j \in 1 .. Len(r) : i < j => b[i] < b[j]
    /\ \A p \in pos : \E i \in 1 .. Len(r) : b[i] = p
    /\ \A i \in 1 .. Len(r) : r[i] = s[b[i]]

\* Selecting one position more, behind the others.
LEMMA SelectsOneMore ==
    ASSUME NEW S, NEW s \in Seq(S), NEW r \in Seq(S), NEW n \in Nat, n + 1 <= Len(s),
           NEW pos \in SUBSET (1 .. n), NEW b, Selects(r, s, pos, b)
    PROVE  \E c : Selects(r \o <<s[n + 1]>>, s, pos \cup {n + 1}, c)
<1> DEFINE t == r \o <<s[n + 1]>>
           L == Len(r)
           c == [i \in 1 .. (L + 1) |-> IF i = L + 1 THEN n + 1 ELSE b[i]]
<1>1. L \in Nat /\ s[n + 1] \in S /\ <<s[n + 1]>> \in Seq(S)
  OBVIOUS
<1>2. /\ t \in Seq(S) /\ Len(t) = L + 1
      /\ \A i \in 1 .. (L + 1) : t[i] = IF i <= L THEN r[i] ELSE <<s[n + 1]>>[i - L]
  BY <1>1, ConcatProperties
<1>3. \A i \in 1 .. L : b[i] \in pos /\ b[i] \in 1 .. n /\ r[i] = s[b[i]]
  BY DEF Selects
<1> HIDE DEF t
<1>4. c \in [1 .. Len(t) -> pos \cup {n + 1}]
  BY <1>1, <1>2, <1>3
<1>5. ASSUME NEW i \in 1 .. Len(t), NEW j \in 1 .. Len(t), i < j PROVE c[i] < c[j]
  <2>1. i \in 1 .. L /\ i # L + 1
    BY <1>1, <1>2, <1>5
  <2>2. CASE j = L + 1
    BY <1>1, <1>2, <1>3, <2>1, <2>2
  <2>3. CASE j # L + 1
    <3>1. j \in 1 .. L
      BY <1>1, <1>2, <2>3
    <3>2. b[i] < b[j]
      BY <1>5, <2>1, <3>1 DEF Selects
    <3> QED
      BY <1>1, <1>2, <2>1, <2>3, <3>1, <3>2
  <2> QED
    BY <2>2, <2>3
<1>6. ASSUME NEW p \in pos \cup {n + 1} PROVE \E i \in 1 .. Len(t) : c[i] = p
  <2>1. CASE p = n + 1
    <3>1. L + 1 \in 1 .. Len(t) /\ c[L + 1] = n + 1
      BY <1>1, <1>2
    <3> QED
      BY <2>1, <3>1
  <2>2. CASE p \in pos
    <3>1. PICK i \in 1 .. L : b[i] = p
      BY <2>2 DEF Selects
    <3>2. i \in 1 .. Len(t) /\ c[i] = p
      BY <1>1, <1>2, <3>1
    <3> QED
      BY <3>2
  <2> QED
    BY <2>1, <2>2
<1>7. ASSUME NEW i \in 1 .. Len(t) PROVE t[i] = s[c[i]]
  <2>1. CASE i = L + 1
    <3>1. ~(i <= L) /\ i - L = 1 /\ c[i] = n + 1 /\ i \in 1 .. (L + 1)
      BY <1>1, <1>2, <2>1
    <3>2. t[i] = <<s[n + 1]>>[i - L]
      BY <1>2, <3>1
    <3> QED
      BY <3>1, <3>2
  <2>2. CASE i # L + 1
    BY <1>1, <1>2, <1>3, <2>2
  <2> QED
    BY <2>1, <2>2
<1>8. Selects(t, s, pos \cup {n + 1}, c)
  <2> HIDE DEF c
  <2> QED
    BY <1>4, <1>5, <1>6, <1>7 DEF Selects
<1> QED
  BY <1>8 DEF t

\* What remove_if and erase leave is a selection of the entries at the kept positions, in
\* their order.
LEMMA KeptSelects ==
    ASSUME NEW S, NEW s \in Seq(S), NEW pos \in SUBSET (1 .. Len(s))
    PROVE  /\ Kept(s, pos) \in Seq(S)
           /\ \E b : Selects(Kept(s, pos), s, pos, b)
<1> DEFINE N == Len(s)
           parts == [i \in DOMAIN s |-> IF i \in pos THEN <<s[i]>> ELSE <<>>]
<1>1. /\ N \in Nat /\ DOMAIN s = 1 .. N /\ \A i \in 1 .. N : s[i] \in S
      /\ \A p \in pos : p \in Nat /\ p >= 1 /\ p <= N
  OBVIOUS
<1>2. parts \in [1 .. N -> Seq(S)]
  <2>1. \A i \in 1 .. N : <<s[i]>> \in Seq(S) /\ <<>> \in Seq(S)
    BY <1>1
  <2> QED
    BY <1>1, <2>1
<1>3. Kept(s, pos) = FlattenSeq(parts)
  BY DEF Kept
<1>4. \A k \in 0 .. (N - 1) : parts[k + 1] = IF k + 1 \in pos THEN <<s[k + 1]>> ELSE <<>>
  BY <1>1
<1> HIDE DEF parts, N
<1>5. PICK f \in [0 .. N -> Seq(S)] :
         /\ f[0] = <<>>
         /\ \A k \in 0 .. (N - 1) : f[k + 1] = f[k] \o parts[k + 1]
         /\ FlattenSeq(parts) = f[N]
  BY <1>1, <1>2, FlattenLoop
<1> DEFINE upto(n) == {p \in pos : p <= n}
           P == {n \in 0 .. N : \E b : Selects(f[n], s, upto(n), b)}
<1>6. 0 \in P
  <2>1. upto(0) = {}
    <3>1. \A p \in pos : ~(p <= 0)
      BY <1>1
    <3> QED
      BY <3>1
  <2>2. Selects(<<>>, s, {}, <<>>)
    BY DEF Selects
  <2> HIDE DEF upto
  <2>3. Selects(f[0], s, upto(0), <<>>)
    BY <1>5, <2>1, <2>2
  <2> QED
    BY <1>1, <2>3
<1>7. P \in SUBSET Nat
  BY <1>1
<1>8. \A n \in 0 .. (N - 1) : n \in P => n + 1 \in P
  <2> SUFFICES ASSUME NEW n \in 0 .. (N - 1), n \in P PROVE n + 1 \in P
    OBVIOUS
  <2>1. n \in Nat /\ n + 1 \in 0 .. N /\ n + 1 <= N /\ n \in 0 .. N
    BY <1>1
  <2>2. PICK b : Selects(f[n], s, upto(n), b)
    OBVIOUS
  <2>3. f[n + 1] = f[n] \o (IF n + 1 \in pos THEN <<s[n + 1]>> ELSE <<>>) /\ f[n] \in Seq(S)
    BY <1>4, <1>5, <2>1
  <2>4. CASE n + 1 \in pos
    <3>1. upto(n + 1) = upto(n) \cup {n + 1} /\ upto(n) \in SUBSET (1 .. n)
      <4>1. \A p \in pos : p <= n + 1 <=> p <= n \/ p = n + 1
        BY <1>1, <2>1
      <4>2. \A p \in pos : p <= n => p \in 1 .. n
        BY <1>1, <2>1
      <4>3. n + 1 <= n + 1
        BY <2>1
      <4> QED
        BY <2>4, <4>1, <4>2, <4>3
    <3> HIDE DEF upto
    <3>2. \E c : Selects(f[n] \o <<s[n + 1]>>, s, upto(n) \cup {n + 1}, c)
      BY <2>1, <2>2, <2>3, <3>1, SelectsOneMore DEF N
    <3> QED
      BY <2>1, <2>3, <2>4, <3>1, <3>2
  <2>5. CASE n + 1 \notin pos
    <3>1. upto(n + 1) = upto(n)
      <4>1. \A p \in pos : p <= n + 1 <=> p <= n
        BY <1>1, <2>1, <2>5
      <4> QED
        BY <4>1
    <3>2. f[n + 1] = f[n]
      BY <2>3, <2>5, ConcatEmptySeq
    <3> HIDE DEF upto
    <3> QED
      BY <2>1, <2>2, <3>1, <3>2
  <2> QED
    BY <2>4, <2>5
<1>9. N \in P
  <2> HIDE DEF P
  <2>1. \A n \in 0 .. N : n \in P
    BY <1>1, <1>6, <1>7, <1>8, UpTo
  <2> QED
    BY <1>1, <2>1
<1>10. upto(N) = pos
  BY <1>1
<1> HIDE DEF upto
<1> QED
  BY <1>1, <1>3, <1>5, <1>9, <1>10

\* The elements of Kept are those at the positions kept.
LEMMA KeptOccurrences ==
    ASSUME NEW S, NEW s \in Seq(S), NEW pos \in SUBSET (1 .. Len(s)), NEW e
    PROVE  Occurrences(Kept(s, pos), e) = Cardinality({p \in pos : s[p] = e})
<1> DEFINE r == Kept(s, pos)
           I == {i \in 1 .. Len(r) : r[i] = e}
           J == {p \in pos : s[p] = e}
<1>1. PICK b : Selects(r, s, pos, b)
  BY KeptSelects
<1>2. r \in Seq(S) /\ Len(r) \in Nat /\ DOMAIN r = 1 .. Len(r)
  BY KeptSelects
<1>3. Occurrences(r, e) = Cardinality(I) /\ IsFiniteSet(I)
  <2>1. I = {i \in DOMAIN r : r[i] = e}
    BY <1>2
  <2> HIDE DEF I, r
  <2> QED
    BY <1>2, <2>1, OccurrencesType DEF Occurrences
<1> HIDE DEF r
<1> DEFINE f == [i \in I |-> b[i]]
<1>4. f \in [I -> J]
  BY <1>1 DEF Selects
<1>5. ASSUME NEW i \in I, NEW j \in I, f[i] = f[j] PROVE i = j
  <2>1. i \in Nat /\ j \in Nat /\ b[i] = b[j] /\ b[i] \in pos
    BY <1>1, <1>5 DEF Selects
  <2>2. b[i] \in Nat
    <3>1. \A p \in pos : p \in Nat
      OBVIOUS
    <3> QED
      BY <2>1, <3>1
  <2>3. ~(i < j) /\ ~(j < i)
    BY <1>1, <2>1, <2>2 DEF Selects
  <2> QED
    BY <2>1, <2>3
<1>6. ASSUME NEW p \in J PROVE \E i \in I : f[i] = p
  BY <1>1 DEF Selects
<1>7. f \in Bijection(I, J)
  <2> HIDE DEF f, I, J
  <2> QED
    BY <1>4, <1>5, <1>6 DEF Bijection, Injection, Surjection, IsInjective
<1> HIDE DEF I, J
<1>8. Cardinality(J) = Cardinality(I)
  BY <1>3, <1>7, FS_Bijection DEF ExistsBijection
<1> QED
  BY <1>3, <1>8 DEF J, r

\* An element that is erased everywhere is gone; one that is kept everywhere is there
\* as often as before; no element is there more often.
LEMMA KeptErases ==
    ASSUME NEW S, NEW s \in Seq(S), NEW pos \in SUBSET (1 .. Len(s)), NEW e
    PROVE  /\ (\A p \in pos : s[p] # e) => Occurrences(Kept(s, pos), e) = 0
           /\ (\A i \in 1 .. Len(s) : s[i] = e => i \in pos)
                 => Occurrences(Kept(s, pos), e) = Occurrences(s, e)
           /\ Occurrences(Kept(s, pos), e) <= Occurrences(s, e)
           /\ Occurrences(Kept(s, pos), e) \in Nat
<1> DEFINE I == {i \in DOMAIN s : s[i] = e}
           J == {p \in pos : s[p] = e}
<1>1. IsFiniteSet(I) /\ DOMAIN s = 1 .. Len(s)
  <2>1. DOMAIN s = 1 .. Len(s)
    OBVIOUS
  <2> QED
    BY <2>1, OccurrencesType
<1>2. J \in SUBSET I
  BY <1>1
<1>3. Cardinality(J) <= Cardinality(I) /\ IsFiniteSet(J)
  BY <1>1, <1>2, FS_Subset
<1>4. (\A p \in pos : s[p] # e) => J = {}
  OBVIOUS
<1>5. (\A i \in 1 .. Len(s) : s[i] = e => i \in pos) => J = I
  BY <1>1
<1>6. Occurrences(Kept(s, pos), e) = Cardinality(J)
  BY KeptOccurrences
<1>7. Occurrences(s, e) = Cardinality(I)
  BY DEF Occurrences
<1> HIDE DEF I, J
<1> QED
  BY <1>3, <1>4, <1>5, <1>6, <1>7, FS_EmptySet, FS_CardinalityType

-----------------------------------------------------------------------------
(* Sequences without repetitions, and what begins or joins sequences       *)

\* A sequence without repetitions
NoRepeats(s) == \A j, k \in DOMAIN s : s[j] = s[k] => j = k

\* Its length is the number of its elements.
LEMMA DistinctLength ==
    ASSUME NEW T, NEW s \in Seq(T), NoRepeats(s)
    PROVE  IsFiniteSet(ToSet(s)) /\ Cardinality(ToSet(s)) = Len(s)
<1> DEFINE n == Len(s)
           R == ToSet(s)
<1>1. n \in Nat /\ DOMAIN s = 1 .. n /\ \A i \in 1 .. n : s[i] \in R
  BY DEF ToSet
<1>2. s = [i \in 1 .. n |-> s[i]]
  BY <1>1
<1>3. \A x \in R : \E i \in 1 .. n : s[i] = x
  BY <1>1 DEF ToSet
<1> HIDE DEF n, R
<1>4. s \in [1 .. n -> R]
  BY <1>1, <1>2
<1>5. s \in Bijection(1 .. n, R)
  BY <1>1, <1>3, <1>4 DEF NoRepeats, Bijection, Injection, Surjection, IsInjective
<1>6. IsFiniteSet(1 .. n) /\ Cardinality(1 .. n) = n
  <2>1. n \in Int /\ 1 \in Int
    BY <1>1
  <2>2. IsFiniteSet(1 .. n) /\ Cardinality(1 .. n) = IF 1 > n THEN 0 ELSE n - 1 + 1
    BY <2>1, FS_Interval
  <2> QED
    BY <1>1, <2>2
<1>7. IsFiniteSet(R) /\ Cardinality(R) = Cardinality(1 .. n)
  BY <1>5, <1>6, FS_Bijection DEF ExistsBijection
<1> QED
  BY <1>6, <1>7 DEF n, R

\* What is appended
LEMMA Appended ==
    ASSUME NEW T, NEW x \in Seq(T), NEW e \in T
    PROVE  /\ ToSet(Append(x, e)) = ToSet(x) \cup {e}
           /\ NoRepeats(x) /\ e \notin ToSet(x) => NoRepeats(Append(x, e))
<1>1. Append(x, e) \in Seq(T) /\ Len(x) \in Nat /\ DOMAIN x = 1 .. Len(x) /\ DOMAIN Append(x, e) = 1 .. Len(x) + 1
      /\ (\A k \in 1 .. Len(x) : Append(x, e)[k] = x[k]) /\ Append(x, e)[Len(x) + 1] = e
  OBVIOUS
<1> DEFINE y == Append(x, e)
           n == Len(x)
<1> HIDE DEF y, n
<1>2. n \in Nat /\ DOMAIN x = 1 .. n /\ DOMAIN y = 1 .. n + 1 /\ (\A k \in 1 .. n : y[k] = x[k]) /\ y[n + 1] = e
  BY <1>1 DEF y, n
<1>3. \A k \in 1 .. n + 1 : k \in 1 .. n \/ k = n + 1
  BY <1>2
<1>4. n + 1 \in 1 .. n + 1 /\ \A k \in 1 .. n : k \in 1 .. n + 1
  BY <1>2
<1>5. ToSet(y) = ToSet(x) \cup {e}
  BY <1>2, <1>3, <1>4 DEF ToSet
<1>6. ASSUME NoRepeats(x), e \notin ToSet(x) PROVE NoRepeats(y)
  BY <1>2, <1>3, <1>6 DEF ToSet, NoRepeats
<1> QED
  BY <1>5, <1>6 DEF y

\* What is put together
LEMMA Joined ==
    ASSUME NEW T, NEW x \in Seq(T), NEW y \in Seq(T)
    PROVE  /\ ToSet(x \o y) = ToSet(x) \cup ToSet(y)
           /\ NoRepeats(x) /\ NoRepeats(y) /\ ToSet(x) \cap ToSet(y) = {} => NoRepeats(x \o y)
<1> DEFINE z == x \o y
           n == Len(x)
           m == Len(y)
<1>1. /\ n \in Nat /\ m \in Nat /\ DOMAIN x = 1 .. n /\ DOMAIN y = 1 .. m /\ DOMAIN z = 1 .. n + m
      /\ \A k \in 1 .. n + m : z[k] = IF k <= n THEN x[k] ELSE y[k - n]
  OBVIOUS
<1> HIDE DEF z, n, m
<1>2. \A k \in 1 .. n : k \in 1 .. n + m /\ z[k] = x[k]
  BY <1>1
<1>3. \A k \in 1 .. m : k + n \in 1 .. n + m /\ z[k + n] = y[k]
  <2> SUFFICES ASSUME NEW k \in 1 .. m PROVE k + n \in 1 .. n + m /\ z[k + n] = y[k]
    OBVIOUS
  <2>1. k + n \in 1 .. n + m /\ ~(k + n <= n) /\ (k + n) - n = k
    BY <1>1
  <2> QED
    BY <1>1, <2>1
<1>4. \A k \in 1 .. n + m : k \in 1 .. n \/ (k - n \in 1 .. m /\ (k - n) + n = k)
  BY <1>1
<1>5. ToSet(z) = ToSet(x) \cup ToSet(y)
  <2>1. ASSUME NEW k \in 1 .. n + m PROVE z[k] \in ToSet(x) \cup ToSet(y)
    <3>1. CASE k \in 1 .. n
      BY <1>1, <1>2, <3>1 DEF ToSet
    <3>2. CASE k - n \in 1 .. m /\ (k - n) + n = k
      <4>1. z[k] = y[k - n] /\ k - n \in DOMAIN y
        BY <1>1, <1>3, <3>2
      <4> QED
        BY <4>1 DEF ToSet
    <3> QED
      BY <1>4, <3>1, <3>2
  <2>2. ASSUME NEW e \in ToSet(x) PROVE e \in ToSet(z)
    <3>1. PICK k \in 1 .. n : x[k] = e
      BY <1>1 DEF ToSet
    <3>2. k \in DOMAIN z /\ z[k] = e
      BY <1>1, <1>2, <3>1
    <3> QED
      BY <3>2 DEF ToSet
  <2>3. ASSUME NEW e \in ToSet(y) PROVE e \in ToSet(z)
    <3>1. PICK k \in 1 .. m : y[k] = e
      BY <1>1 DEF ToSet
    <3>2. k + n \in DOMAIN z /\ z[k + n] = e
      BY <1>1, <1>3, <3>1
    <3> QED
      BY <3>2 DEF ToSet
  <2>4. \A e \in ToSet(z) : e \in ToSet(x) \cup ToSet(y)
    BY <1>1, <2>1 DEF ToSet
  <2> QED
    BY <2>2, <2>3, <2>4
<1>6. ASSUME NoRepeats(x), NoRepeats(y), ToSet(x) \cap ToSet(y) = {} PROVE NoRepeats(z)
  <2> SUFFICES ASSUME NEW j \in 1 .. n + m, NEW k \in 1 .. n + m, z[j] = z[k] PROVE j = k
    BY <1>1 DEF NoRepeats
  <2>1. CASE j \in 1 .. n /\ k \in 1 .. n
    BY <1>1, <1>2, <1>6, <2>1 DEF NoRepeats
  <2>2. CASE j \notin 1 .. n /\ k \notin 1 .. n
    <3>1. j - n \in 1 .. m /\ k - n \in 1 .. m /\ z[j] = y[j - n] /\ z[k] = y[k - n]
      BY <1>3, <1>4, <2>2
    <3>2. j - n = k - n
      BY <1>1, <1>6, <3>1 DEF NoRepeats
    <3> QED
      BY <1>1, <3>2
  <2>3. ASSUME NEW a \in 1 .. n, NEW b \in 1 .. n + m, b \notin 1 .. n, z[a] = z[b] PROVE FALSE
    <3>1. b - n \in 1 .. m /\ z[b] = y[b - n] /\ z[a] = x[a]
      BY <1>2, <1>3, <1>4, <2>3
    <3>2. x[a] \in ToSet(x) /\ y[b - n] \in ToSet(y)
      BY <1>1, <3>1 DEF ToSet
    <3> QED
      BY <1>6, <2>3, <3>1, <3>2
  <2> QED
    BY <2>1, <2>2, <2>3
<1> QED
  BY <1>5, <1>6 DEF z

\* What is at the beginning
LEMMA Beginning ==
    ASSUME NEW T, NEW s \in Seq(T), NoRepeats(s), NEW k \in Nat, k <= Len(s)
    PROVE  /\ SubSeq(s, 1, k) \in Seq(T) /\ NoRepeats(SubSeq(s, 1, k)) /\ ToSet(SubSeq(s, 1, k)) \subseteq ToSet(s)
           /\ Cardinality(ToSet(SubSeq(s, 1, k))) = k
<1> DEFINE p == SubSeq(s, 1, k)
<1>1. p \in Seq(T) /\ Len(p) = k /\ DOMAIN p = 1 .. k /\ \A i \in 1 .. k : p[i] = s[i]
  OBVIOUS
<1>2. Len(s) \in Nat /\ DOMAIN s = 1 .. Len(s) /\ \A i \in 1 .. k : i \in 1 .. Len(s)
  OBVIOUS
<1> HIDE DEF p
<1>3. NoRepeats(p) /\ ToSet(p) \subseteq ToSet(s)
  BY <1>1, <1>2 DEF NoRepeats, ToSet
<1>4. Cardinality(ToSet(p)) = k
  BY <1>1, <1>3, DistinctLength
<1> QED
  BY <1>1, <1>3, <1>4 DEF p

\* The beginning of a sequence
LEMMA Begins ==
    ASSUME NEW T, NEW s \in Seq(T), NEW k \in Nat, k <= Len(s)
    PROVE  LET p == SubSeq(s, 1, k)
           IN p \in Seq(T) /\ Len(p) = k /\ DOMAIN p = 1 .. k /\ \A i \in 1 .. k : p[i] = s[i]
OBVIOUS

LEMMA JoinedLength ==
    ASSUME NEW T, NEW x \in Seq(T), NEW y \in Seq(T)
    PROVE  x \o y \in Seq(T) /\ Len(x \o y) = Len(x) + Len(y)
OBVIOUS

-----------------------------------------------------------------------------
(* What the splits are made of                                             *)

\* Among keeps elements of a sequence that are in a set.
LEMMA AmongIs ==
    ASSUME NEW T, NEW s \in Seq(T), NEW S
    PROVE  Among(s, S) \in Seq({t \in T : t \in S})
<1> DEFINE N == Len(s)
           c0 == <<>>
           Step(n, x) == IF s[n] \in S THEN Append(x, s[n]) ELSE x
           G == [n \in 0 .. N |-> Seq({t \in T : t \in S})]
           h == [n \in 1 .. N |-> [x \in G[n - 1] |-> Step(n, x)]]
           f == CHOOSE f : f = [n \in 0 .. N |-> IF n = 0 THEN c0 ELSE Step(n, f[n - 1])]
<1>1. c0 \in G[0] /\ N \in Nat
  OBVIOUS
<1>2. ASSUME NEW n \in 1 .. N, NEW x \in G[n - 1] PROVE Step(n, x) \in G[n]
  <2>1. n \in 0 .. N /\ x \in Seq({t \in T : t \in S}) /\ s[n] \in T
    BY <1>1
  <2> QED
    BY <2>1
<1> HIDE DEF N, c0
<1> HIDE DEF Step, G
<1>3. \A n \in 1 .. N : \A x \in G[n - 1] : h[n][x] = Step(n, x) /\ h[n][x] \in G[n]
  BY <1>2
<1> HIDE DEF h
<1>4. PICK g : IsLoop(g, c0, h, G, N)
  BY <1>1, <1>3, LoopExists
<1>5. ASSUME NEW n \in 0 .. N PROVE g[n] = IF n = 0 THEN c0 ELSE Step(n, g[n - 1])
  <2>1. n # 0 => n \in 1 .. N
    BY <1>1
  <2> QED
    BY <1>3, <1>4, <2>1 DEF IsLoop, Runs
<1>6. f = [n \in 0 .. N |-> IF n = 0 THEN c0 ELSE Step(n, f[n - 1])]
  <2>1. g = [n \in 0 .. N |-> IF n = 0 THEN c0 ELSE Step(n, g[n - 1])]
    BY <1>4, <1>5 DEF IsLoop
  <2> QED
    BY <2>1
<1> HIDE DEF f
<1>7. f[0] \in G[0] /\ \A n \in 1 .. N : f[n - 1] \in G[n - 1] => f[n] \in G[n]
  <2>1. f[0] = c0
    BY <1>1, <1>6
  <2>2. ASSUME NEW n \in 1 .. N PROVE f[n] = Step(n, f[n - 1])
    <3>1. n \in 0 .. N /\ n # 0
      BY <1>1
    <3> QED
      BY <1>6, <3>1
  <2> QED
    BY <1>1, <1>2, <2>1, <2>2
<1>8. f[N] \in G[N]
  BY <1>1, <1>7, LoopReaches
<1>9. Among(s, S) = f[N]
  BY DEF Among, f, Step, N, c0
<1> QED
  BY <1>1, <1>8, <1>9 DEF G

\* What is in the sequence is also among those that are wanted.
LEMMA AmongHas ==
    ASSUME NEW T, NEW s \in Seq(T), NEW S, NEW at0 \in DOMAIN s, s[at0] \in S
    PROVE  Among(s, S) # <<>>
<1> DEFINE N == Len(s)
           c0 == <<>>
           Step(n, x) == IF s[n] \in S THEN Append(x, s[n]) ELSE x
           G == [n \in 0 .. N |-> {x \in Seq(T) : n >= at0 => x # <<>>}]
           h == [n \in 1 .. N |-> [x \in G[n - 1] |-> Step(n, x)]]
           f == CHOOSE f : f = [n \in 0 .. N |-> IF n = 0 THEN c0 ELSE Step(n, f[n - 1])]
<1>0. at0 \in 1 .. N /\ N \in Nat
  OBVIOUS
<1>1. c0 \in G[0] /\ N \in Nat
  BY <1>0
<1>2. ASSUME NEW n \in 1 .. N, NEW x \in G[n - 1] PROVE Step(n, x) \in G[n]
  <2>1. n \in 0 .. N /\ n - 1 \in 0 .. N /\ x \in Seq(T) /\ (n - 1 >= at0 => x # <<>>) /\ s[n] \in T
    BY <1>0
  <2>2. Append(x, s[n]) \in Seq(T) /\ Append(x, s[n]) # <<>>
    BY <2>1
  <2>3. CASE s[n] \in S
    BY <2>1, <2>2, <2>3
  <2>4. CASE s[n] \notin S
    <3>1. n # at0
      BY <2>4
    <3>2. n >= at0 => n - 1 >= at0
      BY <1>0, <3>1
    <3> QED
      BY <2>1, <2>4, <3>2
  <2> QED
    BY <2>3, <2>4
<1> HIDE DEF N, c0
<1> HIDE DEF Step, G
<1>3. \A n \in 1 .. N : \A x \in G[n - 1] : h[n][x] = Step(n, x) /\ h[n][x] \in G[n]
  BY <1>2
<1> HIDE DEF h
<1>4. PICK g : IsLoop(g, c0, h, G, N)
  BY <1>1, <1>3, LoopExists
<1>5. ASSUME NEW n \in 0 .. N PROVE g[n] = IF n = 0 THEN c0 ELSE Step(n, g[n - 1])
  <2>1. n # 0 => n \in 1 .. N
    BY <1>1
  <2> QED
    BY <1>3, <1>4, <2>1 DEF IsLoop, Runs
<1>6. f = [n \in 0 .. N |-> IF n = 0 THEN c0 ELSE Step(n, f[n - 1])]
  <2>1. g = [n \in 0 .. N |-> IF n = 0 THEN c0 ELSE Step(n, g[n - 1])]
    BY <1>4, <1>5 DEF IsLoop
  <2> QED
    BY <2>1
<1> HIDE DEF f
<1>7. f[0] \in G[0] /\ \A n \in 1 .. N : f[n - 1] \in G[n - 1] => f[n] \in G[n]
  <2>1. f[0] = c0
    BY <1>1, <1>6
  <2>2. ASSUME NEW n \in 1 .. N PROVE f[n] = Step(n, f[n - 1])
    <3>1. n \in 0 .. N /\ n # 0
      BY <1>1
    <3> QED
      BY <1>6, <3>1
  <2> QED
    BY <1>1, <1>2, <2>1, <2>2
<1>8. f[N] \in G[N]
  BY <1>1, <1>7, LoopReaches
<1>9. Among(s, S) = f[N]
  BY DEF Among, f, Step, N, c0
<1>10. f[N] # <<>>
  BY <1>0, <1>1, <1>8 DEF G
<1> QED
  BY <1>9, <1>10

\* Firsts takes the first k of each of several sequences that have as many.
LEMMA FirstsIs ==
    ASSUME NEW T, NEW seqs, Len(seqs) \in Nat, NEW k \in Nat,
           \A n \in 1 .. Len(seqs) : seqs[n] \in Seq(T) /\ k <= Len(seqs[n])
    PROVE  Firsts(seqs, k) \in Seq(T)
<1> DEFINE N == Len(seqs)
           c0 == <<>>
           Step(n, x) == x \o SubSeq(seqs[n], 1, k)
           G == [n \in 0 .. N |-> Seq(T)]
           h == [n \in 1 .. N |-> [x \in G[n - 1] |-> Step(n, x)]]
           f == CHOOSE f : f = [n \in 0 .. N |-> IF n = 0 THEN c0 ELSE Step(n, f[n - 1])]
<1>1. c0 \in G[0] /\ N \in Nat
  OBVIOUS
<1>2. ASSUME NEW n \in 1 .. N, NEW x \in G[n - 1] PROVE Step(n, x) \in G[n]
  <2>1. n \in 0 .. N /\ x \in Seq(T) /\ seqs[n] \in Seq(T) /\ k <= Len(seqs[n])
    BY <1>1
  <2>2. SubSeq(seqs[n], 1, k) \in Seq(T)
    BY <2>1
  <2> QED
    BY <2>1, <2>2
<1> HIDE DEF N, c0
<1> HIDE DEF Step, G
<1>3. \A n \in 1 .. N : \A x \in G[n - 1] : h[n][x] = Step(n, x) /\ h[n][x] \in G[n]
  BY <1>2
<1> HIDE DEF h
<1>4. PICK g : IsLoop(g, c0, h, G, N)
  BY <1>1, <1>3, LoopExists
<1>5. ASSUME NEW n \in 0 .. N PROVE g[n] = IF n = 0 THEN c0 ELSE Step(n, g[n - 1])
  <2>1. n # 0 => n \in 1 .. N
    BY <1>1
  <2> QED
    BY <1>3, <1>4, <2>1 DEF IsLoop, Runs
<1>6. f = [n \in 0 .. N |-> IF n = 0 THEN c0 ELSE Step(n, f[n - 1])]
  <2>1. g = [n \in 0 .. N |-> IF n = 0 THEN c0 ELSE Step(n, g[n - 1])]
    BY <1>4, <1>5 DEF IsLoop
  <2> QED
    BY <2>1
<1> HIDE DEF f
<1>7. f[0] \in G[0] /\ \A n \in 1 .. N : f[n - 1] \in G[n - 1] => f[n] \in G[n]
  <2>1. f[0] = c0
    BY <1>1, <1>6
  <2>2. ASSUME NEW n \in 1 .. N PROVE f[n] = Step(n, f[n - 1])
    <3>1. n \in 0 .. N /\ n # 0
      BY <1>1
    <3> QED
      BY <1>6, <3>1
  <2> QED
    BY <1>1, <1>2, <2>1, <2>2
<1>8. f[N] \in G[N]
  BY <1>1, <1>7, LoopReaches
<1>9. Firsts(seqs, k) = f[N]
  BY DEF Firsts, f, Step, N, c0
<1> QED
  BY <1>1, <1>8, <1>9 DEF G

\* The entries that are left
LEMMA UnusedIs ==
    ASSUME NEW E, NEW batch \in Seq(E), NEW used
    PROVE  Unused(batch, used) \in Seq(DOMAIN batch)
<1> DEFINE all == [i \in DOMAIN batch |-> i]
<1>1. all \in Seq(DOMAIN batch)
  OBVIOUS
<1> HIDE DEF all
<1>2. Among(all, DOMAIN batch \ used) \in Seq({t \in DOMAIN batch : t \in DOMAIN batch \ used})
  BY <1>1, AmongIs
<1>3. \A R : Seq({t \in DOMAIN batch : t \in R}) \subseteq Seq(DOMAIN batch)
  OBVIOUS
<1> QED
  BY <1>2, <1>3 DEF Unused, all

\* The sequence sets have no sequence in common.
Apart(sets) == \A j, k \in DOMAIN sets : j # k => sets[j] \cap sets[k] = {}
\* The entries of a ubatch have the same set of sequences or no sequence in common.
Together(batch, part) ==
    \A j, k \in DOMAIN part : \/ batch[part[j]].seqs = batch[part[k]].seqs
                              \/ batch[part[j]].seqs \cap batch[part[k]].seqs = {}

\* The sets that take part are sets of the batch, and no two of them have a sequence in common.
LEMMA ParticipatingIs ==
    ASSUME NEW E, NEW batch \in Seq(E), NEW used, NEW n_ubatch, NEW sequential
    PROVE  /\ Participating(batch, used, n_ubatch, sequential) \in Seq({batch[i].seqs : i \in DOMAIN batch})
           /\ Apart(Participating(batch, used, n_ubatch, sequential))
<1> DEFINE left == Unused(batch, used)
           N == Len(left)
           T == {batch[i].seqs : i \in DOMAIN batch}
           c0 == <<>>
           Joins(sets, S) ==
             /\ Len(sets) <= n_ubatch
             /\ \A k \in DOMAIN sets : sets[k] \cap S = {}
             /\ sequential /\ sets # <<>> => FirstId(S) = FirstId(Last(sets)) + 1
           Step(n, x) == IF Joins(x, batch[left[n]].seqs) THEN Append(x, batch[left[n]].seqs) ELSE x
           G == [n \in 0 .. N |-> {x \in Seq(T) : Apart(x)}]
           h == [n \in 1 .. N |-> [x \in G[n - 1] |-> Step(n, x)]]
           f == CHOOSE f : f = [n \in 0 .. N |-> IF n = 0 THEN c0 ELSE Step(n, f[n - 1])]
<1>0. \A x, S : Joins(x, S) => \A k \in DOMAIN x : x[k] \cap S = {}
  OBVIOUS
<1> HIDE DEF Joins
<1>1. c0 \in G[0] /\ N \in Nat
  BY UnusedIs DEF Apart
<1>2. ASSUME NEW n \in 1 .. N, NEW x \in G[n - 1] PROVE Step(n, x) \in G[n]
  <2> DEFINE S == batch[left[n]].seqs
  <2>1. n \in 0 .. N /\ x \in Seq(T) /\ Apart(x) /\ left[n] \in DOMAIN batch
    BY <1>1, UnusedIs
  <2>2. S \in T
    BY <2>1
  <2> HIDE DEF T, left, S
  <2>3. ASSUME Joins(x, S) PROVE Append(x, S) \in Seq(T) /\ Apart(Append(x, S))
    <3>1. \A k \in DOMAIN x : x[k] \cap S = {}
      BY <1>0, <2>3
    <3>2. \A k \in DOMAIN Append(x, S) :
             \/ k \in DOMAIN x /\ Append(x, S)[k] = x[k]
             \/ k \notin DOMAIN x /\ k = Len(x) + 1 /\ Append(x, S)[k] = S
      <4>1. Append(x, S) \in Seq(T \cup {S}) /\ Len(Append(x, S)) = Len(x) + 1 /\ Len(x) \in Nat
            /\ DOMAIN x = 1 .. Len(x) /\ DOMAIN Append(x, S) = 1 .. Len(x) + 1
        BY <2>1, <2>2
      <4>2. \A k \in 1 .. Len(x) : Append(x, S)[k] = x[k]
        BY <2>1, <2>2
      <4>3. Append(x, S)[Len(x) + 1] = S
        BY <2>1, <2>2
      <4> QED
        BY <4>1, <4>2, <4>3
    <3>3. Append(x, S) \in Seq(T)
      BY <2>1, <2>2
    <3> QED
      BY <2>1, <3>1, <3>2, <3>3 DEF Apart
  <2> QED
    BY <2>1, <2>3 DEF S
<1> HIDE DEF N, c0
<1> HIDE DEF Step, G
<1>3. \A n \in 1 .. N : \A x \in G[n - 1] : h[n][x] = Step(n, x) /\ h[n][x] \in G[n]
  BY <1>2
<1> HIDE DEF h
<1>4. PICK g : IsLoop(g, c0, h, G, N)
  BY <1>1, <1>3, LoopExists
<1>5. ASSUME NEW n \in 0 .. N PROVE g[n] = IF n = 0 THEN c0 ELSE Step(n, g[n - 1])
  <2>1. n # 0 => n \in 1 .. N
    BY <1>1
  <2> QED
    BY <1>3, <1>4, <2>1 DEF IsLoop, Runs
<1>6. f = [n \in 0 .. N |-> IF n = 0 THEN c0 ELSE Step(n, f[n - 1])]
  <2>1. g = [n \in 0 .. N |-> IF n = 0 THEN c0 ELSE Step(n, g[n - 1])]
    BY <1>4, <1>5 DEF IsLoop
  <2> QED
    BY <2>1
<1> HIDE DEF f
<1>7. f[0] \in G[0] /\ \A n \in 1 .. N : f[n - 1] \in G[n - 1] => f[n] \in G[n]
  <2>1. f[0] = c0
    BY <1>1, <1>6
  <2>2. ASSUME NEW n \in 1 .. N PROVE f[n] = Step(n, f[n - 1])
    <3>1. n \in 0 .. N /\ n # 0
      BY <1>1
    <3> QED
      BY <1>6, <3>1
  <2> QED
    BY <1>1, <1>2, <2>1, <2>2
<1>8. f[N] \in G[N]
  BY <1>1, <1>7, LoopReaches
<1>9. Participating(batch, used, n_ubatch, sequential) = f[N]
  BY DEF Participating, f, Step, N, c0, Joins
<1>10. f[N] \in Seq(T) /\ Apart(f[N])
  BY <1>1, <1>8 DEF G
<1> QED
  BY <1>9, <1>10

\* The entries of the batch with the sequences S
Of(batch, S) == {i \in DOMAIN batch : batch[i].seqs = S}
Left(batch, used, S) == Among(Unused(batch, used), Of(batch, S))

\* Among keeps every element once that is in the set.
LEMMA AmongKeeps ==
    ASSUME NEW T, NEW s \in Seq(T), NoRepeats(s), NEW S
    PROVE  /\ Among(s, S) \in Seq(T) /\ NoRepeats(Among(s, S)) /\ ToSet(Among(s, S)) = ToSet(s) \cap S
           /\ Len(Among(s, S)) = Cardinality(ToSet(s) \cap S)
<1> DEFINE N == Len(s)
           c0 == <<>>
           Upto(n) == {s[i] : i \in 1 .. n}
           Step(n, x) == IF s[n] \in S THEN Append(x, s[n]) ELSE x
           G == [n \in 0 .. N |-> {x \in Seq(T) : NoRepeats(x) /\ ToSet(x) = Upto(n) \cap S}]
           h == [n \in 1 .. N |-> [x \in G[n - 1] |-> Step(n, x)]]
           f == CHOOSE f : f = [n \in 0 .. N |-> IF n = 0 THEN c0 ELSE Step(n, f[n - 1])]
<1>0. N \in Nat /\ DOMAIN s = 1 .. N /\ 0 \in 0 .. N
  OBVIOUS
<1>1. c0 \in G[0] /\ N \in Nat
  <2>1. c0 \in Seq(T) /\ NoRepeats(c0) /\ ToSet(c0) = {} /\ Upto(0) = {}
    BY DEF NoRepeats, ToSet
  <2> HIDE DEF c0, Upto
  <2> QED
    BY <1>0, <2>1
<1>2. ASSUME NEW n \in 1 .. N, NEW x \in G[n - 1] PROVE Step(n, x) \in G[n]
  <2>1. n \in 0 .. N /\ n - 1 \in 0 .. N /\ n \in DOMAIN s /\ s[n] \in T
    BY <1>0
  <2>2. x \in Seq(T) /\ NoRepeats(x) /\ ToSet(x) = Upto(n - 1) \cap S
    BY <2>1
  <2>3. Upto(n) = Upto(n - 1) \cup {s[n]} /\ s[n] \notin Upto(n - 1)
    <3>1. \A i \in 1 .. n : i \in 1 .. n - 1 \/ i = n
      BY <1>0
    <3>2. n \in 1 .. n /\ \A i \in 1 .. n - 1 : i \in 1 .. n /\ i # n /\ i \in 1 .. N
      BY <1>0
    <3> QED
      BY <1>0, <3>1, <3>2 DEF NoRepeats
  <2> HIDE DEF Upto
  <2>4. /\ ToSet(Append(x, s[n])) = ToSet(x) \cup {s[n]} /\ Append(x, s[n]) \in Seq(T)
        /\ s[n] \notin ToSet(x) => NoRepeats(Append(x, s[n]))
    BY <2>1, <2>2, Appended
  <2>5. CASE s[n] \in S
    <3>1. Step(n, x) = Append(x, s[n])
      BY <2>5
    <3>2. ToSet(Append(x, s[n])) = Upto(n) \cap S /\ NoRepeats(Append(x, s[n]))
      BY <2>2, <2>3, <2>4, <2>5
    <3> QED
      BY <2>1, <2>4, <3>1, <3>2
  <2>6. CASE s[n] \notin S
    <3>1. Step(n, x) = x /\ ToSet(x) = Upto(n) \cap S
      BY <2>2, <2>3, <2>6
    <3> QED
      BY <2>1, <2>2, <3>1
  <2> QED
    BY <2>5, <2>6
<1> HIDE DEF N, c0
<1> HIDE DEF Step, G
<1>3. \A n \in 1 .. N : \A x \in G[n - 1] : h[n][x] = Step(n, x) /\ h[n][x] \in G[n]
  BY <1>2
<1> HIDE DEF h
<1>4. PICK g : IsLoop(g, c0, h, G, N)
  BY <1>1, <1>3, LoopExists
<1>5. ASSUME NEW n \in 0 .. N PROVE g[n] = IF n = 0 THEN c0 ELSE Step(n, g[n - 1])
  <2>1. n # 0 => n \in 1 .. N
    BY <1>1
  <2> QED
    BY <1>3, <1>4, <2>1 DEF IsLoop, Runs
<1>6. f = [n \in 0 .. N |-> IF n = 0 THEN c0 ELSE Step(n, f[n - 1])]
  <2>1. g = [n \in 0 .. N |-> IF n = 0 THEN c0 ELSE Step(n, g[n - 1])]
    BY <1>4, <1>5 DEF IsLoop
  <2> QED
    BY <2>1
<1> HIDE DEF f
<1>7. f[0] \in G[0] /\ \A n \in 1 .. N : f[n - 1] \in G[n - 1] => f[n] \in G[n]
  <2>1. f[0] = c0
    BY <1>1, <1>6
  <2>2. ASSUME NEW n \in 1 .. N PROVE f[n] = Step(n, f[n - 1])
    <3>1. n \in 0 .. N /\ n # 0
      BY <1>1
    <3> QED
      BY <1>6, <3>1
  <2> QED
    BY <1>1, <1>2, <2>1, <2>2
<1>8. f[N] \in G[N]
  BY <1>1, <1>7, LoopReaches
<1>9. Among(s, S) = f[N]
  BY DEF Among, f, Step, N, c0
<1>10. f[N] \in Seq(T) /\ NoRepeats(f[N]) /\ ToSet(f[N]) = Upto(N) \cap S
  <2> HIDE DEF Upto
  <2> QED
    BY <1>1, <1>8 DEF G
<1>11. Upto(N) = ToSet(s)
  BY <1>0 DEF ToSet, N
<1>12. Len(f[N]) = Cardinality(ToSet(s) \cap S)
  BY <1>10, <1>11, DistinctLength
<1> QED
  BY <1>9, <1>10, <1>11, <1>12

\* The entries that are left are those that are not used.
LEMMA UnusedHas ==
    ASSUME NEW E, NEW batch \in Seq(E), NEW used
    PROVE  /\ Unused(batch, used) \in Seq(DOMAIN batch) /\ NoRepeats(Unused(batch, used))
           /\ ToSet(Unused(batch, used)) = DOMAIN batch \ used
<1> DEFINE all == [i \in DOMAIN batch |-> i]
           T == DOMAIN batch
<1>1. all \in Seq(T) /\ NoRepeats(all) /\ ToSet(all) = T
  <2>1. all \in Seq(T) /\ DOMAIN all = T
    OBVIOUS
  <2> QED
    BY <2>1 DEF NoRepeats, ToSet
<1> HIDE DEF all, T
<1>2. Among(all, T \ used) \in Seq(T) /\ NoRepeats(Among(all, T \ used)) /\ ToSet(Among(all, T \ used)) = ToSet(all) \cap (T \ used)
  BY <1>1, AmongKeeps
<1>3. Unused(batch, used) = Among(all, T \ used)
  BY DEF Unused, all, T
<1> QED
  BY <1>1, <1>2, <1>3 DEF T

\* Firsts has the first k of each of the sequences.
LEMMA FirstsHas ==
    ASSUME NEW T, NEW seqs, Len(seqs) \in Nat, NEW k \in Nat,
           \A n \in 1 .. Len(seqs) : seqs[n] \in Seq(T) /\ NoRepeats(seqs[n]) /\ k <= Len(seqs[n]),
           \A j, n \in 1 .. Len(seqs) : j # n => ToSet(seqs[j]) \cap ToSet(seqs[n]) = {}
    PROVE  /\ Firsts(seqs, k) \in Seq(T) /\ NoRepeats(Firsts(seqs, k))
           /\ ToSet(Firsts(seqs, k)) = UNION {ToSet(SubSeq(seqs[n], 1, k)) : n \in 1 .. Len(seqs)}
<1> DEFINE N == Len(seqs)
           c0 == <<>>
           Pre(n) == SubSeq(seqs[n], 1, k)
           Upto(n) == UNION {ToSet(Pre(j)) : j \in 1 .. n}
           Step(n, x) == x \o Pre(n)
           G == [n \in 0 .. N |-> {x \in Seq(T) : NoRepeats(x) /\ ToSet(x) = Upto(n)}]
           h == [n \in 1 .. N |-> [x \in G[n - 1] |-> Step(n, x)]]
           f == CHOOSE f : f = [n \in 0 .. N |-> IF n = 0 THEN c0 ELSE Step(n, f[n - 1])]
<1>0. N \in Nat /\ 0 \in 0 .. N
  OBVIOUS
<1>1. c0 \in G[0] /\ N \in Nat
  <2>1. c0 \in Seq(T) /\ NoRepeats(c0) /\ ToSet(c0) = {} /\ Upto(0) = {}
    BY DEF NoRepeats, ToSet
  <2> HIDE DEF c0, Upto
  <2> QED
    BY <1>0, <2>1
<1>p. \A n \in 1 .. N : Pre(n) \in Seq(T) /\ NoRepeats(Pre(n)) /\ ToSet(Pre(n)) \subseteq ToSet(seqs[n])
  BY Beginning
<1> HIDE DEF Pre
<1>2. ASSUME NEW n \in 1 .. N, NEW x \in G[n - 1] PROVE Step(n, x) \in G[n]
  <2>1. n \in 0 .. N /\ n - 1 \in 0 .. N
    BY <1>0
  <2>2. x \in Seq(T) /\ NoRepeats(x) /\ ToSet(x) = Upto(n - 1)
    BY <2>1
  <2>3. Upto(n) = Upto(n - 1) \cup ToSet(Pre(n)) /\ Upto(n - 1) \cap ToSet(Pre(n)) = {}
    <3>1. \A i \in 1 .. n : i \in 1 .. n - 1 \/ i = n
      BY <1>0
    <3>2. n \in 1 .. n /\ \A i \in 1 .. n - 1 : i \in 1 .. n /\ i # n /\ i \in 1 .. N
      BY <1>0
    <3>3. Upto(n) = Upto(n - 1) \cup ToSet(Pre(n))
      BY <3>1, <3>2
    <3>4. \A i \in 1 .. n - 1 : ToSet(Pre(i)) \cap ToSet(Pre(n)) = {}
      BY <1>p, <3>2
    <3>5. Upto(n - 1) \cap ToSet(Pre(n)) = {}
      BY <3>4
    <3> QED
      BY <3>3, <3>5
  <2> HIDE DEF Upto
  <2>4. x \o Pre(n) \in Seq(T) /\ ToSet(x \o Pre(n)) = ToSet(x) \cup ToSet(Pre(n)) /\ NoRepeats(x \o Pre(n))
    <3>1. Pre(n) \in Seq(T) /\ NoRepeats(Pre(n))
      BY <1>p
    <3>2. x \o Pre(n) \in Seq(T)
      BY <2>2, <3>1
    <3> QED
      BY <2>2, <2>3, <3>1, <3>2, Joined
  <2> QED
    BY <2>1, <2>2, <2>3, <2>4
<1> HIDE DEF N, c0
<1> HIDE DEF Step, G
<1>3. \A n \in 1 .. N : \A x \in G[n - 1] : h[n][x] = Step(n, x) /\ h[n][x] \in G[n]
  BY <1>2
<1> HIDE DEF h
<1>4. PICK g : IsLoop(g, c0, h, G, N)
  BY <1>1, <1>3, LoopExists
<1>5. ASSUME NEW n \in 0 .. N PROVE g[n] = IF n = 0 THEN c0 ELSE Step(n, g[n - 1])
  <2>1. n # 0 => n \in 1 .. N
    BY <1>1
  <2> QED
    BY <1>3, <1>4, <2>1 DEF IsLoop, Runs
<1>6. f = [n \in 0 .. N |-> IF n = 0 THEN c0 ELSE Step(n, f[n - 1])]
  <2>1. g = [n \in 0 .. N |-> IF n = 0 THEN c0 ELSE Step(n, g[n - 1])]
    BY <1>4, <1>5 DEF IsLoop
  <2> QED
    BY <2>1
<1> HIDE DEF f
<1>7. f[0] \in G[0] /\ \A n \in 1 .. N : f[n - 1] \in G[n - 1] => f[n] \in G[n]
  <2>1. f[0] = c0
    BY <1>1, <1>6
  <2>2. ASSUME NEW n \in 1 .. N PROVE f[n] = Step(n, f[n - 1])
    <3>1. n \in 0 .. N /\ n # 0
      BY <1>1
    <3> QED
      BY <1>6, <3>1
  <2> QED
    BY <1>1, <1>2, <2>1, <2>2
<1>8. f[N] \in G[N]
  BY <1>1, <1>7, LoopReaches
<1>9. Firsts(seqs, k) = f[N]
  BY DEF Firsts, f, Step, N, c0, Pre
<1>10. f[N] \in Seq(T) /\ NoRepeats(f[N]) /\ ToSet(f[N]) = Upto(N)
  <2> HIDE DEF Upto
  <2> QED
    BY <1>1, <1>8 DEF G
<1> QED
  BY <1>9, <1>10 DEF N, Pre

\* What is left of a set of sequences
LEMMA LeftHas ==
    ASSUME NEW E, NEW batch \in Seq(E), NEW used, NEW S
    PROVE  /\ Left(batch, used, S) \in Seq(DOMAIN batch) /\ NoRepeats(Left(batch, used, S))
           /\ ToSet(Left(batch, used, S)) = Of(batch, S) \ used
           /\ Len(Left(batch, used, S)) = Cardinality(Of(batch, S) \ used)
           /\ Len(Left(batch, used, S)) \in Nat
<1> DEFINE D == DOMAIN batch
           r == Unused(batch, used)
           l == Left(batch, used, S)
<1>1. r \in Seq(D) /\ NoRepeats(r) /\ ToSet(r) = D \ used
  BY UnusedHas
<1>2. l = Among(r, Of(batch, S))
  BY DEF Left
<1>3. Of(batch, S) \subseteq D
  BY DEF Of
<1> HIDE DEF D, r, l
<1>4. l \in Seq(D) /\ NoRepeats(l) /\ ToSet(l) = ToSet(r) \cap Of(batch, S) /\ Len(l) = Cardinality(ToSet(r) \cap Of(batch, S))
  BY <1>1, <1>2, AmongKeeps
<1>5. ToSet(r) \cap Of(batch, S) = Of(batch, S) \ used
  BY <1>1, <1>3
<1>6. Len(l) \in Nat
  BY <1>4
<1> QED
  BY <1>4, <1>5, <1>6 DEF D, l

\* As many sets as remain, and no more entries of each than there are
LEMMA WholeTailsIs ==
    ASSUME NEW sizes, DOMAIN sizes = 1 .. Len(sizes), Len(sizes) \in Nat \ {0}, \A s \in DOMAIN sizes : sizes[s] \in Nat,
           NEW k \in Nat, \A s \in DOMAIN sizes : k <= sizes[s], NEW n_ubatch \in Nat, NEW tail \in 0 .. n_ubatch
    PROVE  LET r == WholeTails(sizes, k, tail, n_ubatch)
           IN r.n_seqs \in 1 .. Len(sizes) /\ r.k \in Nat /\ \A s \in 1 .. r.n_seqs : r.k <= sizes[s]
<1> DEFINE Whole(s) == sizes[s] - k = 0 \/ sizes[s] - k >= tail
           T == {s \in DOMAIN sizes : ~Whole(s)} \cup {Len(sizes) + 1}
           kept == Min(T) - 1
           r == WholeTails(sizes, k, tail, n_ubatch)
<1>1. Min(T) \in T /\ \A s \in T : Min(T) <= s
  <2>1. T \in SUBSET Nat /\ T # {}
    OBVIOUS
  <2> HIDE DEF T
  <2> QED
    BY <2>1, MinIsLeast
<1>2. kept \in 0 .. Len(sizes)
  BY <1>1
<1>3. r = IF kept > 0 THEN [n_seqs |-> kept, k |-> k]
          ELSE [n_seqs |-> 1, k |-> IF sizes[1] <= n_ubatch THEN sizes[1] ELSE sizes[1] - tail]
  BY DEF WholeTails
<1> HIDE DEF kept, r
<1>4. CASE kept > 0
  BY <1>2, <1>3, <1>4 DEF r
<1>5. CASE ~(kept > 0)
  <2>1. 1 \in DOMAIN sizes /\ sizes[1] \in Nat
    OBVIOUS
  <2>2. r.n_seqs = 1 /\ r.k = IF sizes[1] <= n_ubatch THEN sizes[1] ELSE sizes[1] - tail
    BY <1>3, <1>5
  <2>3. r.k \in Nat /\ r.k <= sizes[1]
    BY <2>1, <2>2
  <2> QED
    BY <2>2, <2>3 DEF r
<1> QED
  BY <1>4, <1>5

\* What WholeTails lets remain is nothing, or a tail at least.
LEMMA WholeTailsRemain ==
    ASSUME NEW sizes, DOMAIN sizes = 1 .. Len(sizes), Len(sizes) \in Nat \ {0}, \A s \in DOMAIN sizes : sizes[s] \in Nat,
           NEW k \in Nat, NEW n_ubatch \in Nat, NEW tail \in 0 .. n_ubatch
    PROVE  LET r == WholeTails(sizes, k, tail, n_ubatch)
           IN \A s \in 1 .. r.n_seqs : sizes[s] - r.k = 0 \/ sizes[s] - r.k >= tail
<1> DEFINE Whole(s) == sizes[s] - k = 0 \/ sizes[s] - k >= tail
           T == {s \in DOMAIN sizes : ~Whole(s)} \cup {Len(sizes) + 1}
           kept == Min(T) - 1
           r == WholeTails(sizes, k, tail, n_ubatch)
<1>1. Min(T) \in T /\ \A s \in T : Min(T) <= s
  <2>1. T \in SUBSET Nat /\ T # {}
    OBVIOUS
  <2> HIDE DEF T
  <2>2. Min(T) \in T /\ \A s \in T : Min(T) <= s
    BY <2>1, MinIsLeast
  <2> QED
    BY <2>2
<1>2. kept \in 0 .. Len(sizes) /\ \A s \in 1 .. kept : Whole(s)
  <2>1. kept \in 0 .. Len(sizes) /\ kept + 1 = Min(T)
    BY <1>1
  <2> HIDE DEF kept
  <2>2. ASSUME NEW s \in 1 .. kept, ~Whole(s) PROVE FALSE
    <3>1. s \in T
      BY <2>1, <2>2
    <3> HIDE DEF T
    <3>2. kept + 1 <= s /\ s <= kept /\ s \in Nat /\ kept \in Nat
      BY <1>1, <2>1, <3>1
    <3> QED
      BY <3>2
  <2> QED
    BY <2>1, <2>2
<1>3. r = IF kept > 0 THEN [n_seqs |-> kept, k |-> k]
          ELSE [n_seqs |-> 1, k |-> IF sizes[1] <= n_ubatch THEN sizes[1] ELSE sizes[1] - tail]
  BY DEF WholeTails
<1> HIDE DEF kept, r
<1>4. CASE kept > 0
  <2>1. r.n_seqs = kept /\ r.k = k
    BY <1>3, <1>4
  <2> QED
    BY <1>2, <2>1 DEF r
<1>5. CASE ~(kept > 0)
  <2>1. 1 \in DOMAIN sizes /\ sizes[1] \in Nat
    OBVIOUS
  <2>2. r.n_seqs = 1 /\ r.k = IF sizes[1] <= n_ubatch THEN sizes[1] ELSE sizes[1] - tail
    BY <1>3, <1>5
  <2>3. sizes[1] - r.k = 0 \/ sizes[1] - r.k >= tail
    BY <2>1, <2>2
  <2>4. \A s \in 1 .. 1 : s = 1
    OBVIOUS
  <2> QED
    BY <2>2, <2>3, <2>4 DEF r
<1> QED
  BY <1>4, <1>5

\* What WholeTails takes is something if there is something of each, and still fits.
LEMMA WholeTailsFit ==
    ASSUME NEW sizes, DOMAIN sizes = 1 .. Len(sizes), Len(sizes) \in Nat \ {0}, \A s \in DOMAIN sizes : sizes[s] \in Nat \ {0},
           NEW k \in Nat \ {0}, \A s \in DOMAIN sizes : k <= sizes[s],
           NEW n_ubatch \in Nat, NEW tail \in 0 .. n_ubatch, Len(sizes) * k <= n_ubatch \/ Len(sizes) > n_ubatch
    PROVE  LET r == WholeTails(sizes, k, tail, n_ubatch)
           IN r.k > 0 /\ (Len(sizes) <= n_ubatch => r.n_seqs * r.k <= n_ubatch)
<1> DEFINE Whole(s) == sizes[s] - k = 0 \/ sizes[s] - k >= tail
           T == {s \in DOMAIN sizes : ~Whole(s)} \cup {Len(sizes) + 1}
           kept == Min(T) - 1
           r == WholeTails(sizes, k, tail, n_ubatch)
<1>1. Min(T) \in T /\ \A s \in T : Min(T) <= s
  <2>1. T \in SUBSET Nat /\ T # {}
    OBVIOUS
  <2> HIDE DEF T
  <2> QED
    BY <2>1, MinIsLeast
<1>2. kept \in 0 .. Len(sizes)
  BY <1>1
<1>3. r = IF kept > 0 THEN [n_seqs |-> kept, k |-> k]
          ELSE [n_seqs |-> 1, k |-> IF sizes[1] <= n_ubatch THEN sizes[1] ELSE sizes[1] - tail]
  BY DEF WholeTails
<1>4. ~(kept > 0) => ~Whole(1)
  <2>1. ~(kept > 0) => Min(T) = 1
    BY <1>1
  <2>2. 1 # Len(sizes) + 1
    OBVIOUS
  <2> QED
    BY <1>1, <2>1, <2>2
<1>s. 1 \in DOMAIN sizes /\ sizes[1] \in Nat \ {0} /\ k <= sizes[1]
  OBVIOUS
<1>l. 1 * k = k /\ Len(sizes) * k \in Nat
  OBVIOUS
<1>5. k <= Len(sizes) * k
  BY <1>l, ProductGrows
<1> HIDE DEF kept, r
<1>6. CASE kept > 0
  <2>1. r.n_seqs = kept /\ r.k = k
    BY <1>3, <1>6
  <2>2. kept * k <= Len(sizes) * k /\ kept * k \in Nat
    BY <1>2, ProductGrows
  <2>3. Len(sizes) <= n_ubatch => kept * k <= n_ubatch
    BY <1>l, <2>2
  <2> QED
    BY <2>1, <2>3 DEF r
<1>7. CASE ~(kept > 0)
  <2> DEFINE m == IF sizes[1] <= n_ubatch THEN sizes[1] ELSE sizes[1] - tail
  <2>1. r.n_seqs = 1 /\ r.k = m
    BY <1>3, <1>7
  <2>2. sizes[1] - k < tail
    BY <1>4, <1>7, <1>s
  <2>3. m > 0 /\ m \in Nat
    BY <1>s
  <2>4. Len(sizes) <= n_ubatch => m <= n_ubatch
    BY <1>s, <1>l, <1>5, <2>2
  <2>5. 1 * m = m
    BY <2>3
  <2> HIDE DEF m
  <2> QED
    BY <2>1, <2>3, <2>4, <2>5 DEF r
<1> QED
  BY <1>6, <1>7

\* p has the first k entries that are left of each of n sets of sequences.
TakenOf(batch, used, tail, sets, n, k, p) ==
    /\ sets \in Seq({batch[i].seqs : i \in DOMAIN batch}) /\ Apart(sets)
    /\ n \in 1 .. Len(sets) /\ k \in Nat
    /\ \A s \in 1 .. n : k <= Len(Left(batch, used, sets[s]))
    /\ tail > 0 => \A s \in 1 .. n : \/ Len(Left(batch, used, sets[s])) - k = 0
                                     \/ Len(Left(batch, used, sets[s])) - k >= tail
    /\ p = Firsts([s \in 1 .. n |-> Left(batch, used, sets[s])], k)

\* What the ubatch of split_equal is; it is not empty and fits if sets that have entries left
\* are not too many.
LEMMA SplitEqualShape ==
    ASSUME NEW E, NEW batch \in Seq(E), NEW used, NEW n_ubatch \in Nat, NEW sequential, NEW tail \in 0 .. n_ubatch,
           ~(sequential /\ Coupled(batch)), NEW sets, sets = Participating(batch, used, n_ubatch, sequential), sets # <<>>
    PROVE  \E n, k : /\ TakenOf(batch, used, tail, sets, n, k, SplitEqual(batch, used, n_ubatch, sequential, tail))
                     /\ (\A s \in DOMAIN sets : Len(Left(batch, used, sets[s])) # 0)
                        => k > 0 /\ (Len(sets) <= n_ubatch => n * k <= n_ubatch)
<1> DEFINE of(s) == {i \in DOMAIN batch : batch[i].seqs = sets[s]}
           left == [s \in DOMAIN sets |-> Among(Unused(batch, used), of(s))]
           sizes == [s \in DOMAIN sets |-> Len(left[s])]
           q == n_ubatch \div Max({1, Len(sets)})
           m == Max({1, q})
           k == Min(ToSet(sizes) \cup {m})
           r == IF tail > 0 THEN WholeTails(sizes, k, tail, n_ubatch) ELSE [n_seqs |-> Len(sets), k |-> k]
           split == SplitEqual(batch, used, n_ubatch, sequential, tail)
           Some == \A s \in DOMAIN sets : Len(left[s]) # 0
<1>0. sets \in Seq({batch[i].seqs : i \in DOMAIN batch}) /\ Apart(sets)
  BY ParticipatingIs
<1>1. Len(sets) \in Nat \ {0} /\ DOMAIN sets = 1 .. Len(sets)
  <2> DEFINE T == {batch[i].seqs : i \in DOMAIN batch}
  <2> HIDE DEF T
  <2> QED
    BY <1>0 DEF T
<1>8. split = Firsts([s \in 1 .. r.n_seqs |-> left[s]], r.k)
  BY DEF SplitEqual
<1> HIDE DEF split
<1>2. \A s \in DOMAIN sets : left[s] = Left(batch, used, sets[s]) /\ Len(left[s]) \in Nat
  <2> SUFFICES ASSUME NEW s \in DOMAIN sets PROVE left[s] = Left(batch, used, sets[s]) /\ Len(left[s]) \in Nat
    OBVIOUS
  <2>1. left[s] = Left(batch, used, sets[s])
    BY DEF Left, Of
  <2> HIDE DEF left
  <2> QED
    BY <2>1, LeftHas
<1> HIDE DEF left
<1>3. m \in Nat \ {0} /\ (Len(sets) <= n_ubatch => Len(sets) * m <= n_ubatch)
  <2>1. Max({1, Len(sets)}) \in {1, Len(sets)} /\ Max({1, Len(sets)}) \in Nat \ {0}
    BY <1>1, MaxOfTwo, MaxWithOne
  <2>2. q \in Nat
    BY <2>1, DivBound
  <2>3. Len(sets) <= n_ubatch => q > 0 /\ Len(sets) * q <= n_ubatch
    <3>1. Max({1, Len(sets)}) = Len(sets)
      BY <1>1, MaxWithOne
    <3> QED
      BY <1>1, <3>1, QuotientFits
  <2> HIDE DEF q
  <2>4. m \in Nat \ {0} /\ m \in {1, q}
    BY <2>2, MaxOfTwo, MaxWithOne
  <2>5. q > 0 => m = q
    BY <2>2, MaxWithOne
  <2> QED
    BY <2>3, <2>4, <2>5
<1> HIDE DEF q, m
<1>4. k \in Nat /\ k <= m /\ (\A s \in DOMAIN sets : k <= Len(left[s])) /\ (Some => k # 0)
  <2>1. ToSet(sizes) = {Len(left[s]) : s \in DOMAIN sets}
    BY DEF ToSet
  <2>2. ToSet(sizes) \cup {m} \in SUBSET Nat
    BY <1>2, <1>3, <2>1
  <2>3. k \in ToSet(sizes) \cup {m} /\ \A x \in ToSet(sizes) \cup {m} : k <= x
    BY <2>2, MinIsLeast
  <2> HIDE DEF k
  <2> QED
    BY <1>3, <2>1, <2>2, <2>3
<1> HIDE DEF k
<1>f. Len(sets) <= n_ubatch => Len(sets) * k <= n_ubatch
  <2>1. Len(sets) * k <= Len(sets) * m
    BY <1>1, <1>3, <1>4, ProductGrows
  <2>2. Len(sets) * k \in Nat /\ Len(sets) * m \in Nat
    BY <1>1, <1>3, <1>4
  <2> QED
    BY <1>3, <2>1, <2>2
<1>5. /\ r.n_seqs \in 1 .. Len(sets) /\ r.k \in Nat /\ \A s \in 1 .. r.n_seqs : r.k <= Len(left[s])
      /\ tail > 0 => \A s \in 1 .. r.n_seqs : Len(left[s]) - r.k = 0 \/ Len(left[s]) - r.k >= tail
      /\ Some => r.k > 0 /\ (Len(sets) <= n_ubatch => r.n_seqs * r.k <= n_ubatch)
  <2>1. CASE tail > 0
    <3>1. DOMAIN sizes = 1 .. Len(sets) /\ sizes \in [1 .. Len(sets) -> Nat] /\ \A s \in DOMAIN sets : sizes[s] = Len(left[s])
      BY <1>1, <1>2
    <3> HIDE DEF sizes
    <3>2. Len(sizes) = Len(sets)
      BY <1>1, <3>1
    <3>3. r = WholeTails(sizes, k, tail, n_ubatch)
      BY <2>1
    <3> HIDE DEF r
    <3>4. r.n_seqs \in 1 .. Len(sizes) /\ r.k \in Nat /\ \A s \in 1 .. r.n_seqs : r.k <= sizes[s]
      BY <1>1, <1>4, <3>1, <3>2, <3>3, WholeTailsIs
    <3>5. \A s \in 1 .. r.n_seqs : sizes[s] - r.k = 0 \/ sizes[s] - r.k >= tail
      BY <1>1, <1>4, <3>1, <3>2, <3>3, WholeTailsRemain
    <3>6. \A s \in 1 .. r.n_seqs : s \in DOMAIN sets
      BY <1>1, <3>2, <3>4
    <3>7. ASSUME Some PROVE r.k > 0 /\ (Len(sets) <= n_ubatch => r.n_seqs * r.k <= n_ubatch)
      <4>1. \A s \in DOMAIN sizes : sizes[s] \in Nat \ {0} /\ k <= sizes[s]
        BY <1>1, <1>4, <3>1, <3>7
      <4>2. k \in Nat \ {0} /\ (Len(sizes) * k <= n_ubatch \/ Len(sizes) > n_ubatch)
        BY <1>1, <1>4, <1>f, <3>2, <3>7
      <4> HIDE DEF Some
      <4> QED
        BY <1>1, <3>1, <3>2, <3>3, <4>1, <4>2, WholeTailsFit
    <3> HIDE DEF Some
    <3> QED
      BY <3>1, <3>2, <3>4, <3>5, <3>6, <3>7
  <2>2. CASE ~(tail > 0)
    <3>1. r.n_seqs = Len(sets) /\ r.k = k
      BY <2>2
    <3> HIDE DEF r, Some
    <3>2. r.n_seqs \in 1 .. Len(sets)
      BY <1>1, <3>1
    <3>3. \A s \in 1 .. r.n_seqs : r.k <= Len(left[s])
      BY <1>1, <1>4, <3>1
    <3> QED
      BY <1>4, <1>f, <2>2, <3>1, <3>2, <3>3
  <2> QED
    BY <2>1, <2>2
<1>6. \A s \in 1 .. r.n_seqs : s \in DOMAIN sets
  BY <1>1, <1>5
<1> HIDE DEF r
<1>9. [s \in 1 .. r.n_seqs |-> left[s]] = [s \in 1 .. r.n_seqs |-> Left(batch, used, sets[s])]
  BY <1>2, <1>6
<1>10. TakenOf(batch, used, tail, sets, r.n_seqs, r.k, split)
  BY <1>0, <1>2, <1>5, <1>6, <1>8, <1>9 DEF TakenOf
<1>11. (\A s \in DOMAIN sets : Len(Left(batch, used, sets[s])) # 0) => Some
  BY <1>2
<1> HIDE DEF Some
<1> QED
  BY <1>5, <1>10, <1>11 DEF split

LEMMA SplitEqualTakes ==
    ASSUME NEW E, NEW batch \in Seq(E), NEW used, NEW n_ubatch \in Nat, NEW sequential, NEW tail \in 0 .. n_ubatch,
           SplitEqual(batch, used, n_ubatch, sequential, tail) # <<>>
    PROVE  \E sets, n, k : TakenOf(batch, used, tail, sets, n, k, SplitEqual(batch, used, n_ubatch, sequential, tail))
<1> DEFINE sets == Participating(batch, used, n_ubatch, sequential)
<1>1. ~(sequential /\ Coupled(batch)) /\ sets # <<>>
  BY DEF SplitEqual
<1> HIDE DEF sets
<1> QED
  BY <1>1, SplitEqualShape DEF sets

-----------------------------------------------------------------------------
(* Ubatches of entries that go together                                    *)

\* split_equal() returns entries of the batch whose sets are the same or apart.
LEMMA SplitEqualIs ==
    ASSUME NEW E, NEW batch \in Seq(E), NEW used, NEW n_ubatch \in Nat, NEW sequential, NEW tail \in 0 .. n_ubatch
    PROVE  /\ SplitEqual(batch, used, n_ubatch, sequential, tail) \in Seq(DOMAIN batch)
           /\ Together(batch, SplitEqual(batch, used, n_ubatch, sequential, tail))
<1> DEFINE p == SplitEqual(batch, used, n_ubatch, sequential, tail)
<1>1. CASE p = <<>>
  <2>1. p \in Seq(DOMAIN batch) /\ DOMAIN p = {}
    BY <1>1
  <2> QED
    BY <2>1 DEF Together
<1>2. CASE p # <<>>
  <2>1. PICK sets, n, k : TakenOf(batch, used, tail, sets, n, k, p)
    BY <1>2, SplitEqualTakes
  <2> DEFINE T == {batch[i].seqs : i \in DOMAIN batch}
             U == {i \in DOMAIN batch : \E s \in DOMAIN sets : batch[i].seqs = sets[s]}
             left == [s \in 1 .. n |-> Left(batch, used, sets[s])]
  <2> HIDE DEF p, T
  <2>2. /\ sets \in Seq(T) /\ Apart(sets) /\ n \in 1 .. Len(sets) /\ k \in Nat /\ p = Firsts(left, k)
        /\ \A s \in 1 .. n : k <= Len(left[s])
    BY <2>1 DEF TakenOf, T
  <2>3. n \in Nat /\ \A s \in 1 .. n : s \in DOMAIN sets
    <3>1. Len(sets) \in Nat /\ DOMAIN sets = 1 .. Len(sets)
      BY <2>2
    <3> QED
      BY <2>2, <3>1
  <2>4. ASSUME NEW s \in 1 .. n PROVE left[s] \in Seq(U)
    <3>1. left[s] = Among(Unused(batch, used), Of(batch, sets[s]))
      BY DEF Left
    <3>2. {t \in DOMAIN batch : t \in Of(batch, sets[s])} \subseteq U
      BY <2>3 DEF Of
    <3> HIDE DEF left, U
    <3>3. left[s] \in Seq({t \in DOMAIN batch : t \in Of(batch, sets[s])})
      BY <3>1, UnusedIs, AmongIs
    <3>4. \A R : R \subseteq U => Seq(R) \subseteq Seq(U)
      OBVIOUS
    <3> QED
      BY <3>2, <3>3, <3>4
  <2>5. left = [s \in 1 .. n |-> left[s]]
    OBVIOUS
  <2>6. \A i, j \in U : batch[i].seqs = batch[j].seqs \/ batch[i].seqs \cap batch[j].seqs = {}
    BY <2>2 DEF Apart
  <2>7. U \subseteq DOMAIN batch
    OBVIOUS
  <2> HIDE DEF U, left
  <2>8. left \in Seq(Seq(U)) /\ Len(left) = n
    <3> DEFINE Q == Seq(U)
    <3>1. \A s \in 1 .. n : left[s] \in Q
      BY <2>4
    <3> HIDE DEF Q
    <3>2. left \in Seq(Q)
      BY <2>3, <2>5, <3>1
    <3>3. DOMAIN left = 1 .. n
      BY <2>5
    <3>4. Len(left) = n
      BY <2>3, <3>2, <3>3
    <3> QED
      BY <3>2, <3>4 DEF Q
  <2>9. p \in Seq(U)
    <3>1. Len(left) \in Nat /\ \A s \in 1 .. Len(left) : left[s] \in Seq(U) /\ k <= Len(left[s])
      BY <2>2, <2>3, <2>4, <2>8
    <3> QED
      BY <2>2, <3>1, FirstsIs
  <2>10. p \in Seq(DOMAIN batch) /\ \A j \in DOMAIN p : p[j] \in U
    BY <2>7, <2>9
  <2> QED
    BY <2>6, <2>10 DEF p, Together
<1> QED
  BY <1>1, <1>2

\* The indices of ubatches that have something in them, and whose entries go together
TogetherParts(batch) == Seq({p \in Seq(DOMAIN batch) : p # <<>> /\ Together(batch, p)})
\* What the loop of the splits has: the parts so far and the entries that are used
TogetherSoFar(batch) == [parts : TogetherParts(batch), used : SUBSET DOMAIN batch]

\* Every entry of the batch that has sequences of another one has all of them.
Uncut(batch) == \A i, j \in DOMAIN batch : batch[i].seqs \subseteq batch[j].seqs => batch[i].seqs = batch[j].seqs

\* Without coupled tokens, split_seq() returns entries of one set of sequences.
LEMMA SplitSeqIs ==
    ASSUME NEW E, NEW batch \in Seq(E), NEW used, NEW n_ubatch, Uncut(batch)
    PROVE  /\ SplitSeq(batch, used, n_ubatch) \in Seq(DOMAIN batch)
           /\ Together(batch, SplitSeq(batch, used, n_ubatch))
<1> DEFINE left == Unused(batch, used)
           N == Len(left)
           U == DOMAIN batch
           c0 == <<>>
           Alike(x) == \A j, k \in DOMAIN x : batch[x[j]].seqs = batch[x[k]].seqs
           Goes(x, i) == \/ x = <<>>
                         \/ Len(x) < n_ubatch /\ batch[i].seqs \subseteq batch[Last(x)].seqs
           Step(n, x) == IF Goes(x, left[n]) THEN Append(x, left[n]) ELSE x
           G == [n \in 0 .. N |-> {x \in Seq(U) : Alike(x)}]
           h == [n \in 1 .. N |-> [x \in G[n - 1] |-> Step(n, x)]]
           f == CHOOSE f : f = [n \in 0 .. N |-> IF n = 0 THEN c0 ELSE Step(n, f[n - 1])]
<1>0. \A x, i : Goes(x, i) => x = <<>> \/ batch[i].seqs \subseteq batch[Last(x)].seqs
  OBVIOUS
<1> HIDE DEF Goes
<1>1. c0 \in G[0] /\ N \in Nat
  BY UnusedIs
<1>2. ASSUME NEW n \in 1 .. N, NEW x \in G[n - 1] PROVE Step(n, x) \in G[n]
  <2> DEFINE i == left[n]
  <2>1. n \in 0 .. N /\ x \in Seq(U) /\ Alike(x) /\ i \in U
    BY <1>1, UnusedIs
  <2>2. Step(n, x) = IF Goes(x, i) THEN Append(x, i) ELSE x
    OBVIOUS
  <2> HIDE DEF Step, left, i
  <2>3. ASSUME Goes(x, i) PROVE Append(x, i) \in Seq(U) /\ Alike(Append(x, i))
    <3>1. Append(x, i) \in Seq(U) /\ Len(Append(x, i)) = Len(x) + 1 /\ Len(x) \in Nat
          /\ DOMAIN x = 1 .. Len(x) /\ DOMAIN Append(x, i) = 1 .. Len(x) + 1
          /\ (\A k \in 1 .. Len(x) : Append(x, i)[k] = x[k]) /\ Append(x, i)[Len(x) + 1] = i
      BY <2>1
    <3>2. ASSUME NEW k \in DOMAIN x PROVE batch[x[k]].seqs = batch[i].seqs
      <4>1. x # <<>> /\ Len(x) \in DOMAIN x /\ Last(x) = x[Len(x)]
        BY <2>1, <3>1 DEF Last
      <4>2. batch[i].seqs \subseteq batch[x[Len(x)]].seqs
        BY <1>0, <2>3, <4>1
      <4>3. x[Len(x)] \in U
        BY <2>1, <4>1
      <4>4. batch[i].seqs = batch[x[Len(x)]].seqs
        BY <2>1, <4>2, <4>3 DEF Uncut
      <4> QED
        BY <2>1, <4>1, <4>4
    <3>3. \A k \in DOMAIN Append(x, i) : batch[Append(x, i)[k]].seqs = batch[i].seqs
      BY <3>1, <3>2
    <3> QED
      BY <3>1, <3>3
  <2>4. Step(n, x) \in Seq(U) /\ Alike(Step(n, x))
    BY <2>1, <2>2, <2>3
  <2> QED
    BY <2>1, <2>4
<1> HIDE DEF N, c0
<1> HIDE DEF Step, G
<1>3. \A n \in 1 .. N : \A x \in G[n - 1] : h[n][x] = Step(n, x) /\ h[n][x] \in G[n]
  BY <1>2
<1> HIDE DEF h
<1>4. PICK g : IsLoop(g, c0, h, G, N)
  BY <1>1, <1>3, LoopExists
<1>5. ASSUME NEW n \in 0 .. N PROVE g[n] = IF n = 0 THEN c0 ELSE Step(n, g[n - 1])
  <2>1. n # 0 => n \in 1 .. N
    BY <1>1
  <2> QED
    BY <1>3, <1>4, <2>1 DEF IsLoop, Runs
<1>6. f = [n \in 0 .. N |-> IF n = 0 THEN c0 ELSE Step(n, f[n - 1])]
  <2>1. g = [n \in 0 .. N |-> IF n = 0 THEN c0 ELSE Step(n, g[n - 1])]
    BY <1>4, <1>5 DEF IsLoop
  <2> QED
    BY <2>1
<1> HIDE DEF f
<1>7. f[0] \in G[0] /\ \A n \in 1 .. N : f[n - 1] \in G[n - 1] => f[n] \in G[n]
  <2>1. f[0] = c0
    BY <1>1, <1>6
  <2>2. ASSUME NEW n \in 1 .. N PROVE f[n] = Step(n, f[n - 1])
    <3>1. n \in 0 .. N /\ n # 0
      BY <1>1
    <3> QED
      BY <1>6, <3>1
  <2> QED
    BY <1>1, <1>2, <2>1, <2>2
<1>8. f[N] \in G[N]
  BY <1>1, <1>7, LoopReaches
<1>9. SplitSeq(batch, used, n_ubatch) = f[N]
  BY DEF SplitSeq, f, Step, N, c0, Goes
<1>10. f[N] \in Seq(U) /\ Alike(f[N])
  BY <1>1, <1>8 DEF G
<1>11. Together(batch, f[N])
  BY <1>10 DEF Together
<1> QED
  BY <1>9, <1>10, <1>11

\* So every ubatch of split_equal() has entries that go together.
LEMMA AllEqualIsTogether ==
    ASSUME NEW E, NEW batch \in Seq(E), NEW n_ubatch \in Nat, NEW sequential, NEW tail \in 0 .. n_ubatch
    PROVE  AllEqual(batch, n_ubatch, sequential, tail) \in TogetherParts(batch)
<1> DEFINE N == Len(batch)
           c0 == [parts |-> <<>>, used |-> {}]
           Cut(used) == SplitEqual(batch, used, n_ubatch, sequential, tail)
           Step(n, x) == IF Cut(x.used) = <<>> THEN x
                         ELSE [parts |-> Append(x.parts, Cut(x.used)), used |-> x.used \cup ToSet(Cut(x.used))]
           G == [n \in 0 .. N |-> TogetherSoFar(batch)]
           h == [n \in 1 .. N |-> [x \in G[n - 1] |-> Step(n, x)]]
           f == CHOOSE f : f = [n \in 0 .. N |-> IF n = 0 THEN c0 ELSE Step(n, f[n - 1])]
<1>1. c0 \in G[0] /\ N \in Nat
  <2>1. <<>> \in TogetherParts(batch) /\ N \in Nat
    BY DEF TogetherParts
  <2>2. c0 \in TogetherSoFar(batch)
    BY <2>1 DEF TogetherSoFar
  <2> QED
    BY <2>1, <2>2
<1>2. ASSUME NEW n \in 1 .. N, NEW x \in G[n - 1] PROVE Step(n, x) \in G[n]
  <2>1. n \in 0 .. N /\ x \in TogetherSoFar(batch)
    BY <1>1
  <2> DEFINE next == Cut(x.used)
  <2>2. next \in Seq(DOMAIN batch) /\ Together(batch, next)
    BY SplitEqualIs
  <2>3. Step(n, x) = IF next = <<>> THEN x ELSE [parts |-> Append(x.parts, next), used |-> x.used \cup ToSet(next)]
    OBVIOUS
  <2> HIDE DEF Step, next
  <2>4. CASE next # <<>>
    <3>1. Append(x.parts, next) \in TogetherParts(batch)
      BY <2>1, <2>2, <2>4 DEF TogetherParts, TogetherSoFar
    <3>2. ToSet(next) \in SUBSET DOMAIN batch
      BY <2>2 DEF ToSet
    <3>3. Step(n, x) \in TogetherSoFar(batch)
      BY <2>1, <2>3, <2>4, <3>1, <3>2 DEF TogetherSoFar
    <3> QED
      BY <2>1, <3>3
  <2>5. CASE next = <<>>
    BY <2>1, <2>3, <2>5
  <2> QED
    BY <2>4, <2>5
<1> HIDE DEF N, c0, Cut
<1> HIDE DEF Step, G
<1>3. \A n \in 1 .. N : \A x \in G[n - 1] : h[n][x] = Step(n, x) /\ h[n][x] \in G[n]
  BY <1>2
<1> HIDE DEF h
<1>4. PICK g : IsLoop(g, c0, h, G, N)
  BY <1>1, <1>3, LoopExists
<1>5. ASSUME NEW n \in 0 .. N PROVE g[n] = IF n = 0 THEN c0 ELSE Step(n, g[n - 1])
  <2>1. n # 0 => n \in 1 .. N
    BY <1>1
  <2> QED
    BY <1>3, <1>4, <2>1 DEF IsLoop, Runs
<1>6. f = [n \in 0 .. N |-> IF n = 0 THEN c0 ELSE Step(n, f[n - 1])]
  <2>1. g = [n \in 0 .. N |-> IF n = 0 THEN c0 ELSE Step(n, g[n - 1])]
    BY <1>4, <1>5 DEF IsLoop
  <2> QED
    BY <2>1
<1> HIDE DEF f
<1>7. f[0] \in G[0] /\ \A n \in 1 .. N : f[n - 1] \in G[n - 1] => f[n] \in G[n]
  <2>1. f[0] = c0
    BY <1>1, <1>6
  <2>2. ASSUME NEW n \in 1 .. N PROVE f[n] = Step(n, f[n - 1])
    <3>1. n \in 0 .. N /\ n # 0
      BY <1>1
    <3> QED
      BY <1>6, <3>1
  <2> QED
    BY <1>1, <1>2, <2>1, <2>2
<1>8. f[N] \in G[N]
  BY <1>1, <1>7, LoopReaches
<1>9. AllEqual(batch, n_ubatch, sequential, tail) = f[N].parts
  BY DEF AllEqual, Ubatches, f, Step, N, c0, Cut
<1>10. f[N] \in TogetherSoFar(batch)
  BY <1>1, <1>8 DEF G
<1> QED
  BY <1>9, <1>10 DEF TogetherSoFar

\* So every ubatch of split_seq() has entries that go together.
LEMMA AllSeqIsTogether ==
    ASSUME NEW E, NEW batch \in Seq(E), NEW n_ubatch, Uncut(batch)
    PROVE  AllSeq(batch, n_ubatch) \in TogetherParts(batch)
<1> DEFINE N == Len(batch)
           c0 == [parts |-> <<>>, used |-> {}]
           Cut(used) == SplitSeq(batch, used, n_ubatch)
           Step(n, x) == IF Cut(x.used) = <<>> THEN x
                         ELSE [parts |-> Append(x.parts, Cut(x.used)), used |-> x.used \cup ToSet(Cut(x.used))]
           G == [n \in 0 .. N |-> TogetherSoFar(batch)]
           h == [n \in 1 .. N |-> [x \in G[n - 1] |-> Step(n, x)]]
           f == CHOOSE f : f = [n \in 0 .. N |-> IF n = 0 THEN c0 ELSE Step(n, f[n - 1])]
<1>1. c0 \in G[0] /\ N \in Nat
  <2>1. <<>> \in TogetherParts(batch) /\ N \in Nat
    BY DEF TogetherParts
  <2>2. c0 \in TogetherSoFar(batch)
    BY <2>1 DEF TogetherSoFar
  <2> QED
    BY <2>1, <2>2
<1>2. ASSUME NEW n \in 1 .. N, NEW x \in G[n - 1] PROVE Step(n, x) \in G[n]
  <2>1. n \in 0 .. N /\ x \in TogetherSoFar(batch)
    BY <1>1
  <2> DEFINE next == Cut(x.used)
  <2>2. next \in Seq(DOMAIN batch) /\ Together(batch, next)
    BY SplitSeqIs
  <2>3. Step(n, x) = IF next = <<>> THEN x ELSE [parts |-> Append(x.parts, next), used |-> x.used \cup ToSet(next)]
    OBVIOUS
  <2> HIDE DEF Step, next
  <2>4. CASE next # <<>>
    <3>1. Append(x.parts, next) \in TogetherParts(batch)
      BY <2>1, <2>2, <2>4 DEF TogetherParts, TogetherSoFar
    <3>2. ToSet(next) \in SUBSET DOMAIN batch
      BY <2>2 DEF ToSet
    <3>3. Step(n, x) \in TogetherSoFar(batch)
      BY <2>1, <2>3, <2>4, <3>1, <3>2 DEF TogetherSoFar
    <3> QED
      BY <2>1, <3>3
  <2>5. CASE next = <<>>
    BY <2>1, <2>3, <2>5
  <2> QED
    BY <2>4, <2>5
<1> HIDE DEF N, c0, Cut
<1> HIDE DEF Step, G
<1>3. \A n \in 1 .. N : \A x \in G[n - 1] : h[n][x] = Step(n, x) /\ h[n][x] \in G[n]
  BY <1>2
<1> HIDE DEF h
<1>4. PICK g : IsLoop(g, c0, h, G, N)
  BY <1>1, <1>3, LoopExists
<1>5. ASSUME NEW n \in 0 .. N PROVE g[n] = IF n = 0 THEN c0 ELSE Step(n, g[n - 1])
  <2>1. n # 0 => n \in 1 .. N
    BY <1>1
  <2> QED
    BY <1>3, <1>4, <2>1 DEF IsLoop, Runs
<1>6. f = [n \in 0 .. N |-> IF n = 0 THEN c0 ELSE Step(n, f[n - 1])]
  <2>1. g = [n \in 0 .. N |-> IF n = 0 THEN c0 ELSE Step(n, g[n - 1])]
    BY <1>4, <1>5 DEF IsLoop
  <2> QED
    BY <2>1
<1> HIDE DEF f
<1>7. f[0] \in G[0] /\ \A n \in 1 .. N : f[n - 1] \in G[n - 1] => f[n] \in G[n]
  <2>1. f[0] = c0
    BY <1>1, <1>6
  <2>2. ASSUME NEW n \in 1 .. N PROVE f[n] = Step(n, f[n - 1])
    <3>1. n \in 0 .. N /\ n # 0
      BY <1>1
    <3> QED
      BY <1>6, <3>1
  <2> QED
    BY <1>1, <1>2, <2>1, <2>2
<1>8. f[N] \in G[N]
  BY <1>1, <1>7, LoopReaches
<1>9. AllSeq(batch, n_ubatch) = f[N].parts
  BY DEF AllSeq, Ubatches, f, Step, N, c0, Cut
<1>10. f[N] \in TogetherSoFar(batch)
  BY <1>1, <1>8 DEF G
<1> QED
  BY <1>9, <1>10 DEF TogetherSoFar

-----------------------------------------------------------------------------
(* How many entries of each sequence a ubatch has                          *)

\* The entries of a ubatch that have the sequences S
Share(batch, p, S) == ToSet(p) \cap Of(batch, S)
\* They are as many for all the sets that are in the ubatch.
Even(batch, p) ==
    /\ p \in Seq(DOMAIN batch) /\ NoRepeats(p)
    /\ \A R, S : Share(batch, p, R) # {} /\ Share(batch, p, S) # {}
                 => Cardinality(Share(batch, p, R)) = Cardinality(Share(batch, p, S))
\* Of the entries with the sequences S, none are left, or a tail.
TailLeft(batch, used, tail, S) == Of(batch, S) \subseteq used \/ Cardinality(Of(batch, S) \ used) >= tail

\* Every entry has a sequence.
Owned(batch) == \A i \in DOMAIN batch : batch[i].seqs # {}

\* The ubatch p takes unused entries only, as many of each set, and leaves a tail of them, if any.
Shares(batch, used, tail, p) ==
    /\ Even(batch, p) /\ ToSet(p) \subseteq DOMAIN batch \ used
    /\ \A S : Share(batch, p, S) # {} => TailLeft(batch, used \cup ToSet(p), tail, S)

\* Every set that takes part in a ubatch of split_equal() has as many entries there, and a tail of
\* them left, if any.
LEMMA SplitEqualShares ==
    ASSUME NEW E, NEW batch \in Seq(E), Owned(batch), NEW used, NEW n_ubatch \in Nat,
           NEW sequential, NEW tail \in 1 .. n_ubatch, NEW p, p = SplitEqual(batch, used, n_ubatch, sequential, tail), p # <<>>
    PROVE  Shares(batch, used, tail, p)
<1>1. tail \in 0 .. n_ubatch /\ tail > 0
  OBVIOUS
<1>2. PICK sets, n, k : TakenOf(batch, used, tail, sets, n, k, p)
  BY <1>1, SplitEqualTakes
<1> DEFINE left == [s \in 1 .. n |-> Left(batch, used, sets[s])]
           Pre(s) == SubSeq(left[s], 1, k)
           Q == {batch[i].seqs : i \in DOMAIN batch}
<1>3. /\ sets \in Seq(Q) /\ Apart(sets) /\ n \in 1 .. Len(sets) /\ k \in Nat /\ p = Firsts(left, k)
      /\ \A s \in 1 .. n : k <= Len(left[s]) /\ (Len(left[s]) - k = 0 \/ Len(left[s]) - k >= tail)
  <2>1. /\ sets \in Seq(Q) /\ Apart(sets) /\ n \in 1 .. Len(sets) /\ k \in Nat
        /\ p = Firsts([s \in 1 .. n |-> Left(batch, used, sets[s])], k)
    BY <1>2 DEF TakenOf
  <2>2. \A s \in 1 .. n : left[s] = Left(batch, used, sets[s])
    OBVIOUS
  <2>3. \A s \in 1 .. n : k <= Len(Left(batch, used, sets[s]))
    BY <1>2 DEF TakenOf
  <2>4. \A s \in 1 .. n : Len(Left(batch, used, sets[s])) - k = 0 \/ Len(Left(batch, used, sets[s])) - k >= tail
    BY <1>1, <1>2 DEF TakenOf
  <2> HIDE DEF Q
  <2> QED
    BY <2>1, <2>2, <2>3, <2>4
<1>4. \A R \in Q : R # {}
  BY DEF Owned
<1>5. n \in Nat /\ \A s \in 1 .. n : s \in DOMAIN sets /\ sets[s] \in Q
  <2> HIDE DEF Q
  <2>1. Len(sets) \in Nat /\ DOMAIN sets = 1 .. Len(sets)
    BY <1>3
  <2>2. n \in Nat /\ n <= Len(sets)
    BY <1>3, <2>1
  <2>3. \A s \in 1 .. n : s \in DOMAIN sets
    BY <2>1, <2>2
  <2> QED
    BY <1>3, <2>2, <2>3
<1>6. \A j, s \in 1 .. n : j # s => sets[j] # sets[s]
  <2> HIDE DEF Q
  <2> QED
    BY <1>3, <1>4, <1>5 DEF Apart
<1>7. /\ DOMAIN left = 1 .. n
      /\ \A s \in 1 .. n : /\ left[s] \in Seq(DOMAIN batch) /\ NoRepeats(left[s])
                           /\ ToSet(left[s]) = Of(batch, sets[s]) \ used
                           /\ Len(left[s]) = Cardinality(Of(batch, sets[s]) \ used) /\ Len(left[s]) \in Nat
  BY LeftHas
<1> HIDE DEF Q
<1>8. left = [s \in 1 .. n |-> left[s]]
  OBVIOUS
<1> HIDE DEF left
<1>9. Len(left) = n
  <2> DEFINE U == Seq(DOMAIN batch)
  <2>1. \A s \in 1 .. n : left[s] \in U
    BY <1>7
  <2> HIDE DEF U
  <2>2. left \in Seq(U)
    BY <1>5, <1>8, <2>1
  <2> QED
    BY <1>5, <1>7, <2>2
<1>10. \A s \in 1 .. n : /\ ToSet(Pre(s)) \subseteq Of(batch, sets[s]) \ used /\ Cardinality(ToSet(Pre(s))) = k
  <2> SUFFICES ASSUME NEW s \in 1 .. n
               PROVE  ToSet(Pre(s)) \subseteq Of(batch, sets[s]) \ used /\ Cardinality(ToSet(Pre(s))) = k
    OBVIOUS
  <2> DEFINE D == DOMAIN batch
             l == left[s]
  <2>1. l \in Seq(D) /\ NoRepeats(l) /\ k \in Nat /\ k <= Len(l) /\ ToSet(l) = Of(batch, sets[s]) \ used
    BY <1>3, <1>7
  <2> HIDE DEF D, l
  <2>2. ToSet(SubSeq(l, 1, k)) \subseteq ToSet(l) /\ Cardinality(ToSet(SubSeq(l, 1, k))) = k
    BY <2>1, Beginning
  <2> QED
    BY <2>1, <2>2 DEF l
<1>11. \A j, s \in 1 .. n : j # s => Of(batch, sets[j]) \cap Of(batch, sets[s]) = {}
  BY <1>6 DEF Of
<1>12. p \in Seq(DOMAIN batch) /\ NoRepeats(p) /\ ToSet(p) = UNION {ToSet(Pre(s)) : s \in 1 .. n}
  <2>1. \A j, s \in 1 .. n : j # s => ToSet(left[j]) \cap ToSet(left[s]) = {}
    <3> SUFFICES ASSUME NEW j \in 1 .. n, NEW s \in 1 .. n, j # s PROVE ToSet(left[j]) \cap ToSet(left[s]) = {}
      OBVIOUS
    <3>1. ToSet(left[j]) \subseteq Of(batch, sets[j]) /\ ToSet(left[s]) \subseteq Of(batch, sets[s])
      BY <1>7
    <3>2. Of(batch, sets[j]) \cap Of(batch, sets[s]) = {}
      BY <1>11
    <3> QED
      BY <3>1, <3>2
  <2>2. \A s \in 1 .. n : left[s] \in Seq(DOMAIN batch) /\ NoRepeats(left[s]) /\ k <= Len(left[s])
    BY <1>3, <1>7
  <2> DEFINE D == DOMAIN batch
             U == UNION {ToSet(SubSeq(left[s], 1, k)) : s \in 1 .. Len(left)}
  <2>3. /\ Len(left) \in Nat /\ k \in Nat /\ p = Firsts(left, k)
        /\ \A s \in 1 .. Len(left) : left[s] \in Seq(D) /\ NoRepeats(left[s]) /\ k <= Len(left[s])
        /\ \A j, s \in 1 .. Len(left) : j # s => ToSet(left[j]) \cap ToSet(left[s]) = {}
    BY <1>3, <1>5, <1>9, <2>1, <2>2
  <2> HIDE DEF D
  <2>4. Firsts(left, k) \in Seq(D) /\ NoRepeats(Firsts(left, k)) /\ ToSet(Firsts(left, k)) = U
    BY <2>3, FirstsHas
  <2>5. U = UNION {ToSet(Pre(s)) : s \in 1 .. n}
    BY <1>9
  <2> HIDE DEF U
  <2> QED
    BY <2>3, <2>4, <2>5 DEF D
<1> HIDE DEF Pre
<1>13. ASSUME NEW s \in 1 .. n PROVE Share(batch, p, sets[s]) = ToSet(Pre(s))
  <2>1. \A j \in 1 .. n : j # s => ToSet(Pre(j)) \cap Of(batch, sets[s]) = {}
    BY <1>10, <1>11
  <2> QED
    BY <1>10, <1>12, <2>1 DEF Share
<1>14. ASSUME NEW S, Share(batch, p, S) # {} PROVE \E s \in 1 .. n : S = sets[s]
  <2>1. PICK i : i \in ToSet(p) /\ i \in Of(batch, S)
    BY <1>14 DEF Share
  <2>2. PICK s \in 1 .. n : i \in ToSet(Pre(s))
    BY <1>12, <2>1
  <2>3. i \in Of(batch, sets[s])
    BY <1>10, <2>2
  <2> QED
    BY <2>1, <2>3 DEF Of
<1>15. Even(batch, p)
  <2> SUFFICES ASSUME NEW R, NEW S, Share(batch, p, R) # {}, Share(batch, p, S) # {}
               PROVE  Cardinality(Share(batch, p, R)) = Cardinality(Share(batch, p, S))
    BY <1>12 DEF Even
  <2>1. PICK j \in 1 .. n : R = sets[j]
    BY <1>14
  <2>2. PICK s \in 1 .. n : S = sets[s]
    BY <1>14
  <2> QED
    BY <1>10, <1>13, <2>1, <2>2
<1>16. ToSet(p) \subseteq DOMAIN batch \ used
  <2>1. \A s \in 1 .. n : ToSet(Pre(s)) \subseteq DOMAIN batch \ used
    BY <1>10 DEF Of
  <2> QED
    BY <1>12, <2>1
<1>17. ASSUME NEW S, Share(batch, p, S) # {} PROVE TailLeft(batch, used \cup ToSet(p), tail, S)
  <2>1. PICK s \in 1 .. n : S = sets[s]
    BY <1>14, <1>17
  <2> DEFINE A == Of(batch, S) \ used
             B == ToSet(Pre(s))
  <2>2. Of(batch, S) \ (used \cup ToSet(p)) = A \ B
    BY <1>13, <2>1 DEF Share
  <2>3. B \subseteq A /\ Cardinality(B) = k /\ Cardinality(A) = Len(left[s]) /\ Len(left[s]) \in Nat
    BY <1>7, <1>10, <2>1
  <2>4. IsFiniteSet(A)
    <3>1. ToSet(left[s]) = A /\ left[s] \in Seq(DOMAIN batch) /\ NoRepeats(left[s])
      BY <1>7, <2>1
    <3> QED
      BY <3>1, DistinctLength
  <2>5. \A x : x \in Of(batch, S) /\ x \notin used \cup ToSet(p) => x \in A \ B
    BY <2>2
  <2> HIDE DEF A, B
  <2>6. IsFiniteSet(A \ B) /\ Cardinality(A \ B) = Cardinality(A) - Cardinality(B)
    <3>1. B \in SUBSET A
      BY <2>3
    <3>2. A \cap B = B
      BY <3>1
    <3>3. IsFiniteSet(A \ B) /\ Cardinality(A \ B) = Cardinality(A) - Cardinality(A \cap B)
      BY <2>4, FS_Difference
    <3> QED
      BY <3>2, <3>3
  <2>7. CASE Len(left[s]) - k = 0
    <3>1. Cardinality(A \ B) = 0
      BY <2>3, <2>6, <2>7
    <3>2. A \ B = {}
      BY <2>6, <3>1, FS_EmptySet
    <3> QED
      BY <2>5, <3>2 DEF TailLeft
  <2>8. CASE Len(left[s]) - k >= tail
    BY <2>2, <2>3, <2>6, <2>8 DEF TailLeft
  <2> QED
    BY <1>3, <2>7, <2>8
<1> QED
  BY <1>15, <1>16, <1>17 DEF Shares

\* Of every set of sequences nothing is used yet, or nothing is left, or a tail; and what is in
\* the last ubatch with these sequences is all that there is, or a tail.
TailsTogether(batch, parts, tail) ==
    /\ \A n \in DOMAIN parts : Even(batch, parts[n])
    /\ \A S : Of(batch, S) \cap UsedIn(parts) = {} \/ TailLeft(batch, UsedIn(parts), tail, S)
    /\ \A n \in DOMAIN parts : \A S :
          /\ Share(batch, parts[n], S) # {} /\ Of(batch, S) \subseteq UsedIn(parts)
          /\ \A l \in DOMAIN parts : l > n => Share(batch, parts[l], S) = {}
          => Share(batch, parts[n], S) = Of(batch, S) \/ Cardinality(Share(batch, parts[n], S)) >= tail

\* So it is with one more ubatch.
LEMMA TailsStep ==
    ASSUME NEW T, NEW batch, NEW parts \in Seq(T), NEW tail, TailsTogether(batch, parts, tail), NEW p \in T, Even(batch, p),
           ToSet(p) \cap UsedIn(parts) = {},
           \A S : Share(batch, p, S) # {} => TailLeft(batch, UsedIn(parts) \cup ToSet(p), tail, S)
    PROVE  /\ UsedIn(Append(parts, p)) = UsedIn(parts) \cup ToSet(p)
           /\ TailsTogether(batch, Append(parts, p), tail)
<1> DEFINE N == Len(parts)
           new == Append(parts, p)
           used == UsedIn(parts)
           now == UsedIn(new)
<1>1. /\ N \in Nat /\ DOMAIN parts = 1 .. N /\ DOMAIN new = 1 .. N + 1
      /\ (\A n \in 1 .. N : new[n] = parts[n]) /\ new[N + 1] = p
  OBVIOUS
<1> HIDE DEF N, new
<1>2. /\ \A n \in 1 .. N + 1 : n \in 1 .. N \/ n = N + 1
      /\ N + 1 \in 1 .. N + 1 /\ \A n \in 1 .. N : n \in 1 .. N + 1 /\ N + 1 > n /\ n # N + 1
  BY <1>1
<1>3. now = used \cup ToSet(p)
  <2>1. \A n \in DOMAIN new : ToSet(new[n]) \subseteq used \cup ToSet(p)
    BY <1>1, <1>2 DEF UsedIn
  <2>2. \A n \in DOMAIN parts : ToSet(parts[n]) = ToSet(new[n]) /\ n \in DOMAIN new
    BY <1>1, <1>2
  <2>3. ToSet(p) = ToSet(new[N + 1]) /\ N + 1 \in DOMAIN new
    BY <1>1, <1>2
  <2>4. used \subseteq now
    BY <2>2 DEF UsedIn
  <2>5. ToSet(p) \subseteq now
    BY <2>3 DEF UsedIn
  <2>6. now \subseteq used \cup ToSet(p)
    BY <2>1 DEF UsedIn
  <2> QED
    BY <2>4, <2>5, <2>6
<1> HIDE DEF used, now
<1>4. /\ \A n \in 1 .. N : Even(batch, parts[n])
      /\ \A S : Of(batch, S) \cap used = {} \/ TailLeft(batch, used, tail, S)
      /\ \A n \in 1 .. N : \A S :
          /\ Share(batch, parts[n], S) # {} /\ Of(batch, S) \subseteq used
          /\ \A l \in 1 .. N : l > n => Share(batch, parts[l], S) = {}
          => Share(batch, parts[n], S) = Of(batch, S) \/ Cardinality(Share(batch, parts[n], S)) >= tail
  BY <1>1 DEF TailsTogether, used
<1>5. ToSet(p) \cap used = {} /\ \A S : Share(batch, p, S) # {} => TailLeft(batch, now, tail, S)
  BY <1>3 DEF used
<1>6. \A n \in 1 .. N + 1 : Even(batch, new[n])
  BY <1>1, <1>2, <1>4
<1>7. ASSUME NEW S PROVE Of(batch, S) \cap now = {} \/ TailLeft(batch, now, tail, S)
  <2>1. CASE Share(batch, p, S) # {}
    BY <1>5, <2>1
  <2>2. CASE Share(batch, p, S) = {}
    <3>1. Of(batch, S) \cap now = Of(batch, S) \cap used /\ Of(batch, S) \ now = Of(batch, S) \ used
      BY <1>3, <2>2 DEF Share
    <3>2. Of(batch, S) \subseteq used => Of(batch, S) \subseteq now
      BY <1>3
    <3> QED
      BY <1>4, <3>1, <3>2 DEF TailLeft
  <2> QED
    BY <2>1, <2>2
<1>8. ASSUME NEW n \in 1 .. N + 1, NEW S, Share(batch, new[n], S) # {}, Of(batch, S) \subseteq now,
             \A l \in 1 .. N + 1 : l > n => Share(batch, new[l], S) = {}
      PROVE  Share(batch, new[n], S) = Of(batch, S) \/ Cardinality(Share(batch, new[n], S)) >= tail
  <2>1. CASE n \in 1 .. N
    <3>1. Share(batch, p, S) = {}
      BY <1>1, <1>2, <1>8, <2>1
    <3>2. Of(batch, S) \subseteq used
      BY <1>3, <1>8, <3>1 DEF Share
    <3>3. \A l \in 1 .. N : l > n => Share(batch, parts[l], S) = {}
      BY <1>1, <1>2, <1>8
    <3>4. new[n] = parts[n]
      BY <1>1, <2>1
    <3> QED
      BY <1>4, <1>8, <2>1, <3>2, <3>3, <3>4
  <2>2. CASE n = N + 1
    <3>1. new[n] = p
      BY <1>1, <2>2
    <3>2. CASE Of(batch, S) \cap used = {}
      <4>1. Share(batch, p, S) = Of(batch, S)
        BY <1>3, <1>8, <3>2 DEF Share
      <4> QED
        BY <3>1, <4>1
    <3>3. CASE Of(batch, S) \subseteq used
      BY <1>5, <1>8, <3>1, <3>3 DEF Share
    <3>4. CASE Cardinality(Of(batch, S) \ used) >= tail
      <4>1. Share(batch, p, S) = Of(batch, S) \ used
        BY <1>3, <1>5, <1>8 DEF Share
      <4> QED
        BY <3>1, <3>4, <4>1
    <3> QED
      BY <1>4, <3>2, <3>3, <3>4 DEF TailLeft
  <2> QED
    BY <1>2, <2>1, <2>2
<1>9. TailsTogether(batch, new, tail)
  BY <1>1, <1>6, <1>7, <1>8 DEF TailsTogether, now
<1> QED
  BY <1>3, <1>9 DEF new, now, used

\* What the loop of split_equal() has
TailsSoFar(batch, tail) ==
    {x \in [parts : Seq(Seq(DOMAIN batch)), used : SUBSET DOMAIN batch] :
       x.used = UsedIn(x.parts) /\ TailsTogether(batch, x.parts, tail)}

\* So split_equal() keeps the last tail entries of each set together.
LEMMA AllEqualKeepsTails ==
    ASSUME NEW E, NEW batch \in Seq(E), Owned(batch), NEW n_ubatch \in Nat,
           NEW sequential, NEW tail \in 1 .. n_ubatch
    PROVE  TailsTogether(batch, AllEqual(batch, n_ubatch, sequential, tail), tail)
<1> DEFINE N == Len(batch)
           c0 == [parts |-> <<>>, used |-> {}]
           NextPart(used) == SplitEqual(batch, used, n_ubatch, sequential, tail)
           Step(n, x) == IF NextPart(x.used) = <<>> THEN x
                         ELSE [parts |-> Append(x.parts, NextPart(x.used)), used |-> x.used \cup ToSet(NextPart(x.used))]
           G == [n \in 0 .. N |-> TailsSoFar(batch, tail)]
           h == [n \in 1 .. N |-> [x \in G[n - 1] |-> Step(n, x)]]
           f == CHOOSE f : f = [n \in 0 .. N |-> IF n = 0 THEN c0 ELSE Step(n, f[n - 1])]
<1>1. c0 \in G[0] /\ N \in Nat
  <2>1. <<>> \in Seq(Seq(DOMAIN batch)) /\ N \in Nat /\ DOMAIN <<>> = {}
    OBVIOUS
  <2>2. UsedIn(<<>>) = {}
    BY <2>1 DEF UsedIn
  <2>3. TailsTogether(batch, <<>>, tail)
    BY <2>1, <2>2 DEF TailsTogether
  <2>4. c0 \in TailsSoFar(batch, tail)
    BY <2>1, <2>2, <2>3 DEF TailsSoFar
  <2> QED
    BY <2>1, <2>4
<1>s. ASSUME NEW used, NEW p, p = SplitEqual(batch, used, n_ubatch, sequential, tail), p # <<>>
      PROVE  Shares(batch, used, tail, p)
  BY <1>s, SplitEqualShares
<1>2. ASSUME NEW n \in 1 .. N, NEW x \in G[n - 1] PROVE Step(n, x) \in G[n]
  <2>1. n \in 0 .. N /\ x \in TailsSoFar(batch, tail)
    BY <1>1
  <2> DEFINE next == NextPart(x.used)
             T == Seq(DOMAIN batch)
  <2>2. Step(n, x) = IF next = <<>> THEN x ELSE [parts |-> Append(x.parts, next), used |-> x.used \cup ToSet(next)]
    OBVIOUS
  <2>3. next # <<>> => /\ Even(batch, next) /\ ToSet(next) \subseteq DOMAIN batch \ x.used
                       /\ \A S : Share(batch, next, S) # {} => TailLeft(batch, x.used \cup ToSet(next), tail, S)
    BY <1>s DEF Shares
  <2> HIDE DEF Step, next
  <2>4. CASE next # <<>>
    <3>1. x.parts \in Seq(T) /\ x.used \in SUBSET DOMAIN batch /\ x.used = UsedIn(x.parts) /\ TailsTogether(batch, x.parts, tail)
      BY <2>1 DEF TailsSoFar
    <3>2. next \in T /\ Even(batch, next) /\ ToSet(next) \cap x.used = {} /\ ToSet(next) \subseteq DOMAIN batch
      BY <2>3, <2>4 DEF Even
    <3> HIDE DEF T
    <3>3. UsedIn(Append(x.parts, next)) = x.used \cup ToSet(next) /\ TailsTogether(batch, Append(x.parts, next), tail)
      <4>1. \A S : Share(batch, next, S) # {} => TailLeft(batch, UsedIn(x.parts) \cup ToSet(next), tail, S)
        BY <2>3, <2>4, <3>1
      <4> DEFINE parts == x.parts
      <4>2. /\ parts \in Seq(T) /\ TailsTogether(batch, parts, tail) /\ ToSet(next) \cap UsedIn(parts) = {}
            /\ \A S : Share(batch, next, S) # {} => TailLeft(batch, UsedIn(parts) \cup ToSet(next), tail, S)
        BY <3>1, <3>2, <4>1
      <4> HIDE DEF parts
      <4>3. UsedIn(Append(parts, next)) = UsedIn(parts) \cup ToSet(next) /\ TailsTogether(batch, Append(parts, next), tail)
        BY <3>2, <4>2, TailsStep
      <4> QED
        BY <3>1, <4>3 DEF parts
    <3>4. Append(x.parts, next) \in Seq(T)
      BY <3>1, <3>2
    <3> DEFINE y == [parts |-> Append(x.parts, next), used |-> x.used \cup ToSet(next)]
    <3>5. y.parts = Append(x.parts, next) /\ y.used = x.used \cup ToSet(next)
          /\ y \in [parts : Seq(T), used : SUBSET DOMAIN batch]
      BY <3>1, <3>2, <3>4
    <3> HIDE DEF y
    <3>6. y \in TailsSoFar(batch, tail)
      BY <3>3, <3>5 DEF TailsSoFar, T
    <3> QED
      BY <2>1, <2>2, <2>4, <3>6 DEF y
  <2>5. CASE next = <<>>
    BY <2>1, <2>2, <2>5
  <2> QED
    BY <2>4, <2>5
<1> HIDE DEF N, c0, NextPart
<1> HIDE DEF Step, G
<1>3. \A n \in 1 .. N : \A x \in G[n - 1] : h[n][x] = Step(n, x) /\ h[n][x] \in G[n]
  BY <1>2
<1> HIDE DEF h
<1>4. PICK g : IsLoop(g, c0, h, G, N)
  BY <1>1, <1>3, LoopExists
<1>5. ASSUME NEW n \in 0 .. N PROVE g[n] = IF n = 0 THEN c0 ELSE Step(n, g[n - 1])
  <2>1. n # 0 => n \in 1 .. N
    BY <1>1
  <2> QED
    BY <1>3, <1>4, <2>1 DEF IsLoop, Runs
<1>6. f = [n \in 0 .. N |-> IF n = 0 THEN c0 ELSE Step(n, f[n - 1])]
  <2>1. g = [n \in 0 .. N |-> IF n = 0 THEN c0 ELSE Step(n, g[n - 1])]
    BY <1>4, <1>5 DEF IsLoop
  <2> QED
    BY <2>1
<1> HIDE DEF f
<1>7. f[0] \in G[0] /\ \A n \in 1 .. N : f[n - 1] \in G[n - 1] => f[n] \in G[n]
  <2>1. f[0] = c0
    BY <1>1, <1>6
  <2>2. ASSUME NEW n \in 1 .. N PROVE f[n] = Step(n, f[n - 1])
    <3>1. n \in 0 .. N /\ n # 0
      BY <1>1
    <3> QED
      BY <1>6, <3>1
  <2> QED
    BY <1>1, <1>2, <2>1, <2>2
<1>8. f[N] \in G[N]
  BY <1>1, <1>7, LoopReaches
<1>9. AllEqual(batch, n_ubatch, sequential, tail) = f[N].parts
  BY DEF AllEqual, Ubatches, f, Step, N, c0, NextPart
<1>10. f[N] \in TailsSoFar(batch, tail)
  BY <1>1, <1>8 DEF G
<1> QED
  BY <1>9, <1>10 DEF TailsSoFar

-----------------------------------------------------------------------------
(* Cutting a batch keeps every entry, once and in order                    *)

\* A sequence that goes up
Rising(s) == \A j, k \in DOMAIN s : j < k => s[j] < s[k]

\* Two tokens have a sequence in common.
Overlap(batch, i, j) == batch[i].seqs \cap batch[j].seqs # {}

\* Whatever entry i comes before the k-th of p and has a sequence of it, is used, or before it in p.
KeepsOrder(batch, used, p) ==
    \A k \in DOMAIN p : \A i \in DOMAIN batch :
        i < p[k] /\ Overlap(batch, i, p[k]) => i \in used \/ \E l \in DOMAIN p : l < k /\ p[l] = i

\* p is a ubatch after the entries used.
GoodCut(batch, used, p) ==
    /\ p \in Seq(DOMAIN batch) /\ NoRepeats(p) /\ ToSet(p) \cap used = {}
    /\ used = DOMAIN batch \/ p # <<>>
    /\ KeepsOrder(batch, used, p)

\* Ubatches that have taken the entries used
GoodParts(batch, parts, used) ==
    /\ parts \in Seq(Seq(DOMAIN batch)) /\ used = UsedIn(parts)
    /\ \A u \in DOMAIN parts : NoRepeats(parts[u])
    /\ \A u, v \in DOMAIN parts : u < v => ToSet(parts[u]) \cap ToSet(parts[v]) = {}
    /\ \A v \in DOMAIN parts : \A k \in DOMAIN parts[v] : \A i \in DOMAIN batch :
          i < parts[v][k] /\ Overlap(batch, i, parts[v][k])
          => \/ \E u \in DOMAIN parts : u < v /\ i \in ToSet(parts[u])
             \/ \E l \in DOMAIN parts[v] : l < k /\ parts[v][l] = i

\* When all entries are used, they are a split of the batch.
LEMMA GoodPartsSplit ==
    ASSUME NEW batch, DOMAIN batch \subseteq Nat, NEW parts, GoodParts(batch, parts, DOMAIN batch)
    PROVE  IsSplit(batch, parts)
<1>1. UsedIn(parts) = DOMAIN batch
  BY DEF GoodParts
<1>2. ASSUME NEW u \in DOMAIN parts, NEW k \in DOMAIN parts[u], NEW v \in DOMAIN parts, NEW l \in DOMAIN parts[v],
             u < v \/ (u = v /\ k < l)
      PROVE  LET i == parts[u][k]
                 j == parts[v][l]
             IN i # j /\ (batch[i].seqs \cap batch[j].seqs # {} => i < j)
  <2> DEFINE i == parts[u][k]
             j == parts[v][l]
  <2>1. parts[u] \in Seq(DOMAIN batch) /\ parts[v] \in Seq(DOMAIN batch) /\ u \in Nat /\ v \in Nat
    BY DEF GoodParts
  <2>2. i \in DOMAIN batch /\ j \in DOMAIN batch /\ k \in Nat /\ l \in Nat /\ i \in Nat /\ j \in Nat
    BY <2>1
  <2>3. i \in ToSet(parts[u]) /\ j \in ToSet(parts[v])
    BY DEF ToSet
  <2>4. i # j
    <3>1. CASE u < v
      BY <2>3, <3>1 DEF GoodParts
    <3>2. CASE u = v /\ k < l
      BY <2>2, <3>2 DEF GoodParts, NoRepeats
    <3> QED
      BY <1>2, <3>1, <3>2
  <2>5. ASSUME Overlap(batch, i, j), j < i PROVE FALSE
    <3>1. Overlap(batch, j, i)
      BY <2>5 DEF Overlap
    <3>2. \/ \E w \in DOMAIN parts : w < u /\ j \in ToSet(parts[w])
          \/ \E m \in DOMAIN parts[u] : m < k /\ parts[u][m] = j
      BY <2>2, <2>5, <3>1 DEF GoodParts
    <3>3. ASSUME NEW w \in DOMAIN parts, w < v, j \in ToSet(parts[w]) PROVE FALSE
      BY <2>3, <3>3 DEF GoodParts
    <3>4. CASE \E w \in DOMAIN parts : w < u /\ j \in ToSet(parts[w])
      <4>1. PICK w \in DOMAIN parts : w < u /\ j \in ToSet(parts[w])
        BY <3>4
      <4>2. w \in Nat
        BY DEF GoodParts
      <4>3. w < v
        BY <1>2, <2>1, <4>1, <4>2
      <4> QED
        BY <3>3, <4>1, <4>3
    <3>5. CASE \E m \in DOMAIN parts[u] : m < k /\ parts[u][m] = j
      <4>1. PICK m \in DOMAIN parts[u] : m < k /\ parts[u][m] = j
        BY <3>5
      <4>2. j \in ToSet(parts[u])
        BY <4>1 DEF ToSet
      <4>3. u = v /\ k < l
        BY <1>2, <3>3, <4>2
      <4>4. m = l
        BY <4>1, <4>3 DEF GoodParts, NoRepeats
      <4>5. m \in Nat
        BY <2>1, <4>1
      <4> QED
        BY <2>2, <4>1, <4>3, <4>4, <4>5
    <3> QED
      BY <3>2, <3>4, <3>5
  <2> HIDE DEF i, j
  <2>6. Overlap(batch, i, j) => i < j
    BY <2>2, <2>4, <2>5
  <2> QED
    BY <2>4, <2>6 DEF Overlap, i, j
<1>3. ASSUME NEW x \in Places(parts), NEW y \in Places(parts), Earlier(x, y)
      PROVE  LET i == parts[x[1]][x[2]]
                 j == parts[y[1]][y[2]]
             IN i # j /\ (batch[i].seqs \cap batch[j].seqs # {} => i < j)
  <2>1. x[1] \in DOMAIN parts /\ x[2] \in DOMAIN parts[x[1]] /\ y[1] \in DOMAIN parts /\ y[2] \in DOMAIN parts[y[1]]
    BY DEF Places
  <2>2. x[1] < y[1] \/ (x[1] = y[1] /\ x[2] < y[2])
    BY <1>3 DEF Earlier
  <2> QED
    BY <1>2, <2>1, <2>2
<1> QED
  BY <1>1, <1>3 DEF IsSplit

\* What holds of the ubatches so far holds with one more.
LEMMA GoodPartsStep ==
    ASSUME NEW batch, NEW parts, NEW used, GoodParts(batch, parts, used), NEW p, GoodCut(batch, used, p)
    PROVE  GoodParts(batch, Append(parts, p), used \cup ToSet(p))
<1> DEFINE N == Len(parts)
           new == Append(parts, p)
           T == Seq(DOMAIN batch)
<1>1. parts \in Seq(T) /\ p \in T
  BY DEF GoodParts, GoodCut
<1> HIDE DEF T
<1>2. /\ N \in Nat /\ DOMAIN parts = 1 .. N /\ DOMAIN new = 1 .. N + 1 /\ new \in Seq(T)
      /\ (\A n \in 1 .. N : new[n] = parts[n]) /\ new[N + 1] = p
  BY <1>1
<1> HIDE DEF N, new
<1>3. /\ \A n \in 1 .. N + 1 : n \in 1 .. N \/ n = N + 1
      /\ N + 1 \in 1 .. N + 1 /\ \A n \in 1 .. N : n \in 1 .. N + 1 /\ N + 1 > n /\ n < N + 1 /\ ~(N + 1 < n)
      /\ ~(N + 1 < N + 1)
  BY <1>2
<1>4. UsedIn(new) = UsedIn(parts) \cup ToSet(p)
  <2>1. \A n \in DOMAIN new : ToSet(new[n]) \subseteq UsedIn(parts) \cup ToSet(p)
    BY <1>2, <1>3 DEF UsedIn
  <2>2. \A n \in DOMAIN parts : ToSet(parts[n]) = ToSet(new[n]) /\ n \in DOMAIN new
    BY <1>2, <1>3
  <2>3. ToSet(p) = ToSet(new[N + 1]) /\ N + 1 \in DOMAIN new
    BY <1>2, <1>3
  <2>4. UsedIn(parts) \subseteq UsedIn(new)
    BY <2>2 DEF UsedIn
  <2>5. ToSet(p) \subseteq UsedIn(new)
    BY <2>3 DEF UsedIn
  <2>6. UsedIn(new) \subseteq UsedIn(parts) \cup ToSet(p)
    BY <2>1 DEF UsedIn
  <2> QED
    BY <2>4, <2>5, <2>6
<1>5. \A u \in 1 .. N + 1 : NoRepeats(new[u])
  <2>1. NoRepeats(p) /\ \A u \in 1 .. N : NoRepeats(parts[u])
    BY <1>2 DEF GoodParts, GoodCut
  <2> QED
    BY <1>2, <1>3, <2>1
<1>6. ASSUME NEW u \in 1 .. N + 1, NEW v \in 1 .. N + 1, u < v PROVE ToSet(new[u]) \cap ToSet(new[v]) = {}
  <2>1. u \in 1 .. N
    BY <1>2, <1>6
  <2>2. CASE v \in 1 .. N
    BY <1>2, <1>6, <2>1, <2>2 DEF GoodParts
  <2>3. CASE v = N + 1
    <3>1. ToSet(parts[u]) \subseteq used
      BY <1>2, <2>1 DEF GoodParts, UsedIn
    <3> QED
      BY <1>2, <2>1, <2>3, <3>1 DEF GoodCut
  <2> QED
    BY <1>3, <2>2, <2>3
<1>7. ASSUME NEW v \in 1 .. N + 1, NEW k \in DOMAIN new[v], NEW i \in DOMAIN batch,
             i < new[v][k], Overlap(batch, i, new[v][k])
      PROVE  \/ \E u \in 1 .. N + 1 : u < v /\ i \in ToSet(new[u])
             \/ \E l \in DOMAIN new[v] : l < k /\ new[v][l] = i
  <2>1. CASE v \in 1 .. N
    <3>1. new[v] = parts[v]
      BY <1>2, <2>1
    <3>0. k \in DOMAIN parts[v] /\ i < parts[v][k] /\ Overlap(batch, i, parts[v][k])
      BY <1>7, <3>1
    <3>2. \/ \E u \in 1 .. N : u < v /\ i \in ToSet(parts[u])
          \/ \E l \in DOMAIN parts[v] : l < k /\ parts[v][l] = i
      BY <1>2, <2>1, <3>0 DEF GoodParts
    <3>3. \A u \in 1 .. N : u \in 1 .. N + 1 /\ new[u] = parts[u]
      BY <1>2, <1>3
    <3> QED
      BY <3>1, <3>2, <3>3
  <2>2. CASE v = N + 1
    <3>1. new[v] = p
      BY <1>2, <2>2
    <3>2. i \in used \/ \E l \in DOMAIN p : l < k /\ p[l] = i
      BY <1>7, <3>1 DEF GoodCut, KeepsOrder
    <3>3. i \in used => \E u \in 1 .. N : i \in ToSet(parts[u])
      BY <1>2 DEF GoodParts, UsedIn
    <3>4. \A u \in 1 .. N : u \in 1 .. N + 1 /\ u < v /\ new[u] = parts[u]
      BY <1>2, <1>3, <2>2
    <3> QED
      BY <3>1, <3>2, <3>3, <3>4
  <2> QED
    BY <1>3, <2>1, <2>2
<1>8. used = UsedIn(parts)
  BY DEF GoodParts
<1>9. GoodParts(batch, new, used \cup ToSet(p))
  <2>1. new \in Seq(Seq(DOMAIN batch)) /\ DOMAIN new = 1 .. N + 1 /\ used \cup ToSet(p) = UsedIn(new)
    BY <1>2, <1>4, <1>8 DEF T
  <2>2. \A u \in DOMAIN new : NoRepeats(new[u])
    BY <1>5, <2>1
  <2>3. \A u, v \in DOMAIN new : u < v => ToSet(new[u]) \cap ToSet(new[v]) = {}
    BY <1>6, <2>1
  <2>4. \A v \in DOMAIN new : \A k \in DOMAIN new[v] : \A i \in DOMAIN batch :
          i < new[v][k] /\ Overlap(batch, i, new[v][k])
          => \/ \E u \in DOMAIN new : u < v /\ i \in ToSet(new[u])
             \/ \E l \in DOMAIN new[v] : l < k /\ new[v][l] = i
    BY <1>7, <2>1
  <2> QED
    BY <2>1, <2>2, <2>3, <2>4 DEF GoodParts
<1> QED
  BY <1>9 DEF new

\* What the loops of the memory modules have after n rounds: good ubatches of up to m entries,
\* at least n entries in them, and whole tails.
CutsSoFar(batch, m, tail, n) ==
    {x \in [parts : Seq(Seq(DOMAIN batch)), used : SUBSET DOMAIN batch] :
       /\ GoodParts(batch, x.parts, x.used) /\ FitsIn(x.parts, m)
       /\ x.used = DOMAIN batch \/ Cardinality(x.used) >= n
       /\ tail > 0 => TailsWhole(batch, x.parts, tail)}

\* Before the first round there is nothing.
LEMMA NoCuts ==
    ASSUME NEW batch, NEW m, NEW tail
    PROVE  [parts |-> <<>>, used |-> {}] \in CutsSoFar(batch, m, tail, 0)
<1> DEFINE c == [parts |-> <<>>, used |-> {}]
           none == <<>>
<1>1. none \in Seq(Seq(DOMAIN batch)) /\ DOMAIN none = {}
  OBVIOUS
<1>2. c.parts = none /\ c.used = {} /\ c \in [parts : Seq(Seq(DOMAIN batch)), used : SUBSET DOMAIN batch]
  BY <1>1
<1> HIDE DEF none, c
<1>3. GoodParts(batch, none, {}) /\ FitsIn(none, m) /\ TailsWhole(batch, none, tail)
  BY <1>1 DEF GoodParts, FitsIn, TailsWhole, UsedIn
<1>4. Cardinality({}) = 0
  BY FS_EmptySet
<1>5. /\ GoodParts(batch, c.parts, c.used) /\ FitsIn(c.parts, m)
      /\ Cardinality(c.used) >= 0 /\ TailsWhole(batch, c.parts, tail)
  BY <1>2, <1>3, <1>4
<1>6. c \in CutsSoFar(batch, m, tail, 0)
  BY <1>2, <1>5 DEF CutsSoFar
<1> QED
  BY <1>6 DEF c, none

\* Whole tails stay so with one more ubatch.
LEMMA TailsWholeStep ==
    ASSUME NEW E, NEW batch \in Seq(E), NEW tail \in Nat, NEW parts \in Seq(Seq(DOMAIN batch)), NEW p \in Seq(DOMAIN batch),
           TailsWhole(batch, parts, tail), Shares(batch, UsedIn(parts), tail, p)
    PROVE  TailsWhole(batch, Append(parts, p), tail)
<1> DEFINE T == Seq(DOMAIN batch)
           N == Len(parts)
           new == Append(parts, p)
           OK(u) == UbatchWhole(batch, UsedIn(SubSeq(new, 1, u)), new[u], tail)
<1>0. parts \in Seq(T) /\ p \in T
  OBVIOUS
<1> HIDE DEF T
<1>1. /\ N \in Nat /\ DOMAIN parts = 1 .. N /\ DOMAIN new = 1 .. N + 1 /\ new \in Seq(T) /\ Len(new) = N + 1
      /\ (\A n \in 1 .. N : new[n] = parts[n]) /\ new[N + 1] = p
  BY <1>0
<1>2. SubSeq(new, 1, N + 1) = new /\ \A u \in 1 .. N : SubSeq(new, 1, u) = SubSeq(parts, 1, u)
  <2>1. SubSeq(new, 1, N + 1) = new
    BY <1>1
  <2>2. ASSUME NEW u \in 1 .. N PROVE SubSeq(new, 1, u) = SubSeq(parts, 1, u)
    BY <1>0, <1>1
  <2> QED
    BY <2>1, <2>2
<1>3. \A u \in 1 .. N : OK(u)
  BY <1>1, <1>2 DEF TailsWhole
<1>4. UsedIn(new) = UsedIn(parts) \cup ToSet(p)
  <2> HIDE DEF new
  <2>1. \A n \in DOMAIN new : (n \in DOMAIN parts /\ new[n] = parts[n]) \/ new[n] = p
    BY <1>1
  <2>2. \A n \in DOMAIN parts : n \in DOMAIN new /\ new[n] = parts[n]
    BY <1>1
  <2>3. N + 1 \in DOMAIN new
    BY <1>1
  <2>4. \A n \in DOMAIN new : ToSet(new[n]) \subseteq UsedIn(parts) \cup ToSet(p)
    BY <2>1 DEF UsedIn
  <2>5. \A n \in DOMAIN parts : ToSet(parts[n]) \subseteq UsedIn(new)
    BY <2>2 DEF UsedIn
  <2>6. ToSet(p) \subseteq UsedIn(new)
    BY <1>1, <2>3 DEF UsedIn
  <2>7. UsedIn(new) \subseteq UsedIn(parts) \cup ToSet(p)
    BY <2>4 DEF UsedIn
  <2>8. UsedIn(parts) \subseteq UsedIn(new)
    BY <2>5 DEF UsedIn
  <2> QED
    BY <2>6, <2>7, <2>8
<1>5. OK(N + 1)
  <2> DEFINE done == UsedIn(parts) \cup ToSet(p)
  <2>1. UsedIn(SubSeq(new, 1, N + 1)) = done
    BY <1>2, <1>4
  <2>2. ASSUME NEW i \in ToSet(p) PROVE Share(batch, p, batch[i].seqs) # {}
    <3>1. i \in DOMAIN batch
      BY DEF ToSet
    <3> QED
      BY <3>1 DEF Share, Of
  <2>3. ASSUME NEW S PROVE /\ {i \in ToSet(p) : batch[i].seqs = S} = Share(batch, p, S)
                           /\ {i \in DOMAIN batch \ done : batch[i].seqs = S} = Of(batch, S) \ done
    <3>1. ToSet(p) \subseteq DOMAIN batch
      BY DEF ToSet
    <3> QED
      BY <3>1 DEF Share, Of
  <2>4. ASSUME NEW S, Share(batch, p, S) # {} PROVE Cardinality(Of(batch, S) \ done) \in {0} \cup tail .. Len(batch)
    <3>1. Of(batch, S) \subseteq done \/ Cardinality(Of(batch, S) \ done) >= tail
      BY <2>4 DEF Shares, TailLeft
    <3>2. Of(batch, S) \subseteq done => Cardinality(Of(batch, S) \ done) = 0
      <4>1. Of(batch, S) \subseteq done => Of(batch, S) \ done = {}
        OBVIOUS
      <4> QED
        BY <4>1, FS_EmptySet
    <3>3. Cardinality(Of(batch, S) \ done) \in Nat /\ Cardinality(Of(batch, S) \ done) <= Len(batch)
      <4>1. DOMAIN batch = 1 .. Len(batch) /\ Len(batch) \in Nat
        OBVIOUS
      <4>2. IsFiniteSet(DOMAIN batch) /\ Cardinality(DOMAIN batch) = Len(batch)
        <5>1. 1 \in Int /\ Len(batch) \in Int
          BY <4>1
        <5>2. IsFiniteSet(1 .. Len(batch)) /\ Cardinality(1 .. Len(batch)) = IF 1 > Len(batch) THEN 0 ELSE Len(batch) - 1 + 1
          BY <5>1, FS_Interval
        <5> QED
          BY <4>1, <5>2
      <4>3. Of(batch, S) \ done \subseteq DOMAIN batch
        BY DEF Of
      <4> QED
        BY <4>2, <4>3, FS_Subset, FS_CardinalityType
    <3> QED
      BY <3>1, <3>2, <3>3
  <2>5. \A i \in ToSet(p) : Cardinality({j \in DOMAIN batch \ done : batch[j].seqs = batch[i].seqs}) \in {0} \cup tail .. Len(batch)
    BY <2>2, <2>3, <2>4
  <2>6. ASSUME NEW i \in ToSet(p), NEW j \in ToSet(p)
        PROVE  Cardinality({l \in ToSet(p) : batch[l].seqs = batch[i].seqs})
               = Cardinality({l \in ToSet(p) : batch[l].seqs = batch[j].seqs})
    <3>1. Cardinality(Share(batch, p, batch[i].seqs)) = Cardinality(Share(batch, p, batch[j].seqs))
      BY <2>2 DEF Shares, Even
    <3> QED
      BY <2>3, <3>1
  <2> HIDE DEF done, new, N
  <2>7. UbatchWhole(batch, done, p, tail)
    <3> DEFINE sets == {batch[i].seqs : i \in ToSet(p)}
    <3>1. \A S \in sets : Cardinality({j \in DOMAIN batch \ done : batch[j].seqs = S}) \in {0} \cup tail .. Len(batch)
      BY <2>5
    <3>2. \A S, R \in sets : Cardinality({j \in ToSet(p) : batch[j].seqs = S}) = Cardinality({j \in ToSet(p) : batch[j].seqs = R})
      BY <2>6
    <3> HIDE DEF sets
    <3> QED
      BY <3>1, <3>2 DEF UbatchWhole, sets
  <2> QED
    BY <1>1, <2>1, <2>7
<1>6. \A u \in DOMAIN new : OK(u)
  <2> HIDE DEF OK, new, N
  <2>1. \A u \in DOMAIN new : u \in 1 .. N \/ u = N + 1
    BY <1>1
  <2> QED
    BY <1>3, <1>5, <2>1
<1> QED
  BY <1>6 DEF TailsWhole

\* A batch has finitely many entries.
LEMMA EntriesFinite ==
    ASSUME NEW E, NEW batch \in Seq(E), NEW S \in SUBSET DOMAIN batch
    PROVE  /\ IsFiniteSet(S) /\ Cardinality(S) \in 0 .. Len(batch)
           /\ Cardinality(S) >= Len(batch) => S = DOMAIN batch
<1>1. DOMAIN batch = 1 .. Len(batch) /\ Len(batch) \in Nat /\ 1 \in Int /\ Len(batch) \in Int
  OBVIOUS
<1>2. IsFiniteSet(1 .. Len(batch)) /\ Cardinality(1 .. Len(batch)) = IF 1 > Len(batch) THEN 0 ELSE Len(batch) - 1 + 1
  BY <1>1, FS_Interval
<1>3. IsFiniteSet(DOMAIN batch) /\ Cardinality(DOMAIN batch) = Len(batch)
  BY <1>1, <1>2
<1>4. IsFiniteSet(S) /\ Cardinality(S) <= Len(batch) /\ (Cardinality(S) = Len(batch) => S = DOMAIN batch)
  BY <1>3, FS_Subset
<1> QED
  BY <1>1, <1>4, FS_CardinalityType

\* One more round of a loop
LEMMA CutsStep ==
    ASSUME NEW E, NEW batch \in Seq(E), NEW m, NEW tail \in Nat, NEW n \in 1 .. Len(batch),
           NEW x \in CutsSoFar(batch, m, tail, n - 1),
           NEW p, GoodCut(batch, x.used, p), Len(p) <= m,
           tail > 0 /\ p # <<>> => Shares(batch, x.used, tail, p)
    PROVE  (IF p = <<>> THEN x ELSE [parts |-> Append(x.parts, p), used |-> x.used \cup ToSet(p)])
           \in CutsSoFar(batch, m, tail, n)
<1> DEFINE T == Seq(DOMAIN batch)
           more == x.used \cup ToSet(p)
           y == [parts |-> Append(x.parts, p), used |-> more]
<1>1. /\ x \in [parts : Seq(Seq(DOMAIN batch)), used : SUBSET DOMAIN batch]
      /\ GoodParts(batch, x.parts, x.used) /\ FitsIn(x.parts, m)
      /\ x.used = DOMAIN batch \/ Cardinality(x.used) >= n - 1
      /\ tail > 0 => TailsWhole(batch, x.parts, tail)
  BY DEF CutsSoFar
<1>2. /\ p \in Seq(DOMAIN batch) /\ ToSet(p) \cap x.used = {} /\ (x.used = DOMAIN batch \/ p # <<>>)
      /\ ToSet(p) \subseteq DOMAIN batch
  BY DEF GoodCut, ToSet
<1>3. CASE p = <<>>
  BY <1>1, <1>2, <1>3 DEF CutsSoFar
<1>4. CASE p # <<>>
  <2>1. x.parts \in Seq(T) /\ p \in T /\ x.used \in SUBSET DOMAIN batch /\ x.used = UsedIn(x.parts)
    BY <1>1, <1>2 DEF GoodParts
  <2>2. Append(x.parts, p) \in Seq(T) /\ more \in SUBSET DOMAIN batch
    <3> HIDE DEF T
    <3> QED
      BY <1>2, <2>1
  <2>3. GoodParts(batch, Append(x.parts, p), more)
    <3> DEFINE parts == x.parts
               used == x.used
    <3>1. GoodParts(batch, parts, used) /\ GoodCut(batch, used, p)
      BY <1>1
    <3> HIDE DEF parts, used
    <3>2. GoodParts(batch, Append(parts, p), used \cup ToSet(p))
      BY <3>1, GoodPartsStep
    <3> QED
      BY <3>2 DEF parts, used
  <2>4. FitsIn(Append(x.parts, p), m)
    <3> DEFINE parts == x.parts
    <3>1. parts \in Seq(T) /\ FitsIn(parts, m)
      BY <1>1, <2>1
    <3> HIDE DEF parts, T
    <3>2. \A u \in DOMAIN Append(parts, p) : (u \in DOMAIN parts /\ Append(parts, p)[u] = parts[u]) \/ Append(parts, p)[u] = p
      BY <2>1, <3>1
    <3>3. FitsIn(Append(parts, p), m)
      BY <3>1, <3>2 DEF FitsIn
    <3> QED
      BY <3>3 DEF parts
  <2>5. Cardinality(more) >= n
    <3>1. PICK e : e \in ToSet(p) /\ e \notin x.used
      <4>1. 1 \in DOMAIN p
        BY <1>2, <1>4
      <4> QED
        BY <1>2, <4>1 DEF ToSet
    <3>2. x.used # DOMAIN batch
      BY <1>2, <3>1
    <3>3. IsFiniteSet(x.used) /\ Cardinality(x.used) \in Nat /\ Cardinality(x.used) >= n - 1
      BY <1>1, <2>1, <3>2, EntriesFinite
    <3>4. Cardinality(x.used \cup {e}) = Cardinality(x.used) + 1
      BY <3>1, <3>3, FS_AddElement
    <3>5. x.used \cup {e} \subseteq more /\ IsFiniteSet(more)
      BY <2>2, <3>1, EntriesFinite
    <3>6. Cardinality(x.used \cup {e}) <= Cardinality(more)
      BY <3>5, FS_Subset
    <3>7. n \in Nat /\ Cardinality(more) \in Nat
      BY <3>5, FS_CardinalityType
    <3> QED
      BY <3>3, <3>4, <3>6, <3>7
  <2>6. tail > 0 => TailsWhole(batch, Append(x.parts, p), tail)
    <3> DEFINE parts == x.parts
    <3> SUFFICES ASSUME tail > 0 PROVE TailsWhole(batch, Append(parts, p), tail)
      OBVIOUS
    <3>1. parts \in Seq(Seq(DOMAIN batch)) /\ TailsWhole(batch, parts, tail) /\ Shares(batch, UsedIn(parts), tail, p)
      BY <1>1, <1>4, <2>1
    <3> HIDE DEF parts
    <3> QED
      BY <1>2, <3>1, TailsWholeStep
  <2>7. y.parts = Append(x.parts, p) /\ y.used = more /\ y \in [parts : Seq(T), used : SUBSET DOMAIN batch]
    <3> HIDE DEF more
    <3> QED
      BY <2>2
  <2> HIDE DEF y, more
  <2>8. y \in CutsSoFar(batch, m, tail, n)
    BY <2>3, <2>4, <2>5, <2>6, <2>7 DEF CutsSoFar, T
  <2> QED
    BY <1>4, <2>8 DEF y, more
<1> QED
  BY <1>3, <1>4

\* After as many rounds as there are entries nothing is left.
LEMMA CutsDone ==
    ASSUME NEW E, NEW batch \in Seq(E), NEW m, NEW tail \in Nat, NEW x \in CutsSoFar(batch, m, tail, Len(batch))
    PROVE  IsSplit(batch, x.parts) /\ FitsIn(x.parts, m) /\ (tail > 0 => TailsWhole(batch, x.parts, tail))
<1>1. /\ x.used \in SUBSET DOMAIN batch /\ GoodParts(batch, x.parts, x.used) /\ FitsIn(x.parts, m)
      /\ x.used = DOMAIN batch \/ Cardinality(x.used) >= Len(batch)
      /\ tail > 0 => TailsWhole(batch, x.parts, tail)
  BY DEF CutsSoFar
<1>2. x.used = DOMAIN batch
  BY <1>1, EntriesFinite
<1> DEFINE parts == x.parts
<1>3. GoodParts(batch, parts, DOMAIN batch)
  BY <1>1, <1>2
<1> HIDE DEF parts
<1>4. DOMAIN batch \subseteq Nat
  OBVIOUS
<1>5. IsSplit(batch, parts)
  BY <1>3, <1>4, GoodPartsSplit
<1> QED
  BY <1>1, <1>5 DEF parts

-----------------------------------------------------------------------------
(* split_simple() and split_seq()                                          *)

\* A larger element may be appended.
LEMMA RisingAppended ==
    ASSUME NEW T, T \subseteq Nat, NEW x \in Seq(T), Rising(x), NEW e \in T, \A y \in ToSet(x) : y < e
    PROVE  Rising(Append(x, e))
<1>1. /\ Len(x) \in Nat /\ DOMAIN x = 1 .. Len(x) /\ DOMAIN Append(x, e) = 1 .. Len(x) + 1
      /\ (\A k \in 1 .. Len(x) : Append(x, e)[k] = x[k]) /\ Append(x, e)[Len(x) + 1] = e
  OBVIOUS
<1> SUFFICES ASSUME NEW j \in 1 .. Len(x) + 1, NEW k \in 1 .. Len(x) + 1, j < k PROVE Append(x, e)[j] < Append(x, e)[k]
  BY <1>1 DEF Rising
<1>2. j \in 1 .. Len(x)
  BY <1>1
<1>3. CASE k \in 1 .. Len(x)
  BY <1>1, <1>2, <1>3 DEF Rising
<1>4. CASE k = Len(x) + 1
  <2>1. x[j] \in ToSet(x)
    BY <1>1, <1>2 DEF ToSet
  <2> QED
    BY <1>1, <1>2, <1>4, <2>1
<1> QED
  BY <1>1, <1>3, <1>4

\* What comes before an element of a sequence that goes up, is at an earlier place.
LEMMA RisingPlace ==
    ASSUME NEW T, T \subseteq Nat, NEW s \in Seq(T), Rising(s), NEW k \in DOMAIN s, NEW i \in ToSet(s), i < s[k]
    PROVE  \E l \in DOMAIN s : l < k /\ s[l] = i
<1>1. PICK l \in DOMAIN s : s[l] = i
  BY DEF ToSet
<1>a. l \in Nat /\ k \in Nat /\ s[l] \in T /\ s[k] \in T
  OBVIOUS
<1>2. l \in Nat /\ k \in Nat /\ s[l] \in Nat /\ s[k] \in Nat
  BY <1>a
<1>3. ~(k < l) /\ k # l
  BY <1>1, <1>2 DEF Rising
<1> QED
  BY <1>1, <1>2, <1>3

\* The elements that remain keep their order.
LEMMA AmongRises ==
    ASSUME NEW T, T \subseteq Nat, NEW s \in Seq(T), Rising(s), NEW S
    PROVE  Rising(Among(s, S))
<1> DEFINE N == Len(s)
           c0 == <<>>
           Step(n, x) == IF s[n] \in S THEN Append(x, s[n]) ELSE x
           Lower(n, x) == \A y \in ToSet(x) : \A m \in n + 1 .. N : y < s[m]
           G == [n \in 0 .. N |-> {x \in Seq(T) : Rising(x) /\ Lower(n, x)}]
           h == [n \in 1 .. N |-> [x \in G[n - 1] |-> Step(n, x)]]
           f == CHOOSE f : f = [n \in 0 .. N |-> IF n = 0 THEN c0 ELSE Step(n, f[n - 1])]
<1>0. N \in Nat /\ DOMAIN s = 1 .. N /\ 0 \in 0 .. N
  OBVIOUS
<1>1. c0 \in G[0] /\ N \in Nat
  <2>1. c0 \in Seq(T) /\ Rising(c0) /\ ToSet(c0) = {}
    BY DEF Rising, ToSet
  <2> HIDE DEF c0
  <2> QED
    BY <1>0, <2>1
<1>2. ASSUME NEW n \in 1 .. N, NEW x \in G[n - 1] PROVE Step(n, x) \in G[n]
  <2>1. n \in 0 .. N /\ n - 1 \in 0 .. N /\ n \in DOMAIN s /\ s[n] \in T /\ (n - 1) + 1 = n
    BY <1>0
  <2>2. x \in Seq(T) /\ Rising(x) /\ \A y \in ToSet(x) : \A m \in n .. N : y < s[m]
    BY <2>1
  <2>3. \A m \in n + 1 .. N : m \in n .. N /\ s[n] < s[m]
    BY <1>0 DEF Rising
  <2>4. n \in n .. N
    BY <1>0
  <2>a. \A y \in ToSet(x) : y < s[n]
    BY <2>2, <2>4
  <2>b. Rising(Append(x, s[n]))
    BY <2>1, <2>2, <2>a, RisingAppended
  <2>c. ToSet(Append(x, s[n])) = ToSet(x) \cup {s[n]}
    BY <2>1, <2>2, Appended
  <2>5. ToSet(Append(x, s[n])) = ToSet(x) \cup {s[n]} /\ Append(x, s[n]) \in Seq(T) /\ Rising(Append(x, s[n]))
    BY <2>1, <2>2, <2>b, <2>c
  <2>6. Lower(n, x) /\ Lower(n, Append(x, s[n]))
    BY <2>2, <2>3, <2>5
  <2> HIDE DEF Lower
  <2> QED
    BY <2>1, <2>2, <2>5, <2>6
<1> HIDE DEF N, c0
<1> HIDE DEF Step, G
<1>3. \A n \in 1 .. N : \A x \in G[n - 1] : h[n][x] = Step(n, x) /\ h[n][x] \in G[n]
  BY <1>2
<1> HIDE DEF h
<1>4. PICK g : IsLoop(g, c0, h, G, N)
  BY <1>1, <1>3, LoopExists
<1>5. ASSUME NEW n \in 0 .. N PROVE g[n] = IF n = 0 THEN c0 ELSE Step(n, g[n - 1])
  <2>1. n # 0 => n \in 1 .. N
    BY <1>1
  <2> QED
    BY <1>3, <1>4, <2>1 DEF IsLoop, Runs
<1>6. f = [n \in 0 .. N |-> IF n = 0 THEN c0 ELSE Step(n, f[n - 1])]
  <2>1. g = [n \in 0 .. N |-> IF n = 0 THEN c0 ELSE Step(n, g[n - 1])]
    BY <1>4, <1>5 DEF IsLoop
  <2> QED
    BY <2>1
<1> HIDE DEF f
<1>7. f[0] \in G[0] /\ \A n \in 1 .. N : f[n - 1] \in G[n - 1] => f[n] \in G[n]
  <2>1. f[0] = c0
    BY <1>1, <1>6
  <2>2. ASSUME NEW n \in 1 .. N PROVE f[n] = Step(n, f[n - 1])
    <3>1. n \in 0 .. N /\ n # 0
      BY <1>1
    <3> QED
      BY <1>6, <3>1
  <2> QED
    BY <1>1, <1>2, <2>1, <2>2
<1>8. f[N] \in G[N]
  BY <1>1, <1>7, LoopReaches
<1>9. Among(s, S) = f[N]
  BY DEF Among, f, Step, N, c0
<1> QED
  BY <1>1, <1>8, <1>9 DEF G

\* The entries that are left are in their order, and so are those of one set.
LEMMA UnusedRises ==
    ASSUME NEW E, NEW batch \in Seq(E), NEW used
    PROVE  Rising(Unused(batch, used)) /\ \A S : Rising(Left(batch, used, S))
<1> DEFINE D == DOMAIN batch
           all == [i \in D |-> i]
<1>1. D \subseteq Nat /\ D = 1 .. Len(batch) /\ Len(batch) \in Nat
  OBVIOUS
<1>2. all \in Seq(D) /\ Rising(all)
  BY <1>1 DEF Rising
<1> HIDE DEF all
<1>3. Rising(Unused(batch, used))
  BY <1>1, <1>2, AmongRises DEF Unused, all
<1>4. Unused(batch, used) \in Seq(D)
  BY UnusedHas
<1> HIDE DEF D
<1>5. \A S : Rising(Left(batch, used, S))
  BY <1>1, <1>3, <1>4, AmongRises DEF Left
<1> QED
  BY <1>3, <1>5

\* split_simple() takes the first entries that are left.
LEMMA SplitSimpleCuts ==
    ASSUME NEW E, NEW batch \in Seq(E), NEW used \in SUBSET DOMAIN batch, NEW n_ubatch \in Nat \ {0}
    PROVE  GoodCut(batch, used, SplitSimple(batch, used, n_ubatch)) /\ Len(SplitSimple(batch, used, n_ubatch)) <= n_ubatch
<1> DEFINE left == Unused(batch, used)
           D == DOMAIN batch
           m == Min({n_ubatch, Len(left)})
           p == SubSeq(left, 1, m)
<1>1. left \in Seq(D) /\ NoRepeats(left) /\ ToSet(left) = D \ used /\ Rising(left) /\ D \subseteq Nat
  BY UnusedHas, UnusedRises
<1> HIDE DEF left, D
<1>2. Len(left) \in Nat /\ DOMAIN left = 1 .. Len(left)
  BY <1>1
<1>3. m \in {n_ubatch, Len(left)} /\ m <= n_ubatch /\ m <= Len(left)
  BY <1>2, MinIsLeast
<1>4. m \in Nat /\ m <= Len(left) /\ (Len(left) > 0 => m > 0)
  BY <1>2, <1>3
<1> HIDE DEF m
<1>5. p \in Seq(D) /\ NoRepeats(p) /\ ToSet(p) \subseteq ToSet(left)
  BY <1>1, <1>3, <1>4, Beginning
<1>6. Len(p) = m /\ DOMAIN p = 1 .. m /\ \A k \in 1 .. m : p[k] = left[k]
  <2>1. left \in Seq(D) /\ m \in Nat /\ m <= Len(left)
    BY <1>1, <1>3, <1>4
  <2> QED
    BY <2>1, Begins
<1> HIDE DEF p
<1>7. used = D \/ p # <<>>
  <2> SUFFICES ASSUME p = <<>> PROVE used = D
    OBVIOUS
  <2>1. m = 0
    BY <1>6
  <2>2. Len(left) = 0
    BY <1>2, <1>4, <2>1
  <2>3. ToSet(left) = {}
    BY <1>2, <2>2 DEF ToSet
  <2> QED
    BY <1>1, <2>3 DEF D
<1>8. KeepsOrder(batch, used, p)
  <2> SUFFICES ASSUME NEW k \in DOMAIN p, NEW i \in D, i < p[k], i \notin used PROVE \E l \in DOMAIN p : l < k /\ p[l] = i
    BY DEF KeepsOrder, D
  <2>a. k \in 1 .. m /\ p[k] = left[k] /\ i \in ToSet(left)
    BY <1>1, <1>6
  <2>1. k \in 1 .. m /\ p[k] = left[k] /\ k \in DOMAIN left /\ i \in ToSet(left) /\ i < left[k]
    <3>a. \A a, b \in Nat : a <= b => \A c \in 1 .. a : c \in 1 .. b
      OBVIOUS
    <3>1. k \in 1 .. Len(left)
      BY <1>2, <1>4, <2>a, <3>a
    <3> QED
      BY <1>2, <2>a, <3>1
  <2>2. PICK l \in DOMAIN left : l < k /\ left[l] = i
    BY <1>1, <2>1, RisingPlace
  <2>3. l \in 1 .. m
    BY <1>2, <1>4, <2>1, <2>2
  <2> QED
    BY <1>6, <2>2, <2>3
<1>9. GoodCut(batch, used, p)
  BY <1>1, <1>5, <1>7, <1>8 DEF GoodCut, D
<1>10. SplitSimple(batch, used, n_ubatch) = p
  BY DEF SplitSimple, p, left, m
<1> QED
  BY <1>3, <1>6, <1>9, <1>10

\* An entry appended keeps the order if all that must come before it is there.
LEMMA OrderAppended ==
    ASSUME NEW batch, NEW used, NEW D, NEW x \in Seq(D), KeepsOrder(batch, used, x), NEW e \in D,
           \A i \in DOMAIN batch : i < e /\ Overlap(batch, i, e) => i \in used \/ i \in ToSet(x)
    PROVE  KeepsOrder(batch, used, Append(x, e))
<1>1. /\ Len(x) \in Nat /\ DOMAIN x = 1 .. Len(x) /\ DOMAIN Append(x, e) = 1 .. Len(x) + 1
      /\ (\A k \in 1 .. Len(x) : Append(x, e)[k] = x[k]) /\ Append(x, e)[Len(x) + 1] = e
  OBVIOUS
<1> DEFINE y == Append(x, e)
<1> HIDE DEF y
<1> SUFFICES ASSUME NEW k \in DOMAIN y, NEW i \in DOMAIN batch, i < y[k], Overlap(batch, i, y[k]), i \notin used
             PROVE  \E l \in DOMAIN y : l < k /\ y[l] = i
  BY DEF KeepsOrder, y
<1>2. CASE k \in DOMAIN x
  <2>1. y[k] = x[k]
    BY <1>1, <1>2 DEF y
  <2>2. PICK l \in DOMAIN x : l < k /\ x[l] = i
    BY <1>2, <2>1 DEF KeepsOrder
  <2>3. l \in DOMAIN y /\ y[l] = x[l]
    BY <1>1 DEF y
  <2> QED
    BY <2>2, <2>3
<1>3. CASE k = Len(x) + 1
  <2>1. i \in ToSet(x)
    BY <1>1, <1>3 DEF y
  <2>2. PICK l \in DOMAIN x : x[l] = i
    BY <2>1 DEF ToSet
  <2>3. l \in DOMAIN y /\ y[l] = x[l] /\ l < k
    BY <1>1, <1>3 DEF y
  <2> QED
    BY <2>2, <2>3
<1> QED
  BY <1>1, <1>2, <1>3 DEF y

\* split_seq() goes on with entries of fewer and fewer sequences: those that it leaves out have
\* none of the last one, or come after the ubatch is full.
LEMMA SplitSeqCuts ==
    ASSUME NEW E, NEW batch \in Seq(E), Narrowing(batch), NEW used \in SUBSET DOMAIN batch, NEW n_ubatch \in Nat \ {0}
    PROVE  GoodCut(batch, used, SplitSeq(batch, used, n_ubatch)) /\ Len(SplitSeq(batch, used, n_ubatch)) <= n_ubatch
<1> DEFINE left == Unused(batch, used)
           N == Len(left)
           D == DOMAIN batch
           c0 == <<>>
           Goes(idxs, i) == \/ idxs = <<>>
                            \/ Len(idxs) < n_ubatch /\ batch[i].seqs \subseteq batch[Last(idxs)].seqs
           Upto(n) == {left[j] : j \in 1 .. n}
           Past(n, x) == \A i \in Upto(n) : i \in ToSet(x) \/ Len(x) >= n_ubatch \/ ~Overlap(batch, i, Last(x))
           Step(n, x) == IF Goes(x, left[n]) THEN Append(x, left[n]) ELSE x
           G == [n \in 0 .. N |-> {x \in Seq(D) : /\ NoRepeats(x) /\ ToSet(x) \subseteq Upto(n) /\ (n > 0 => x # <<>>)
                                                  /\ Len(x) <= n_ubatch /\ KeepsOrder(batch, used, x) /\ Past(n, x)}]
           h == [n \in 1 .. N |-> [x \in G[n - 1] |-> Step(n, x)]]
           f == CHOOSE f : f = [n \in 0 .. N |-> IF n = 0 THEN c0 ELSE Step(n, f[n - 1])]
<1>a. left \in Seq(D) /\ NoRepeats(left) /\ ToSet(left) = D \ used /\ Rising(left) /\ D \subseteq Nat
  BY UnusedHas, UnusedRises
<1> HIDE DEF left, D
<1>0. N \in Nat /\ DOMAIN left = 1 .. N /\ 0 \in 0 .. N
  BY <1>a
<1>1. c0 \in G[0] /\ N \in Nat
  <2>1. c0 \in Seq(D) /\ NoRepeats(c0) /\ ToSet(c0) = {} /\ Upto(0) = {} /\ Len(c0) = 0 /\ KeepsOrder(batch, used, c0)
    BY DEF NoRepeats, ToSet, KeepsOrder
  <2> HIDE DEF c0, Upto
  <2> QED
    BY <1>0, <2>1
<1>2. ASSUME NEW n \in 1 .. N, NEW x \in G[n - 1] PROVE Step(n, x) \in G[n]
  <2> DEFINE e == left[n]
  <2>1. n \in 0 .. N /\ n - 1 \in 0 .. N /\ n \in DOMAIN left /\ e \in D /\ (n > 1 => n - 1 > 0) /\ n > 0
    BY <1>0, <1>a
  <2>2. /\ x \in Seq(D) /\ NoRepeats(x) /\ ToSet(x) \subseteq Upto(n - 1) /\ (n > 1 => x # <<>>)
        /\ Len(x) <= n_ubatch /\ KeepsOrder(batch, used, x) /\ Past(n - 1, x)
    BY <2>1
  <2>3. Upto(n) = Upto(n - 1) \cup {e} /\ e \notin Upto(n - 1) /\ \A i \in Upto(n - 1) : i < e /\ i \in D
    <3>1. \A i \in 1 .. n : i \in 1 .. n - 1 \/ i = n
      BY <1>0
    <3>2. n \in 1 .. n /\ \A i \in 1 .. n - 1 : i \in 1 .. n /\ i # n /\ i \in 1 .. N /\ i < n
      BY <1>0
    <3>3. \A i \in 1 .. n - 1 : left[i] < left[n]
      BY <1>a, <1>0, <3>2 DEF Rising
    <3>4. \A i \in 1 .. n - 1 : left[i] # left[n]
      BY <1>a, <1>0, <3>2 DEF NoRepeats
    <3>5. \A i \in 1 .. N : left[i] \in D
      BY <1>a, <1>0
    <3> QED
      BY <3>1, <3>2, <3>3, <3>4, <3>5
  <2>4. ASSUME NEW i \in D, i < e, i \notin used PROVE i \in Upto(n - 1)
    <3>1. i \in ToSet(left)
      BY <1>a
    <3>2. PICK l \in DOMAIN left : l < n /\ left[l] = i
      BY <1>a, <2>1, <2>4, <3>1, RisingPlace
    <3>3. l \in 1 .. n - 1
      BY <1>0, <3>2
    <3> QED
      BY <3>2, <3>3
  <2>5. n = 1 => Upto(n - 1) = {}
    BY <1>0
  <2>6. x # <<>> => Last(x) \in ToSet(x)
    BY <2>2 DEF Last, ToSet
  <2> HIDE DEF Upto, e
  <2>7. CASE Goes(x, e)
    <3> DEFINE y == Append(x, e)
    <3>1. y \in Seq(D) /\ ToSet(y) = ToSet(x) \cup {e} /\ NoRepeats(y)
      BY <2>1, <2>2, <2>3, Appended
    <3>2. Len(y) = Len(x) + 1 /\ y # <<>> /\ Last(y) = e /\ Len(x) \in Nat
      BY <2>1, <2>2 DEF Last
    <3>3. x = <<>> => Len(x) = 0
      OBVIOUS
    <3>4. Len(y) <= n_ubatch
      BY <2>7, <3>2, <3>3
    <3>5. ASSUME NEW i \in Upto(n - 1), i \notin ToSet(x) PROVE ~Overlap(batch, i, e)
      <4>1. x # <<>>
        BY <2>2, <2>5, <3>5
      <4>2. Len(x) < n_ubatch /\ batch[e].seqs \subseteq batch[Last(x)].seqs
        BY <2>7, <4>1
      <4>3. ~Overlap(batch, i, Last(x))
        BY <2>2, <3>2, <3>5, <4>2
      <4> QED
        BY <4>2, <4>3 DEF Overlap
    <3>6. KeepsOrder(batch, used, y)
      <4>1. \A i \in DOMAIN batch : i < e /\ Overlap(batch, i, e) => i \in used \/ i \in ToSet(x)
        BY <2>4, <3>5 DEF D
      <4> QED
        BY <2>1, <2>2, <4>1, OrderAppended
    <3>7. Past(n, y)
      BY <2>3, <3>1, <3>2, <3>5
    <3>8. Step(n, x) = y
      BY <2>7 DEF e
    <3>9. ToSet(y) \subseteq Upto(n)
      BY <2>2, <2>3, <3>1
    <3> HIDE DEF y, Step, Past
    <3> QED
      BY <2>1, <3>1, <3>2, <3>4, <3>6, <3>7, <3>8, <3>9
  <2>8. CASE ~Goes(x, e)
    <3>1. x # <<>>
      BY <2>8
    <3>2. Last(x) \in Upto(n - 1) /\ Last(x) \in D /\ Last(x) < e
      BY <2>2, <2>3, <2>6, <3>1
    <3>3. Len(x) \in Nat
      BY <2>2
    <3>4. Len(x) >= n_ubatch \/ ~Overlap(batch, e, Last(x))
      <4> SUFFICES ASSUME Len(x) < n_ubatch, Overlap(batch, e, Last(x)) PROVE FALSE
        BY <3>3
      <4>1. batch[e].seqs \subseteq batch[Last(x)].seqs
        BY <2>1, <3>2 DEF Narrowing, Overlap, D
      <4> QED
        BY <2>8, <3>1, <4>1
    <3>5. Past(n, x)
      BY <2>2, <2>3, <3>4
    <3>6. Step(n, x) = x
      BY <2>8 DEF e
    <3>7. ToSet(x) \subseteq Upto(n)
      BY <2>2, <2>3
    <3> HIDE DEF Step, Past
    <3> QED
      BY <2>1, <2>2, <3>1, <3>5, <3>6, <3>7
  <2> QED
    BY <2>7, <2>8
<1> HIDE DEF N, c0
<1> HIDE DEF Step, G
<1>3. \A n \in 1 .. N : \A x \in G[n - 1] : h[n][x] = Step(n, x) /\ h[n][x] \in G[n]
  BY <1>2
<1> HIDE DEF h
<1>4. PICK g : IsLoop(g, c0, h, G, N)
  BY <1>1, <1>3, LoopExists
<1>5. ASSUME NEW n \in 0 .. N PROVE g[n] = IF n = 0 THEN c0 ELSE Step(n, g[n - 1])
  <2>1. n # 0 => n \in 1 .. N
    BY <1>1
  <2> QED
    BY <1>3, <1>4, <2>1 DEF IsLoop, Runs
<1>6. f = [n \in 0 .. N |-> IF n = 0 THEN c0 ELSE Step(n, f[n - 1])]
  <2>1. g = [n \in 0 .. N |-> IF n = 0 THEN c0 ELSE Step(n, g[n - 1])]
    BY <1>4, <1>5 DEF IsLoop
  <2> QED
    BY <2>1
<1> HIDE DEF f
<1>7. f[0] \in G[0] /\ \A n \in 1 .. N : f[n - 1] \in G[n - 1] => f[n] \in G[n]
  <2>1. f[0] = c0
    BY <1>1, <1>6
  <2>2. ASSUME NEW n \in 1 .. N PROVE f[n] = Step(n, f[n - 1])
    <3>1. n \in 0 .. N /\ n # 0
      BY <1>1
    <3> QED
      BY <1>6, <3>1
  <2> QED
    BY <1>1, <1>2, <2>1, <2>2
<1>8. f[N] \in G[N]
  BY <1>1, <1>7, LoopReaches
<1>9. SplitSeq(batch, used, n_ubatch) = f[N]
  BY DEF SplitSeq, f, Step, N, c0, left
<1> DEFINE p == f[N]
<1>10. /\ p \in Seq(D) /\ NoRepeats(p) /\ ToSet(p) \subseteq Upto(N) /\ (N > 0 => p # <<>>)
       /\ Len(p) <= n_ubatch /\ KeepsOrder(batch, used, p)
  <2> HIDE DEF Upto, Past
  <2> QED
    BY <1>1, <1>8 DEF G
<1>11. Upto(N) = ToSet(left)
  BY <1>0 DEF ToSet, N
<1> HIDE DEF p, Upto
<1>12. used = D \/ p # <<>>
  <2>1. N = 0 => ToSet(left) = {}
    BY <1>0 DEF ToSet
  <2>2. p = <<>> => N = 0
    BY <1>1, <1>10
  <2>3. used \subseteq D /\ ToSet(left) = D \ used
    BY <1>a DEF D
  <2>4. ToSet(left) = {} => used = D
    BY <2>3
  <2> QED
    BY <2>1, <2>2, <2>4
<1>13. GoodCut(batch, used, p)
  <2>1. ToSet(p) \cap used = {}
    BY <1>a, <1>10, <1>11
  <2> QED
    BY <1>10, <1>12, <2>1 DEF GoodCut, D
<1> QED
  BY <1>9, <1>10, <1>13 DEF p

-----------------------------------------------------------------------------
(* split_equal()                                                           *)

\* An entry that comes before one of a set in sets, and has a sequence of it, is of the same set.
InOneSet(batch, used, sets) ==
    \A i, j \in DOMAIN batch \ used :
        i < j /\ batch[j].seqs \in ToSet(sets) /\ Overlap(batch, i, j) => batch[i].seqs = batch[j].seqs

\* When tokens have one sequence each, this holds of any sets.
LEMMA UncoupledInOneSet ==
    ASSUME NEW E, NEW batch \in Seq(E), Owned(batch), ~Coupled(batch), NEW used, NEW sets,
           \A i \in DOMAIN batch : IsFiniteSet(batch[i].seqs)
    PROVE  InOneSet(batch, used, sets)
<1> SUFFICES ASSUME NEW i \in DOMAIN batch, NEW j \in DOMAIN batch, Overlap(batch, i, j)
             PROVE  batch[i].seqs = batch[j].seqs
  BY DEF InOneSet
<1>1. ASSUME NEW k \in DOMAIN batch PROVE \E s : batch[k].seqs = {s}
  <2> DEFINE S == batch[k].seqs
  <2>1. S # {} /\ IsFiniteSet(S) /\ ~(Cardinality(S) > 1)
    BY DEF Owned, Coupled
  <2> HIDE DEF S
  <2>2. Cardinality(S) \in Nat /\ Cardinality(S) # 0
    BY <2>1, FS_CardinalityType, FS_EmptySet
  <2>3. Cardinality(S) = 1
    BY <2>1, <2>2
  <2> QED
    BY <2>1, <2>3, FS_Singleton DEF S
<1> QED
  BY <1>1 DEF Overlap

\* split_equal() takes a set whenever entries are left; unless the split is sequential, a set is
\* passed over when it has a sequence of one that is taken and that came before it.
LEMMA ParticipatingInOneSet ==
    ASSUME NEW E, NEW batch \in Seq(E), Owned(batch), Narrowing(batch), NEW used \in SUBSET DOMAIN batch,
           NEW n_ubatch \in Nat, NEW sequential \in BOOLEAN
    PROVE  /\ used # DOMAIN batch => Participating(batch, used, n_ubatch, sequential) # <<>>
           /\ \A R \in ToSet(Participating(batch, used, n_ubatch, sequential)) :
                 \E i \in DOMAIN batch \ used : batch[i].seqs = R
           /\ ~sequential => InOneSet(batch, used, Participating(batch, used, n_ubatch, sequential))
<1> DEFINE left == Unused(batch, used)
           N == Len(left)
           D == DOMAIN batch
           T == {batch[i].seqs : i \in D}
           c0 == <<>>
           Joins(sets, S) ==
             /\ Len(sets) <= n_ubatch
             /\ \A k \in DOMAIN sets : sets[k] \cap S = {}
             /\ sequential /\ sets # <<>> => FirstId(S) = FirstId(Last(sets)) + 1
           S(n) == batch[left[n]].seqs
           Meet(a, b) == S(a) \cap S(b) # {}
           Same(n, x) == \A a, b \in 1 .. n : a < b /\ S(b) \in ToSet(x) /\ Meet(a, b) => S(a) = S(b)
           Passed(n, x) == \A a \in 1 .. n : Len(x) > n_ubatch \/ \E c \in 1 .. a : S(c) \in ToSet(x) /\ Meet(c, a)
           Step(n, x) == IF Joins(x, batch[left[n]].seqs) THEN Append(x, batch[left[n]].seqs) ELSE x
           G == [n \in 0 .. N |-> {x \in Seq(T) : /\ n > 0 => x # <<>>
                                                  /\ \A R \in ToSet(x) : \E b \in 1 .. n : S(b) = R
                                                  /\ ~sequential => Same(n, x) /\ Passed(n, x)}]
           h == [n \in 1 .. N |-> [x \in G[n - 1] |-> Step(n, x)]]
           f == CHOOSE f : f = [n \in 0 .. N |-> IF n = 0 THEN c0 ELSE Step(n, f[n - 1])]
<1>a. left \in Seq(D) /\ ToSet(left) = D \ used /\ Rising(left) /\ D \subseteq Nat
  BY UnusedHas, UnusedRises
<1> HIDE DEF left
<1>0. N \in Nat /\ DOMAIN left = 1 .. N /\ 0 \in 0 .. N /\ \A n \in 1 .. N : left[n] \in D
  BY <1>a
<1>b. \A a, b \in 1 .. N : a < b /\ Meet(a, b) => S(b) \subseteq S(a)
  <2> SUFFICES ASSUME NEW a \in 1 .. N, NEW b \in 1 .. N, a < b, Meet(a, b) PROVE S(b) \subseteq S(a)
    OBVIOUS
  <2>1. left[a] < left[b] /\ left[a] \in D /\ left[b] \in D
    BY <1>a, <1>0 DEF Rising
  <2> QED
    BY <2>1 DEF Narrowing
<1>c. \A n \in 1 .. N : S(n) \in T /\ S(n) # {}
  BY <1>0 DEF Owned
<1>d. \A x, R : Joins(x, R) => Len(x) <= n_ubatch /\ \A Q \in ToSet(x) : Q \cap R = {}
  BY DEF ToSet
<1>e. \A x, R : ~sequential /\ ~Joins(x, R) /\ Len(x) \in Nat => Len(x) > n_ubatch \/ \E Q \in ToSet(x) : Q \cap R # {}
  BY DEF ToSet
<1>f. \A R : Joins(<<>>, R)
  OBVIOUS
<1> HIDE DEF Joins, D, T
<1>1. c0 \in G[0] /\ N \in Nat
  <2>1. c0 \in Seq(T) /\ ToSet(c0) = {} /\ 1 .. 0 = {}
    BY DEF ToSet
  <2> HIDE DEF c0, S
  <2> QED
    BY <1>0, <2>1
<1>2. ASSUME NEW n \in 1 .. N, NEW x \in G[n - 1] PROVE Step(n, x) \in G[n]
  <2>1. n \in 0 .. N /\ n - 1 \in 0 .. N /\ n > 0 /\ n \in 1 .. n /\ (n = 1 \/ n - 1 > 0)
    BY <1>0
  <2>2. /\ x \in Seq(T) /\ (n - 1 > 0 => x # <<>>) /\ \A R \in ToSet(x) : \E b \in 1 .. n - 1 : S(b) = R
        /\ ~sequential => Same(n - 1, x) /\ Passed(n - 1, x)
    BY <2>1
  <2>3. /\ \A a \in 1 .. n : a \in 1 .. n - 1 \/ a = n
        /\ \A a \in 1 .. n - 1 : a \in 1 .. n /\ a \in 1 .. N /\ a < n /\ a # n /\ \A c \in 1 .. a : c \in 1 .. n - 1
        /\ ~(n < n)
    BY <1>0
  <2>e. x = <<>> => Joins(x, S(n))
    BY <1>f
  <2>s. Step(n, x) = IF Joins(x, S(n)) THEN Append(x, S(n)) ELSE x
    OBVIOUS
  <2> HIDE DEF Step
  <2>4. CASE Joins(x, S(n))
    <3> DEFINE y == Append(x, S(n))
    <3>1. ToSet(y) = ToSet(x) \cup {S(n)} /\ y \in Seq(T) /\ y # <<>> /\ Len(y) = Len(x) + 1 /\ Len(x) \in Nat
      <4> DEFINE e == S(n)
      <4>1. e \in T
        BY <1>c
      <4> HIDE DEF e
      <4>2. ToSet(Append(x, e)) = ToSet(x) \cup {e}
        BY <2>2, <4>1, Appended
      <4>3. Append(x, e) \in Seq(T) /\ Append(x, e) # <<>> /\ Len(Append(x, e)) = Len(x) + 1 /\ Len(x) \in Nat
        BY <2>2, <4>1
      <4> QED
        BY <4>2, <4>3 DEF e
    <3> HIDE DEF y
    <3>2. \A R \in ToSet(y) : \E b \in 1 .. n : S(b) = R
      BY <2>1, <2>2, <2>3, <3>1
    <3>3. Len(x) <= n_ubatch /\ \A Q \in ToSet(x) : Q \cap S(n) = {}
      BY <1>d, <2>4
    <3>4. ASSUME ~sequential, NEW a \in 1 .. n - 1 PROVE ~Meet(a, n)
      <4> SUFFICES ASSUME Meet(a, n) PROVE FALSE
        OBVIOUS
      <4>1. S(n) \subseteq S(a)
        BY <1>b, <2>3
      <4>2. PICK c \in 1 .. a : S(c) \in ToSet(x) /\ Meet(c, a)
        BY <2>2, <3>1, <3>3, <3>4
      <4>3. c \in 1 .. n - 1 /\ c \in 1 .. N /\ a \in 1 .. N /\ (c = a \/ c < a)
        BY <2>3
      <4>4. S(a) \subseteq S(c)
        BY <1>b, <4>2, <4>3
      <4> QED
        BY <1>c, <3>3, <4>1, <4>2, <4>4
    <3>5. ASSUME ~sequential PROVE Same(n, y)
      <4> SUFFICES ASSUME NEW a \in 1 .. n, NEW b \in 1 .. n, a < b, S(b) \in ToSet(y), Meet(a, b) PROVE S(a) = S(b)
        OBVIOUS
      <4>1. a \in 1 .. n - 1
        BY <2>3
      <4>2. b \in 1 .. n - 1
        BY <2>3, <3>4, <3>5, <4>1
      <4>3. S(b) # S(n)
        BY <1>c, <2>3, <3>4, <3>5, <4>2
      <4>4. S(b) \in ToSet(x)
        BY <3>1, <4>3
      <4> QED
        BY <2>2, <3>5, <4>1, <4>2, <4>4
    <3>6. ASSUME ~sequential PROVE Passed(n, y)
      <4> SUFFICES ASSUME NEW a \in 1 .. n
                   PROVE  Len(y) > n_ubatch \/ \E c \in 1 .. a : S(c) \in ToSet(y) /\ Meet(c, a)
        OBVIOUS
      <4>1. CASE a = n
        BY <1>c, <2>1, <3>1, <4>1
      <4>2. CASE a \in 1 .. n - 1
        <5>1. ~(Len(x) > n_ubatch)
          BY <3>1, <3>3
        <5>2. PICK c \in 1 .. a : S(c) \in ToSet(x) /\ Meet(c, a)
          BY <2>2, <3>6, <4>2, <5>1
        <5>3. S(c) \in ToSet(y)
          BY <3>1, <5>2
        <5> QED
          BY <5>2, <5>3
      <4> QED
        BY <2>3, <4>1, <4>2
    <3> HIDE DEF S, Same, Passed
    <3>7. y \in G[n]
      BY <2>1, <3>1, <3>2, <3>5, <3>6
    <3> QED
      BY <2>4, <2>s, <3>7 DEF y
  <2>5. CASE ~Joins(x, S(n))
    <3>1. x # <<>> /\ Len(x) \in Nat
      BY <2>2, <2>5, <2>e
    <3>2. \A R \in ToSet(x) : \E b \in 1 .. n : S(b) = R
      BY <2>2, <2>3
    <3>3. ASSUME ~sequential PROVE Same(n, x)
      <4> SUFFICES ASSUME NEW a \in 1 .. n, NEW b \in 1 .. n, a < b, S(b) \in ToSet(x), Meet(a, b) PROVE S(a) = S(b)
        OBVIOUS
      <4>1. a \in 1 .. n - 1
        BY <2>3
      <4>2. CASE b \in 1 .. n - 1
        BY <2>2, <3>3, <4>1, <4>2
      <4>3. CASE b = n
        <5>1. PICK c \in 1 .. n - 1 : S(c) = S(n)
          BY <2>2, <4>3
        <5>2. CASE a < c
          BY <2>2, <3>3, <4>1, <4>3, <5>1, <5>2
        <5>3. CASE c < a
          <6>1. S(a) \subseteq S(c) /\ S(n) \subseteq S(a)
            BY <1>b, <2>3, <4>1, <4>3, <5>1, <5>3
          <6> QED
            BY <4>3, <5>1, <6>1
        <5>4. CASE a = c
          BY <4>3, <5>1, <5>4
        <5>5. a \in Nat /\ c \in Nat
          BY <4>1
        <5> QED
          BY <5>2, <5>3, <5>4, <5>5
      <4> QED
        BY <2>3, <4>2, <4>3
    <3>4. ASSUME ~sequential PROVE Passed(n, x)
      <4> SUFFICES ASSUME NEW a \in 1 .. n
                   PROVE  Len(x) > n_ubatch \/ \E c \in 1 .. a : S(c) \in ToSet(x) /\ Meet(c, a)
        OBVIOUS
      <4>1. CASE a = n
        <5>1. Len(x) > n_ubatch \/ \E Q \in ToSet(x) : Q \cap S(n) # {}
          BY <1>e, <2>5, <3>1, <3>4
        <5>2. ASSUME NEW Q \in ToSet(x), Q \cap S(n) # {} PROVE \E c \in 1 .. a : S(c) \in ToSet(x) /\ Meet(c, a)
          <6>1. PICK c \in 1 .. n - 1 : S(c) = Q
            BY <2>2
          <6> QED
            BY <2>3, <4>1, <5>2, <6>1
        <5> QED
          BY <5>1, <5>2
      <4>2. CASE a \in 1 .. n - 1
        BY <2>2, <3>4, <4>2
      <4> QED
        BY <2>3, <4>1, <4>2
    <3> HIDE DEF S, Same, Passed
    <3>5. x \in G[n]
      BY <2>1, <2>2, <3>1, <3>2, <3>3, <3>4
    <3> QED
      BY <2>5, <2>s, <3>5
  <2> QED
    BY <2>4, <2>5
<1> HIDE DEF N, c0
<1> HIDE DEF Step, G
<1>3. \A n \in 1 .. N : \A x \in G[n - 1] : h[n][x] = Step(n, x) /\ h[n][x] \in G[n]
  BY <1>2
<1> HIDE DEF h
<1>4. PICK g : IsLoop(g, c0, h, G, N)
  BY <1>1, <1>3, LoopExists
<1>5. ASSUME NEW n \in 0 .. N PROVE g[n] = IF n = 0 THEN c0 ELSE Step(n, g[n - 1])
  <2>1. n # 0 => n \in 1 .. N
    BY <1>1
  <2> QED
    BY <1>3, <1>4, <2>1 DEF IsLoop, Runs
<1>6. f = [n \in 0 .. N |-> IF n = 0 THEN c0 ELSE Step(n, f[n - 1])]
  <2>1. g = [n \in 0 .. N |-> IF n = 0 THEN c0 ELSE Step(n, g[n - 1])]
    BY <1>4, <1>5 DEF IsLoop
  <2> QED
    BY <2>1
<1> HIDE DEF f
<1>7. f[0] \in G[0] /\ \A n \in 1 .. N : f[n - 1] \in G[n - 1] => f[n] \in G[n]
  <2>1. f[0] = c0
    BY <1>1, <1>6
  <2>2. ASSUME NEW n \in 1 .. N PROVE f[n] = Step(n, f[n - 1])
    <3>1. n \in 0 .. N /\ n # 0
      BY <1>1
    <3> QED
      BY <1>6, <3>1
  <2> QED
    BY <1>1, <1>2, <2>1, <2>2
<1>8. f[N] \in G[N]
  BY <1>1, <1>7, LoopReaches
<1>9. Participating(batch, used, n_ubatch, sequential) = f[N]
  BY DEF Participating, f, Step, N, c0, left, Joins
<1> DEFINE sets == f[N]
<1>10. /\ N > 0 => sets # <<>>
       /\ \A R \in ToSet(sets) : \E b \in 1 .. N : S(b) = R
       /\ ~sequential => Same(N, sets)
  <2> HIDE DEF S, Same, Passed
  <2> QED
    BY <1>1, <1>8 DEF G
<1> HIDE DEF sets, f
<1>11. \A i \in D \ used : \E a \in 1 .. N : left[a] = i
  BY <1>a, <1>0 DEF ToSet, N
<1>12. \A b \in 1 .. N : left[b] \in D \ used
  BY <1>a, <1>0 DEF ToSet, N
<1>13. used # D => N > 0
  <2>1. used # D => \E i \in D : i \notin used
    BY DEF D
  <2> QED
    BY <1>1, <1>11, <2>1
<1>14. \A R \in ToSet(sets) : \E i \in D \ used : batch[i].seqs = R
  BY <1>10, <1>12
<1>15. ASSUME ~sequential PROVE InOneSet(batch, used, sets)
  <2> SUFFICES ASSUME NEW i \in D \ used, NEW j \in D \ used, i < j, batch[j].seqs \in ToSet(sets), Overlap(batch, i, j)
               PROVE  batch[i].seqs = batch[j].seqs
    BY DEF InOneSet, D
  <2>1. PICK a \in 1 .. N : left[a] = i
    BY <1>11
  <2>2. PICK b \in 1 .. N : left[b] = j
    BY <1>11
  <2>3. ~(b < a) /\ a # b
    <3>1. b < a => left[b] < left[a]
      BY <1>a, <1>0 DEF Rising, N
    <3> QED
      BY <1>a, <2>1, <2>2, <3>1
  <2>4. a \in Nat /\ b \in Nat
    BY <1>1
  <2> QED
    BY <1>10, <1>15, <2>1, <2>2, <2>3, <2>4 DEF Overlap
<1> QED
  BY <1>9, <1>10, <1>13, <1>14, <1>15 DEF sets, D

\* At a place of p there is an element of one of the sequences, and before it in p are those that
\* come before it in that sequence.
InTurn(p, seqs, n, k) ==
    \A q \in DOMAIN p : \E s \in 1 .. n : \E j \in 1 .. k :
        /\ p[q] = seqs[s][j]
        /\ \A l \in 1 .. j - 1 : \E o \in DOMAIN p : o < q /\ p[o] = seqs[s][l]

\* Another sequence may follow.
LEMMA InTurnStep ==
    ASSUME NEW T, NEW n \in Nat, NEW seqs, NEW k \in Nat, NEW x \in Seq(T), InTurn(x, seqs, n, k),
           NEW y \in Seq(T), Len(y) = k, \A j \in 1 .. k : y[j] = seqs[n + 1][j]
    PROVE  InTurn(x \o y, seqs, n + 1, k)
<1> DEFINE z == x \o y
           m == Len(x)
<1>1. /\ m \in Nat /\ DOMAIN x = 1 .. m /\ DOMAIN z = 1 .. m + k
      /\ (\A i \in 1 .. m : z[i] = x[i]) /\ \A i \in 1 .. k : z[m + i] = y[i]
  <2>1. z \in Seq(T) /\ Len(z) = m + k /\ m \in Nat
    OBVIOUS
  <2>2. \A i \in 1 .. m : z[i] = x[i]
    OBVIOUS
  <2>3. \A i \in 1 .. k : z[m + i] = y[i]
    OBVIOUS
  <2> HIDE DEF z
  <2>4. DOMAIN z = 1 .. m + k /\ DOMAIN x = 1 .. m
    BY <2>1
  <2> HIDE DEF m
  <2> QED
    BY <2>1, <2>2, <2>3, <2>4
<1> HIDE DEF z, m
<1>2. n + 1 \in 1 .. n + 1 /\ \A s \in 1 .. n : s \in 1 .. n + 1
  OBVIOUS
<1>3. ASSUME NEW q \in 1 .. m
      PROVE  \E s \in 1 .. n + 1 : \E j \in 1 .. k :
                z[q] = seqs[s][j] /\ \A l \in 1 .. j - 1 : \E o \in DOMAIN z : o < q /\ z[o] = seqs[s][l]
  <2>0. q \in DOMAIN x
    BY <1>1
  <2>1. PICK s \in 1 .. n : \E j \in 1 .. k :
           x[q] = seqs[s][j] /\ \A l \in 1 .. j - 1 : \E o \in DOMAIN x : o < q /\ x[o] = seqs[s][l]
    BY <2>0 DEF InTurn
  <2>2. PICK j \in 1 .. k : x[q] = seqs[s][j] /\ \A l \in 1 .. j - 1 : \E o \in DOMAIN x : o < q /\ x[o] = seqs[s][l]
    BY <2>1
  <2>3. s \in 1 .. n + 1 /\ z[q] = seqs[s][j]
    BY <1>1, <1>2, <2>2
  <2>4. \A o \in DOMAIN x : o \in DOMAIN z /\ z[o] = x[o]
    BY <1>1
  <2>5. \A l \in 1 .. j - 1 : \E o \in DOMAIN z : o < q /\ z[o] = seqs[s][l]
    BY <2>2, <2>4
  <2> QED
    BY <2>3, <2>5
<1>4. ASSUME NEW q \in m + 1 .. m + k
      PROVE  \E s \in 1 .. n + 1 : \E j \in 1 .. k :
                z[q] = seqs[s][j] /\ \A l \in 1 .. j - 1 : \E o \in DOMAIN z : o < q /\ z[o] = seqs[s][l]
  <2> DEFINE j == q - m
  <2>1. j \in 1 .. k /\ q = m + j
    BY <1>1
  <2> HIDE DEF j
  <2>2. z[q] = seqs[n + 1][j]
    BY <1>1, <2>1
  <2>3. ASSUME NEW l \in 1 .. j - 1 PROVE \E o \in DOMAIN z : o < q /\ z[o] = seqs[n + 1][l]
    <3>1. l \in 1 .. k /\ m + l \in 1 .. m + k /\ m + l < q
      BY <1>1, <2>1
    <3>2. z[m + l] = seqs[n + 1][l]
      BY <1>1, <3>1
    <3> QED
      BY <1>1, <3>1, <3>2
  <2> QED
    BY <1>2, <2>1, <2>2, <2>3
<1>5. \A q \in DOMAIN z : q \in 1 .. m \/ q \in m + 1 .. m + k
  BY <1>1
<1>6. InTurn(z, seqs, n + 1, k)
  BY <1>3, <1>4, <1>5 DEF InTurn
<1> QED
  BY <1>6 DEF z

\* So Firsts keeps the order of each sequence, and takes as many of each.
LEMMA FirstsInTurn ==
    ASSUME NEW T, NEW seqs, Len(seqs) \in Nat, NEW k \in Nat,
           \A n \in 1 .. Len(seqs) : seqs[n] \in Seq(T) /\ k <= Len(seqs[n])
    PROVE  Len(Firsts(seqs, k)) = Len(seqs) * k /\ InTurn(Firsts(seqs, k), seqs, Len(seqs), k)
<1> DEFINE N == Len(seqs)
           c0 == <<>>
           Pre(n) == SubSeq(seqs[n], 1, k)
           Step(n, x) == x \o Pre(n)
           G == [n \in 0 .. N |-> {x \in Seq(T) : Len(x) = n * k /\ InTurn(x, seqs, n, k)}]
           h == [n \in 1 .. N |-> [x \in G[n - 1] |-> Step(n, x)]]
           f == CHOOSE f : f = [n \in 0 .. N |-> IF n = 0 THEN c0 ELSE Step(n, f[n - 1])]
<1>0. N \in Nat /\ 0 \in 0 .. N
  OBVIOUS
<1>1. c0 \in G[0] /\ N \in Nat
  <2>1. c0 \in Seq(T) /\ Len(c0) = 0 * k /\ InTurn(c0, seqs, 0, k)
    BY DEF InTurn
  <2> HIDE DEF c0
  <2> QED
    BY <1>0, <2>1
<1>p. \A n \in 1 .. N : Pre(n) \in Seq(T) /\ Len(Pre(n)) = k /\ \A i \in 1 .. k : Pre(n)[i] = seqs[n][i]
  BY Begins
<1> HIDE DEF Pre
<1>2. ASSUME NEW n \in 1 .. N, NEW x \in G[n - 1] PROVE Step(n, x) \in G[n]
  <2>1. n \in 0 .. N /\ n - 1 \in 0 .. N /\ n - 1 \in Nat /\ (n - 1) + 1 = n
    BY <1>0
  <2>2. x \in Seq(T) /\ Len(x) = (n - 1) * k /\ InTurn(x, seqs, n - 1, k)
    BY <2>1
  <2> DEFINE p == Pre(n)
  <2>3. p \in Seq(T) /\ Len(p) = k /\ \A i \in 1 .. k : p[i] = seqs[n][i]
    BY <1>p
  <2> HIDE DEF p
  <2>4. x \o p \in Seq(T) /\ Len(x \o p) = Len(x) + k
    <3>1. x \in Seq(T) /\ p \in Seq(T) /\ Len(p) = k
      BY <2>2, <2>3
    <3>2. x \o p \in Seq(T) /\ Len(x \o p) = Len(x) + Len(p)
      BY <3>1, JoinedLength
    <3> QED
      BY <3>1, <3>2
  <2>5. (n - 1) * k + k = n * k
    BY <2>1
  <2> DEFINE m == n - 1
  <2>6. m \in Nat /\ InTurn(x, seqs, m, k) /\ m + 1 = n
    BY <2>1, <2>2
  <2> HIDE DEF m
  <2>7. InTurn(x \o p, seqs, n, k)
    BY <2>2, <2>3, <2>6, InTurnStep
  <2> QED
    BY <2>1, <2>2, <2>4, <2>5, <2>7 DEF p
<1> HIDE DEF N, c0
<1> HIDE DEF Step, G
<1>3. \A n \in 1 .. N : \A x \in G[n - 1] : h[n][x] = Step(n, x) /\ h[n][x] \in G[n]
  BY <1>2
<1> HIDE DEF h
<1>4. PICK g : IsLoop(g, c0, h, G, N)
  BY <1>1, <1>3, LoopExists
<1>5. ASSUME NEW n \in 0 .. N PROVE g[n] = IF n = 0 THEN c0 ELSE Step(n, g[n - 1])
  <2>1. n # 0 => n \in 1 .. N
    BY <1>1
  <2> QED
    BY <1>3, <1>4, <2>1 DEF IsLoop, Runs
<1>6. f = [n \in 0 .. N |-> IF n = 0 THEN c0 ELSE Step(n, f[n - 1])]
  <2>1. g = [n \in 0 .. N |-> IF n = 0 THEN c0 ELSE Step(n, g[n - 1])]
    BY <1>4, <1>5 DEF IsLoop
  <2> QED
    BY <2>1
<1> HIDE DEF f
<1>7. f[0] \in G[0] /\ \A n \in 1 .. N : f[n - 1] \in G[n - 1] => f[n] \in G[n]
  <2>1. f[0] = c0
    BY <1>1, <1>6
  <2>2. ASSUME NEW n \in 1 .. N PROVE f[n] = Step(n, f[n - 1])
    <3>1. n \in 0 .. N /\ n # 0
      BY <1>1
    <3> QED
      BY <1>6, <3>1
  <2> QED
    BY <1>1, <1>2, <2>1, <2>2
<1>8. f[N] \in G[N]
  BY <1>1, <1>7, LoopReaches
<1>9. Firsts(seqs, k) = f[N]
  BY DEF Firsts, f, Step, N, c0, Pre
<1>10. Len(f[N]) = N * k /\ InTurn(f[N], seqs, N, k)
  BY <1>1, <1>8 DEF G
<1> QED
  BY <1>9, <1>10 DEF N

\* split_equal() takes entries of each set in their order; with none of another set in between
\* that has a sequence of it, that is the order of the batch.
LEMMA SplitEqualCuts ==
    ASSUME NEW E, NEW batch \in Seq(E), Owned(batch), Narrowing(batch), NEW used \in SUBSET DOMAIN batch,
           \A i \in DOMAIN batch : IsFiniteSet(batch[i].seqs),
           NEW n_ubatch \in Nat, NEW sequential \in BOOLEAN, NEW tail \in 0 .. n_ubatch,
           ~(sequential /\ Coupled(batch))
    PROVE  /\ GoodCut(batch, used, SplitEqual(batch, used, n_ubatch, sequential, tail))
           /\ Cardinality(SetsIn(batch)) <= n_ubatch => Len(SplitEqual(batch, used, n_ubatch, sequential, tail)) <= n_ubatch
<1> DEFINE sets == Participating(batch, used, n_ubatch, sequential)
           p == SplitEqual(batch, used, n_ubatch, sequential, tail)
           D == DOMAIN batch
           Q == {batch[i].seqs : i \in D}
<1>1. CASE sets = <<>>
  <2>1. p = <<>> /\ used = D
    BY <1>1, ParticipatingInOneSet DEF SplitEqual
  <2> HIDE DEF p, D
  <2>2. p \in Seq(D) /\ NoRepeats(p) /\ ToSet(p) = {} /\ KeepsOrder(batch, used, p) /\ Len(p) = 0
    BY <2>1 DEF NoRepeats, ToSet, KeepsOrder
  <2> QED
    BY <2>1, <2>2 DEF GoodCut, p, D
<1>3. /\ \A R \in ToSet(sets) : \E i \in DOMAIN batch \ used : batch[i].seqs = R
      /\ ~sequential => InOneSet(batch, used, sets)
  <2> HIDE DEF D, Q, p
  <2>1. \A R \in ToSet(sets) : \E i \in DOMAIN batch \ used : batch[i].seqs = R
    BY ParticipatingInOneSet
  <2>2. ASSUME ~sequential PROVE InOneSet(batch, used, sets)
    BY <2>2, ParticipatingInOneSet
  <2> QED
    BY <2>1, <2>2
<1>2. CASE sets # <<>>
  <2>1. PICK n, k : /\ TakenOf(batch, used, tail, sets, n, k, p)
                    /\ (\A s \in DOMAIN sets : Len(Left(batch, used, sets[s])) # 0)
                       => k > 0 /\ (Len(sets) <= n_ubatch => n * k <= n_ubatch)
    BY <1>2, SplitEqualShape
  <2>2. /\ \A R \in ToSet(sets) : \E i \in D \ used : batch[i].seqs = R
        /\ ~sequential => InOneSet(batch, used, sets)
    BY <1>3
  <2>3. InOneSet(batch, used, sets)
    <3>1. sequential => InOneSet(batch, used, sets)
      BY UncoupledInOneSet
    <3> QED
      BY <2>2, <3>1
  <2> HIDE DEF sets, p
  <2> DEFINE left == [s \in 1 .. n |-> Left(batch, used, sets[s])]
  <2>4. /\ sets \in Seq(Q) /\ Apart(sets) /\ n \in 1 .. Len(sets) /\ k \in Nat /\ p = Firsts(left, k)
        /\ \A s \in 1 .. n : k <= Len(Left(batch, used, sets[s]))
    BY <2>1 DEF TakenOf
  <2>5. /\ Len(sets) \in Nat /\ n \in Nat /\ n >= 1 /\ n <= Len(sets) /\ DOMAIN sets = 1 .. Len(sets)
        /\ \A s \in 1 .. n : s \in DOMAIN sets
    <3> HIDE DEF Q
    <3> QED
      BY <2>4
  <2>6. \A s \in DOMAIN sets : sets[s] \in ToSet(sets) /\ sets[s] # {}
    BY <2>2 DEF ToSet, Owned
  <2>7. /\ DOMAIN left = 1 .. n
        /\ \A s \in 1 .. n : /\ left[s] \in Seq(D) /\ NoRepeats(left[s]) /\ Rising(left[s])
                             /\ ToSet(left[s]) = Of(batch, sets[s]) \ used /\ k <= Len(left[s])
    BY <2>4, LeftHas, UnusedRises
  <2>8. k > 0 /\ (Len(sets) <= n_ubatch => n * k <= n_ubatch)
    <3>1. ASSUME NEW s \in DOMAIN sets PROVE Len(Left(batch, used, sets[s])) # 0
      <4> DEFINE l == Left(batch, used, sets[s])
      <4>1. l \in Seq(D) /\ ToSet(l) = Of(batch, sets[s]) \ used
        BY LeftHas
      <4>2. ToSet(l) # {}
        BY <2>2, <2>6, <4>1 DEF Of
      <4> HIDE DEF l
      <4>3. DOMAIN l # {}
        BY <4>2 DEF ToSet
      <4>4. Len(l) # 0
        BY <4>1, <4>3
      <4> QED
        BY <4>4 DEF l
    <3> QED
      BY <2>1, <3>1
  <2>9. left = [s \in 1 .. n |-> left[s]]
    OBVIOUS
  <2> HIDE DEF left
  <2>10. Len(left) = n
    <3> DEFINE U == Seq(D)
    <3>1. \A s \in 1 .. n : left[s] \in U
      BY <2>7
    <3> HIDE DEF U
    <3>2. left \in Seq(U)
      BY <2>5, <2>9, <3>1
    <3> QED
      BY <2>5, <2>7, <3>2
  <2>11. \A j, s \in 1 .. n : j # s => ToSet(left[j]) \cap ToSet(left[s]) = {}
    <3> SUFFICES ASSUME NEW j \in 1 .. n, NEW s \in 1 .. n, j # s PROVE ToSet(left[j]) \cap ToSet(left[s]) = {}
      OBVIOUS
    <3>1. sets[j] # sets[s]
      BY <2>4, <2>5, <2>6 DEF Apart
    <3> QED
      BY <2>7, <3>1 DEF Of
  <2> HIDE DEF D
  <2>12. p \in Seq(D) /\ NoRepeats(p) /\ ToSet(p) = UNION {ToSet(SubSeq(left[s], 1, k)) : s \in 1 .. n}
    <3>1. /\ Len(left) \in Nat /\ k \in Nat
          /\ \A s \in 1 .. Len(left) : left[s] \in Seq(D) /\ NoRepeats(left[s]) /\ k <= Len(left[s])
          /\ \A j, s \in 1 .. Len(left) : j # s => ToSet(left[j]) \cap ToSet(left[s]) = {}
      BY <2>4, <2>5, <2>7, <2>10, <2>11
    <3>2. /\ Firsts(left, k) \in Seq(D) /\ NoRepeats(Firsts(left, k))
          /\ ToSet(Firsts(left, k)) = UNION {ToSet(SubSeq(left[s], 1, k)) : s \in 1 .. Len(left)}
      BY <3>1, FirstsHas
    <3> QED
      BY <2>4, <2>10, <3>2
  <2>13. Len(p) = n * k /\ InTurn(p, left, n, k)
    BY <2>4, <2>5, <2>7, <2>10, FirstsInTurn
  <2>14. p # <<>>
    <3>1. n * k > 0
      BY <2>4, <2>5, <2>8
    <3> QED
      BY <2>13, <3>1
  <2>15. ToSet(p) \cap used = {}
    <3>1. \A s \in 1 .. n : ToSet(SubSeq(left[s], 1, k)) \subseteq ToSet(left[s])
      BY <2>4, <2>7, Beginning
    <3>2. \A s \in 1 .. n : ToSet(SubSeq(left[s], 1, k)) \cap used = {}
      BY <2>7, <3>1
    <3> QED
      BY <2>12, <3>2
  <2>16. KeepsOrder(batch, used, p)
    <3> SUFFICES ASSUME NEW q \in DOMAIN p, NEW i \in D, i < p[q], Overlap(batch, i, p[q]), i \notin used
                 PROVE  \E o \in DOMAIN p : o < q /\ p[o] = i
      BY DEF KeepsOrder, D
    <3>1. PICK s \in 1 .. n, j \in 1 .. k :
             p[q] = left[s][j] /\ \A l \in 1 .. j - 1 : \E o \in DOMAIN p : o < q /\ p[o] = left[s][l]
      BY <2>13 DEF InTurn
    <3> DEFINE r == left[s]
    <3>2. r \in Seq(D) /\ Rising(r) /\ ToSet(r) = Of(batch, sets[s]) \ used /\ k <= Len(r)
      BY <2>7
    <3> HIDE DEF r
    <3>3. Len(r) \in Nat /\ DOMAIN r = 1 .. Len(r) /\ j \in DOMAIN r /\ j \in Nat
      BY <2>4, <3>2
    <3>4. r[j] \in ToSet(r) /\ p[q] = r[j]
      BY <3>1, <3>3 DEF ToSet, r
    <3>5. r[j] \in D \ used /\ batch[r[j]].seqs = sets[s] /\ sets[s] \in ToSet(sets)
      BY <2>5, <2>6, <3>2, <3>4 DEF Of, D
    <3>6. batch[i].seqs = sets[s]
      BY <2>3, <3>4, <3>5 DEF InOneSet, D
    <3>7. i \in ToSet(r)
      BY <3>2, <3>6 DEF Of, D
    <3>8. D \subseteq Nat
      BY DEF D
    <3>9. PICK l \in DOMAIN r : l < j /\ r[l] = i
      BY <3>2, <3>3, <3>4, <3>7, <3>8, RisingPlace
    <3>10. l \in 1 .. j - 1
      BY <3>3, <3>9
    <3> QED
      BY <3>1, <3>9, <3>10 DEF r
  <2>17. GoodCut(batch, used, p)
    BY <2>12, <2>14, <2>15, <2>16 DEF GoodCut, D
  <2>18. Cardinality(SetsIn(batch)) <= n_ubatch => Len(sets) <= n_ubatch
    <3>1. SetsIn(batch) = Q
      BY DEF SetsIn, D
    <3>2. IsFiniteSet(Q)
      <4>1. IsFiniteSet(D)
        BY EntriesFinite DEF D
      <4> DEFINE g == [i \in D |-> batch[i].seqs]
      <4>2. g \in Surjection(D, Q)
        BY DEF Surjection
      <4> HIDE DEF g, Q
      <4> QED
        BY <4>1, <4>2, FS_Surjection
    <3> HIDE DEF Q
    <3>3. NoRepeats(sets)
      BY <2>4, <2>6 DEF NoRepeats, Apart
    <3>4. Cardinality(ToSet(sets)) = Len(sets)
      BY <2>4, <3>3, DistinctLength
    <3>5. ToSet(sets) \subseteq Q
      BY <2>4, <2>5 DEF ToSet
    <3>6. Cardinality(ToSet(sets)) <= Cardinality(Q) /\ Cardinality(Q) \in Nat
      BY <3>2, <3>5, FS_Subset, FS_CardinalityType
    <3> QED
      BY <2>5, <3>1, <3>4, <3>6
  <2> QED
    BY <2>8, <2>13, <2>17, <2>18 DEF p
<1> QED
  BY <1>1, <1>2 DEF p

-----------------------------------------------------------------------------
(* The whole batch                                                         *)

\* So the ubatches of split_simple() are a split of the batch,
LEMMA AllSimpleKeeps ==
    ASSUME NEW E, NEW batch \in Seq(E), NEW n_ubatch \in Nat \ {0}
    PROVE  IsSplit(batch, AllSimple(batch, n_ubatch)) /\ FitsIn(AllSimple(batch, n_ubatch), n_ubatch)
<1> DEFINE N == Len(batch)
           c0 == [parts |-> <<>>, used |-> {}]
           NextPart(used) == SplitSimple(batch, used, n_ubatch)
           Step(n, x) == IF NextPart(x.used) = <<>> THEN x
                         ELSE [parts |-> Append(x.parts, NextPart(x.used)), used |-> x.used \cup ToSet(NextPart(x.used))]
           G == [n \in 0 .. N |-> CutsSoFar(batch, n_ubatch, 0, n)]
           h == [n \in 1 .. N |-> [x \in G[n - 1] |-> Step(n, x)]]
           f == CHOOSE f : f = [n \in 0 .. N |-> IF n = 0 THEN c0 ELSE Step(n, f[n - 1])]
<1>1. c0 \in G[0] /\ N \in Nat
  BY NoCuts
<1>2. ASSUME NEW n \in 1 .. N, NEW x \in G[n - 1] PROVE Step(n, x) \in G[n]
  <2>1. n \in 0 .. N /\ x \in CutsSoFar(batch, n_ubatch, 0, n - 1) /\ x.used \in SUBSET DOMAIN batch
    BY <1>1 DEF CutsSoFar
  <2> DEFINE p == NextPart(x.used)
  <2>2. GoodCut(batch, x.used, p) /\ Len(p) <= n_ubatch
    BY <2>1, SplitSimpleCuts
  <2>3. Step(n, x) = IF p = <<>> THEN x ELSE [parts |-> Append(x.parts, p), used |-> x.used \cup ToSet(p)]
    OBVIOUS
  <2>4. n \in 1 .. Len(batch) /\ 0 \in Nat
    OBVIOUS
  <2> HIDE DEF Step, p, G, N
  <2>5. 0 > 0 /\ p # <<>> => Shares(batch, x.used, 0, p)
    BY <2>2
  <2>6. (IF p = <<>> THEN x ELSE [parts |-> Append(x.parts, p), used |-> x.used \cup ToSet(p)])
        \in CutsSoFar(batch, n_ubatch, 0, n)
    BY <2>1, <2>2, <2>4, <2>5, CutsStep
  <2>7. Step(n, x) \in CutsSoFar(batch, n_ubatch, 0, n)
    BY <2>3, <2>6
  <2> QED
    BY <2>1, <2>7 DEF G
<1> HIDE DEF N, c0, NextPart
<1> HIDE DEF Step, G
<1>3. \A n \in 1 .. N : \A x \in G[n - 1] : h[n][x] = Step(n, x) /\ h[n][x] \in G[n]
  BY <1>2
<1> HIDE DEF h
<1>4. PICK g : IsLoop(g, c0, h, G, N)
  BY <1>1, <1>3, LoopExists
<1>5. ASSUME NEW n \in 0 .. N PROVE g[n] = IF n = 0 THEN c0 ELSE Step(n, g[n - 1])
  <2>1. n # 0 => n \in 1 .. N
    BY <1>1
  <2> QED
    BY <1>3, <1>4, <2>1 DEF IsLoop, Runs
<1>6. f = [n \in 0 .. N |-> IF n = 0 THEN c0 ELSE Step(n, f[n - 1])]
  <2>1. g = [n \in 0 .. N |-> IF n = 0 THEN c0 ELSE Step(n, g[n - 1])]
    BY <1>4, <1>5 DEF IsLoop
  <2> QED
    BY <2>1
<1> HIDE DEF f
<1>7. f[0] \in G[0] /\ \A n \in 1 .. N : f[n - 1] \in G[n - 1] => f[n] \in G[n]
  <2>1. f[0] = c0
    BY <1>1, <1>6
  <2>2. ASSUME NEW n \in 1 .. N PROVE f[n] = Step(n, f[n - 1])
    <3>1. n \in 0 .. N /\ n # 0
      BY <1>1
    <3> QED
      BY <1>6, <3>1
  <2> QED
    BY <1>1, <1>2, <2>1, <2>2
<1>8. f[N] \in G[N]
  BY <1>1, <1>7, LoopReaches
<1>9. AllSimple(batch, n_ubatch) = f[N].parts
  BY DEF AllSimple, Ubatches, f, Step, N, c0, NextPart
<1>10. f[N] \in CutsSoFar(batch, n_ubatch, 0, Len(batch))
  BY <1>1, <1>8 DEF G, N
<1> QED
  BY <1>9, <1>10, CutsDone

\* those of split_seq() too,
LEMMA AllSeqKeeps ==
    ASSUME NEW E, NEW batch \in Seq(E), Narrowing(batch), NEW n_ubatch \in Nat \ {0}
    PROVE  IsSplit(batch, AllSeq(batch, n_ubatch)) /\ FitsIn(AllSeq(batch, n_ubatch), n_ubatch)
<1> DEFINE N == Len(batch)
           c0 == [parts |-> <<>>, used |-> {}]
           NextPart(used) == SplitSeq(batch, used, n_ubatch)
           Step(n, x) == IF NextPart(x.used) = <<>> THEN x
                         ELSE [parts |-> Append(x.parts, NextPart(x.used)), used |-> x.used \cup ToSet(NextPart(x.used))]
           G == [n \in 0 .. N |-> CutsSoFar(batch, n_ubatch, 0, n)]
           h == [n \in 1 .. N |-> [x \in G[n - 1] |-> Step(n, x)]]
           f == CHOOSE f : f = [n \in 0 .. N |-> IF n = 0 THEN c0 ELSE Step(n, f[n - 1])]
<1>1. c0 \in G[0] /\ N \in Nat
  BY NoCuts
<1>2. ASSUME NEW n \in 1 .. N, NEW x \in G[n - 1] PROVE Step(n, x) \in G[n]
  <2>1. n \in 0 .. N /\ x \in CutsSoFar(batch, n_ubatch, 0, n - 1) /\ x.used \in SUBSET DOMAIN batch
    BY <1>1 DEF CutsSoFar
  <2> DEFINE p == NextPart(x.used)
  <2>2. GoodCut(batch, x.used, p) /\ Len(p) <= n_ubatch
    BY <2>1, SplitSeqCuts
  <2>3. Step(n, x) = IF p = <<>> THEN x ELSE [parts |-> Append(x.parts, p), used |-> x.used \cup ToSet(p)]
    OBVIOUS
  <2>4. n \in 1 .. Len(batch) /\ 0 \in Nat
    OBVIOUS
  <2> HIDE DEF Step, p, G, N
  <2>5. 0 > 0 /\ p # <<>> => Shares(batch, x.used, 0, p)
    BY <2>2
  <2>6. (IF p = <<>> THEN x ELSE [parts |-> Append(x.parts, p), used |-> x.used \cup ToSet(p)])
        \in CutsSoFar(batch, n_ubatch, 0, n)
    BY <2>1, <2>2, <2>4, <2>5, CutsStep
  <2>7. Step(n, x) \in CutsSoFar(batch, n_ubatch, 0, n)
    BY <2>3, <2>6
  <2> QED
    BY <2>1, <2>7 DEF G
<1> HIDE DEF N, c0, NextPart
<1> HIDE DEF Step, G
<1>3. \A n \in 1 .. N : \A x \in G[n - 1] : h[n][x] = Step(n, x) /\ h[n][x] \in G[n]
  BY <1>2
<1> HIDE DEF h
<1>4. PICK g : IsLoop(g, c0, h, G, N)
  BY <1>1, <1>3, LoopExists
<1>5. ASSUME NEW n \in 0 .. N PROVE g[n] = IF n = 0 THEN c0 ELSE Step(n, g[n - 1])
  <2>1. n # 0 => n \in 1 .. N
    BY <1>1
  <2> QED
    BY <1>3, <1>4, <2>1 DEF IsLoop, Runs
<1>6. f = [n \in 0 .. N |-> IF n = 0 THEN c0 ELSE Step(n, f[n - 1])]
  <2>1. g = [n \in 0 .. N |-> IF n = 0 THEN c0 ELSE Step(n, g[n - 1])]
    BY <1>4, <1>5 DEF IsLoop
  <2> QED
    BY <2>1
<1> HIDE DEF f
<1>7. f[0] \in G[0] /\ \A n \in 1 .. N : f[n - 1] \in G[n - 1] => f[n] \in G[n]
  <2>1. f[0] = c0
    BY <1>1, <1>6
  <2>2. ASSUME NEW n \in 1 .. N PROVE f[n] = Step(n, f[n - 1])
    <3>1. n \in 0 .. N /\ n # 0
      BY <1>1
    <3> QED
      BY <1>6, <3>1
  <2> QED
    BY <1>1, <1>2, <2>1, <2>2
<1>8. f[N] \in G[N]
  BY <1>1, <1>7, LoopReaches
<1>9. AllSeq(batch, n_ubatch) = f[N].parts
  BY DEF AllSeq, Ubatches, f, Step, N, c0, NextPart
<1>10. f[N] \in CutsSoFar(batch, n_ubatch, 0, Len(batch))
  BY <1>1, <1>8 DEF G, N
<1> QED
  BY <1>9, <1>10, CutsDone

\* and those of split_equal(), which fit if there are not more sets of sequences than entries in a
\* ubatch, and which leave whole tails.
LEMMA AllEqualKeeps ==
    ASSUME NEW E, NEW batch \in Seq(E), Owned(batch), Narrowing(batch), \A i \in DOMAIN batch : IsFiniteSet(batch[i].seqs),
           NEW n_ubatch \in Nat, NEW sequential \in BOOLEAN, NEW tail \in 0 .. n_ubatch, ~(sequential /\ Coupled(batch)),
           NEW m, m = Len(batch) \/ (m = n_ubatch /\ Cardinality(SetsIn(batch)) <= n_ubatch)
    PROVE  LET parts == AllEqual(batch, n_ubatch, sequential, tail)
           IN IsSplit(batch, parts) /\ FitsIn(parts, m) /\ (tail > 0 => TailsWhole(batch, parts, tail))
<1> DEFINE N == Len(batch)
           c0 == [parts |-> <<>>, used |-> {}]
           NextPart(used) == SplitEqual(batch, used, n_ubatch, sequential, tail)
           Step(n, x) == IF NextPart(x.used) = <<>> THEN x
                         ELSE [parts |-> Append(x.parts, NextPart(x.used)), used |-> x.used \cup ToSet(NextPart(x.used))]
           G == [n \in 0 .. N |-> CutsSoFar(batch, m, tail, n)]
           h == [n \in 1 .. N |-> [x \in G[n - 1] |-> Step(n, x)]]
           f == CHOOSE f : f = [n \in 0 .. N |-> IF n = 0 THEN c0 ELSE Step(n, f[n - 1])]
<1>1. c0 \in G[0] /\ N \in Nat
  BY NoCuts
<1>c. ASSUME NEW used \in SUBSET DOMAIN batch, NEW p, p = SplitEqual(batch, used, n_ubatch, sequential, tail)
      PROVE  GoodCut(batch, used, p) /\ Len(p) <= m
  <2>1. GoodCut(batch, used, p) /\ (Cardinality(SetsIn(batch)) <= n_ubatch => Len(p) <= n_ubatch)
    BY <1>c, SplitEqualCuts
  <2>2. p \in Seq(DOMAIN batch) /\ NoRepeats(p)
    BY <2>1 DEF GoodCut
  <2>3. Len(p) <= Len(batch)
    <3>1. ToSet(p) \in SUBSET DOMAIN batch
      BY <2>2 DEF ToSet
    <3>2. Cardinality(ToSet(p)) = Len(p)
      BY <2>2, DistinctLength
    <3>3. Cardinality(ToSet(p)) \in 0 .. Len(batch)
      BY <3>1, EntriesFinite
    <3> QED
      BY <3>2, <3>3
  <2> QED
    BY <2>1, <2>3
<1>s. ASSUME NEW used, NEW p, p = SplitEqual(batch, used, n_ubatch, sequential, tail), p # <<>>, tail > 0
      PROVE  Shares(batch, used, tail, p)
  <2>1. tail \in 1 .. n_ubatch
    BY <1>s
  <2> QED
    BY <1>s, <2>1, SplitEqualShares
<1>2. ASSUME NEW n \in 1 .. N, NEW x \in G[n - 1] PROVE Step(n, x) \in G[n]
  <2>1. n \in 0 .. N /\ x \in CutsSoFar(batch, m, tail, n - 1) /\ x.used \in SUBSET DOMAIN batch
    BY <1>1 DEF CutsSoFar
  <2> DEFINE p == NextPart(x.used)
  <2>2. GoodCut(batch, x.used, p) /\ Len(p) <= m /\ (tail > 0 /\ p # <<>> => Shares(batch, x.used, tail, p))
    BY <1>c, <1>s, <2>1
  <2>3. Step(n, x) = IF p = <<>> THEN x ELSE [parts |-> Append(x.parts, p), used |-> x.used \cup ToSet(p)]
    OBVIOUS
  <2>4. n \in 1 .. Len(batch) /\ tail \in Nat
    OBVIOUS
  <2> HIDE DEF Step, p, G, N
  <2>5. tail > 0 /\ p # <<>> => Shares(batch, x.used, tail, p)
    BY <2>2
  <2>6. (IF p = <<>> THEN x ELSE [parts |-> Append(x.parts, p), used |-> x.used \cup ToSet(p)])
        \in CutsSoFar(batch, m, tail, n)
    BY <2>1, <2>2, <2>4, <2>5, CutsStep
  <2>7. Step(n, x) \in CutsSoFar(batch, m, tail, n)
    BY <2>3, <2>6
  <2> QED
    BY <2>1, <2>7 DEF G
<1> HIDE DEF N, c0, NextPart
<1> HIDE DEF Step, G
<1>3. \A n \in 1 .. N : \A x \in G[n - 1] : h[n][x] = Step(n, x) /\ h[n][x] \in G[n]
  BY <1>2
<1> HIDE DEF h
<1>4. PICK g : IsLoop(g, c0, h, G, N)
  BY <1>1, <1>3, LoopExists
<1>5. ASSUME NEW n \in 0 .. N PROVE g[n] = IF n = 0 THEN c0 ELSE Step(n, g[n - 1])
  <2>1. n # 0 => n \in 1 .. N
    BY <1>1
  <2> QED
    BY <1>3, <1>4, <2>1 DEF IsLoop, Runs
<1>6. f = [n \in 0 .. N |-> IF n = 0 THEN c0 ELSE Step(n, f[n - 1])]
  <2>1. g = [n \in 0 .. N |-> IF n = 0 THEN c0 ELSE Step(n, g[n - 1])]
    BY <1>4, <1>5 DEF IsLoop
  <2> QED
    BY <2>1
<1> HIDE DEF f
<1>7. f[0] \in G[0] /\ \A n \in 1 .. N : f[n - 1] \in G[n - 1] => f[n] \in G[n]
  <2>1. f[0] = c0
    BY <1>1, <1>6
  <2>2. ASSUME NEW n \in 1 .. N PROVE f[n] = Step(n, f[n - 1])
    <3>1. n \in 0 .. N /\ n # 0
      BY <1>1
    <3> QED
      BY <1>6, <3>1
  <2> QED
    BY <1>1, <1>2, <2>1, <2>2
<1>8. f[N] \in G[N]
  BY <1>1, <1>7, LoopReaches
<1>9. AllEqual(batch, n_ubatch, sequential, tail) = f[N].parts
  BY DEF AllEqual, Ubatches, f, Step, N, c0, NextPart
<1>10. f[N] \in CutsSoFar(batch, m, tail, Len(batch))
  BY <1>1, <1>8 DEF G, N
<1> QED
  BY <1>9, <1>10, CutsDone

\* A sequential split_equal() of a batch with tokens of several sequences gives up.
LEMMA AllEqualGivesUp ==
    ASSUME NEW E, NEW batch \in Seq(E), NEW n_ubatch, NEW tail, Coupled(batch)
    PROVE  AllEqual(batch, n_ubatch, TRUE, tail) = <<>>
<1> DEFINE N == Len(batch)
           c0 == [parts |-> <<>>, used |-> {}]
           NextPart(used) == SplitEqual(batch, used, n_ubatch, TRUE, tail)
           Step(n, x) == IF NextPart(x.used) = <<>> THEN x
                         ELSE [parts |-> Append(x.parts, NextPart(x.used)), used |-> x.used \cup ToSet(NextPart(x.used))]
           G == [n \in 0 .. N |-> {c0}]
           h == [n \in 1 .. N |-> [x \in G[n - 1] |-> Step(n, x)]]
           f == CHOOSE f : f = [n \in 0 .. N |-> IF n = 0 THEN c0 ELSE Step(n, f[n - 1])]
<1>1. c0 \in G[0] /\ N \in Nat
  OBVIOUS
<1>2. ASSUME NEW n \in 1 .. N, NEW x \in G[n - 1] PROVE Step(n, x) \in G[n]
  <2>1. n \in 0 .. N /\ x = c0
    BY <1>1
  <2>2. NextPart(x.used) = <<>>
    BY DEF SplitEqual
  <2> HIDE DEF NextPart
  <2>3. Step(n, x) = c0
    BY <2>1, <2>2
  <2> QED
    BY <2>1, <2>3
<1> HIDE DEF N, c0, NextPart
<1> HIDE DEF Step, G
<1>3. \A n \in 1 .. N : \A x \in G[n - 1] : h[n][x] = Step(n, x) /\ h[n][x] \in G[n]
  BY <1>2
<1> HIDE DEF h
<1>4. PICK g : IsLoop(g, c0, h, G, N)
  BY <1>1, <1>3, LoopExists
<1>5. ASSUME NEW n \in 0 .. N PROVE g[n] = IF n = 0 THEN c0 ELSE Step(n, g[n - 1])
  <2>1. n # 0 => n \in 1 .. N
    BY <1>1
  <2> QED
    BY <1>3, <1>4, <2>1 DEF IsLoop, Runs
<1>6. f = [n \in 0 .. N |-> IF n = 0 THEN c0 ELSE Step(n, f[n - 1])]
  <2>1. g = [n \in 0 .. N |-> IF n = 0 THEN c0 ELSE Step(n, g[n - 1])]
    BY <1>4, <1>5 DEF IsLoop
  <2> QED
    BY <2>1
<1> HIDE DEF f
<1>7. f[0] \in G[0] /\ \A n \in 1 .. N : f[n - 1] \in G[n - 1] => f[n] \in G[n]
  <2>1. f[0] = c0
    BY <1>1, <1>6
  <2>2. ASSUME NEW n \in 1 .. N PROVE f[n] = Step(n, f[n - 1])
    <3>1. n \in 0 .. N /\ n # 0
      BY <1>1
    <3> QED
      BY <1>6, <3>1
  <2> QED
    BY <1>1, <1>2, <2>1, <2>2
<1>8. f[N] \in G[N]
  BY <1>1, <1>7, LoopReaches
<1>9. AllEqual(batch, n_ubatch, TRUE, tail) = f[N].parts
  BY DEF AllEqual, Ubatches, f, Step, N, c0, NextPart
<1>10. f[N] = c0
  BY <1>1, <1>8 DEF G
<1>11. c0.parts = <<>>
  BY DEF c0
<1> QED
  BY <1>9, <1>10, <1>11

\* Each of the three ways to cut a batch that is as llama_batch_allocr::init asks
\* (llama-batch.cpp:340-385) yields ubatches that fit, that have every entry of the batch once,
\* and that keep the order of every sequence, for batches of any length, any sets of sequences,
\* and ubatches of any size (llama-batch.cpp:477-708).
THEOREM SplitsKeepEntries ==
    ASSUME NEW batch, IsBatch(batch), Acceptable(batch), NEW n \in Nat \ {0}
    PROVE  KeepsEntries(batch, n)
<1> DEFINE E == ToSet(batch)
<1>1. /\ batch \in Seq(E) /\ Owned(batch) /\ Narrowing(batch) /\ \A i \in DOMAIN batch : IsFiniteSet(batch[i].seqs)
      /\ n \in Nat /\ 0 \in 0 .. n
  BY DEF IsBatch, Acceptable, Owned
<1> HIDE DEF E
<1>2. IsSplit(batch, AllSimple(batch, n)) /\ FitsIn(AllSimple(batch, n), n)
  BY <1>1, AllSimpleKeeps
<1>3. IsSplit(batch, AllSeq(batch, n)) /\ FitsIn(AllSeq(batch, n), n)
  BY <1>1, AllSeqKeeps
<1>4. ASSUME NEW sequential \in BOOLEAN, ~(sequential /\ Coupled(batch))
      PROVE  LET parts == AllEqual(batch, n, sequential, 0)
             IN IsSplit(batch, parts) /\ (Cardinality(SetsIn(batch)) <= n => FitsIn(parts, n))
  <2> DEFINE parts == AllEqual(batch, n, sequential, 0)
  <2> HIDE DEF parts
  <2>1. IsSplit(batch, parts)
    <3> DEFINE m == Len(batch)
    <3>1. m = Len(batch)
      OBVIOUS
    <3> HIDE DEF m
    <3> QED
      BY <1>1, <1>4, <3>1, AllEqualKeeps DEF parts
  <2>2. Cardinality(SetsIn(batch)) <= n => FitsIn(parts, n)
    BY <1>1, <1>4, AllEqualKeeps DEF parts
  <2> QED
    BY <2>1, <2>2 DEF parts
<1>5. ASSUME NEW sequential \in BOOLEAN, sequential /\ Coupled(batch)
      PROVE  AllEqual(batch, n, sequential, 0) = <<>>
  <2>1. sequential = TRUE
    BY <1>5
  <2> QED
    BY <1>1, <1>5, <2>1, AllEqualGivesUp
<1> QED
  BY <1>2, <1>3, <1>4, <1>5 DEF KeepsEntries

\* split_equal() with a tail also leaves nothing of a set of sequences, or a whole tail, after
\* every ubatch (llama-batch.cpp:605-669): what the snapshots of the recurrent memory rely on.
THEOREM SplitsKeepTails ==
    ASSUME NEW batch, IsBatch(batch), Acceptable(batch), NEW n \in Nat, NEW tail \in 1 .. n
    PROVE  KeepsTails(batch, n, tail)
<1> DEFINE E == ToSet(batch)
<1>1. /\ batch \in Seq(E) /\ Owned(batch) /\ Narrowing(batch) /\ \A i \in DOMAIN batch : IsFiniteSet(batch[i].seqs)
      /\ tail \in 0 .. n /\ tail > 0
  BY DEF IsBatch, Acceptable, Owned
<1> HIDE DEF E
<1> DEFINE parts == AllEqual(batch, n, FALSE, tail)
<1> HIDE DEF parts
<1>2. ASSUME Cardinality(SetsIn(batch)) <= n
      PROVE  IsSplit(batch, parts) /\ FitsIn(parts, n) /\ TailsWhole(batch, parts, tail)
  BY <1>1, <1>2, AllEqualKeeps DEF parts
<1> QED
  BY <1>2 DEF KeepsTails, parts

=============================================================================
