------------------------------- MODULE Ranks -------------------------------
(***************************************************************************)
(* Facts that several proofs rest on: the least of a set of numbers, how   *)
(* many of them are passed at a point, and sequences that are put together *)
(* of others one after another.                                            *)
(***************************************************************************)
EXTENDS Integers, Sequences, FiniteSets, FiniteSetsExt, SequencesExt,
        FiniteSetTheorems, SequenceTheorems, WellFoundedInduction, TLAPS

-----------------------------------------------------------------------------
(* Ranks: how many of some positions are passed.                           *)

Upto(P, n) == Cardinality({j \in 1 .. n : j \in P})

(* A set of numbers that is not empty has a least one.                     *)
LEMMA NatHasLeast ==
  ASSUME NEW S \in SUBSET Nat, S # {}
  PROVE  \E m \in S : \A k \in S : m <= k
<1> DEFINE before == {pair \in Nat \X Nat : pair[1] < pair[2]}
<1>1. IsWellFoundedOn(before, Nat)
  BY NatLessThanWellFounded DEF OpToRel
<1>2. \A x, y \in Nat : y < x => <<y, x>> \in before
  OBVIOUS
<1> HIDE DEF before
<1>3. PICK x \in S : \A y \in S : <<y, x>> \notin before
  BY <1>1, WFMin
<1>4. \A y \in S : x <= y
  <2> TAKE y \in S
  <2>1. x \in Nat /\ y \in Nat /\ ~ (y < x)
    BY <1>2, <1>3
  <2> QED BY <2>1
<1> QED BY <1>4

LEMMA MinIsLeast ==
  ASSUME NEW S \in SUBSET Nat, S # {}
  PROVE  Min(S) \in S /\ \A k \in S : Min(S) <= k
BY NatHasLeast DEF Min

LEMMA MinIsUnique ==
  ASSUME NEW S \in SUBSET Nat, NEW m \in S, \A k \in S : m <= k
  PROVE  Min(S) = m
<1>1. Min(S) \in S /\ Min(S) <= m
  BY MinIsLeast
<1>2. Min(S) \in Nat /\ m \in Nat /\ m <= Min(S)
  BY <1>1
<1> QED BY <1>1, <1>2

LEMMA UptoTurns ==
  ASSUME NEW P, NEW n \in Nat
  PROVE  /\ Upto(P, n) \in Nat /\ Upto(P, 0) = 0
         /\ Upto(P, n + 1) = IF n + 1 \in P THEN Upto(P, n) + 1 ELSE Upto(P, n)
<1> DEFINE passed(m) == {j \in 1 .. m : j \in P}
<1>1. \A m \in Nat : IsFiniteSet(passed(m))
  <2> TAKE m \in Nat
  <2>1. IsFiniteSet(1 .. m) /\ passed(m) \subseteq 1 .. m
    BY FS_Interval
  <2> QED BY <2>1, FS_Subset
<1>2. passed(0) = {}
  OBVIOUS
<1>3. passed(n + 1) = IF n + 1 \in P THEN passed(n) \cup {n + 1} ELSE passed(n)
  <2>1. CASE n + 1 \in P
    BY <2>1
  <2>2. CASE n + 1 \notin P
    BY <2>2
  <2> QED BY <2>1, <2>2
<1>4. n + 1 \notin passed(n)
  OBVIOUS
<1>5. \A m \in Nat : Upto(P, m) = Cardinality(passed(m))
  BY DEF Upto
<1>6. IsFiniteSet(passed(n)) /\ n + 1 \in Nat
  BY <1>1
<1> HIDE DEF passed
<1>7. Cardinality(passed(n)) \in Nat
  BY <1>6, FS_CardinalityType
<1>8. Cardinality(passed(n) \cup {n + 1}) = Cardinality(passed(n)) + 1
  BY <1>4, <1>6, FS_AddElement
<1>9. Cardinality(passed(0)) = 0
  BY <1>2, FS_EmptySet
<1> QED BY <1>3, <1>5, <1>6, <1>7, <1>8, <1>9

LEMMA UptoGrows ==
  ASSUME NEW P, NEW i \in Nat, NEW j \in Nat
  PROVE  /\ i <= j => Upto(P, i) <= Upto(P, j)
         /\ i < j /\ j \in P => Upto(P, i) < Upto(P, j)
<1>1. \A k, m \in Nat : k <= m => Upto(P, k) <= Upto(P, m)
  <2> SUFFICES ASSUME NEW k \in Nat, NEW m \in Nat, k <= m
               PROVE  Upto(P, k) <= Upto(P, m)
    OBVIOUS
  <2> DEFINE passed(n) == {x \in 1 .. n : x \in P}
  <2>1. IsFiniteSet(passed(m))
    <3>1. IsFiniteSet(1 .. m) /\ passed(m) \subseteq 1 .. m
      BY FS_Interval
    <3> QED BY <3>1, FS_Subset
  <2>2. passed(k) \subseteq passed(m)
    OBVIOUS
  <2>3. Cardinality(passed(k)) <= Cardinality(passed(m))
    BY <2>1, <2>2, FS_Subset
  <2> QED BY <2>3 DEF Upto
<1>2. ASSUME i < j, j \in P PROVE Upto(P, i) < Upto(P, j)
  <2>1. j - 1 \in Nat /\ i <= j - 1 /\ (j - 1) + 1 = j
    BY <1>2
  <2>2. Upto(P, j) = Upto(P, j - 1) + 1 /\ Upto(P, j - 1) \in Nat
    BY <1>2, <2>1, UptoTurns
  <2>3. Upto(P, i) <= Upto(P, j - 1) /\ Upto(P, i) \in Nat
    BY <1>1, <2>1, UptoTurns
  <2> QED BY <2>2, <2>3
<1> QED BY <1>1, <1>2

(* Among places 1 .. n every one has a rank of its own, and every rank up  *)
(* to their number is taken.                                               *)
LEMMA RanksArePlaces ==
  ASSUME NEW n \in Nat, NEW P \in SUBSET (1 .. n)
  PROVE  /\ Cardinality(P) \in Nat /\ Upto(P, n) = Cardinality(P)
         /\ \A i \in 0 .. n : Upto(P, i) = Cardinality({j \in P : j <= i})
         /\ \A i \in P : Upto(P, i) \in 1 .. Cardinality(P)
         /\ \A i, j \in P : Upto(P, i) = Upto(P, j) => i = j
         /\ \A k \in 1 .. Cardinality(P) : \E i \in P : Upto(P, i) = k
<1>1. \A i \in 0 .. n : Upto(P, i) = Cardinality({j \in P : j <= i})
  <2> TAKE i \in 0 .. n
  <2>1. \A j \in P : j \in 1 .. i <=> j <= i
    OBVIOUS
  <2>2. {j \in 1 .. i : j \in P} = {j \in P : j <= i}
    BY <2>1, Zenon
  <2> QED BY <2>2 DEF Upto
<1>2. Upto(P, n) = Cardinality(P)
  <2>1. \A j \in P : j <= n
    OBVIOUS
  <2>2. {j \in P : j <= n} = P
    BY <2>1, Zenon
  <2> QED BY <1>1, <2>2
<1>3. \A i \in 0 .. n : Upto(P, i) \in Nat
  BY UptoTurns
<1>4. \A i \in P : Upto(P, i) \in 1 .. Cardinality(P)
  <2> TAKE i \in P
  <2>1. Upto(P, 0) < Upto(P, i) /\ Upto(P, i) <= Upto(P, n) /\ Upto(P, 0) = 0
    BY UptoGrows, UptoTurns
  <2> QED BY <1>2, <1>3, <2>1
<1>5. \A i, j \in P : Upto(P, i) = Upto(P, j) => i = j
  <2> TAKE i, j \in P
  <2>1. i < j => Upto(P, i) < Upto(P, j)
    BY UptoGrows
  <2>2. j < i => Upto(P, j) < Upto(P, i)
    BY UptoGrows
  <2>3. i \in Nat /\ j \in Nat /\ Upto(P, i) \in Nat /\ Upto(P, j) \in Nat
    BY <1>3
  <2> QED BY <2>1, <2>2, <2>3
<1>6. \A k \in 1 .. Cardinality(P) : \E i \in P : Upto(P, i) = k
  <2> SUFFICES ASSUME NEW k \in 1 .. Cardinality(P)
               PROVE  \E i \in P : Upto(P, i) = k
    OBVIOUS
  <2> DEFINE passed == {i \in 0 .. n : k <= Upto(P, i)}
  <2>1. n \in passed
    BY <1>2, <1>3
  <2>2. PICK i \in passed : \A j \in passed : i <= j
    <3>1. passed \in SUBSET Nat /\ passed # {}
      BY <2>1
    <3> HIDE DEF passed
    <3> QED BY <3>1, NatHasLeast
  <2>3. i # 0
    BY <1>3, <2>2, UptoTurns
  <2>4. i - 1 \in Nat /\ i - 1 \in 0 .. n /\ (i - 1) + 1 = i
    BY <2>2, <2>3
  <2>5. Upto(P, i - 1) < k
    <3>1. i - 1 \notin passed
      BY <2>2, <2>4
    <3> QED BY <1>3, <2>4, <3>1
  <2>6. Upto(P, i) = IF i \in P THEN Upto(P, i - 1) + 1 ELSE Upto(P, i - 1)
    BY <2>4, UptoTurns
  <2> QED BY <1>3, <2>2, <2>4, <2>5, <2>6
<1>7. Cardinality(P) \in Nat
  BY <1>2, <1>3
<1> QED BY <1>1, <1>2, <1>4, <1>5, <1>6, <1>7

(* So the place of a rank can be chosen by counting.                       *)
LEMMA PlaceOfRank ==
  ASSUME NEW n \in Nat, NEW P \in SUBSET (1 .. n), NEW i \in P
  PROVE  (CHOOSE m \in P : Cardinality({j \in P : j <= m}) = Upto(P, i)) = i
<1>1. (CHOOSE m \in P : Upto(P, m) = Upto(P, i)) = i
  BY RanksArePlaces
<1>2. \A m \in P : Upto(P, m) = Cardinality({j \in P : j <= m})
  <2>1. \A m \in P : m \in 0 .. n
    OBVIOUS
  <2>2. \A m \in 0 .. n : Upto(P, m) = Cardinality({j \in P : j <= m})
    BY RanksArePlaces
  <2> QED BY <2>1, <2>2, Zenon
<1> QED BY <1>1, <1>2

(* Of positions, all of them counted, the first has the least rank.        *)
LEMMA FirstIsFirst ==
  ASSUME NEW P \in SUBSET Nat, NEW T \in SUBSET P, T # {}
  PROVE  Min({Upto(P, i) : i \in T}) = Upto(P, Min(T))
<1> DEFINE K == {Upto(P, i) : i \in T}
<1>1. Min(T) \in T /\ \A i \in T : Min(T) <= i
  BY MinIsLeast
<1>2. Upto(P, Min(T)) \in K
  BY <1>1
<1>3. \A i \in T : Upto(P, Min(T)) <= Upto(P, i)
  BY <1>1, UptoGrows
<1>4. K \in SUBSET Nat /\ \A k \in K : Upto(P, Min(T)) <= k
  BY <1>3, UptoTurns
<1> QED BY <1>2, <1>4, MinIsUnique

-----------------------------------------------------------------------------
(* FlattenSeq, one sequence more at a time.                                *)

Flattened(f, seqs, n) ==
  f = [i \in 1 .. n |-> IF i = 1 THEN seqs[i] ELSE f[i - 1] \o seqs[i]]

(* Two solutions of the recursion agree as far as both go.                 *)
LEMMA FlattenedOnce ==
  ASSUME NEW s, NEW t, NEW f, NEW g, NEW n \in Nat, NEW m \in Nat, m <= n,
         Flattened(f, s, n), Flattened(g, t, m), \A i \in 1 .. m : s[i] = t[i]
  PROVE  \A i \in 1 .. m : f[i] = g[i]
<1> DEFINE differ == {i \in 1 .. m : f[i] # g[i]}
<1> SUFFICES ASSUME differ # {} PROVE FALSE
  OBVIOUS
<1>1. PICK i \in differ : \A j \in differ : i <= j
  <2>1. differ \in SUBSET Nat
    OBVIOUS
  <2> HIDE DEF differ
  <2> QED BY <2>1, NatHasLeast
<1>2. i \in 1 .. m /\ f[i] # g[i] /\ i \in 1 .. n
  BY <1>1
<1>3. f[i] = IF i = 1 THEN s[i] ELSE f[i - 1] \o s[i]
  BY <1>2 DEF Flattened
<1>4. g[i] = IF i = 1 THEN t[i] ELSE g[i - 1] \o t[i]
  BY <1>2 DEF Flattened
<1>5. i # 1
  BY <1>2, <1>3, <1>4
<1>6. i - 1 \in 1 .. m /\ i - 1 < i
  BY <1>2, <1>5
<1>7. f[i - 1] = g[i - 1]
  BY <1>1, <1>2, <1>6
<1> QED BY <1>2, <1>3, <1>4, <1>5, <1>7

(* The recursion has a solution: there is no least length without one.     *)
LEMMA FlattenedExists ==
  ASSUME NEW seqs, NEW n \in Nat
  PROVE  \E f : Flattened(f, seqs, n)
<1> DEFINE without == {m \in Nat : ~ \E f : Flattened(f, seqs, m)}
<1> SUFFICES ASSUME without # {} PROVE FALSE
  OBVIOUS
<1>1. PICK m \in without : \A k \in without : m <= k
  BY NatHasLeast
<1>2. m \in Nat /\ ~ \E f : Flattened(f, seqs, m)
  OBVIOUS
<1>3. \A k \in Nat : k < m => \E f : Flattened(f, seqs, k)
  BY <1>1
<1> HIDE DEF without
<1>4. m # 0
  <2>1. SUFFICES ASSUME m = 0 PROVE FALSE
    OBVIOUS
  <2>2. 1 .. 0 = {}
    OBVIOUS
  <2>3. Flattened(<<>>, seqs, 0)
    BY <2>2 DEF Flattened
  <2> QED BY <1>2, <2>1, <2>3
<1>5. m - 1 \in Nat /\ m - 1 < m
  BY <1>2, <1>4
<1>6. PICK f : Flattened(f, seqs, m - 1)
  BY <1>3, <1>5
<1> DEFINE last == IF m = 1 THEN seqs[m] ELSE f[m - 1] \o seqs[m]
           h == [i \in 1 .. m |-> IF i = m THEN last ELSE f[i]]
<1>7. \A i \in 1 .. m - 1 :
        h[i] = f[i] /\ f[i] = IF i = 1 THEN seqs[i] ELSE f[i - 1] \o seqs[i]
  <2> TAKE i \in 1 .. m - 1
  <2>1. f[i] = IF i = 1 THEN seqs[i] ELSE f[i - 1] \o seqs[i]
    BY <1>6 DEF Flattened
  <2>2. i \in 1 .. m /\ i # m
    BY <1>2, <1>5
  <2> QED BY <2>1, <2>2
<1>8. h[m] = last
  <2>1. m \in 1 .. m
    BY <1>2, <1>4
  <2> QED BY <2>1
<1>9. ASSUME NEW i \in 1 .. m
      PROVE  h[i] = IF i = 1 THEN seqs[i] ELSE h[i - 1] \o seqs[i]
  <2> HIDE DEF h
  <2>1. CASE i = m
    <3>1. m # 1 => h[m - 1] = f[m - 1]
      <4>1. m # 1 => m - 1 \in 1 .. m - 1
        BY <1>2, <1>4
      <4> QED BY <1>7, <4>1
    <3> QED BY <1>8, <2>1, <3>1
  <2>2. CASE i # m
    <3>1. i \in 1 .. m - 1 /\ (i # 1 => i - 1 \in 1 .. m - 1)
      BY <1>2, <2>2
    <3> QED BY <1>7, <3>1
  <2> QED BY <2>1, <2>2
<1>10. Flattened(h, seqs, m)
  <2>1. h = [i \in 1 .. m |-> h[i]]
    OBVIOUS
  <2> HIDE DEF h
  <2>2. [i \in 1 .. m |-> h[i]] =
        [i \in 1 .. m |-> IF i = 1 THEN seqs[i] ELSE h[i - 1] \o seqs[i]]
    BY <1>9
  <2> QED BY <2>1, <2>2 DEF Flattened
<1> QED BY <1>2, <1>10

LEMMA FlattenSeqTurns ==
  ASSUME NEW seqs, NEW n \in Nat \ {0}, Len(seqs) = n
  PROVE  \E f : Flattened(f, seqs, n) /\ FlattenSeq(seqs) = f[n]
<1> DEFINE f == CHOOSE f : Flattened(f, seqs, n)
<1>1. Flattened(f, seqs, n)
  BY FlattenedExists
<1>2. FlattenSeq(seqs) = f[n]
  BY DEF FlattenSeq, Flattened
<1> QED BY <1>1, <1>2

(* Nothing is flattened to nothing, and a last sequence comes last.        *)
LEMMA FlattenNothing == FlattenSeq(<<>>) = <<>>
BY DEF FlattenSeq

LEMMA FlattenLonger ==
  ASSUME NEW seqs, NEW more, NEW n \in Nat \ {0}, Len(seqs) = n, Len(more) = n + 1,
         \A i \in 1 .. n : more[i] = seqs[i]
  PROVE  FlattenSeq(more) = FlattenSeq(seqs) \o more[n + 1]
<1>1. PICK g : Flattened(g, more, n + 1) /\ FlattenSeq(more) = g[n + 1]
  <2>1. n + 1 \in Nat \ {0}
    OBVIOUS
  <2> QED BY <2>1, FlattenSeqTurns
<1>2. g[n + 1] = g[n] \o more[n + 1]
  <2>1. n + 1 \in 1 .. n + 1 /\ (n + 1) - 1 = n /\ n + 1 # 1
    OBVIOUS
  <2>2. g[n + 1] = IF n + 1 = 1 THEN more[n + 1] ELSE g[(n + 1) - 1] \o more[n + 1]
    BY <1>1, <2>1 DEF Flattened
  <2> QED BY <2>1, <2>2
<1>3. PICK f : Flattened(f, seqs, n) /\ FlattenSeq(seqs) = f[n]
  BY FlattenSeqTurns
<1>4. n <= n + 1 /\ n \in 1 .. n /\ n + 1 \in Nat /\ n \in Nat
  OBVIOUS
<1>5. \A i \in 1 .. n : g[i] = f[i]
  BY <1>1, <1>3, <1>4, FlattenedOnce
<1> QED BY <1>1, <1>2, <1>3, <1>4, <1>5

LEMMA FlattenAppend ==
  ASSUME NEW S, NEW seqs \in Seq(Seq(S)), NEW last \in Seq(S)
  PROVE  FlattenSeq(Append(seqs, last)) = FlattenSeq(seqs) \o last
<1> DEFINE n == Len(seqs)  more == Append(seqs, last)
<1>1. /\ n \in Nat /\ Len(more) = n + 1 /\ more[n + 1] = last
      /\ \A i \in 1 .. n : more[i] = seqs[i]
  OBVIOUS
<1> HIDE DEF more
<1>2. CASE n = 0
  <2>1. seqs = <<>>
    BY <1>2
  <2>2. FlattenSeq(seqs) \o last = last
    BY <2>1, FlattenNothing, ConcatEmptySeq
  <2>3. Len(more) = 1 /\ more[1] = last
    BY <1>1, <1>2
  <2>4. PICK f : Flattened(f, more, 1) /\ FlattenSeq(more) = f[1]
    <3>1. 1 \in Nat \ {0}
      OBVIOUS
    <3> QED BY <2>3, <3>1, FlattenSeqTurns
  <2>5. f[1] = more[1]
    <3>1. 1 \in 1 .. 1
      OBVIOUS
    <3> QED BY <2>4, <3>1 DEF Flattened
  <2> QED BY <2>2, <2>3, <2>4, <2>5 DEF more
<1>3. CASE n # 0
  <2>1. n \in Nat \ {0} /\ Len(seqs) = n
    BY <1>1, <1>3
  <2> HIDE DEF n
  <2>2. FlattenSeq(more) = FlattenSeq(seqs) \o more[n + 1]
    BY <1>1, <2>1, FlattenLonger
  <2> QED BY <1>1, <2>2 DEF more
<1> QED BY <1>2, <1>3

LEMMA FlattenType ==
  ASSUME NEW S, NEW seqs \in Seq(Seq(S))
  PROVE  FlattenSeq(seqs) \in Seq(S)
<1> DEFINE n == Len(seqs)
<1>1. n \in Nat /\ \A i \in 1 .. n : seqs[i] \in Seq(S)
  BY LenProperties, ElementOfSeq
<1>2. CASE n = 0
  <2>1. seqs = <<>>
    BY <1>2
  <2>2. <<>> \in Seq(S)
    OBVIOUS
  <2> QED BY <2>1, <2>2, FlattenNothing, Zenon
<1>3. CASE n # 0
  <2>1. PICK f : Flattened(f, seqs, n) /\ FlattenSeq(seqs) = f[n]
    BY <1>1, <1>3, FlattenSeqTurns
  <2> DEFINE bad == {i \in 1 .. n : f[i] \notin Seq(S)}
  <2>2. bad = {}
    <3> SUFFICES ASSUME bad # {} PROVE FALSE
      OBVIOUS
    <3>1. PICK i \in bad : \A j \in bad : i <= j
      <4>1. bad \in SUBSET Nat
        OBVIOUS
      <4> HIDE DEF bad
      <4> QED BY <4>1, NatHasLeast
    <3>2. f[i] = IF i = 1 THEN seqs[i] ELSE f[i - 1] \o seqs[i]
      BY <2>1 DEF Flattened
    <3>3. i \in 1 .. n /\ f[i] \notin Seq(S)
      BY <3>1
    <3>4. i # 1 => f[i - 1] \in Seq(S)
      BY <1>1, <3>1, <3>3
    <3>5. seqs[i] \in Seq(S)
      BY <1>1, <3>3
    <3>6. CASE i = 1
      BY <3>2, <3>3, <3>5, <3>6
    <3>7. CASE i # 1
      <4>1. f[i - 1] \o seqs[i] \in Seq(S)
        BY <3>4, <3>5, <3>7, ConcatProperties
      <4> QED BY <3>2, <3>3, <3>7, <4>1
    <3> QED BY <3>6, <3>7
  <2>3. n \in 1 .. n
    BY <1>1, <1>3
  <2> QED BY <2>1, <2>2, <2>3
<1> QED BY <1>2, <1>3

-----------------------------------------------------------------------------
(* Sequences over a set.                                                   *)
Strings(seqs, n, S) == \A i \in 1 .. n : seqs[i] \in Seq(S)

(* Where each of n sequences ends in the flattened one.                    *)
Ends(pos, seqs, n) ==
  /\ pos \in [0 .. n -> Nat] /\ pos[0] = 0 /\ pos[n] = Len(FlattenSeq(seqs))
  /\ \A i \in 1 .. n :
       /\ pos[i] = pos[i - 1] + Len(seqs[i]) /\ pos[i] <= pos[n]
       /\ \A j \in 1 .. Len(seqs[i]) :
            FlattenSeq(seqs)[pos[i - 1] + j] = seqs[i][j]

(* Each sequence ends at a place of its own in the flattened one and is    *)
(* what stands before it, from the end of the one before on.               *)
LEMMA FlattenPlaces ==
  ASSUME NEW S, NEW seqs, NEW n \in Nat \ {0}, Len(seqs) = n,
         Strings(seqs, n, S)
  PROVE  \E pos : Ends(pos, seqs, n)
<1>1. PICK f : Flattened(f, seqs, n) /\ FlattenSeq(seqs) = f[n]
  BY FlattenSeqTurns
<1>2. \A i \in 1 .. n : f[i] = IF i = 1 THEN seqs[i] ELSE f[i - 1] \o seqs[i]
  BY <1>1 DEF Flattened
<1>3. \A i \in 1 .. n : f[i] \in Seq(S)
  <2> DEFINE bad == {i \in 1 .. n : f[i] \notin Seq(S)}
  <2> SUFFICES ASSUME bad # {} PROVE FALSE
    OBVIOUS
  <2>1. PICK i \in bad : \A j \in bad : i <= j
    <3>1. bad \in SUBSET Nat
      OBVIOUS
    <3> HIDE DEF bad
    <3> QED BY <3>1, NatHasLeast
  <2>2. i \in 1 .. n /\ f[i] \notin Seq(S)
    BY <2>1
  <2>3. i # 1 => f[i - 1] \in Seq(S)
    BY <2>1, <2>2
  <2>4. i # 1 => f[i - 1] \o seqs[i] \in Seq(S)
    BY <2>2, <2>3, ConcatProperties DEF Strings
  <2> QED BY <1>2, <2>2, <2>4 DEF Strings
<1>4. \A i \in 2 .. n :
        /\ Len(f[i]) = Len(f[i - 1]) + Len(seqs[i])
        /\ \A j \in 1 .. Len(f[i]) :
             f[i][j] = IF j <= Len(f[i - 1]) THEN f[i - 1][j] ELSE seqs[i][j - Len(f[i - 1])]
  <2> TAKE i \in 2 .. n
  <2>1. i \in 1 .. n /\ i - 1 \in 1 .. n /\ i # 1
    OBVIOUS
  <2>2. f[i] = f[i - 1] \o seqs[i]
    BY <1>2, <2>1
  <2>3. f[i - 1] \in Seq(S) /\ seqs[i] \in Seq(S)
    BY <1>3, <2>1 DEF Strings
  <2> DEFINE both == f[i - 1] \o seqs[i]
  <2>4. /\ Len(both) = Len(f[i - 1]) + Len(seqs[i])
        /\ \A j \in 1 .. Len(f[i - 1]) + Len(seqs[i]) :
             both[j] = IF j <= Len(f[i - 1]) THEN f[i - 1][j] ELSE seqs[i][j - Len(f[i - 1])]
    BY <2>3, ConcatProperties
  <2>5. f[i] = both
    BY <2>2
  <2> HIDE DEF both
  <2> QED BY <2>4, <2>5
<1>5. \A i \in 1 .. n : Len(f[i]) \in Nat /\ Len(seqs[i]) \in Nat
  BY <1>3, LenProperties DEF Strings
<1>6. f[1] = seqs[1]
  <2>1. 1 \in 1 .. n
    OBVIOUS
  <2> QED BY <1>2, <2>1
<1> DEFINE goes(i, m) == /\ Len(f[i]) <= Len(f[m])
                         /\ \A j \in 1 .. Len(f[i]) : f[m][j] = f[i][j]
<1>7. \A i \in 1 .. n : goes(i, n)
  <2> SUFFICES ASSUME NEW i \in 1 .. n PROVE goes(i, n)
    OBVIOUS
  <2> DEFINE bad == {m \in i .. n : ~ goes(i, m)}
  <2>1. bad = {}
    <3> SUFFICES ASSUME bad # {} PROVE FALSE
      OBVIOUS
    <3>1. PICK m \in bad : \A k \in bad : m <= k
      <4>1. bad \in SUBSET Nat
        OBVIOUS
      <4> HIDE DEF bad
      <4> QED BY <4>1, NatHasLeast
    <3>2. m \in i .. n /\ ~ goes(i, m)
      BY <3>1
    <3>3. m # i
      BY <1>5, <3>2
    <3>4. m - 1 \in i .. n /\ m \in 2 .. n /\ m - 1 < m
      BY <3>2, <3>3
    <3>5. goes(i, m - 1)
      BY <3>1, <3>4
    <3>6. Len(f[m]) = Len(f[m - 1]) + Len(seqs[m])
      BY <1>4, <3>4
    <3>7. Len(f[i]) \in Nat /\ Len(f[m]) \in Nat /\ Len(f[m - 1]) \in Nat /\ Len(seqs[m]) \in Nat
      BY <1>5, <3>2, <3>4
    <3>8. Len(f[i]) <= Len(f[m - 1]) /\ Len(f[i]) <= Len(f[m])
      <4>1. Len(f[i]) <= Len(f[m - 1])
        BY <3>5, Zenon
      <4>2. \A a, b, c, d \in Nat : a <= b /\ d = b + c => a <= d
        OBVIOUS
      <4> QED BY <3>6, <3>7, <4>1, <4>2, Zenon
    <3>10. \A j \in 1 .. Len(f[i]) : j \in 1 .. Len(f[m]) /\ j <= Len(f[m - 1])
      <4> HIDE DEF bad, goes
      <4> QED BY <3>7, <3>8
    <3>9. \A j \in 1 .. Len(f[i]) : f[m][j] = f[i][j]
      <4>1. \A j \in 1 .. Len(f[i]) : f[m - 1][j] = f[i][j]
        BY <3>5, Zenon
      <4> HIDE DEF bad, goes
      <4>2. \A j \in 1 .. Len(f[m]) : j <= Len(f[m - 1]) => f[m][j] = f[m - 1][j]
        BY <1>4, <3>4
      <4> QED BY <3>10, <4>1, <4>2, Zenon
    <3> QED BY <3>2, <3>8, <3>9, Zenon
  <2>2. n \in i .. n
    OBVIOUS
  <2> QED BY <2>1, <2>2
<1> DEFINE pos == [i \in 0 .. n |-> IF i = 0 THEN 0 ELSE Len(f[i])]
<1>8. /\ pos \in [0 .. n -> Nat] /\ pos[0] = 0
      /\ \A i \in 1 .. n : pos[i] = Len(f[i])
  BY <1>5
<1> HIDE DEF pos
<1>9. pos[n] = Len(FlattenSeq(seqs))
  BY <1>1, <1>8
<1>10. ASSUME NEW i \in 1 .. n
       PROVE  /\ pos[i] = pos[i - 1] + Len(seqs[i]) /\ pos[i] <= pos[n]
              /\ \A j \in 1 .. Len(seqs[i]) : FlattenSeq(seqs)[pos[i - 1] + j] = seqs[i][j]
  <2>1. pos[i] <= pos[n] /\ \A j \in 1 .. Len(f[i]) : FlattenSeq(seqs)[j] = f[i][j]
    <3>1. n \in 1 .. n
      OBVIOUS
    <3> QED BY <1>1, <1>7, <1>8, <3>1
  <2>2. CASE i = 1
    <3>1. pos[i - 1] = 0 /\ pos[i] = Len(seqs[i]) /\ f[i] = seqs[i]
      BY <1>6, <1>8, <2>2
    <3>2. \A j \in 1 .. Len(seqs[i]) : 0 + j = j
      BY <1>5
    <3> QED BY <1>5, <2>1, <3>1, <3>2
  <2>3. CASE i # 1
    <3>1. i \in 2 .. n /\ i - 1 \in 1 .. n
      BY <2>3
    <3>2. pos[i] = Len(f[i]) /\ pos[i - 1] = Len(f[i - 1])
      BY <1>8, <3>1
    <3>3. pos[i] = pos[i - 1] + Len(seqs[i])
      BY <1>4, <3>1, <3>2
    <3>4. ASSUME NEW j \in 1 .. Len(seqs[i])
          PROVE  FlattenSeq(seqs)[pos[i - 1] + j] = seqs[i][j]
      <4>1. /\ pos[i - 1] + j \in 1 .. Len(f[i]) /\ ~ (pos[i - 1] + j <= Len(f[i - 1]))
            /\ (pos[i - 1] + j) - Len(f[i - 1]) = j
        BY <1>5, <3>1, <3>2, <3>3
      <4>2. f[i][pos[i - 1] + j] =
              IF pos[i - 1] + j <= Len(f[i - 1]) THEN f[i - 1][pos[i - 1] + j]
              ELSE seqs[i][(pos[i - 1] + j) - Len(f[i - 1])]
        BY <1>4, <3>1, <4>1, Zenon
      <4>3. f[i][pos[i - 1] + j] = seqs[i][j]
        BY <4>1, <4>2, Zenon
      <4> QED BY <2>1, <4>1, <4>3
    <3> QED BY <2>1, <3>3, <3>4
  <2> QED BY <2>2, <2>3
<1>11. Ends(pos, seqs, n)
  BY <1>8, <1>9, <1>10 DEF Ends
<1> QED BY <1>11

=============================================================================
