--------------------------- MODULE ExchangeProofs --------------------------
(***************************************************************************)
(* Theorems about the stages of an exchange: a request line gives its own  *)
(* method and path (RequestLine), what the middlewares and handlers look   *)
(* up in a request is what the client sent (Request), a token is decoded   *)
(* as it was encoded (Base64), the page is the one the template means      *)
(* (Template), and a registration is what the customer typed (Form). Each  *)
(* has its own behaviours.                                                 *)
(***************************************************************************)
EXTENDS RequestLine, Request, Form, Base64, Template, Ranks, SequenceTheorems

-----------------------------------------------------------------------------
(* RequestLine: the parts of a text.                                       *)

LEMMA PieceOfText ==
  ASSUME NEW str \in Seq(Int), NEW a \in Nat \ {0}, NEW b \in Nat, a <= b + 1, b <= Len(str)
  PROVE  /\ SubSeq(str, a, b) \in Seq(Int) /\ Len(SubSeq(str, a, b)) = b - a + 1
         /\ \A j \in 1 .. b - a + 1 : SubSeq(str, a, b)[j] = str[a + j - 1]
<1>1. DOMAIN str = 1 .. Len(str) /\ Len(str) \in Nat
  BY LenProperties
<1>2. \A j \in a .. b : str[j] \in Int
  <2>1. \A j \in 1 .. Len(str) : str[j] \in Int
    BY ElementOfSeq
  <2>2. \A j \in a .. b : j \in 1 .. Len(str)
    BY <1>1
  <2> QED BY <2>1, <2>2
<1>3. SubSeq(str, a, b) = [j \in 1 .. b - a + 1 |-> str[a + j - 1]]
  OBVIOUS
<1>4. \A j \in 1 .. b - a + 1 : a + j - 1 \in a .. b
  OBVIOUS
<1>5. b - a + 1 \in Nat
  OBVIOUS
<1> QED BY <1>2, <1>3, <1>4, <1>5

LEMMA OrderedRanks ==
  ASSUME NEW n \in Nat, NEW S \in SUBSET (1 .. n)
  PROVE  /\ Cardinality(S) \in Nat /\ DOMAIN Ordered(S) = 1 .. Cardinality(S)
         /\ Len(Ordered(S)) = Cardinality(S)
         /\ \A i \in S : /\ Upto(S, i) \in 1 .. Cardinality(S)
                         /\ Ordered(S)[Upto(S, i)] = i
         /\ \A k \in 1 .. Cardinality(S) : Ordered(S)[k] \in S /\ Upto(S, Ordered(S)[k]) = k
<1>1. Cardinality(S) \in Nat
  BY RanksArePlaces
<1>2. DOMAIN Ordered(S) = 1 .. Cardinality(S) /\ Len(Ordered(S)) = Cardinality(S)
  BY <1>1 DEF Ordered
<1>3. ASSUME NEW i \in S
      PROVE  Upto(S, i) \in 1 .. Cardinality(S) /\ Ordered(S)[Upto(S, i)] = i
  <2>1. Upto(S, i) \in 1 .. Cardinality(S)
    BY RanksArePlaces
  <2>2. (CHOOSE m \in S : Cardinality({j \in S : j <= m}) = Upto(S, i)) = i
    BY PlaceOfRank
  <2> QED BY <2>1, <2>2 DEF Ordered
<1>4. ASSUME NEW k \in 1 .. Cardinality(S)
      PROVE  Ordered(S)[k] \in S /\ Upto(S, Ordered(S)[k]) = k
  <2>1. PICK i \in S : Upto(S, i) = k
    BY RanksArePlaces
  <2> QED BY <1>3, <2>1
<1> QED BY <1>1, <1>2, <1>3, <1>4

(* A part ends, in the text and before the next part begins.               *)
LEMMA PartEnds ==
  ASSUME NEW str \in Seq(Int), NEW i \in DOMAIN str, str[i] # Blank
  PROVE  /\ EndOf(str, i) \in Lasts(str) /\ i <= EndOf(str, i)
         /\ \A j \in Lasts(str) : i <= j => EndOf(str, i) <= j
         /\ \A f \in Firsts(str) : i < f => EndOf(str, i) < f - 1
<1>1. DOMAIN str = 1 .. Len(str) /\ Len(str) \in Nat
  BY LenProperties
<1> DEFINE n == Len(str)
           behind == {x \in i + 1 .. n : str[x] = Blank} \cup {n + 1}
           ends == {j \in Lasts(str) : i <= j}
<1>2. PICK b \in behind : \A x \in behind : b <= x
  <2>1. behind \in SUBSET Nat /\ behind # {}
    BY <1>1
  <2> HIDE DEF behind
  <2> QED BY <2>1, NatHasLeast
<1>3. b - 1 \in i .. n /\ str[b - 1] # Blank /\ b \in Nat
  <2>1. b \in i + 1 .. n + 1
    BY <1>1, <1>2
  <2>2. b - 1 \notin behind
    BY <1>1, <1>2, <2>1
  <2>3. b - 1 = i \/ b - 1 \in i + 1 .. n
    BY <1>1, <2>1
  <2> QED BY <1>1, <2>1, <2>2, <2>3
<1>4. b - 1 = n \/ str[b] = Blank
  BY <1>1, <1>2
<1>5. b - 1 \in ends
  BY <1>1, <1>3, <1>4 DEF Lasts
<1>6. ends \in SUBSET Nat
  BY <1>1 DEF Lasts
<1>7. EndOf(str, i) = Min(ends)
  BY DEF EndOf
<1>8. \A f \in Firsts(str) : i < f => b <= f - 1
  <2> SUFFICES ASSUME NEW f \in Firsts(str), i < f PROVE b <= f - 1
    OBVIOUS
  <2>1. f \in 1 .. n /\ str[f - 1] = Blank
    BY <1>1 DEF Firsts
  <2>2. f - 1 # i
    BY <2>1
  <2>3. f - 1 \in i + 1 .. n
    BY <1>1, <2>1, <2>2
  <2>4. f - 1 \in behind
    BY <2>1, <2>3
  <2> QED BY <1>2, <2>4
<1> HIDE DEF ends, behind
<1>9. Min(ends) \in ends /\ \A j \in ends : Min(ends) <= j
  BY <1>5, <1>6, MinIsLeast
<1>10. \A f \in Firsts(str) : i < f => Min(ends) < f - 1
  <2> TAKE f \in Firsts(str)
  <2>1. f \in Nat /\ b \in Nat /\ Min(ends) \in Nat
    <3>1. f \in Nat
      BY <1>1 DEF Firsts
    <3>2. Min(ends) \in Nat
      BY <1>6, <1>9, Zenon
    <3> QED BY <1>3, <3>1, <3>2
  <2>2. Min(ends) <= b - 1
    BY <1>5, <1>9
  <2> QED BY <1>8, <2>1, <2>2
<1> QED BY <1>7, <1>9, <1>10 DEF ends

(* Texts that agree up to a place have the same beginning up to it.        *)
LEMMA SameBeginning ==
  ASSUME NEW s \in Seq(Int), NEW t \in Seq(Int), NEW n \in Nat, n <= Len(s), n <= Len(t),
         \A j \in 1 .. n : s[j] = t[j]
  PROVE  SubSeq(s, 1, n) = SubSeq(t, 1, n)
<1>1. 1 \in Nat \ {0} /\ 1 <= n + 1 /\ n - 1 + 1 = n /\ \A j \in 1 .. n : 1 + j - 1 = j
  OBVIOUS
<1>2. /\ SubSeq(s, 1, n) \in Seq(Int) /\ Len(SubSeq(s, 1, n)) = n
      /\ \A j \in 1 .. n : SubSeq(s, 1, n)[j] = s[j]
  BY <1>1, PieceOfText
<1>3. /\ SubSeq(t, 1, n) \in Seq(Int) /\ Len(SubSeq(t, 1, n)) = n
      /\ \A j \in 1 .. n : SubSeq(t, 1, n)[j] = t[j]
  BY <1>1, PieceOfText
<1> DEFINE u == SubSeq(s, 1, n)  v == SubSeq(t, 1, n)
<1>4. u \in Seq(Int) /\ v \in Seq(Int) /\ Len(u) = Len(v) /\ \A j \in 1 .. Len(u) : u[j] = v[j]
  BY <1>2, <1>3
<1> HIDE DEF u, v
<1>5. u = v
  BY <1>4, SeqEqual
<1> QED BY <1>5 DEF u, v

(* What follows a text without another blank line of its own adds parts,   *)
(* and all it can do to those that were there is to prolong the last.      *)
LEMMA PartsProlonged ==
  ASSUME NEW str \in Seq(Int), NEW more \in Seq(Int), Len(str) <= Len(more),
         \A i \in DOMAIN str : more[i] = str[i],
         NEW k \in DOMAIN Parts(str)
  PROVE  /\ k \in DOMAIN Parts(more) /\ DOMAIN Parts(str) = 1 .. Len(Parts(str))
         /\ DOMAIN Parts(more) = 1 .. Len(Parts(more))
         /\ Len(Parts(str)) \in Nat /\ Len(Parts(more)) \in Nat
         /\ Parts(str)[k] \in Seq(Int) /\ Parts(more)[k] \in Seq(Int)
         /\ IsPrefix(Parts(str)[k], Parts(more)[k])
         /\ k + 1 \in DOMAIN Parts(str) => Parts(more)[k] = Parts(str)[k]
<1> DEFINE n == Len(str)  m == Len(more)
           F == Firsts(str)  G == Firsts(more)
<1>1. /\ DOMAIN str = 1 .. n /\ n \in Nat /\ \A i \in 1 .. n : str[i] \in Int
      /\ DOMAIN more = 1 .. m /\ m \in Nat /\ n <= m
      /\ \A i \in 1 .. n : more[i] = str[i]
  BY LenProperties, ElementOfSeq
<1>2. F = {i \in G : i <= n}
  BY <1>1 DEF Firsts
<1>3. F \in SUBSET (1 .. n) /\ G \in SUBSET (1 .. m)
  BY <1>1 DEF Firsts
<1>4. \A j \in 1 .. n : Upto(F, j) = Upto(G, j)
  <2> TAKE j \in 1 .. n
  <2>1. {x \in 1 .. j : x \in F} = {x \in 1 .. j : x \in G}
    BY <1>2
  <2> QED BY <2>1 DEF Upto
<1>5. \A j \in Lasts(str) : j < n => j \in Lasts(more)
  BY <1>1 DEF Lasts
<1>6. \A j \in Lasts(more) : j < n => j \in Lasts(str)
  BY <1>1 DEF Lasts
<1>7. Lasts(str) \subseteq 1 .. n /\ Lasts(more) \subseteq 1 .. m
  BY <1>1 DEF Lasts
<1> HIDE DEF F, G, n, m
<1>8. /\ Cardinality(F) \in Nat /\ DOMAIN Ordered(F) = 1 .. Cardinality(F)
      /\ \A i \in F : Upto(F, i) \in 1 .. Cardinality(F) /\ Ordered(F)[Upto(F, i)] = i
      /\ \A j \in 1 .. Cardinality(F) : Ordered(F)[j] \in F /\ Upto(F, Ordered(F)[j]) = j
  <2>1. n \in Nat /\ F \in SUBSET (1 .. n)
    BY <1>1, <1>3
  <2> QED BY <2>1, OrderedRanks, Zenon
<1>9. /\ Cardinality(G) \in Nat /\ DOMAIN Ordered(G) = 1 .. Cardinality(G)
      /\ \A i \in G : Upto(G, i) \in 1 .. Cardinality(G) /\ Ordered(G)[Upto(G, i)] = i
  <2>1. m \in Nat /\ G \in SUBSET (1 .. m)
    BY <1>1, <1>3
  <2> QED BY <2>1, OrderedRanks, Zenon
<1>10. Parts(str) = [j \in 1 .. Cardinality(F) |->
                        SubSeq(str, Ordered(F)[j], EndOf(str, Ordered(F)[j]))]
  BY <1>8 DEF Parts, F
<1>11. Parts(more) = [j \in 1 .. Cardinality(G) |->
                        SubSeq(more, Ordered(G)[j], EndOf(more, Ordered(G)[j]))]
  BY <1>9 DEF Parts, G
<1>12. /\ DOMAIN Parts(str) = 1 .. Cardinality(F) /\ Len(Parts(str)) = Cardinality(F)
       /\ DOMAIN Parts(more) = 1 .. Cardinality(G) /\ Len(Parts(more)) = Cardinality(G)
  BY <1>8, <1>9, <1>10, <1>11
<1>13. ASSUME NEW j \in 1 .. Cardinality(F)
       PROVE  /\ Ordered(F)[j] \in F /\ Ordered(F)[j] \in G /\ Ordered(F)[j] \in 1 .. n
              /\ j \in 1 .. Cardinality(G) /\ Ordered(G)[j] = Ordered(F)[j]
  <2> DEFINE i == Ordered(F)[j]
  <2>1. i \in F /\ Upto(F, i) = j
    BY <1>8
  <2> HIDE DEF i
  <2>2. i \in G /\ i \in 1 .. n
    BY <1>2, <1>3, <2>1
  <2>3. Upto(G, i) = j
    BY <1>4, <2>1, <2>2
  <2>4. j \in 1 .. Cardinality(G) /\ Ordered(G)[j] = i
    BY <1>9, <2>2, <2>3
  <2> QED BY <2>1, <2>2, <2>4 DEF i
<1> DEFINE i == Ordered(F)[k]
           e == EndOf(str, i)
           d == EndOf(more, i)
<1>14. /\ k \in 1 .. Cardinality(F) /\ k \in 1 .. Cardinality(G)
       /\ i \in F /\ i \in G /\ i \in 1 .. n /\ Ordered(G)[k] = i
  BY <1>12, <1>13
<1>15. Parts(str)[k] = SubSeq(str, i, e) /\ Parts(more)[k] = SubSeq(more, i, d)
  BY <1>10, <1>11, <1>14
<1> HIDE DEF i, e, d
<1>16. str[i] # Blank /\ more[i] # Blank
  BY <1>1, <1>14 DEF F, Firsts
<1>17. /\ e \in Lasts(str) /\ i <= e
       /\ \A j \in Lasts(str) : i <= j => e <= j
       /\ \A f \in F : i < f => e < f - 1
  BY <1>1, <1>14, <1>16, PartEnds DEF e, F
<1>18. /\ d \in Lasts(more) /\ i <= d
       /\ \A j \in Lasts(more) : i <= j => d <= j
  <2>1. i \in DOMAIN more
    BY <1>1, <1>14
  <2> QED BY <1>16, <2>1, PartEnds DEF d
<1>19. e \in 1 .. n /\ d \in 1 .. m
  BY <1>7, <1>17, <1>18
<1>20. e <= d
  BY <1>1, <1>6, <1>17, <1>18, <1>19
<1>21. e < n => e = d
  BY <1>5, <1>17, <1>18, <1>19, <1>20
<1>22. /\ SubSeq(str, i, e) \in Seq(Int) /\ Len(SubSeq(str, i, e)) = e - i + 1
       /\ \A j \in 1 .. e - i + 1 : SubSeq(str, i, e)[j] = str[i + j - 1]
  <2>1. i \in Nat \ {0} /\ e \in Nat /\ i <= e + 1 /\ e <= Len(str)
    BY <1>1, <1>14, <1>17, <1>19 DEF n
  <2> QED BY <2>1, PieceOfText
<1>23. /\ SubSeq(more, i, d) \in Seq(Int) /\ Len(SubSeq(more, i, d)) = d - i + 1
       /\ \A j \in 1 .. d - i + 1 : SubSeq(more, i, d)[j] = more[i + j - 1]
  <2>1. i \in Nat \ {0} /\ d \in Nat /\ i <= d + 1 /\ d <= Len(more)
    BY <1>1, <1>14, <1>18, <1>19 DEF m
  <2> QED BY <2>1, PieceOfText
<1>24. IsPrefix(SubSeq(str, i, e), SubSeq(more, i, d))
  <2> DEFINE s == SubSeq(str, i, e)  t == SubSeq(more, i, d)
  <2>1. Len(s) \in Nat /\ Len(t) \in Nat /\ Len(s) <= Len(t) /\ s \in Seq(Int) /\ t \in Seq(Int)
    <3>1. s \in Seq(Int) /\ t \in Seq(Int) /\ Len(s) = e - i + 1 /\ Len(t) = d - i + 1
      BY <1>22, <1>23
    <3>2. e - i + 1 \in Nat /\ d - i + 1 \in Nat /\ e - i + 1 <= d - i + 1
      BY <1>14, <1>17, <1>18, <1>19, <1>20
    <3> HIDE DEF s, t
    <3> QED BY <3>1, <3>2, Zenon
  <2>2. \A j \in 1 .. Len(s) : s[j] = t[j]
    <3> TAKE j \in 1 .. Len(s)
    <3>1. j \in 1 .. e - i + 1 /\ j \in 1 .. d - i + 1
      BY <1>14, <1>19, <1>20, <1>22
    <3>2. i + j - 1 \in 1 .. n
      BY <1>1, <1>14, <1>19, <3>1
    <3> QED BY <1>1, <1>22, <1>23, <3>1, <3>2
  <2> HIDE DEF s, t
  <2>3. SubSeq(s, 1, Len(s)) = SubSeq(t, 1, Len(s))
    <3>1. /\ s \in Seq(Int) /\ t \in Seq(Int) /\ Len(s) \in Nat
          /\ Len(s) <= Len(s) /\ Len(s) <= Len(t)
      BY <2>1
    <3> QED BY <2>2, <3>1, SameBeginning, Zenon
  <2> QED BY <2>1, <2>3 DEF IsPrefix, s, t
<1>25. ASSUME k + 1 \in 1 .. Cardinality(F)
       PROVE  SubSeq(str, i, e) = SubSeq(more, i, d)
  <2> DEFINE f == Ordered(F)[k + 1]
  <2>1. f \in F /\ Upto(F, f) = k + 1 /\ Upto(F, i) = k
    BY <1>8, <1>14, <1>25 DEF i
  <2>2. i \in Nat /\ f \in Nat /\ f <= n
    <3>1. i \in 1 .. n /\ f \in 1 .. n /\ n \in Nat
      BY <1>1, <1>3, <1>14, <2>1
    <3> HIDE DEF f
    <3> QED BY <3>1
  <2>3. i < f
    <3>1. f < i => Upto(F, f) < Upto(F, i)
      BY <1>14, <2>2, UptoGrows
    <3> QED BY <1>8, <1>14, <2>1, <2>2, <3>1
  <2> HIDE DEF f
  <2>4. e < n
    BY <1>1, <1>17, <1>19, <2>1, <2>2, <2>3
  <2>5. e = d
    BY <1>21, <2>4
  <2>6. \A j \in 1 .. e - i + 1 : SubSeq(str, i, e)[j] = SubSeq(more, i, d)[j]
    <3> TAKE j \in 1 .. e - i + 1
    <3>1. i + j - 1 \in 1 .. n /\ j \in 1 .. d - i + 1
      BY <1>1, <1>14, <1>19, <2>5
    <3> QED BY <1>1, <1>22, <1>23, <3>1
  <2> QED BY <1>22, <1>23, <2>5, <2>6, SeqEqual
<1> QED BY <1>8, <1>9, <1>12, <1>14, <1>15, <1>22, <1>23, <1>24, <1>25

-----------------------------------------------------------------------------
(* RequestLine: the invariant. What is in the buffer does not matter, as   *)
(* long as it is bytes: there is an end of all on the stack behind it.     *)
LineInv ==
  /\ number \in Nat
  /\ buffer \in [1 .. STACK -> Int]
  /\ MethodAndPath

LEMMA LineStarts == LineInit => LineInv
<1> SUFFICES ASSUME LineInit PROVE LineInv
  OBVIOUS
<1>1. number \in Nat /\ line = <<>>
  BY DEF LineInit
<1>2. buffer \in [1 .. STACK -> Int]
  BY DEF LineInit, Nul
<1>3. Firsts(<<>>) = {}
  BY DEF Firsts
<1>4. Ordered({}) = <<>>
  BY FS_EmptySet DEF Ordered
<1>5. Len(Parts(<<>>)) = 0
  BY <1>3, <1>4 DEF Parts
<1> QED BY <1>1, <1>2, <1>5 DEF LineInv, MethodAndPath

(* What strtok_r reads is the line, without an end in it, and then as much *)
(* of the old bytes as there is before an end.                             *)
LEMMA ReadsLineFirst ==
  ASSUME LineInv, NEW shape \in Shapes, Len(shape) < LINE_BUF, NEW old \in Left
  PROVE  LET str  == Written(shape)
             bytes == strncpy(str, old)
         IN /\ str \in Seq(Int) /\ UpToNul(bytes) \in Seq(Int)
            /\ Len(str) <= Len(UpToNul(bytes))
            /\ \A i \in DOMAIN str : UpToNul(bytes)[i] = str[i]
            /\ AfterStrtok(bytes) \in [1 .. STACK -> Int]
<1> DEFINE str == Written(shape)  bytes == strncpy(str, old)  n == Len(shape)
           nuls == {i \in DOMAIN bytes : bytes[i] = Nul}
<1>1. /\ STACK \in Nat \ {0} /\ LINE_BUF <= STACK /\ LINE_BUF \in Nat /\ MaxRequests \in Nat /\ number \in Nat
      /\ shape \in Seq(BOOLEAN) /\ DOMAIN shape = 1 .. n /\ n \in Nat /\ n < STACK
  BY LineAssumption, LenProperties DEF LineInv
<1>2. /\ str \in Seq(Int) /\ Len(str) = n /\ DOMAIN str = 1 .. n
      /\ \A i \in 1 .. n : str[i] # Nul
  BY <1>1 DEF Written, Blank, Nul
<1>3. old \in [1 .. STACK -> Int] /\ old[STACK] = Nul
  BY <1>1 DEF Left, LineInv, Nul, Blank, OtherLetter
<1> HIDE DEF str
<1>4. old \in Seq(Int) /\ Len(old) = STACK
  BY <1>1, <1>3
<1>5. /\ SubSeq(old, n + 1, STACK) \in Seq(Int)
      /\ Len(SubSeq(old, n + 1, STACK)) = STACK - n
      /\ \A j \in 1 .. STACK - n : SubSeq(old, n + 1, STACK)[j] = old[n + j]
  <2>1. /\ SubSeq(old, n + 1, STACK) \in Seq(Int)
        /\ Len(SubSeq(old, n + 1, STACK)) = STACK - (n + 1) + 1
        /\ \A j \in 1 .. STACK - (n + 1) + 1 :
             SubSeq(old, n + 1, STACK)[j] = old[(n + 1) + j - 1]
    <3>1. n + 1 \in Nat \ {0} /\ STACK \in Nat /\ n + 1 <= STACK + 1
      BY <1>1
    <3>2. STACK <= Len(old)
      BY <1>1, <1>4
    <3> QED BY <1>4, <3>1, <3>2, PieceOfText
  <2>2. STACK - (n + 1) + 1 = STACK - n
    BY <1>1
  <2>3. \A j \in 1 .. STACK - n : (n + 1) + j - 1 = n + j
    BY <1>1
  <2> QED BY <2>1, <2>2, <2>3
<1>6. bytes = str \o SubSeq(old, n + 1, STACK)
  BY <1>2, <1>4 DEF strncpy
<1> HIDE DEF bytes
<1>7. /\ bytes \in Seq(Int) /\ Len(bytes) = STACK /\ DOMAIN bytes = 1 .. STACK
      /\ \A i \in 1 .. n : bytes[i] = str[i]
      /\ bytes[STACK] = Nul
  <2> DEFINE tail == SubSeq(old, n + 1, STACK)
  <2>1. /\ tail \in Seq(Int) /\ Len(tail) = STACK - n /\ tail[STACK - n] = Nul
    <3>1. STACK - n \in 1 .. STACK - n /\ n + (STACK - n) = STACK
      BY <1>1
    <3> QED BY <1>3, <1>5, <3>1
  <2> HIDE DEF tail
  <2>2. /\ str \o tail \in Seq(Int) /\ Len(str \o tail) = Len(str) + Len(tail)
        /\ \A i \in 1 .. Len(str) + Len(tail) :
             (str \o tail)[i] = IF i <= Len(str) THEN str[i] ELSE tail[i - Len(str)]
    BY <1>2, <2>1, ConcatProperties
  <2>3. /\ n + (STACK - n) = STACK /\ ~ (STACK <= n)
        /\ STACK \in 1 .. STACK /\ \A i \in 1 .. n : i \in 1 .. STACK /\ i <= n
    BY <1>1
  <2>4. (str \o tail)[STACK] = tail[STACK - n]
    BY <1>2, <2>1, <2>2, <2>3
  <2>5. \A i \in 1 .. n : (str \o tail)[i] = str[i]
    BY <1>2, <2>1, <2>2, <2>3
  <2> QED BY <1>2, <1>6, <2>1, <2>2, <2>3, <2>4, <2>5, LenProperties DEF tail
<1>8. Min(nuls) \in nuls
  <2>1. nuls \in SUBSET Nat /\ STACK \in nuls
    BY <1>1, <1>7
  <2> HIDE DEF nuls
  <2> QED BY <2>1, MinIsLeast
<1> DEFINE m == Min(nuls)
<1>9. m \in n + 1 .. STACK
  <2>1. m \in 1 .. STACK /\ bytes[m] = Nul
    BY <1>7, <1>8
  <2> HIDE DEF m, nuls
  <2>2. m \notin 1 .. n
    BY <1>2, <1>7, <2>1
  <2> QED BY <1>1, <2>1, <2>2
<1>10. UpToNul(bytes) = SubSeq(bytes, 1, m - 1)
  BY DEF UpToNul
<1> HIDE DEF m, nuls
<1>11. /\ UpToNul(bytes) \in Seq(Int) /\ Len(UpToNul(bytes)) = m - 1
       /\ \A i \in 1 .. m - 1 : UpToNul(bytes)[i] = bytes[i]
  <2>1. /\ SubSeq(bytes, 1, m - 1) \in Seq(Int)
        /\ Len(SubSeq(bytes, 1, m - 1)) = (m - 1) - 1 + 1
        /\ \A j \in 1 .. (m - 1) - 1 + 1 : SubSeq(bytes, 1, m - 1)[j] = bytes[1 + j - 1]
    <3>1. 1 \in Nat \ {0} /\ m - 1 \in Nat /\ 1 <= (m - 1) + 1 /\ m - 1 <= Len(bytes)
      BY <1>1, <1>7, <1>9
    <3> QED BY <1>7, <3>1, PieceOfText
  <2>2. (m - 1) - 1 + 1 = m - 1 /\ \A j \in 1 .. m - 1 : 1 + j - 1 = j
    BY <1>1, <1>9
  <2> QED BY <1>10, <2>1, <2>2
<1>12. AfterStrtok(bytes) \in [1 .. STACK -> Int]
  <2>1. Nul \in Int /\ \A i \in 1 .. STACK : bytes[i] \in Int
    BY <1>7, ElementOfSeq DEF Nul
  <2> QED BY <1>7, <2>1 DEF AfterStrtok
<1>13. n <= m - 1 /\ \A i \in 1 .. n : i \in 1 .. m - 1
  BY <1>1, <1>9
<1> QED BY <1>2, <1>7, <1>11, <1>12, <1>13 DEF str, bytes

(* A cut keeps what is the beginning of the other the beginning of it.     *)
LEMMA CutsAreOrdered ==
  ASSUME NEW s \in Seq(Int), NEW t \in Seq(Int), IsPrefix(s, t), NEW field \in Nat \ {0}
  PROVE  IsPrefix(safe_strncpy(s, field), safe_strncpy(t, field))
<1> DEFINE a == Min({Len(s), field - 1})  b == Min({Len(t), field - 1})
<1>1. Len(s) \in Nat /\ Len(t) \in Nat /\ Len(s) <= Len(t) /\ field - 1 \in Nat
  BY LenProperties DEF IsPrefix
<1>2. /\ a \in Nat /\ a <= Len(s) /\ a <= field - 1 /\ (a = Len(s) \/ a = field - 1)
      /\ b \in Nat /\ b <= Len(t) /\ b <= field - 1 /\ (b = Len(t) \/ b = field - 1)
  <2>1. \A m \in Nat : {m, field - 1} \in SUBSET Nat /\ {m, field - 1} # {}
    BY <1>1
  <2>2. \A m \in Nat : /\ Min({m, field - 1}) \in {m, field - 1}
                       /\ \A k \in {m, field - 1} : Min({m, field - 1}) <= k
    BY <2>1, MinIsLeast
  <2> QED BY <1>1, <2>2
<1> HIDE DEF a, b
<1>3. a <= b /\ a <= Len(t)
  BY <1>1, <1>2
<1>4. /\ SubSeq(s, 1, a) \in Seq(Int) /\ Len(SubSeq(s, 1, a)) = a
      /\ \A j \in 1 .. a : SubSeq(s, 1, a)[j] = s[j]
  <2>1. 1 \in Nat \ {0} /\ 1 <= a + 1 /\ a - 1 + 1 = a /\ \A j \in 1 .. a : 1 + j - 1 = j
    BY <1>2
  <2> QED BY <1>2, <2>1, PieceOfText
<1>5. /\ SubSeq(t, 1, b) \in Seq(Int) /\ Len(SubSeq(t, 1, b)) = b
      /\ \A j \in 1 .. b : SubSeq(t, 1, b)[j] = t[j]
  <2>1. 1 \in Nat \ {0} /\ 1 <= b + 1 /\ b - 1 + 1 = b /\ \A j \in 1 .. b : 1 + j - 1 = j
    BY <1>2
  <2> QED BY <1>2, <2>1, PieceOfText
<1>6. \A j \in 1 .. Len(s) : s[j] = t[j]
  <2>1. SubSeq(s, 1, Len(s)) = SubSeq(t, 1, Len(s))
    BY DEF IsPrefix
  <2>2. \A j \in 1 .. Len(s) : SubSeq(s, 1, Len(s))[j] = s[j] /\ SubSeq(t, 1, Len(s))[j] = t[j]
    <3>1. /\ 1 \in Nat \ {0} /\ 1 <= Len(s) + 1 /\ Len(s) - 1 + 1 = Len(s)
          /\ \A j \in 1 .. Len(s) : 1 + j - 1 = j
      BY <1>1
    <3> QED BY <1>1, <3>1, PieceOfText
  <2> QED BY <2>1, <2>2
<1> DEFINE c == SubSeq(s, 1, a)  d == SubSeq(t, 1, b)
<1>7. \A j \in 1 .. a : c[j] = d[j]
  <2> TAKE j \in 1 .. a
  <2>1. j \in 1 .. b /\ j \in 1 .. Len(s)
    BY <1>1, <1>2, <1>3
  <2> QED BY <1>4, <1>5, <1>6, <2>1
<1>8. c \in Seq(Int) /\ d \in Seq(Int) /\ Len(c) = a /\ Len(d) = b
  BY <1>4, <1>5
<1> HIDE DEF c, d
<1>9. SubSeq(c, 1, a) = SubSeq(d, 1, a)
  <2>1. a <= Len(c) /\ a <= Len(d) /\ a \in Nat
    BY <1>2, <1>3, <1>8
  <2> QED BY <1>7, <1>8, <2>1, SameBeginning, Zenon
<1>10. IsPrefix(c, d)
  BY <1>2, <1>3, <1>8, <1>9 DEF IsPrefix
<1> QED BY <1>10 DEF c, d, a, b, safe_strncpy

LEMMA LineAccepted ==
  ASSUME LineInv, NEW shape \in Shapes, ParseReqLine(shape)
  PROVE  LineInv'
<1>1. PICK old \in Left :
        /\ parsed' = Accepted(Parts(UpToNul(strncpy(Written(shape), old))))
        /\ buffer' = AfterStrtok(strncpy(Written(shape), old))
  BY DEF ParseReqLine
<1> DEFINE str == Written(shape)  read == UpToNul(strncpy(str, old))
<1>2. /\ str \in Seq(Int) /\ read \in Seq(Int) /\ Len(str) <= Len(read)
      /\ \A i \in DOMAIN str : read[i] = str[i]
      /\ buffer' \in [1 .. STACK -> Int]
  BY <1>1, ReadsLineFirst DEF ParseReqLine
<1>3. parsed' = Accepted(Parts(read)) /\ line' = str
  BY <1>1 DEF ParseReqLine
<1>4. number' \in Nat
  BY DEF ParseReqLine, LineInv
<1> HIDE DEF str, read
<1>5. ASSUME Len(Parts(str)) >= 3
      PROVE  /\ parsed' # Refused
             /\ parsed'[1] = safe_strncpy(Parts(str)[1], METHOD_SIZE)
             /\ parsed'[2] = safe_strncpy(Parts(str)[2], PATH_SIZE)
             /\ IsPrefix(safe_strncpy(Parts(str)[3], VERSION_SIZE), parsed'[3])
  <2>1. DOMAIN Parts(str) = 1 .. Len(Parts(str)) /\ Len(Parts(str)) \in Nat
    <3>1. /\ Firsts(str) \in SUBSET (1 .. Len(str)) /\ Len(str) \in Nat
      BY <1>2, LenProperties DEF Firsts
    <3> DEFINE F == Firsts(str)
    <3> HIDE DEF F
    <3>2. Cardinality(F) \in Nat /\ DOMAIN Ordered(F) = 1 .. Cardinality(F)
      BY <3>1, OrderedRanks DEF F
    <3> QED BY <3>2 DEF Parts, F
  <2>2. /\ 1 \in DOMAIN Parts(str) /\ 2 \in DOMAIN Parts(str)
        /\ 3 \in DOMAIN Parts(str)
    BY <1>5, <2>1
  <2>3. \A k \in DOMAIN Parts(str) :
          k + 1 \in DOMAIN Parts(str) => Parts(read)[k] = Parts(str)[k]
    BY <1>2, PartsProlonged
  <2>4. Parts(read)[1] = Parts(str)[1]
    <3>1. 1 + 1 \in DOMAIN Parts(str)
      BY <2>2
    <3> QED BY <2>2, <2>3, <3>1
  <2>5. Parts(read)[2] = Parts(str)[2]
    <3>1. 2 + 1 \in DOMAIN Parts(str)
      BY <2>2
    <3> QED BY <2>2, <2>3, <3>1
  <2>6. /\ IsPrefix(Parts(str)[3], Parts(read)[3])
        /\ 3 \in DOMAIN Parts(read) /\ DOMAIN Parts(read) = 1 .. Len(Parts(read))
        /\ Len(Parts(read)) \in Nat
    BY <1>2, <2>2, PartsProlonged
  <2> DEFINE parts == Parts(read)
  <2> HIDE DEF parts
  <2>7. Len(parts) \in Nat /\ Len(parts) >= 3 /\ DOMAIN parts = 1 .. Len(parts)
    BY <2>6 DEF parts
  <2>8. parsed' = <<safe_strncpy(parts[1], METHOD_SIZE), safe_strncpy(parts[2], PATH_SIZE),
                    safe_strncpy(parts[3], VERSION_SIZE)>>
    BY <1>3, <2>7 DEF Accepted, parts
  <2>9. IsPrefix(safe_strncpy(Parts(str)[3], VERSION_SIZE), safe_strncpy(parts[3], VERSION_SIZE))
    <3>0. Parts(str)[3] \in Seq(Int) /\ Parts(read)[3] \in Seq(Int)
      <4>1. \A k \in DOMAIN Parts(str) : Parts(str)[k] \in Seq(Int)
        BY <1>2, PartsProlonged
      <4>2. \A k \in DOMAIN Parts(str) : Parts(read)[k] \in Seq(Int)
        BY <1>2, PartsProlonged
      <4>3. 3 \in DOMAIN Parts(str)
        BY <2>2
      <4> QED BY <4>1, <4>2, <4>3, Zenon
    <3> DEFINE s == Parts(str)[3]  t == parts[3]
    <3>1. s \in Seq(Int) /\ t \in Seq(Int) /\ IsPrefix(s, t)
      BY <2>6, <3>0, Zenon DEF parts
    <3>2. VERSION_SIZE \in Nat \ {0}
      BY LineAssumption
    <3> HIDE DEF s, t
    <3>3. IsPrefix(safe_strncpy(s, VERSION_SIZE), safe_strncpy(t, VERSION_SIZE))
      BY <3>1, <3>2, CutsAreOrdered
    <3> QED BY <3>3 DEF s, t
  <2> QED BY <2>4, <2>5, <2>8, <2>9 DEF Refused, parts
<1> QED BY <1>2, <1>3, <1>4, <1>5 DEF LineInv, MethodAndPath

LEMMA LineRefused ==
  ASSUME LineInv, NEW shape \in Shapes, LineTooLong(shape)
  PROVE  LineInv'
<1>1. shape \in Seq(BOOLEAN) /\ LINE_BUF \in Nat
  BY LineAssumption
<1>2. Len(line') = Len(shape) /\ Len(shape) >= LINE_BUF /\ Len(shape) \in Nat
  BY <1>1 DEF LineTooLong, Written
<1>3. ~ (Len(line') < LINE_BUF)
  BY <1>1, <1>2
<1> QED BY <1>3 DEF LineTooLong, LineInv, MethodAndPath

(* Whatever earlier requests and other frames left in the buffer on the    *)
(* stack that parse_req_line copies a line into without terminating it, a  *)
(* line of three parts that fits it gives its own method and path, each as *)
(* far as its field of the request holds it.                               *)
THEOREM MethodAndPathArrive == LineSpec => []MethodAndPath
<1>1. LineInv /\ [LineNext]_line_vars => LineInv'
  <2> SUFFICES ASSUME LineInv, [LineNext]_line_vars PROVE LineInv'
    OBVIOUS
  <2>1. CASE UNCHANGED line_vars
    BY <2>1 DEF line_vars, LineInv, MethodAndPath
  <2>2. ASSUME NEW shape \in Shapes, ParseReqLine(shape) PROVE LineInv'
    BY <2>2, LineAccepted
  <2>3. ASSUME NEW shape \in Shapes, LineTooLong(shape) PROVE LineInv'
    BY <2>3, LineRefused
  <2> QED BY <2>1, <2>2, <2>3 DEF LineNext
<1>2. LineInv => MethodAndPath
  BY DEF LineInv
<1> QED BY <1>1, <1>2, LineStarts, PTL DEF LineSpec

-----------------------------------------------------------------------------
(* Request: the inductive invariant.                                       *)

(* An entry of the cookie array or of a header's value, and a line of the  *)
(* block or a header that was stored.                                      *)
Entries == Items \cup {Garbage, Nameless}
Rows == [key : STRING \cup {CutKey}, value : Seq(Entries)]

(* Lines that are headers, and how many of them are passed.                *)
Coloned == {i \in DOMAIN lines : lines[i].key # NoKey}
Rank(i) == Upto(Coloned, i)

(* The value of a line fits the field.                                     *)
Whole(i) == Len(lines[i].value) <= FieldItems

(* The headers stored are the first ones of the block, in their order, as  *)
(* they were sent as far as they fit; of Cookie only its place is left     *)
(* when it was split.                                                      *)
HeadersInv ==
  /\ at \in 1 .. Len(lines) + 1 /\ headers \in Seq(Rows)
  /\ phase # "headers" => at = Len(lines) + 1
  /\ Len(headers) = IF Rank(at - 1) <= MAX_HEADERS THEN Rank(at - 1) ELSE MAX_HEADERS
  /\ \A i \in Coloned : i < at /\ Rank(i) <= MAX_HEADERS =>
       /\ headers[Rank(i)].key = StoredKey(lines[i].key)
       /\ Whole(i) /\ (phase = "headers" \/ lines[i].key # "Cookie") =>
            headers[Rank(i)].value = lines[i].value
  /\ \A h \in DOMAIN headers : \E i \in Coloned : i < at /\ Rank(i) = h

(* The items of the Cookie header that are cookies, and how many of them   *)
(* strtok_r has passed.                                                    *)
Crumbs == Sent("Cookie")
Cookies == {i \in DOMAIN Crumbs : Crumbs[i].name # NoName}
Place(i) == Upto(Cookies, i)
Taken == Len(Crumbs) - Len(rest)
CrumbsFit == Len(Crumbs) <= FieldItems

(* An entry of the array is the cookie of its place, or written over; it   *)
(* is intact while the array was never grown, and if it is among those the *)
(* first growth leaves, while it was not grown twice.                      *)
CookiesInv ==
  /\ phase = "headers" => cookies = <<>>
  /\ phase \in {"body", "parsed"} => rest = <<>>
  /\ phase # "headers" /\ CrumbsFit =>
       /\ rest \in Seq(Entries) /\ Taken \in Nat
       /\ \A k \in DOMAIN rest : rest[k] = Crumbs[Taken + k]
       /\ cookies \in Seq(Entries) /\ Len(cookies) = Place(Taken)
       /\ \A c \in DOMAIN cookies :
            \/ cookies[c] = Garbage
            \/ \E i \in Cookies : i <= Taken /\ Place(i) = c /\ cookies[c] = Crumbs[i]
       /\ \A i \in Cookies :
            /\ i <= Taken
            /\ \/ Place(Taken) < CookieAlloc
               \/ Place(Taken) < 2 * CookieAlloc /\ Place(i) <= CookiesLeft
            => cookies[Place(i)] = Crumbs[i]

RequestInv ==
  /\ lines \in Seq(Rows) /\ sent \in Nat
  /\ phase \in {"headers", "cookies", "body", "parsed"}
  /\ Len(lines) # 1 => HeadersInv /\ CookiesInv
  /\ BodyWhole

-----------------------------------------------------------------------------
(* What the look-ups find.                                                 *)

(* The lines with a key that come early enough to be stored.               *)
Early(key) == {i \in Keyed(lines, key) : Rank(i) <= MAX_HEADERS}

LEMMA SentIsEarly ==
  ASSUME lines \in Seq(Rows), NEW key
  PROVE  /\ Sent(key) = IF Early(key) = {} THEN <<>> ELSE lines[Min(Early(key))].value
         /\ Sent(key) \in Seq(Entries)
<1>1. /\ DOMAIN lines = 1 .. Len(lines) /\ Len(lines) \in Nat
      /\ \A i \in DOMAIN lines : lines[i] \in Rows
  BY LenProperties, ElementOfSeq
<1>2. \A i \in DOMAIN lines :
        {j \in 1 .. i : lines[j].key # NoKey} = {j \in 1 .. i : j \in Coloned}
  BY <1>1 DEF Coloned
<1>3. Early(key) =
        {i \in Keyed(lines, key) :
           Cardinality({j \in 1 .. i : lines[j].key # NoKey}) <= MAX_HEADERS}
  BY <1>2 DEF Early, Rank, Upto, Keyed
<1>4. Sent(key) = IF Early(key) = {} THEN <<>> ELSE lines[Min(Early(key))].value
  BY <1>3 DEF Sent
<1>5. Early(key) \in SUBSET Nat /\ Early(key) \subseteq DOMAIN lines
  BY <1>1 DEF Early, Keyed
<1>6. CASE Early(key) = {}
  BY <1>4, <1>6
<1>7. CASE Early(key) # {}
  <2>1. Min(Early(key)) \in DOMAIN lines
    BY <1>5, <1>7, MinIsLeast
  <2>2. lines[Min(Early(key))].value \in Seq(Entries)
    BY <1>1, <2>1 DEF Rows
  <2> QED BY <1>4, <1>7, <2>2
<1> QED BY <1>4, <1>6, <1>7

(* get_header goes to the place of the first line with that key.           *)
LEMMA HeaderPlace ==
  ASSUME lines \in Seq(Rows), HeadersInv, at = Len(lines) + 1,
         NEW key, key \notin {NoKey, CutKey} \cup LongKeys
  PROVE  /\ Keyed(headers, key) = {Rank(i) : i \in Early(key)}
         /\ Early(key) # {} => Min(Keyed(headers, key)) = Rank(Min(Early(key)))
<1>1. /\ DOMAIN lines = 1 .. Len(lines) /\ Len(lines) \in Nat
      /\ DOMAIN headers = 1 .. Len(headers) /\ Len(headers) \in Nat
  BY LenProperties DEF HeadersInv
<1>2. Coloned \in SUBSET Nat /\ Early(key) \in SUBSET Coloned /\ MAX_HEADERS \in Nat
  BY <1>1, RequestAssumption DEF Coloned, Early, Keyed
<1>3. \A i \in Coloned : i < at
  BY <1>1 DEF Coloned
<1>4. ASSUME NEW h \in Keyed(headers, key) PROVE h \in {Rank(i) : i \in Early(key)}
  <2>1. h \in DOMAIN headers /\ headers[h].key = key
    BY DEF Keyed
  <2>2. PICK i \in Coloned : i < at /\ Rank(i) = h
    BY <2>1 DEF HeadersInv
  <2>3. h <= MAX_HEADERS
    BY <1>1, <1>2, <2>1 DEF HeadersInv
  <2>4. headers[h].key = lines[i].key
    <3>1. headers[h].key = StoredKey(lines[i].key)
      BY <2>2, <2>3 DEF HeadersInv
    <3> QED BY <2>1, <3>1 DEF StoredKey
  <2>5. i \in Early(key)
    BY <2>1, <2>2, <2>3, <2>4 DEF Early, Keyed, Coloned
  <2> QED BY <2>2, <2>5
<1>5. ASSUME NEW i \in Early(key) PROVE Rank(i) \in Keyed(headers, key)
  <2>1. i \in Coloned /\ i \in DOMAIN lines /\ lines[i].key = key /\ Rank(i) <= MAX_HEADERS
    BY <1>2 DEF Early, Keyed
  <2>2. headers[Rank(i)].key = key
    BY <1>3, <2>1 DEF HeadersInv, StoredKey
  <2>3. i \in Nat \ {0} /\ at - 1 \in Nat /\ i <= at - 1
    BY <1>1, <2>1
  <2>4. Rank(i) \in Nat /\ Rank(at - 1) \in Nat /\ Rank(i) <= Rank(at - 1)
    BY <2>3, UptoTurns, UptoGrows DEF Rank
  <2>5. Rank(0) = 0 /\ Rank(0) < Rank(i)
    <3>1. 0 \in Nat /\ 0 < i
      BY <2>3
    <3> QED BY <2>1, <2>3, <3>1, UptoTurns, UptoGrows DEF Rank
  <2>6. Rank(i) \in 1 .. Len(headers)
    BY <1>2, <2>1, <2>4, <2>5 DEF HeadersInv
  <2> QED BY <1>1, <2>2, <2>6 DEF Keyed
<1>6. Keyed(headers, key) = {Rank(i) : i \in Early(key)}
  BY <1>4, <1>5
<1>7. ASSUME Early(key) # {} PROVE Min(Keyed(headers, key)) = Rank(Min(Early(key)))
  <2>1. Keyed(headers, key) = {Upto(Coloned, i) : i \in Early(key)}
    BY <1>6 DEF Rank
  <2> QED BY <1>2, <1>7, <2>1, FirstIsFirst DEF Rank
<1> QED BY <1>6, <1>7

(* What is found under a key is what was sent under it.                    *)
LEMMA HeaderIsSent ==
  ASSUME lines \in Seq(Rows), HeadersInv, at = Len(lines) + 1,
         NEW key, key \notin {NoKey, CutKey} \cup LongKeys, HeaderFits(key),
         phase = "headers" \/ key # "Cookie"
  PROVE  get_header(key) = Sent(key)
<1>1. /\ Keyed(headers, key) = {Rank(i) : i \in Early(key)}
      /\ Early(key) # {} => Min(Keyed(headers, key)) = Rank(Min(Early(key)))
  BY HeaderPlace
<1>2. Sent(key) = IF Early(key) = {} THEN <<>> ELSE lines[Min(Early(key))].value
  BY SentIsEarly
<1>3. CASE Early(key) = {}
  <2>1. Keyed(headers, key) = {}
    BY <1>1, <1>3
  <2> QED BY <1>2, <1>3, <2>1 DEF get_header
<1>4. CASE Early(key) # {}
  <2> DEFINE i == Min(Early(key))
  <2>1. Early(key) \in SUBSET Nat /\ Len(lines) \in Nat /\ DOMAIN lines = 1 .. Len(lines)
    <3>1. DOMAIN lines = 1 .. Len(lines) /\ Len(lines) \in Nat
      BY LenProperties
    <3> QED BY <3>1 DEF Early, Keyed
  <2>2. i \in Early(key)
    BY <1>4, <2>1, MinIsLeast
  <2>3. i \in Coloned /\ i < at /\ lines[i].key = key /\ Rank(i) <= MAX_HEADERS
    BY <2>1, <2>2 DEF Early, Keyed, Coloned
  <2>4. headers[Rank(i)].value = lines[i].value
    <3>1. Whole(i)
      BY <1>2, <1>4 DEF HeaderFits, Whole
    <3> QED BY <2>3, <3>1 DEF HeadersInv
  <2>5. Keyed(headers, key) # {}
    BY <1>1, <1>4
  <2>6. get_header(key) = headers[Rank(i)].value
    BY <1>1, <1>4, <2>5 DEF get_header
  <2> QED BY <1>2, <1>4, <2>4, <2>6
<1> QED BY <1>3, <1>4

-----------------------------------------------------------------------------
(* Every action keeps the invariant.                                       *)

(* Nothing but the parsers' own state changes.                             *)
LEMMA BlockStays ==
  ASSUME [RequestNext]_request_vars
  PROVE  /\ lines' = lines /\ sent' = sent
         /\ Coloned' = Coloned /\ Crumbs' = Crumbs /\ Cookies' = Cookies
         /\ \A i : Rank(i)' = Rank(i) /\ Place(i)' = Place(i) /\ Whole(i)' = Whole(i)
         /\ \A key : Sent(key)' = Sent(key)
         /\ CrumbsFit' = CrumbsFit
<1>1. lines' = lines /\ sent' = sent
  BY DEF RequestNext, request_vars, ParseHeader, EndOfHeaders, ParseCookie, SkipCookie,
         EndOfCookies, ParseBody
<1>2. \A key : Sent(key)' = Sent(key)
  BY <1>1 DEF Sent, Keyed
<1>3. Coloned' = Coloned
  BY <1>1 DEF Coloned
<1>4. Crumbs' = Crumbs
  BY <1>2 DEF Crumbs
<1>5. Cookies' = Cookies
  BY <1>4 DEF Cookies
<1>6. \A i : Rank(i)' = Rank(i)
  BY <1>3 DEF Rank
<1>7. \A i : Place(i)' = Place(i)
  BY <1>5 DEF Place
<1>8. (\A i : Whole(i)' = Whole(i)) /\ CrumbsFit' = CrumbsFit
  BY <1>1, <1>4 DEF Whole, CrumbsFit
<1> QED BY <1>1, <1>2, <1>3, <1>4, <1>5, <1>6, <1>7, <1>8

(* Ranks of lines and places of cookies begin with one and go up.          *)
LEMMA RanksGrow ==
  ASSUME lines \in Seq(Rows)
  PROVE  /\ \A n \in Nat : Rank(n) \in Nat
         /\ \A i \in Coloned, n \in Nat : i <= n => Rank(i) \in 1 .. Rank(n)
         /\ \A n \in Nat : Rank(n + 1) = IF n + 1 \in Coloned THEN Rank(n) + 1 ELSE Rank(n)
<1>1. DOMAIN lines = 1 .. Len(lines) /\ Len(lines) \in Nat
  BY LenProperties
<1>2. \A i \in Coloned : i \in Nat /\ 0 < i
  BY <1>1 DEF Coloned
<1>3. 0 \in Nat
  OBVIOUS
<1>4. \A n \in Nat : Rank(n) \in Nat
  BY UptoTurns DEF Rank
<1>5. ASSUME NEW i \in Coloned, NEW n \in Nat, i <= n PROVE Rank(i) \in 1 .. Rank(n)
  <2>1. Rank(i) <= Rank(n)
    BY <1>2, <1>5, UptoGrows DEF Rank
  <2>2. Rank(0) < Rank(i) /\ Rank(0) = 0
    BY <1>2, <1>3, UptoGrows, UptoTurns DEF Rank
  <2> QED BY <1>2, <1>4, <2>1, <2>2
<1>6. \A n \in Nat : Rank(n + 1) = IF n + 1 \in Coloned THEN Rank(n) + 1 ELSE Rank(n)
  BY UptoTurns DEF Rank
<1> QED BY <1>4, <1>5, <1>6

LEMMA PlacesGrow ==
  ASSUME Crumbs \in Seq(Entries)
  PROVE  /\ \A n \in Nat : Place(n) \in Nat
         /\ \A i \in Cookies, n \in Nat : i <= n => Place(i) \in 1 .. Place(n)
         /\ \A n \in Nat : Place(n + 1) = IF n + 1 \in Cookies THEN Place(n) + 1 ELSE Place(n)
<1>1. DOMAIN Crumbs = 1 .. Len(Crumbs) /\ Len(Crumbs) \in Nat
  BY LenProperties
<1>2. \A i \in Cookies : i \in Nat /\ 0 < i
  BY <1>1 DEF Cookies
<1>3. 0 \in Nat
  OBVIOUS
<1>4. \A n \in Nat : Place(n) \in Nat
  BY UptoTurns DEF Place
<1>5. ASSUME NEW i \in Cookies, NEW n \in Nat, i <= n PROVE Place(i) \in 1 .. Place(n)
  <2>1. Place(i) <= Place(n)
    BY <1>2, <1>5, UptoGrows DEF Place
  <2>2. Place(0) < Place(i) /\ Place(0) = 0
    BY <1>2, <1>3, UptoGrows, UptoTurns DEF Place
  <2> QED BY <1>2, <1>4, <2>1, <2>2
<1>6. \A n \in Nat : Place(n + 1) = IF n + 1 \in Cookies THEN Place(n) + 1 ELSE Place(n)
  BY UptoTurns DEF Place
<1> QED BY <1>4, <1>5, <1>6

(* However a value is cut, what is stored is a header.                     *)
LEMMA CopiedIsRow ==
  ASSUME NEW row \in Rows, Len(lines) # 1, NEW header \in Copied(row)
  PROVE  /\ header \in Rows /\ header.key = StoredKey(row.key)
         /\ Len(row.value) <= FieldItems => header.value = row.value
<1> DEFINE v == row.value  kept == SubSeq(v, 1, FieldItems)
<1>1. /\ header = [key |-> header.key, value |-> header.value]
      /\ header.key = StoredKey(row.key) /\ header.value \in Fitted(v)
  BY DEF Copied
<1>2. v \in Seq(Entries) /\ Len(v) \in Nat /\ FieldItems \in Nat \ {0}
  BY RequestAssumption, LenProperties DEF Rows
<1>3. header.key \in STRING \cup {CutKey}
  BY <1>1 DEF StoredKey, Rows
<1>4. Len(v) <= FieldItems => header.value = v
  BY <1>1 DEF Fitted
<1>5. ASSUME ~ (Len(v) <= FieldItems) PROVE header.value \in Seq(Entries)
  <2>1. kept \in Seq(Entries) /\ Len(kept) = FieldItems
    <3>1. /\ 1 \in 1 .. Len(v) + 1 /\ FieldItems \in 0 .. Len(v)
          /\ FieldItems - 1 + 1 = FieldItems /\ 1 <= FieldItems
      BY <1>2, <1>5
    <3>2. /\ SubSeq(v, 1, FieldItems) \in Seq(Entries)
          /\ Len(SubSeq(v, 1, FieldItems)) =
               IF 1 <= FieldItems THEN FieldItems - 1 + 1 ELSE 0
      BY <1>2, <1>5, <3>1, SubSeqProperties
    <3> QED BY <3>1, <3>2
  <2>2. header.value \in {kept, CutLast(kept), [kept EXCEPT ![FieldItems] = Nameless]}
    BY <1>1, <1>5 DEF Fitted
  <2> HIDE DEF kept
  <2>3. FieldItems \in DOMAIN kept /\ kept[FieldItems] \in Entries
    <3>1. DOMAIN kept = 1 .. Len(kept) /\ FieldItems \in 1 .. FieldItems
      BY <1>2, <2>1, LenProperties
    <3> QED BY <2>1, <3>1, ElementOfSeq
  <2>4. Nameless \in Entries
    BY DEF Entries
  <2>5. CutItem(kept[FieldItems]) \in Entries
    <3>1. \A e \in Items : CutItem(e) \in Items
      BY DEF Items, CutItem
    <3>2. CutItem(Garbage) = Garbage /\ CutItem(Nameless) = Nameless
      BY DEF Garbage, Nameless, CutItem
    <3> QED BY <2>3, <3>1, <3>2 DEF Entries
  <2>6. CutLast(kept) = [kept EXCEPT ![FieldItems] = CutItem(kept[FieldItems])]
    BY <2>1, <2>3 DEF CutLast
  <2>7. \A e \in Entries : [kept EXCEPT ![FieldItems] = e] \in Seq(Entries)
    BY <2>1, <2>3, ExceptSeq
  <2> DEFINE last == CutItem(kept[FieldItems])
  <2>8. CutLast(kept) = [kept EXCEPT ![FieldItems] = last] /\ last \in Entries
    BY <2>5, <2>6
  <2> HIDE DEF last
  <2>9. CutLast(kept) \in Seq(Entries)
    BY <2>7, <2>8
  <2>10. [kept EXCEPT ![FieldItems] = Nameless] \in Seq(Entries)
    BY <2>4, <2>7
  <2> QED BY <2>1, <2>2, <2>9, <2>10
<1>6. header.value \in Seq(Entries)
  BY <1>2, <1>4, <1>5
<1> QED BY <1>1, <1>3, <1>4, <1>6 DEF Rows

LEMMA ParseHeaderKeeps ==
  ASSUME lines \in Seq(Rows), Len(lines) # 1, HeadersInv, ParseHeader
  PROVE  HeadersInv'
<1>1. /\ Len(lines) \in Nat /\ DOMAIN lines = 1 .. Len(lines)
      /\ \A i \in DOMAIN lines : lines[i] \in Rows
      /\ Len(headers) \in Nat /\ DOMAIN headers = 1 .. Len(headers)
  BY LenProperties, ElementOfSeq DEF HeadersInv
<1>2. at \in 1 .. Len(lines) /\ at' = at + 1 /\ phase = "headers" /\ phase' = "headers"
  BY <1>1 DEF HeadersInv, ParseHeader
<1>3. /\ Coloned' = Coloned /\ \A i : Rank(i)' = Rank(i)
      /\ lines' = lines /\ \A i : Whole(i)' = Whole(i)
  BY BlockStays DEF RequestNext
<1>4. at - 1 \in Nat /\ (at - 1) + 1 = at /\ at \in Nat
  BY <1>1, <1>2
<1>5. /\ Rank(at - 1) \in Nat /\ Rank(at) \in Nat
      /\ Rank(at) = IF at \in Coloned THEN Rank(at - 1) + 1 ELSE Rank(at - 1)
      /\ \A i \in Coloned : i < at => Rank(i) \in 1 .. Rank(at - 1)
  <2>1. \A i \in Coloned : i \in Nat
    BY <1>1 DEF Coloned
  <2>2. \A i \in Coloned : i < at => i <= at - 1
    BY <1>4, <2>1
  <2> QED BY <1>4, <2>2, RanksGrow
<1>6. MAX_HEADERS \in Nat
  BY RequestAssumption
<1>7. \A i \in Coloned : i < at + 1 => i < at \/ i = at
  BY <1>1, <1>2 DEF Coloned
<1>8. (at + 1) - 1 = at
  BY <1>4
<1>9. CASE at \in Coloned /\ Len(headers) < MAX_HEADERS
  <2>1. PICK header \in Copied(lines[at]) : headers' = Append(headers, header)
    BY <1>9 DEF ParseHeader, Coloned
  <2>2. /\ header \in Rows /\ header.key = StoredKey(lines[at].key)
        /\ Whole(at) => header.value = lines[at].value
    <3>1. lines[at] \in Rows
      BY <1>1, <1>2
    <3> QED BY <2>1, <3>1, CopiedIsRow DEF Whole
  <2>3. Len(headers) = Rank(at - 1) /\ Rank(at - 1) < MAX_HEADERS
    BY <1>5, <1>6, <1>9 DEF HeadersInv
  <2>4. /\ headers' \in Seq(Rows) /\ Len(headers') = Rank(at) /\ Rank(at) <= MAX_HEADERS
        /\ headers'[Rank(at)] = header
        /\ \A h \in 1 .. Rank(at - 1) : headers'[h] = headers[h]
        /\ DOMAIN headers' = 1 .. Rank(at)
    <3>1. headers \in Seq(Rows)
      BY DEF HeadersInv
    <3>2. /\ headers' \in Seq(Rows) /\ Len(headers') = Len(headers) + 1
          /\ headers'[Len(headers) + 1] = header
          /\ \A h \in 1 .. Len(headers) : headers'[h] = headers[h]
          /\ DOMAIN headers' = 1 .. Len(headers) + 1
      BY <2>1, <2>2, <3>1, AppendProperties, LenProperties
    <3> QED BY <1>5, <1>6, <1>9, <2>3, <3>2
  <2>5. ASSUME NEW i \in Coloned, i < at + 1
        PROVE  /\ headers'[Rank(i)].key = StoredKey(lines[i].key)
               /\ Whole(i) => headers'[Rank(i)].value = lines[i].value
    <3>1. CASE i = at
      BY <2>2, <2>4, <3>1
    <3>2. CASE i < at
      <4>1. Rank(i) \in 1 .. Rank(at - 1) /\ Rank(i) <= MAX_HEADERS
        BY <1>5, <1>6, <2>3, <3>2
      <4>2. /\ headers[Rank(i)].key = StoredKey(lines[i].key)
            /\ Whole(i) => headers[Rank(i)].value = lines[i].value
        BY <1>2, <3>2, <4>1 DEF HeadersInv
      <4> QED BY <2>4, <4>1, <4>2
    <3> QED BY <1>7, <2>5, <3>1, <3>2
  <2>6. ASSUME NEW h \in DOMAIN headers' PROVE \E i \in Coloned : i < at + 1 /\ Rank(i) = h
    <3>1. CASE h = Rank(at)
      BY <1>4, <1>9, <3>1
    <3>2. CASE h # Rank(at)
      <4>1. h \in DOMAIN headers
        BY <1>1, <1>5, <1>9, <2>3, <2>4, <3>2
      <4>2. PICK i \in Coloned : i < at /\ Rank(i) = h
        BY <4>1 DEF HeadersInv
      <4>3. i < at + 1
        BY <1>1, <1>4, <4>2 DEF Coloned
      <4> QED BY <4>2, <4>3
    <3> QED BY <3>1, <3>2
  <2> QED BY <1>1, <1>2, <1>3, <1>8, <2>4, <2>5, <2>6 DEF HeadersInv, StoredKey
<1>10. CASE ~ (at \in Coloned /\ Len(headers) < MAX_HEADERS)
  <2>1. headers' = headers
    BY <1>1, <1>2, <1>10 DEF ParseHeader, Coloned
  <2>2. at \in Coloned => Len(headers) = MAX_HEADERS /\ MAX_HEADERS <= Rank(at - 1)
    BY <1>1, <1>5, <1>6, <1>10 DEF HeadersInv
  <2>3. Len(headers) = IF Rank(at) <= MAX_HEADERS THEN Rank(at) ELSE MAX_HEADERS
    BY <1>5, <1>6, <2>2 DEF HeadersInv
  <2>4. \A i \in Coloned : i < at + 1 /\ Rank(i) <= MAX_HEADERS => i < at
    BY <1>5, <1>6, <1>7, <2>2
  <2>5. \A i \in Coloned : i < at => i < at + 1
    BY <1>1, <1>4 DEF Coloned
  <2>6. /\ \A i \in Coloned : i < at + 1 /\ Rank(i) <= MAX_HEADERS =>
             /\ headers[Rank(i)].key = StoredKey(lines[i].key)
             /\ Whole(i) => headers[Rank(i)].value = lines[i].value
        /\ \A h \in DOMAIN headers : \E i \in Coloned : i < at + 1 /\ Rank(i) = h
        /\ headers \in Seq(Rows)
    BY <1>2, <2>4, <2>5 DEF HeadersInv
  <2> QED BY <1>1, <1>2, <1>3, <1>8, <2>1, <2>3, <2>6 DEF HeadersInv, StoredKey
<1> QED BY <1>9, <1>10

LEMMA CrumbsAreEntries ==
  ASSUME lines \in Seq(Rows)
  PROVE  /\ Crumbs \in Seq(Entries) /\ Len(Crumbs) \in Nat /\ DOMAIN Crumbs = 1 .. Len(Crumbs)
         /\ \A i \in DOMAIN Crumbs : Crumbs[i] \in Entries
         /\ \A i \in Cookies : i \in 1 .. Len(Crumbs)
<1>1. Crumbs \in Seq(Entries)
  BY SentIsEarly DEF Crumbs
<1> QED BY <1>1, LenProperties, ElementOfSeq DEF Cookies

LEMMA BlanksAreEntries == Garbage \in Entries /\ Split \in Seq(Entries)
<1>1. Nameless \in Entries
  BY DEF Entries
<1>2. Split \in Seq(Entries)
  BY <1>1 DEF Split
<1> QED BY <1>2 DEF Entries

(* strtok_r starts on the whole header; of the others none is touched.     *)
LEMMA EndOfHeadersKeeps ==
  ASSUME lines \in Seq(Rows), Len(lines) # 1, HeadersInv, CookiesInv, EndOfHeaders
  PROVE  HeadersInv' /\ CookiesInv'
<1>1. /\ Len(lines) \in Nat /\ DOMAIN lines = 1 .. Len(lines)
      /\ Len(headers) \in Nat /\ DOMAIN headers = 1 .. Len(headers)
      /\ \A h \in DOMAIN headers : headers[h] \in Rows
  BY LenProperties, ElementOfSeq DEF HeadersInv
<1>2. /\ at = Len(lines) + 1 /\ at' = at /\ phase = "headers" /\ phase' = "cookies"
      /\ cookies' = cookies /\ cookies = <<>> /\ rest' = get_header("Cookie")
  BY <1>1 DEF HeadersInv, CookiesInv, EndOfHeaders
<1>3. /\ Coloned' = Coloned /\ Crumbs' = Crumbs /\ Cookies' = Cookies /\ lines' = lines
      /\ \A i : Rank(i)' = Rank(i) /\ Place(i)' = Place(i) /\ Whole(i)' = Whole(i)
      /\ CrumbsFit' = CrumbsFit
  BY BlockStays DEF RequestNext
<1>4. CrumbsFit => rest' = Crumbs
  <2>1. "Cookie" \notin {NoKey, CutKey} \cup LongKeys
    BY RequestAssumption DEF NoKey, CutKey
  <2>2. CrumbsFit => HeaderFits("Cookie")
    BY DEF CrumbsFit, Crumbs, HeaderFits
  <2> QED BY <1>2, <2>1, <2>2, HeaderIsSent DEF Crumbs
<1> DEFINE m == Min(Keyed(headers, "Cookie"))
<1>5. headers' = IF rest' = <<>> THEN headers ELSE [headers EXCEPT ![m].value = Split]
  BY DEF EndOfHeaders
<1>6. ASSUME rest' # <<>> PROVE m \in DOMAIN headers /\ headers[m].key = "Cookie"
  <2>1. Keyed(headers, "Cookie") # {}
    BY <1>2, <1>6 DEF get_header
  <2>2. Keyed(headers, "Cookie") \in SUBSET Nat
    BY <1>1 DEF Keyed
  <2>3. m \in Keyed(headers, "Cookie")
    BY <2>1, <2>2, MinIsLeast
  <2> QED BY <2>3 DEF Keyed
<1> HIDE DEF m
<1>7. /\ headers' \in Seq(Rows) /\ Len(headers') = Len(headers)
      /\ DOMAIN headers' = DOMAIN headers
      /\ \A h \in DOMAIN headers : headers'[h].key = headers[h].key
      /\ \A h \in DOMAIN headers :
           headers[h].key # "Cookie" => headers'[h].value = headers[h].value
  <2>1. CASE rest' = <<>>
    BY <1>5, <2>1 DEF HeadersInv
  <2>2. CASE rest' # <<>>
    <3> DEFINE split == [headers[m] EXCEPT !.value = Split]
    <3>1. headers' = [headers EXCEPT ![m] = split]
      BY <1>5, <2>2
    <3>2. headers[m] \in Rows /\ m \in DOMAIN headers /\ headers[m].key = "Cookie"
      BY <1>1, <1>6, <2>2
    <3>3. Split \in Seq(Entries)
      BY BlanksAreEntries
    <3>4. split \in Rows /\ split.key = headers[m].key
      BY <3>2, <3>3 DEF Rows
    <3> HIDE DEF split
    <3>5. headers \in Seq(Rows)
      BY DEF HeadersInv
    <3>6. headers' \in Seq(Rows) /\ Len(headers') = Len(headers)
      BY <3>1, <3>2, <3>4, <3>5, ExceptSeq
    <3>7. DOMAIN headers' = DOMAIN headers
      BY <3>1
    <3>8. \A h \in DOMAIN headers : headers'[h] = IF h = m THEN split ELSE headers[h]
      BY <3>1
    <3> QED BY <3>2, <3>4, <3>6, <3>7, <3>8
  <2> QED BY <2>1, <2>2
<1>8. \A i \in Coloned : i < at /\ Rank(i) <= MAX_HEADERS => Rank(i) \in DOMAIN headers
  <2> SUFFICES ASSUME NEW i \in Coloned, i < at, Rank(i) <= MAX_HEADERS
               PROVE  Rank(i) \in DOMAIN headers
    OBVIOUS
  <2>1. i \in Nat /\ at - 1 \in Nat /\ i <= at - 1
    BY <1>1, <1>2 DEF Coloned
  <2>2. Rank(i) \in 1 .. Rank(at - 1) /\ Rank(at - 1) \in Nat /\ MAX_HEADERS \in Nat
    BY <2>1, RanksGrow, RequestAssumption
  <2> QED BY <1>1, <2>2 DEF HeadersInv
<1>9. \A i \in Coloned : i < at /\ Rank(i) <= MAX_HEADERS =>
        /\ headers'[Rank(i)].key = StoredKey(lines[i].key)
        /\ Whole(i) /\ lines[i].key # "Cookie" => headers'[Rank(i)].value = lines[i].value
  <2> SUFFICES ASSUME NEW i \in Coloned, i < at, Rank(i) <= MAX_HEADERS
               PROVE  /\ headers'[Rank(i)].key = StoredKey(lines[i].key)
                      /\ Whole(i) /\ lines[i].key # "Cookie" =>
                           headers'[Rank(i)].value = lines[i].value
    OBVIOUS
  <2>1. /\ headers[Rank(i)].key = StoredKey(lines[i].key)
        /\ Whole(i) => headers[Rank(i)].value = lines[i].value
        /\ Rank(i) \in DOMAIN headers
    BY <1>2, <1>8 DEF HeadersInv
  <2>2. lines[i].key # "Cookie" => StoredKey(lines[i].key) # "Cookie"
    BY DEF StoredKey, CutKey
  <2> QED BY <1>7, <2>1, <2>2
<1>10. HeadersInv'
  BY <1>1, <1>2, <1>3, <1>7, <1>9 DEF HeadersInv, StoredKey
<1>11. /\ Crumbs \in Seq(Entries) /\ Len(Crumbs) \in Nat
       /\ \A i \in Cookies : i \in 1 .. Len(Crumbs)
  BY CrumbsAreEntries
<1>12. CrumbsFit => Taken' = 0
  BY <1>3, <1>4, <1>11 DEF Taken
<1>13. Place(0) = 0
  BY UptoTurns DEF Place
<1>14. /\ cookies' \in Seq(Entries) /\ Len(cookies') = 0 /\ DOMAIN cookies' = {}
  BY <1>2
<1>15. \A i \in Cookies : ~ (i <= 0)
  BY <1>11
<1>16. CookiesInv'
  BY <1>2, <1>3, <1>4, <1>11, <1>12, <1>13, <1>14, <1>15 DEF CookiesInv
<1> QED BY <1>10, <1>16

(* One more cookie is stored; what the array had may be written over.      *)
LEMMA ParseCookieKeeps ==
  ASSUME lines \in Seq(Rows), CookiesInv, CrumbsFit, ParseCookie
  PROVE  CookiesInv'
<1>1. /\ Crumbs \in Seq(Entries) /\ Len(Crumbs) \in Nat /\ DOMAIN Crumbs = 1 .. Len(Crumbs)
      /\ \A i \in DOMAIN Crumbs : Crumbs[i] \in Entries
      /\ \A i \in Cookies : i \in 1 .. Len(Crumbs)
  BY CrumbsAreEntries
<1>2. /\ Crumbs' = Crumbs /\ Cookies' = Cookies /\ \A i : Place(i)' = Place(i)
  BY BlockStays DEF RequestNext
<1> DEFINE n == Taken
<1>3. /\ phase = "cookies" /\ phase' = "cookies" /\ rest # <<>> /\ rest' = Tail(rest)
      /\ Head(rest).name # NoName /\ rest \in Seq(Entries)
  BY DEF CookiesInv, ParseCookie
<1>4. /\ n \in Nat /\ n = Len(Crumbs) - Len(rest)
      /\ \A k \in DOMAIN rest : rest[k] = Crumbs[n + k]
      /\ cookies \in Seq(Entries) /\ Len(cookies) = Place(n)
  BY <1>3 DEF CookiesInv, Taken
<1>5. /\ \A c \in DOMAIN cookies :
           \/ cookies[c] = Garbage
           \/ \E i \in Cookies : i <= n /\ Place(i) = c /\ cookies[c] = Crumbs[i]
      /\ \A i \in Cookies :
           /\ i <= n
           /\ \/ Place(n) < CookieAlloc
              \/ Place(n) < 2 * CookieAlloc /\ Place(i) <= CookiesLeft
           => cookies[Place(i)] = Crumbs[i]
  BY <1>3 DEF CookiesInv
<1> HIDE DEF n
<1>6. /\ Len(rest) \in Nat \ {0} /\ DOMAIN rest = 1 .. Len(rest) /\ Head(rest) = rest[1]
      /\ rest' \in Seq(Entries) /\ Len(rest') = Len(rest) - 1
      /\ \A k \in 1 .. Len(rest) - 1 : rest'[k] = rest[k + 1]
      /\ DOMAIN rest' = 1 .. Len(rest) - 1
  BY <1>3, HeadTailProperties, LenProperties, EmptySeq
<1>7. /\ n + 1 \in 1 .. Len(Crumbs) /\ Head(rest) = Crumbs[n + 1]
      /\ n + 1 \in Cookies
  <2>1. 1 \in DOMAIN rest
    BY <1>6
  <2>2. n + 1 \in 1 .. Len(Crumbs) /\ Head(rest) = Crumbs[n + 1]
    <3>1. Len(Crumbs) = n + Len(rest) /\ 1 <= Len(rest)
      BY <1>1, <1>4, <1>6
    <3>2. rest[1] = Crumbs[n + 1]
      BY <1>4, <2>1
    <3> QED BY <1>1, <1>4, <1>6, <3>1, <3>2
  <2> QED BY <1>1, <1>3, <2>2 DEF Cookies
<1>8. Taken' = n + 1
  BY <1>1, <1>2, <1>4, <1>6 DEF Taken
<1>9. /\ Place(n) \in Nat /\ Place(n + 1) = Place(n) + 1
      /\ \A i \in Cookies : i <= n => Place(i) \in 1 .. Place(n)
  BY <1>1, <1>4, <1>7, PlacesGrow
<1> DEFINE stored == Append(cookies, Head(rest))
<1>10. /\ stored \in Seq(Entries) /\ Len(stored) = Place(n + 1) /\ DOMAIN stored = 1 .. Place(n + 1)
       /\ stored[Place(n + 1)] = Crumbs[n + 1]
       /\ \A c \in 1 .. Place(n) : stored[c] = cookies[c]
       /\ DOMAIN cookies = 1 .. Place(n)
  <2>1. Head(rest) \in Entries
    BY <1>1, <1>7
  <2>2. DOMAIN cookies = 1 .. Len(cookies)
    BY <1>4, LenProperties
  <2> QED BY <1>4, <1>7, <1>9, <2>1, <2>2, AppendProperties, LenProperties
<1>11. cookies' \in Disturbed(stored)
  BY DEF ParseCookie
<1> HIDE DEF stored
<1> DEFINE left == IF Len(stored) < CookieAlloc THEN Len(stored)
                   ELSE IF Len(stored) < 2 * CookieAlloc THEN CookiesLeft ELSE 0
<1>12. PICK lost \in SUBSET (left + 1 .. Len(stored)) :
         cookies' = [c \in DOMAIN stored |-> IF c \in lost THEN Garbage ELSE stored[c]]
  BY <1>11 DEF Disturbed
<1>13. Garbage \in Entries
  BY BlanksAreEntries
<1>14. /\ cookies' \in Seq(Entries) /\ Len(cookies') = Place(n + 1)
       /\ DOMAIN cookies' = 1 .. Place(n + 1)
  <2>1. \A c \in 1 .. Len(stored) : stored[c] \in Entries
    BY <1>10, ElementOfSeq
  <2>2. Len(stored) \in Nat
    BY <1>9, <1>10
  <2>3. cookies' = [c \in 1 .. Len(stored) |-> IF c \in lost THEN Garbage ELSE stored[c]]
    BY <1>10, <1>12
  <2> HIDE DEF left
  <2>4. \A c \in 1 .. Len(stored) : (IF c \in lost THEN Garbage ELSE stored[c]) \in Entries
    BY <1>13, <2>1
  <2>5. cookies' \in Seq(Entries)
    BY <2>2, <2>3, <2>4, IsASeq
  <2>6. DOMAIN cookies' = 1 .. Place(n + 1)
    BY <1>10, <2>3
  <2> QED BY <1>9, <2>5, <2>6, LenProperties
<1>15. \A c \in 1 .. Place(n + 1) : cookies'[c] = IF c \in lost THEN Garbage ELSE stored[c]
  BY <1>10, <1>12
<1>16. \A i \in Cookies : i <= n + 1 => i <= n \/ i = n + 1
  <2>1. n \in Nat /\ \A i \in Cookies : i \in Nat
    BY <1>1, <1>4
  <2> QED BY <2>1
<1>17. ASSUME NEW c \in DOMAIN cookies'
       PROVE  \/ cookies'[c] = Garbage
              \/ \E i \in Cookies : i <= n + 1 /\ Place(i) = c /\ cookies'[c] = Crumbs[i]
  <2>1. c \in 1 .. Place(n + 1)
    BY <1>14
  <2> SUFFICES ASSUME c \notin lost
               PROVE  \/ cookies'[c] = Garbage
                      \/ \E i \in Cookies : i <= n + 1 /\ Place(i) = c /\ cookies'[c] = Crumbs[i]
    BY <1>15, <2>1
  <2>2. cookies'[c] = stored[c]
    BY <1>15, <2>1
  <2>3. CASE c = Place(n + 1)
    <3>1. n + 1 <= n + 1 /\ cookies'[c] = Crumbs[n + 1]
      BY <1>4, <1>10, <2>2, <2>3
    <3> QED BY <1>7, <2>3, <3>1
  <2>4. CASE c # Place(n + 1)
    <3>1. c \in 1 .. Place(n)
      BY <1>9, <2>1, <2>4
    <3>2. cookies'[c] = cookies[c] /\ c \in DOMAIN cookies
      BY <1>10, <2>2, <3>1
    <3>3. CASE cookies[c] = Garbage
      BY <3>2, <3>3
    <3>4. CASE \E i \in Cookies : i <= n /\ Place(i) = c /\ cookies[c] = Crumbs[i]
      <4>1. \A i \in Cookies : i <= n => i <= n + 1
        BY <1>1, <1>4
      <4> QED BY <3>2, <3>4, <4>1
    <3> QED BY <1>5, <3>2, <3>3, <3>4
  <2> QED BY <2>3, <2>4
<1>18. ASSUME NEW i \in Cookies, i <= n + 1,
              \/ Place(n + 1) < CookieAlloc
              \/ Place(n + 1) < 2 * CookieAlloc /\ Place(i) <= CookiesLeft
       PROVE  cookies'[Place(i)] = Crumbs[i]
  <2>1. CookieAlloc \in Nat /\ CookiesLeft \in Nat
    BY RequestAssumption
  <2>2. Place(i) \in 1 .. Place(n + 1)
    BY <1>9, <1>16, <1>18
  <2>3. Place(i) \notin lost
    BY <1>9, <1>10, <1>12, <1>18, <2>1, <2>2
  <2>4. cookies'[Place(i)] = stored[Place(i)]
    BY <1>15, <2>2, <2>3
  <2>5. CASE i = n + 1
    BY <1>10, <2>4, <2>5
  <2>6. CASE i <= n
    <3>1. \/ Place(n) < CookieAlloc
          \/ Place(n) < 2 * CookieAlloc /\ Place(i) <= CookiesLeft
      BY <1>9, <1>18, <2>1
    <3>2. cookies[Place(i)] = Crumbs[i]
      BY <1>5, <2>6, <3>1
    <3>3. Place(i) \in 1 .. Place(n)
      BY <1>9, <2>6
    <3> QED BY <1>10, <2>4, <3>2, <3>3
  <2> QED BY <1>16, <1>18, <2>5, <2>6
<1>19. \A k \in DOMAIN rest' : rest'[k] = Crumbs[(n + 1) + k]
  <2> TAKE k \in DOMAIN rest'
  <2>1. k \in Nat /\ k + 1 \in DOMAIN rest /\ rest'[k] = rest[k + 1]
    BY <1>6
  <2>2. n + (k + 1) = (n + 1) + k
    BY <1>4, <2>1
  <2>3. rest[k + 1] = Crumbs[n + (k + 1)]
    BY <1>4, <2>1
  <2> QED BY <2>1, <2>2, <2>3
<1>20. n + 1 \in Nat
  BY <1>4
<1>21. phase' # "headers" /\ phase' \notin {"body", "parsed"}
  BY <1>3
<1> QED BY <1>2, <1>6, <1>8, <1>14, <1>17, <1>18, <1>19, <1>20, <1>21 DEF CookiesInv

(* An item that is no cookie is passed over.                               *)
LEMMA SkipCookieKeeps ==
  ASSUME lines \in Seq(Rows), CookiesInv, CrumbsFit, SkipCookie
  PROVE  CookiesInv'
<1>1. /\ Crumbs \in Seq(Entries) /\ Len(Crumbs) \in Nat /\ DOMAIN Crumbs = 1 .. Len(Crumbs)
      /\ \A i \in Cookies : i \in 1 .. Len(Crumbs)
  BY CrumbsAreEntries
<1>2. Crumbs' = Crumbs /\ Cookies' = Cookies /\ \A i : Place(i)' = Place(i)
  BY BlockStays DEF RequestNext
<1> DEFINE n == Taken
<1>3. /\ phase = "cookies" /\ phase' = phase /\ rest # <<>> /\ rest' = Tail(rest)
      /\ Head(rest).name = NoName /\ rest \in Seq(Entries) /\ cookies' = cookies
  BY DEF CookiesInv, SkipCookie
<1>4. /\ n \in Nat /\ n = Len(Crumbs) - Len(rest)
      /\ \A k \in DOMAIN rest : rest[k] = Crumbs[n + k]
      /\ cookies \in Seq(Entries) /\ Len(cookies) = Place(n)
  BY <1>3 DEF CookiesInv, Taken
<1>5. /\ \A c \in DOMAIN cookies :
           \/ cookies[c] = Garbage
           \/ \E i \in Cookies : i <= n /\ Place(i) = c /\ cookies[c] = Crumbs[i]
      /\ \A i \in Cookies :
           /\ i <= n
           /\ \/ Place(n) < CookieAlloc
              \/ Place(n) < 2 * CookieAlloc /\ Place(i) <= CookiesLeft
           => cookies[Place(i)] = Crumbs[i]
  BY <1>3 DEF CookiesInv
<1> HIDE DEF n
<1>6. /\ Len(rest) \in Nat \ {0} /\ DOMAIN rest = 1 .. Len(rest) /\ Head(rest) = rest[1]
      /\ rest' \in Seq(Entries) /\ Len(rest') = Len(rest) - 1
      /\ \A k \in 1 .. Len(rest) - 1 : rest'[k] = rest[k + 1]
      /\ DOMAIN rest' = 1 .. Len(rest) - 1
  BY <1>3, HeadTailProperties, LenProperties, EmptySeq
<1>7. n + 1 \notin Cookies
  <2>1. 1 \in DOMAIN rest
    BY <1>6
  <2>2. Crumbs[n + 1].name = NoName
    BY <1>3, <1>4, <1>6, <2>1
  <2> QED BY <2>2 DEF Cookies
<1>8. Taken' = n + 1 /\ n + 1 \in Nat
  BY <1>1, <1>2, <1>4, <1>6 DEF Taken
<1>9. Place(n + 1) = Place(n)
  BY <1>1, <1>4, <1>7, PlacesGrow
<1>10. \A i \in Cookies : i <= n + 1 <=> i <= n
  BY <1>1, <1>4, <1>7
<1>11. \A k \in DOMAIN rest' : rest'[k] = Crumbs[(n + 1) + k]
  <2> TAKE k \in DOMAIN rest'
  <2>1. k \in Nat /\ k + 1 \in DOMAIN rest /\ rest'[k] = rest[k + 1]
    BY <1>6
  <2>2. n + (k + 1) = (n + 1) + k
    BY <1>4, <2>1
  <2>3. rest[k + 1] = Crumbs[n + (k + 1)]
    BY <1>4, <2>1
  <2> QED BY <2>1, <2>2, <2>3
<1>12. phase' # "headers" /\ phase' \notin {"body", "parsed"}
  BY <1>3
<1>13. /\ \A c \in DOMAIN cookies :
            \/ cookies[c] = Garbage
            \/ \E i \in Cookies : i <= n + 1 /\ Place(i) = c /\ cookies[c] = Crumbs[i]
       /\ \A i \in Cookies :
            /\ i <= n + 1
            /\ \/ Place(n + 1) < CookieAlloc
               \/ Place(n + 1) < 2 * CookieAlloc /\ Place(i) <= CookiesLeft
            => cookies[Place(i)] = Crumbs[i]
  BY <1>5, <1>9, <1>10
<1> QED BY <1>2, <1>3, <1>4, <1>6, <1>8, <1>9, <1>11, <1>12, <1>13 DEF CookiesInv

(* Of the cookies of a header that was cut nothing is claimed.             *)
LEMMA CutCookiesKeep ==
  ASSUME CookiesInv, ~CrumbsFit, ParseCookie \/ SkipCookie
  PROVE  CookiesInv'
<1>1. CrumbsFit' = CrumbsFit
  BY BlockStays DEF RequestNext
<1>2. phase' = "cookies"
  BY DEF ParseCookie, SkipCookie
<1> QED BY <1>1, <1>2 DEF CookiesInv

(* The phases that follow leave what was stored alone.                     *)
LEMMA LaterPhasesKeep ==
  ASSUME lines \in Seq(Rows), CookiesInv,
         EndOfCookies \/ ParseBody \/ UNCHANGED request_vars
  PROVE  CookiesInv'
<1>1. /\ Crumbs' = Crumbs /\ Cookies' = Cookies /\ \A i : Place(i)' = Place(i)
      /\ CrumbsFit' = CrumbsFit
  BY BlockStays DEF RequestNext
<1>2. cookies' = cookies /\ rest' = rest
  BY DEF EndOfCookies, ParseBody, request_vars
<1>3. Taken' = Taken
  BY <1>1, <1>2 DEF Taken
<1>4. CASE UNCHANGED request_vars
  <2>1. phase' = phase
    BY <1>4 DEF request_vars
  <2> QED BY <1>1, <1>2, <1>3, <2>1 DEF CookiesInv
<1>5. CASE EndOfCookies \/ ParseBody
  <2>1. phase # "headers" /\ phase' # "headers" /\ rest = <<>>
    BY <1>5 DEF EndOfCookies, ParseBody, CookiesInv
  <2> QED BY <1>1, <1>2, <1>3, <2>1 DEF CookiesInv
<1> QED BY <1>4, <1>5

LEMMA HeadersStay ==
  ASSUME lines \in Seq(Rows), HeadersInv,
         ParseCookie \/ SkipCookie \/ EndOfCookies \/ ParseBody \/ UNCHANGED request_vars
  PROVE  HeadersInv'
<1>1. /\ Coloned' = Coloned /\ lines' = lines
      /\ \A i : Rank(i)' = Rank(i) /\ Whole(i)' = Whole(i)
  BY BlockStays DEF RequestNext
<1>2. headers' = headers /\ at' = at
  BY DEF ParseCookie, SkipCookie, EndOfCookies, ParseBody, request_vars
<1>3. (phase = "headers" /\ phase' = "headers") \/ (phase # "headers" /\ phase' # "headers")
  BY DEF ParseCookie, SkipCookie, EndOfCookies, ParseBody, request_vars
<1> QED BY <1>1, <1>2, <1>3 DEF HeadersInv, StoredKey

(* A body of the announced length is taken whole when it fits.             *)
LEMMA ParseBodyReads ==
  ASSUME RequestInv, ParseBody
  PROVE  BodyWhole'
<1>1. \A key : Sent(key)' = Sent(key)
  BY BlockStays DEF RequestNext
<1>2. lines' = lines /\ sent' = sent /\ sent \in Nat /\ lines \in Seq(Rows)
  BY BlockStays DEF RequestNext, RequestInv
<1> DEFINE announced == Sent("Content-Length")
<1> SUFFICES ASSUME Len(lines) # 1, sent < REQ_BODY_LEN, announced # <<>>,
                    HeaderFits("Content-Length"), Number(Head(announced)) = sent
             PROVE  req_body' = sent
  BY <1>1, <1>2 DEF BodyWhole, Number, HeaderFits
<1>3. get_header("Content-Length") = announced
  <2>1. HeadersInv /\ phase = "body"
    BY DEF RequestInv, ParseBody
  <2>2. at = Len(lines) + 1
    BY <2>1 DEF HeadersInv
  <2>3. "Content-Length" \notin {NoKey, CutKey} \cup LongKeys
    BY RequestAssumption DEF NoKey, CutKey
  <2> QED BY <1>2, <2>1, <2>2, <2>3, HeaderIsSent
<1> HIDE DEF announced
<1>4. req_body' = IF LengthFits(sent) THEN Min({sent, sent}) ELSE 0
  BY <1>3 DEF ParseBody
<1>5. CASE sent = 0
  BY <1>4, <1>5 DEF LengthFits
<1>6. CASE sent # 0
  <2>1. LengthFits(sent)
    BY <1>2, <1>6 DEF LengthFits
  <2>2. Min({sent}) = sent
    BY <1>2, MinIsUnique
  <2>3. {sent, sent} = {sent}
    OBVIOUS
  <2> QED BY <1>4, <2>1, <2>2, <2>3
<1> QED BY <1>5, <1>6

-----------------------------------------------------------------------------
(* The theorems.                                                           *)

LEMMA RequestStarts == RequestInit => RequestInv
<1> SUFFICES ASSUME RequestInit PROVE RequestInv
  OBVIOUS
<1>1. lines \in Seq(Rows) /\ sent \in Nat
  <2>1. Seq(Items) \subseteq Seq(Entries)
    BY SeqMonotonic DEF Entries
  <2>2. Lines \subseteq Rows
    BY <2>1 DEF Lines, Rows
  <2>3. Seq(Lines) \subseteq Seq(Rows)
    BY <2>2, SeqMonotonic
  <2> QED BY <2>3, RequestAssumption DEF RequestInit
<1>2. Len(lines) \in Nat /\ DOMAIN lines = 1 .. Len(lines)
  BY <1>1, LenProperties
<1>3. /\ at = 1 /\ headers = <<>> /\ cookies = <<>> /\ phase = "headers"
  BY DEF RequestInit
<1>4. HeadersInv
  <2>1. Rank(at - 1) = 0
    BY <1>3, UptoTurns DEF Rank
  <2>2. \A i \in Coloned : ~ (i < at)
    BY <1>2, <1>3 DEF Coloned
  <2>3. headers \in Seq(Rows) /\ Len(headers) = 0 /\ DOMAIN headers = {}
    BY <1>3
  <2>4. MAX_HEADERS \in Nat
    BY RequestAssumption
  <2> QED BY <1>2, <1>3, <2>1, <2>2, <2>3, <2>4 DEF HeadersInv
<1>5. CookiesInv
  BY <1>3 DEF CookiesInv
<1> QED BY <1>1, <1>3, <1>4, <1>5 DEF RequestInv, BodyWhole

LEMMA RequestGoesOn == RequestInv /\ [RequestNext]_request_vars => RequestInv'
<1> SUFFICES ASSUME RequestInv, [RequestNext]_request_vars PROVE RequestInv'
  OBVIOUS
<1>1. /\ lines' = lines /\ sent' = sent /\ lines \in Seq(Rows) /\ sent \in Nat
      /\ \A key : Sent(key)' = Sent(key)
  BY BlockStays DEF RequestInv
<1>2. phase' \in {"headers", "cookies", "body", "parsed"}
  BY DEF RequestInv, RequestNext, request_vars, ParseHeader, EndOfHeaders, ParseCookie,
         SkipCookie, EndOfCookies, ParseBody
<1>3. ASSUME Len(lines) # 1 PROVE HeadersInv' /\ CookiesInv'
  <2>1. HeadersInv /\ CookiesInv
    BY <1>3 DEF RequestInv
  <2>2. CASE ParseHeader
    <3>1. HeadersInv'
      BY <1>1, <1>3, <2>1, <2>2, ParseHeaderKeeps
    <3>2. phase' = "headers" /\ cookies' = <<>>
      BY <2>1, <2>2 DEF ParseHeader, CookiesInv
    <3> QED BY <3>1, <3>2 DEF CookiesInv
  <2>3. CASE EndOfHeaders
    BY <1>1, <1>3, <2>1, <2>3, EndOfHeadersKeeps
  <2>4. CASE ParseCookie
    BY <1>1, <2>1, <2>4, ParseCookieKeeps, CutCookiesKeep, HeadersStay
  <2>5. CASE SkipCookie
    BY <1>1, <2>1, <2>5, SkipCookieKeeps, CutCookiesKeep, HeadersStay
  <2>6. CASE EndOfCookies \/ ParseBody \/ UNCHANGED request_vars
    BY <1>1, <2>1, <2>6, LaterPhasesKeep, HeadersStay
  <2> QED BY <2>2, <2>3, <2>4, <2>5, <2>6 DEF RequestNext
<1>4. BodyWhole'
  <2>1. CASE ParseBody
    BY <2>1, ParseBodyReads
  <2>2. CASE UNCHANGED request_vars
    <3>1. phase' = phase /\ req_body' = req_body
      BY <2>2 DEF request_vars
    <3> QED BY <1>1, <3>1 DEF RequestInv, BodyWhole, Number, HeaderFits
  <2>3. CASE ParseHeader \/ EndOfHeaders \/ ParseCookie \/ SkipCookie \/ EndOfCookies
    <3>1. phase' # "parsed"
      BY <2>3 DEF ParseHeader, EndOfHeaders, ParseCookie, SkipCookie, EndOfCookies
    <3> QED BY <3>1 DEF BodyWhole
  <2> QED BY <2>1, <2>2, <2>3 DEF RequestNext
<1> QED BY <1>1, <1>2, <1>3, <1>4 DEF RequestInv

LEMMA RequestInvariant == RequestSpec => []RequestInv
<1> QED BY RequestStarts, RequestGoesOn, PTL DEF RequestSpec

(* The handler reads the whole of a body that arrived whole, was announced *)
(* among the headers that are stored, and fits.                            *)
THEOREM BodiesAreWhole == RequestSpec => []BodyWhole
<1>1. RequestInv => BodyWhole
  BY DEF RequestInv
<1> QED BY <1>1, RequestInvariant, PTL

(* The token is the first that was sent, unless the growing of the array   *)
(* may have reached it.                                                    *)
LEMMA TokenIsSent ==
  ASSUME RequestInv, phase = "parsed", Len(lines) # 1, HeaderFits("Cookie")
  PROVE  TokenFound
<1>1. lines \in Seq(Rows) /\ CookiesInv
  BY DEF RequestInv
<1>2. /\ Crumbs \in Seq(Entries) /\ Len(Crumbs) \in Nat /\ DOMAIN Crumbs = 1 .. Len(Crumbs)
      /\ \A i \in Cookies : i \in 1 .. Len(Crumbs)
  BY <1>1, CrumbsAreEntries
<1> DEFINE n == Len(Crumbs)
           tokens == Named(Crumbs, "token")
<1>3. /\ Taken = n /\ cookies \in Seq(Entries) /\ Len(cookies) = Place(n)
      /\ \A c \in DOMAIN cookies :
           \/ cookies[c] = Garbage
           \/ \E i \in Cookies : i <= n /\ Place(i) = c /\ cookies[c] = Crumbs[i]
      /\ \A i \in Cookies :
           /\ i <= n
           /\ \/ Place(n) < CookieAlloc
              \/ Place(n) < 2 * CookieAlloc /\ Place(i) <= CookiesLeft
           => cookies[Place(i)] = Crumbs[i]
  <2>1. rest = <<>> /\ phase # "headers"
    BY <1>1 DEF CookiesInv
  <2>2. Taken = n
    BY <1>2, <2>1 DEF Taken
  <2>3. CrumbsFit
    BY DEF HeaderFits, CrumbsFit, Crumbs
  <2> QED BY <1>1, <2>1, <2>2, <2>3 DEF CookiesInv
<1>4. tokens \subseteq Cookies /\ tokens \in SUBSET Nat /\ Cookies \in SUBSET Nat
  <2>1. "token" # NoName
    BY DEF NoName
  <2>2. \A i \in tokens : i \in Cookies
    BY <2>1 DEF Named, Cookies
  <2>3. \A i \in Cookies : i \in Nat
    BY <1>2
  <2> HIDE DEF tokens
  <2> QED BY <2>2, <2>3
<1>5. DOMAIN cookies = 1 .. Place(n) /\ Place(n) \in Nat
  <2>1. n \in Nat
    BY <1>2
  <2>2. Place(n) \in Nat
    BY <1>2, <2>1, PlacesGrow
  <2> QED BY <1>3, <2>2, LenProperties
<1>6. Cardinality(Cookies) = Place(n)
  <2>1. Cookies = {j \in 1 .. n : j \in Cookies}
    BY <1>2
  <2> QED BY <2>1 DEF Place, Upto
<1>7. ASSUME NEW c \in Named(cookies, "token")
      PROVE  \E i \in tokens : Place(i) = c /\ cookies[c] = Crumbs[i]
  <2>1. c \in DOMAIN cookies /\ cookies[c].name = "token"
    BY DEF Named
  <2>2. cookies[c] # Garbage
    BY <2>1 DEF Garbage
  <2>3. PICK i \in Cookies : Place(i) = c /\ cookies[c] = Crumbs[i]
    BY <1>3, <2>1, <2>2
  <2>4. i \in tokens
    BY <1>2, <2>1, <2>3 DEF Named
  <2> QED BY <2>3, <2>4
<1>8. CASE tokens = {}
  <2>1. get_req_cookie("token") = <<>>
    BY <1>7, <1>8 DEF get_req_cookie
  <2> QED BY <1>8, <2>1 DEF TokenFound, Crumbs
<1>9. CASE tokens # {}
  <2> DEFINE first == Min(tokens)
  <2>1. first \in tokens /\ \A i \in tokens : first <= i
    BY <1>4, <1>9, MinIsLeast
  <2>2. first \in Cookies /\ first \in Nat /\ first <= n
    BY <1>2, <1>4, <2>1
  <2>3. Cardinality({i \in Cookies : i <= first}) = Place(first)
    <3>1. {i \in Cookies : i <= first} = {j \in 1 .. first : j \in Cookies}
      BY <1>2, <2>2
    <3> QED BY <3>1 DEF Place, Upto
  <2> HIDE DEF first
  <2>4. ASSUME \/ Place(n) < CookieAlloc
               \/ Place(n) < 2 * CookieAlloc /\ Place(first) <= CookiesLeft
        PROVE  get_req_cookie("token") = <<Crumbs[first]>>
    <3>1. cookies[Place(first)] = Crumbs[first]
      BY <1>3, <2>2, <2>4
    <3>2. Crumbs[first].name = "token"
      BY <2>1 DEF Named
    <3>3. Place(first) \in 1 .. Place(n)
      BY <1>2, <2>2, PlacesGrow
    <3>4. Place(first) \in Named(cookies, "token")
      BY <1>5, <3>1, <3>2, <3>3 DEF Named
    <3>5. \A c \in Named(cookies, "token") : Place(first) <= c
      <4> TAKE c \in Named(cookies, "token")
      <4>1. PICK i \in tokens : Place(i) = c
        BY <1>7
      <4>2. first <= i /\ i \in Nat
        BY <1>4, <2>1, <4>1
      <4> QED BY <2>2, <4>1, <4>2, UptoGrows DEF Place
    <3>6. Named(cookies, "token") \in SUBSET Nat
      BY <1>5 DEF Named
    <3>7. Min(Named(cookies, "token")) = Place(first)
      BY <3>4, <3>5, <3>6, MinIsUnique
    <3> QED BY <3>1, <3>4, <3>7 DEF get_req_cookie
  <2>5. tokens = Named(Sent("Cookie"), "token") /\ first = Min(Named(Sent("Cookie"), "token"))
    BY DEF Crumbs, first
  <2>6. Cookies = {i \in DOMAIN Sent("Cookie") : Sent("Cookie")[i].name # NoName}
    BY DEF Cookies, Crumbs
  <2> HIDE DEF tokens, n
  <2> QED BY <1>6, <1>9, <2>3, <2>4, <2>5, <2>6 DEF TokenFound, Crumbs
<1> QED BY <1>8, <1>9

(* A header that is stored, and whose name and value fit their fields, is  *)
(* found under its name with the value that was sent, the first of that    *)
(* name, and nothing else is found; of a Cookie header that fits, so is    *)
(* the token.                                                              *)
THEOREM HeadersAreFound == RequestSpec => []HeadersFound
<1>1. RequestInv => HeadersFound
  <2> SUFFICES ASSUME RequestInv, phase = "parsed", Len(lines) # 1
               PROVE  /\ \A key \in {lines[i].key : i \in DOMAIN lines}
                                      \ ({NoKey, CutKey, "Cookie"} \cup LongKeys) :
                           HeaderFits(key) => get_header(key) = Sent(key)
                      /\ HeaderFits("Cookie") => TokenFound
    BY DEF HeadersFound
  <2>1. lines \in Seq(Rows) /\ HeadersInv
    BY DEF RequestInv
  <2>2. at = Len(lines) + 1
    BY <2>1 DEF HeadersInv
  <2>3. \A key : key \notin {NoKey, CutKey, "Cookie"} \cup LongKeys /\ HeaderFits(key) =>
          get_header(key) = Sent(key)
    BY <2>1, <2>2, HeaderIsSent
  <2> QED BY <2>3, TokenIsSent
<1> QED BY <1>1, RequestInvariant, PTL

-----------------------------------------------------------------------------
(* Groups: one more group at a time.                                       *)

(* Where the bytes of the first groups of t end up.                        *)
Joined(f, t, n) ==
  f = [g \in 0 .. n |-> IF g = 0 THEN <<>> ELSE f[g - 1] \o Group(t, g - 1)]

(* The recursive function of Groups exists: there is no least number of    *)
(* groups for which it does not.                                           *)
LEMMA JoinedExists ==
  ASSUME NEW t, NEW n \in Nat
  PROVE  \E f : Joined(f, t, n)
<1> DEFINE without == {m \in Nat : ~ \E f : Joined(f, t, m)}
<1> SUFFICES ASSUME without # {} PROVE FALSE
  OBVIOUS
<1>1. PICK m \in without : \A k \in without : m <= k
  BY NatHasLeast
<1>2. m \in Nat /\ ~ \E f : Joined(f, t, m)
  OBVIOUS
<1>3. \A k \in Nat : k < m => \E f : Joined(f, t, k)
  BY <1>1
<1> HIDE DEF without
<1>4. m # 0
  <2>1. SUFFICES ASSUME m = 0 PROVE FALSE
    OBVIOUS
  <2> DEFINE f == [g \in 0 .. 0 |-> <<>>]
  <2>2. f = [g \in 0 .. 0 |-> IF g = 0 THEN <<>> ELSE f[g - 1] \o Group(t, g - 1)]
    OBVIOUS
  <2>3. Joined(f, t, 0)
    BY <2>2 DEF Joined
  <2> QED BY <1>2, <2>1, <2>3
<1>5. m - 1 \in Nat /\ m - 1 < m
  BY <1>2, <1>4
<1>6. PICK f : Joined(f, t, m - 1)
  BY <1>3, <1>5
<1> DEFINE h == [g \in 0 .. m |-> IF g = m THEN f[m - 1] \o Group(t, m - 1) ELSE f[g]]
<1>7. f = [g \in 0 .. m - 1 |-> IF g = 0 THEN <<>> ELSE f[g - 1] \o Group(t, g - 1)]
  BY <1>6 DEF Joined
<1>8. \A g \in 0 .. m - 1 :
        h[g] = f[g] /\ f[g] = IF g = 0 THEN <<>> ELSE f[g - 1] \o Group(t, g - 1)
  <2> TAKE g \in 0 .. m - 1
  <2>1. f[g] = IF g = 0 THEN <<>> ELSE f[g - 1] \o Group(t, g - 1)
    BY <1>7
  <2>2. g \in 0 .. m /\ g # m
    BY <1>2, <1>5
  <2> QED BY <2>1, <2>2
<1>9. ASSUME NEW g \in 0 .. m
      PROVE  h[g] = IF g = 0 THEN <<>> ELSE h[g - 1] \o Group(t, g - 1)
  <2>0. h[m] = f[m - 1] \o Group(t, m - 1)
    <3>1. m \in 0 .. m
      BY <1>2
    <3> QED BY <3>1
  <2> HIDE DEF h
  <2>1. CASE g = m
    <3>1. m - 1 \in 0 .. m - 1
      BY <1>5
    <3>2. h[m - 1] = f[m - 1]
      BY <1>8, <3>1
    <3> QED BY <1>4, <2>0, <2>1, <3>2
  <2>2. CASE g # m /\ g # 0
    <3>1. g \in 0 .. m - 1 /\ g - 1 \in 0 .. m - 1
      BY <1>2, <2>2
    <3>2. h[g] = f[g] /\ h[g - 1] = f[g - 1] /\ f[g] = f[g - 1] \o Group(t, g - 1)
      BY <1>8, <2>2, <3>1
    <3> QED BY <2>2, <3>2
  <2>3. CASE g = 0
    <3>1. g \in 0 .. m - 1
      BY <1>5, <2>3
    <3> QED BY <1>8, <2>3, <3>1
  <2> QED BY <2>1, <2>2, <2>3
<1>10. Joined(h, t, m)
  <2>1. h = [g \in 0 .. m |-> h[g]]
    OBVIOUS
  <2> HIDE DEF h
  <2>2. [g \in 0 .. m |-> h[g]] =
        [g \in 0 .. m |-> IF g = 0 THEN <<>> ELSE h[g - 1] \o Group(t, g - 1)]
    BY <1>9
  <2> QED BY <2>1, <2>2 DEF Joined
<1> QED BY <1>2, <1>10

(* Groups is the last of a row of strings, each one group longer.          *)
LEMMA GroupsAreJoined ==
  ASSUME NEW t, NEW n \in Nat, n = Len(t) \div 4
  PROVE  \E f : /\ Groups(t) = f[n] /\ f[0] = <<>>
                /\ \A g \in 0 .. n - 1 : f[g + 1] = f[g] \o Group(t, g)
<1> DEFINE f == CHOOSE f : Joined(f, t, n)
<1>1. Joined(f, t, n)
  BY JoinedExists
<1>2. Groups(t) = f[n]
  BY DEF Groups, Joined
<1> HIDE DEF f
<1>3. \A g \in 0 .. n : f[g] = IF g = 0 THEN <<>> ELSE f[g - 1] \o Group(t, g - 1)
  BY <1>1 DEF Joined
<1>4. f[0] = <<>>
  BY <1>3
<1>5. ASSUME NEW g \in 0 .. n - 1 PROVE f[g + 1] = f[g] \o Group(t, g)
  <2>1. g + 1 \in 0 .. n /\ g + 1 # 0 /\ (g + 1) - 1 = g
    OBVIOUS
  <2> QED BY <1>3, <2>1
<1> QED BY <1>2, <1>4, <1>5

-----------------------------------------------------------------------------
(* Encoding, and the bytes of one group.                                   *)

Size(s)  == 4 * ((Len(s) + 2) \div 3)
GroupCount(s) == (Len(s) + 2) \div 3

(* The bytes that the first g groups stand for.                            *)
Reached(s, g) == IF 3 * g <= Len(s) THEN 3 * g ELSE Len(s)

(* A character of the encoding, by its group and its place in it.          *)
Char(s, g, j) == Base64Encode(s)[4 * g + j]

(* Where each character of the encoding comes from.                        *)
LEMMA EncodedCharacter ==
  ASSUME NEW s \in Seq(0 .. 255), NEW g \in 0 .. GroupCount(s) - 1, NEW j \in 1 .. 4
  PROVE  /\ 4 * g + j \in 1 .. Size(s)
         /\ Char(s, g, j) =
              IF 4 * g + j > Size(s) - Padding(Len(s)) THEN Pad ELSE Sextets(Triple(s, g))[j]
<1> DEFINE k == 4 * g + j
<1>1. Len(s) \in Nat /\ GroupCount(s) \in Nat /\ Size(s) = 4 * GroupCount(s) /\ Size(s) \in Nat
  BY DEF GroupCount, Size
<1>2. k \in 1 .. Size(s)
  BY <1>1
<1>3. (k - 1) \div 4 = g /\ ((k - 1) % 4) + 1 = j
  OBVIOUS
<1> HIDE DEF k
<1>4. Base64Encode(s) =
        [i \in 1 .. Size(s) |->
           IF i > Size(s) - Padding(Len(s)) THEN Pad
           ELSE Sextets(Triple(s, (i - 1) \div 4))[((i - 1) % 4) + 1]]
  BY DEF Base64Encode, Size
<1>5. Base64Encode(s)[k] =
        IF k > Size(s) - Padding(Len(s)) THEN Pad
        ELSE Sextets(Triple(s, (k - 1) \div 4))[((k - 1) % 4) + 1]
  BY <1>2, <1>4
<1>6. Base64Encode(s)[k] =
        IF k > Size(s) - Padding(Len(s)) THEN Pad ELSE Sextets(Triple(s, g))[j]
  BY <1>3, <1>5
<1> QED BY <1>2, <1>6 DEF k, Char

(* The four sextets of three bytes, without the 24-bit number between.     *)
LEMMA SextetsAreSmall ==
  ASSUME NEW s \in Seq(0 .. 255), NEW g \in Nat
  PROVE  LET a == Octet(s, 3 * g + 1)
             b == Octet(s, 3 * g + 2)
             c == Octet(s, 3 * g + 3)
         IN /\ a \in 0 .. 255 /\ b \in 0 .. 255 /\ c \in 0 .. 255
            /\ Sextets(Triple(s, g)) =
                 <<a \div 4, 16 * (a % 4) + b \div 16, 4 * (b % 16) + c \div 64, c % 64>>
<1> DEFINE a == Octet(s, 3 * g + 1)
           b == Octet(s, 3 * g + 2)
           c == Octet(s, 3 * g + 3)
<1>1. ASSUME NEW i \in Nat \ {0} PROVE Octet(s, i) \in 0 .. 255
  <2>1. CASE i <= Len(s)
    <3>1. i \in 1 .. Len(s)
      BY <2>1
    <3>2. s[i] \in 0 .. 255
      BY <3>1, ElementOfSeq
    <3> QED BY <2>1, <3>2 DEF Octet
  <2>2. CASE ~ (i <= Len(s))
    BY <2>2 DEF Octet
  <2> QED BY <2>1, <2>2
<1>2. a \in 0 .. 255 /\ b \in 0 .. 255 /\ c \in 0 .. 255
  <2>1. 3 * g + 1 \in Nat \ {0} /\ 3 * g + 2 \in Nat \ {0} /\ 3 * g + 3 \in Nat \ {0}
    OBVIOUS
  <2> QED BY <1>1, <2>1, Zenon
<1>3. Triple(s, g) = 65536 * a + 256 * b + c
  BY DEF Triple
<1> HIDE DEF a, b, c
<1>4. /\ Triple(s, g) \div 262144 = a \div 4
      /\ (Triple(s, g) \div 4096) % 64 = 16 * (a % 4) + b \div 16
      /\ (Triple(s, g) \div 64) % 64 = 4 * (b % 16) + c \div 64
      /\ Triple(s, g) % 64 = c % 64
  <2> DEFINE triple == Triple(s, g)
  <2>1. triple = 65536 * a + 256 * b + c
    BY <1>3
  <2> HIDE DEF triple
  <2>2. triple \div 262144 = a \div 4
    BY <1>2, <2>1
  <2>3. (triple \div 4096) % 64 = 16 * (a % 4) + b \div 16
    <3>1. triple \div 4096 = 16 * a + b \div 16
      BY <1>2, <2>1
    <3>2. 16 * a = 64 * (a \div 4) + 16 * (a % 4)
      BY <1>2
    <3>3. a \div 4 \in Nat /\ a % 4 \in 0 .. 3 /\ b \div 16 \in 0 .. 15
      BY <1>2
    <3> DEFINE x == a \div 4
               y == 16 * (a % 4) + (b \div 16)
    <3>4. x \in Nat /\ y \in 0 .. 63
      BY <1>2, <3>3
    <3>5. triple \div 4096 = 64 * x + y
      BY <1>2, <3>1, <3>2, <3>3
    <3> HIDE DEF x, y
    <3>6. (64 * x + y) % 64 = y
      BY <3>4
    <3>7. (triple \div 4096) % 64 = y
      BY <3>5, <3>6
    <3> QED BY <3>7 DEF y
  <2>4. (triple \div 64) % 64 = 4 * (b % 16) + c \div 64
    BY <1>2, <2>1
  <2>5. triple % 64 = c % 64
    BY <1>2, <2>1
  <2> QED BY <2>2, <2>3, <2>4, <2>5 DEF triple
<1>5. Sextets(Triple(s, g)) =
        <<a \div 4, 16 * (a % 4) + b \div 16, 4 * (b % 16) + c \div 64, c % 64>>
  BY <1>4 DEF Sextets
<1> QED BY <1>2, <1>5 DEF a, b, c

(* Into what parts the shifts and masks of both directions cut a byte.     *)
LEMMA ByteParts ==
  ASSUME NEW v \in 0 .. 255
  PROVE  /\ v \div 4 \in 0 .. 63 /\ v % 4 \in 0 .. 3
         /\ v \div 16 \in 0 .. 15 /\ v % 16 \in 0 .. 15
         /\ v \div 64 \in 0 .. 3 /\ v % 64 \in 0 .. 63
<1>1. v \div 4 \in 0 .. 63 /\ v \div 16 \in 0 .. 15 /\ v \div 64 \in 0 .. 3
  OBVIOUS
<1>2. v % 4 \in 0 .. 3 /\ v % 16 \in 0 .. 15 /\ v % 64 \in 0 .. 63
  OBVIOUS
<1> QED BY <1>1, <1>2

SmallSextets(a, b, c) ==
  /\ a \div 4 \in 0 .. 63 /\ 16 * (a % 4) + b \div 16 \in 0 .. 63
  /\ 4 * (b % 16) + c \div 64 \in 0 .. 63 /\ c % 64 \in 0 .. 63

LEMMA SextetsOfBytes ==
  ASSUME NEW a \in 0 .. 255, NEW b \in 0 .. 255, NEW c \in 0 .. 255
  PROVE  SmallSextets(a, b, c)
<1> DEFINE a4 == a % 4  b16 == b \div 16  br == b % 16  c64 == c \div 64
<1>1. a \div 4 \in 0 .. 63 /\ c % 64 \in 0 .. 63
  BY ByteParts
<1>2. a4 \in 0 .. 3 /\ b16 \in 0 .. 15 /\ br \in 0 .. 15 /\ c64 \in 0 .. 3
  BY ByteParts
<1> HIDE DEF a4, b16, br, c64
<1>3. 16 * a4 + b16 \in 0 .. 63 /\ 4 * br + c64 \in 0 .. 63
  BY <1>2
<1> QED BY <1>1, <1>3 DEF a4, b16, br, c64, SmallSextets

(* The padding is in the table the decoder accepts.                        *)
LEMMA PadIsLast == Pad \in 0 .. 64 /\ \A v \in 0 .. 63 : v \in 0 .. 64
BY DEF Pad

(* The encoding is in the table, and as long as base64encode says.         *)
LEMMA EncodedInTable ==
  ASSUME NEW s \in Seq(0 .. 255)
  PROVE  /\ Base64Encode(s) \in Seq(0 .. 64) /\ Len(Base64Encode(s)) = Size(s)
         /\ DOMAIN Base64Encode(s) = 1 .. Size(s)
<1> DEFINE t == Base64Encode(s)
<1>1. Len(s) \in Nat /\ GroupCount(s) \in Nat /\ Size(s) = 4 * GroupCount(s) /\ Size(s) \in Nat
  BY DEF GroupCount, Size
<1>2. t = [i \in 1 .. Size(s) |-> t[i]]
  BY DEF Base64Encode, Size
<1>3. ASSUME NEW k \in 1 .. Size(s)
      PROVE  t[k] \in 0 .. 64
  <2> DEFINE g == (k - 1) \div 4
             j == ((k - 1) % 4) + 1
  <2>1. g \in 0 .. GroupCount(s) - 1 /\ j \in 1 .. 4 /\ k = 4 * g + j /\ g \in Nat
    BY <1>1
  <2> HIDE DEF g, j, t
  <2>2. t[k] = Pad \/ t[k] = Sextets(Triple(s, g))[j]
    <3>1. t[k] = Char(s, g, j)
      BY <2>1 DEF t, Char
    <3> QED BY <2>1, <3>1, EncodedCharacter
  <2> DEFINE a == Octet(s, 3 * g + 1)
             b == Octet(s, 3 * g + 2)
             c == Octet(s, 3 * g + 3)
  <2>3. /\ a \in 0 .. 255 /\ b \in 0 .. 255 /\ c \in 0 .. 255
        /\ Sextets(Triple(s, g)) =
             <<a \div 4, 16 * (a % 4) + b \div 16, 4 * (b % 16) + c \div 64, c % 64>>
    BY <2>1, SextetsAreSmall
  <2> HIDE DEF a, b, c
  <2>4. /\ a \div 4 \in 0 .. 63 /\ 16 * (a % 4) + b \div 16 \in 0 .. 63
        /\ 4 * (b % 16) + c \div 64 \in 0 .. 63 /\ c % 64 \in 0 .. 63
    <3>1. SmallSextets(a, b, c)
      BY <2>3, SextetsOfBytes
    <3> QED BY <3>1, Zenon DEF SmallSextets
  <2> DEFINE x1 == a \div 4
             x2 == 16 * (a % 4) + b \div 16
             x3 == 4 * (b % 16) + c \div 64
             x4 == c % 64
  <2>5. Sextets(Triple(s, g)) = <<x1, x2, x3, x4>>
    BY <2>3
  <2>6. x1 \in 0 .. 63 /\ x2 \in 0 .. 63 /\ x3 \in 0 .. 63 /\ x4 \in 0 .. 63
    BY <2>4
  <2> HIDE DEF x1, x2, x3, x4
  <2> DEFINE y == Sextets(Triple(s, g))
  <2>7. /\ y[1] = x1 /\ y[2] = x2 /\ y[3] = x3 /\ y[4] = x4
        /\ t[k] = Pad \/ t[k] = y[j]
        /\ j = 1 \/ j = 2 \/ j = 3 \/ j = 4
    BY <2>1, <2>2, <2>5
  <2> HIDE DEF y
  <2>8. y[j] \in 0 .. 63
    BY <2>6, <2>7
  <2> QED BY <2>7, <2>8, PadIsLast
<1> HIDE DEF t
<1>4. t \in [1 .. Size(s) -> 0 .. 64]
  BY <1>2, <1>3
<1>5. t \in Seq(0 .. 64) /\ Len(t) = Size(s) /\ DOMAIN t = 1 .. Size(s)
  <2> DEFINE Table64 == 0 .. 64
  <2>1. t \in [1 .. Size(s) -> Table64]
    BY <1>4
  <2> HIDE DEF Table64
  <2>2. t \in Seq(Table64) /\ Len(t) = Size(s) /\ DOMAIN t = 1 .. Size(s)
    BY <1>1, <2>1
  <2> QED BY <2>2 DEF Table64
<1> QED BY <1>5 DEF t

(* The two exchanges of characters undo each other.                        *)
LEMMA UrlAndBack ==
  ASSUME NEW t \in Seq(0 .. 64)
  PROVE  FromUrl(ToUrl(t)) = t
<1>1. \A k \in DOMAIN t : t[k] \in 0 .. 64
  BY ElementOfSeq, LenProperties
<1>2. DOMAIN ToUrl(t) = DOMAIN t
  BY DEF ToUrl
<1> DEFINE u == ToUrl(t)
<1>3. ASSUME NEW k \in DOMAIN t
      PROVE  FromUrl(u)[k] = t[k]
  <2>1. u[k] = CASE t[k] = 62 -> Minus [] t[k] = 63 -> Under [] OTHER -> t[k]
    BY DEF ToUrl
  <2> HIDE DEF u
  <2>2. DOMAIN u = DOMAIN t
    BY <1>2 DEF u
  <2>3. FromUrl(u)[k] = CASE u[k] = Minus -> 62 [] u[k] = Under -> 63 [] OTHER -> u[k]
    BY <2>2 DEF FromUrl
  <2>4. t[k] \in 0 .. 64
    BY <1>1
  <2>5. CASE t[k] = 62
    BY <2>1, <2>3, <2>5 DEF Minus, Under
  <2>6. CASE t[k] = 63
    BY <2>1, <2>3, <2>6 DEF Minus, Under
  <2>7. CASE t[k] # 62 /\ t[k] # 63
    <3>1. u[k] = t[k]
      BY <2>1, <2>7
    <3>2. \A v \in 0 .. 64 : v # Minus /\ v # Under
      BY DEF Minus, Under
    <3> QED BY <2>3, <2>4, <3>1, <3>2
  <2> QED BY <2>5, <2>6, <2>7
<1>4. FromUrl(ToUrl(t)) = [k \in DOMAIN t |-> FromUrl(ToUrl(t))[k]]
  BY <1>2 DEF FromUrl
<1>5. t = [k \in DOMAIN t |-> t[k]]
  OBVIOUS
<1> QED BY <1>3, <1>4, <1>5

(* One, two or three elements in a row.                                    *)
LEMMA SomeBytes ==
  ASSUME NEW S, NEW s \in Seq(S), NEW m \in 1 .. Len(s)
  PROVE  /\ SubSeq(s, m, m) = <<s[m]>>
         /\ Len(s) >= m + 1 => SubSeq(s, m, m + 1) = <<s[m]>> \o <<s[m + 1]>>
         /\ Len(s) >= m + 2 => SubSeq(s, m, m + 2) = <<s[m]>> \o <<s[m + 1]>> \o <<s[m + 2]>>
<1>1. Len(s) \in Nat /\ DOMAIN s = 1 .. Len(s) /\ \A i \in 1 .. Len(s) : s[i] \in S
  BY LenProperties, ElementOfSeq
<1>2. SubSeq(s, m, m) = <<s[m]>>
  <2>1. SubSeq(s, m, m) = SubSeq(s, m, m - 1) \o <<s[m]>>
    BY <1>1, SubSeqRecursiveSecond
  <2>2. SubSeq(s, m, m - 1) = <<>>
    BY <1>1, SubSeqEmpty
  <2>3. <<>> \o <<s[m]>> = <<s[m]>>
    OBVIOUS
  <2> QED BY <2>1, <2>2, <2>3
<1>3. Len(s) >= m + 1 => SubSeq(s, m, m + 1) = SubSeq(s, m, m) \o <<s[m + 1]>>
  BY <1>1, SubSeqRecursiveSecond
<1>4. Len(s) >= m + 2 => SubSeq(s, m, m + 2) = SubSeq(s, m, m + 1) \o <<s[m + 2]>>
  BY <1>1, SubSeqRecursiveSecond
<1> QED BY <1>1, <1>2, <1>3, <1>4

(* One group decodes to the bytes it was made of.                          *)
LEMMA GroupIsBytes ==
  ASSUME NEW s \in Seq(0 .. 255), NEW g \in 0 .. GroupCount(s) - 1
  PROVE  Group(Base64Encode(s), g) = SubSeq(s, Reached(s, g) + 1, Reached(s, g + 1))
<1> DEFINE t == Base64Encode(s)
           a == Octet(s, 3 * g + 1)
           b == Octet(s, 3 * g + 2)
           c == Octet(s, 3 * g + 3)
           x == Sextets(Triple(s, g))
           n == Len(s)
           q == [k \in 1 .. 4 |-> Value(t[4 * g + k])]
<1>1. n \in Nat /\ g \in Nat /\ GroupCount(s) \in Nat /\ 3 * g < n
  BY DEF GroupCount
<1>0. a \in 0 .. 255 /\ b \in 0 .. 255 /\ c \in 0 .. 255
  <2>1. g \in Nat
    BY DEF GroupCount
  <2> QED BY <2>1, SextetsAreSmall
<1>2. /\ a \in 0 .. 255 /\ b \in 0 .. 255 /\ c \in 0 .. 255
      /\ x = <<a \div 4, 16 * (a % 4) + b \div 16, 4 * (b % 16) + c \div 64, c % 64>>
  BY <1>1, SextetsAreSmall
<1>3. /\ (4 * (a \div 4) + (16 * (a % 4) + b \div 16) \div 16) % 256 = a
      /\ (16 * (16 * (a % 4) + b \div 16) + (4 * (b % 16) + c \div 64) \div 4) % 256 = b
      /\ (64 * (4 * (b % 16) + c \div 64) + (c % 64)) % 256 = c
  <2> HIDE DEF a, b, c
  <2>1. (4 * (a \div 4) + (16 * (a % 4) + b \div 16) \div 16) % 256 = a
    BY <1>0
  <2>2. (16 * (16 * (a % 4) + b \div 16) + (4 * (b % 16) + c \div 64) \div 4) % 256 = b
    BY <1>0
  <2>3. (64 * (4 * (b % 16) + c \div 64) + (c % 64)) % 256 = c
    BY <1>0
  <2> QED BY <2>1, <2>2, <2>3
<1>4. /\ t[4 * g + 1] = IF 4 * g + 1 > Size(s) - Padding(n) THEN Pad ELSE x[1]
      /\ t[4 * g + 2] = IF 4 * g + 2 > Size(s) - Padding(n) THEN Pad ELSE x[2]
      /\ t[4 * g + 3] = IF 4 * g + 3 > Size(s) - Padding(n) THEN Pad ELSE x[3]
      /\ t[4 * g + 4] = IF 4 * g + 4 > Size(s) - Padding(n) THEN Pad ELSE x[4]
  <2> HIDE DEF x
  <2>1. /\ Char(s, g, 1) = IF 4 * g + 1 > Size(s) - Padding(n) THEN Pad ELSE x[1]
        /\ Char(s, g, 2) = IF 4 * g + 2 > Size(s) - Padding(n) THEN Pad ELSE x[2]
        /\ Char(s, g, 3) = IF 4 * g + 3 > Size(s) - Padding(n) THEN Pad ELSE x[3]
        /\ Char(s, g, 4) = IF 4 * g + 4 > Size(s) - Padding(n) THEN Pad ELSE x[4]
    BY EncodedCharacter DEF x
  <2> QED BY <2>1 DEF Char
<1>5. /\ Size(s) \in Nat /\ Padding(n) \in Nat
      /\ 4 * g + 1 <= Size(s) - Padding(n) /\ 4 * g + 2 <= Size(s) - Padding(n)
      /\ (4 * g + 3 > Size(s) - Padding(n)) <=> (n = 3 * g + 1)
      /\ (4 * g + 4 > Size(s) - Padding(n)) <=> (n = 3 * g + 1 \/ n = 3 * g + 2)
  <2> HIDE DEF n
  <2>1. n % 3 \in 0 .. 2 /\ n = 3 * (n \div 3) + (n % 3) /\ n \div 3 \in Nat
    BY <1>1
  <2>2. Size(s) = 4 * ((n + 2) \div 3) /\ g <= ((n + 2) \div 3) - 1
    BY DEF Size, GroupCount, n
  <2> DEFINE m == n \div 3
  <2>3. CASE n % 3 = 0
    <3>1. (n + 2) \div 3 = m /\ Padding(n) = 0
      BY <2>1, <2>3 DEF Padding
    <3>2. m \in Nat /\ n = 3 * m /\ g <= m - 1 /\ Size(s) = 4 * m
      BY <1>1, <2>1, <2>2, <2>3, <3>1
    <3> HIDE DEF m
    <3> QED BY <1>1, <3>1, <3>2
  <2>4. CASE n % 3 = 1
    <3>0. m \in Nat /\ n = 3 * m + 1
      BY <2>1, <2>4
    <3>1. (n + 2) \div 3 = m + 1 /\ Padding(n) = 2
      <4>1. Padding(n) = 2
        BY <2>4 DEF Padding
      <4> HIDE DEF m
      <4>2. (3 * m + 3) \div 3 = m + 1
        BY <3>0
      <4> QED BY <3>0, <4>1, <4>2
    <3>2. m \in Nat /\ n = 3 * m + 1 /\ g <= m /\ Size(s) = 4 * m + 4
      BY <1>1, <2>1, <2>2, <2>4, <3>1
    <3> HIDE DEF m
    <3> QED BY <1>1, <3>1, <3>2
  <2>5. CASE n % 3 = 2
    <3>0. m \in Nat /\ n = 3 * m + 2
      BY <2>1, <2>5
    <3>1. (n + 2) \div 3 = m + 1 /\ Padding(n) = 1
      <4>1. Padding(n) = 1
        BY <2>5 DEF Padding
      <4> HIDE DEF m
      <4>2. (3 * m + 4) \div 3 = m + 1
        BY <3>0
      <4> QED BY <3>0, <4>1, <4>2
    <3>2. m \in Nat /\ n = 3 * m + 2 /\ g <= m /\ Size(s) = 4 * m + 4
      BY <1>1, <2>1, <2>2, <2>5, <3>1
    <3> HIDE DEF m
    <3> QED BY <1>1, <3>1, <3>2
  <2> QED BY <2>1, <2>3, <2>4, <2>5
<1>6. /\ s[3 * g + 1] = a
      /\ n >= 3 * g + 2 => s[3 * g + 2] = b
      /\ n >= 3 * g + 3 => s[3 * g + 3] = c
  BY <1>1 DEF Octet
<1>7. x[1] # Pad /\ x[2] # Pad /\ x[3] # Pad /\ x[4] # Pad
  <2> HIDE DEF a, b, c, x
  <2> DEFINE x1 == a \div 4
             x2 == 16 * (a % 4) + b \div 16
             x3 == 4 * (b % 16) + c \div 64
             x4 == c % 64
  <2>1. x1 \in 0 .. 63 /\ x2 \in 0 .. 63 /\ x3 \in 0 .. 63 /\ x4 \in 0 .. 63
    <3>1. SmallSextets(a, b, c)
      BY <1>0, SextetsOfBytes
    <3> QED BY <3>1, Zenon DEF SmallSextets
  <2>2. x1 # Pad /\ x2 # Pad /\ x3 # Pad /\ x4 # Pad
    <3> HIDE DEF x1, x2, x3, x4
    <3> QED BY <2>1 DEF Pad
  <2>3. x = <<x1, x2, x3, x4>>
    BY <1>2
  <2> HIDE DEF x1, x2, x3, x4
  <2> QED BY <2>2, <2>3
<1>8. Group(t, g) =
        <<(4 * q[1] + q[2] \div 16) % 256>>
        \o (IF t[4 * g + 3] = Pad THEN <<>> ELSE <<(16 * q[2] + q[3] \div 4) % 256>>)
        \o (IF t[4 * g + 4] = Pad THEN <<>> ELSE <<(64 * q[3] + q[4]) % 256>>)
  BY DEF Group
<1>9. /\ q[1] = IF t[4 * g + 1] = Pad THEN 0 ELSE t[4 * g + 1]
      /\ q[2] = IF t[4 * g + 2] = Pad THEN 0 ELSE t[4 * g + 2]
      /\ q[3] = IF t[4 * g + 3] = Pad THEN 0 ELSE t[4 * g + 3]
      /\ q[4] = IF t[4 * g + 4] = Pad THEN 0 ELSE t[4 * g + 4]
  BY DEF Value
<1> HIDE DEF t, a, b, c, x, n, q
<1>10. q[1] = a \div 4 /\ q[2] = 16 * (a % 4) + b \div 16
  <2>1. t[4 * g + 1] = x[1] /\ t[4 * g + 2] = x[2]
    BY <1>1, <1>4, <1>5
  <2>2. x[1] # Pad /\ x[2] # Pad
    BY <1>7
  <2> QED BY <1>2, <1>9, <2>1, <2>2
<1>11. Reached(s, g) = 3 * g
  BY <1>1 DEF Reached, n
<1>12. (4 * q[1] + q[2] \div 16) % 256 = a
  BY <1>3, <1>10
<1> DEFINE m == 3 * g + 1
<1>13. /\ m \in 1 .. Len(s) /\ m + 1 = 3 * g + 2 /\ m + 2 = 3 * g + 3
       /\ SubSeq(s, m, m) = <<a>>
       /\ n >= m + 1 => SubSeq(s, m, m + 1) = <<a>> \o <<b>>
       /\ n >= m + 2 => SubSeq(s, m, m + 2) = <<a>> \o <<b>> \o <<c>>
  <2>1. m \in 1 .. Len(s) /\ m + 1 = 3 * g + 2 /\ m + 2 = 3 * g + 3
    BY <1>1 DEF n
  <2>2. s[m] = a /\ (n >= m + 1 => s[m + 1] = b) /\ (n >= m + 2 => s[m + 2] = c)
    BY <1>6, <2>1
  <2> HIDE DEF m
  <2>3. /\ SubSeq(s, m, m) = <<s[m]>>
        /\ Len(s) >= m + 1 => SubSeq(s, m, m + 1) = <<s[m]>> \o <<s[m + 1]>>
        /\ Len(s) >= m + 2 =>
             SubSeq(s, m, m + 2) = <<s[m]>> \o <<s[m + 1]>> \o <<s[m + 2]>>
    BY <2>1, SomeBytes
  <2>4. n >= m + 1 => SubSeq(s, m, m + 1) = <<a>> \o <<b>>
    BY <2>2, <2>3 DEF n
  <2>5. n >= m + 2 => SubSeq(s, m, m + 2) = <<a>> \o <<b>> \o <<c>>
    <3>1. n >= m + 2 => n >= m + 1
      BY <1>1, <2>1
    <3> QED BY <2>2, <2>3, <3>1 DEF n
  <2> QED BY <2>1, <2>2, <2>3, <2>4, <2>5
<1>14. <<a>> \in Seq(0 .. 255) /\ <<a>> \o <<b>> \in Seq(0 .. 255)
  <2>1. <<a>> \in Seq(0 .. 255) /\ <<b>> \in Seq(0 .. 255)
    BY <1>0
  <2> QED BY <2>1, ConcatProperties
<1>15. CASE n >= 3 * g + 3
  <2>1. t[4 * g + 3] = x[3] /\ t[4 * g + 4] = x[4] /\ x[3] # Pad /\ x[4] # Pad
    <3>1. ~ (4 * g + 3 > Size(s) - Padding(n)) /\ ~ (4 * g + 4 > Size(s) - Padding(n))
      BY <1>1, <1>5, <1>15
    <3> QED BY <1>4, <1>7, <3>1
  <2>2. q[3] = 4 * (b % 16) + c \div 64 /\ q[4] = c % 64
    BY <1>2, <1>9, <2>1
  <2>3. (16 * q[2] + q[3] \div 4) % 256 = b /\ (64 * q[3] + q[4]) % 256 = c
    BY <1>3, <1>10, <2>2
  <2>4. Group(t, g) = <<a>> \o <<b>> \o <<c>>
    BY <1>8, <1>12, <2>1, <2>3
  <2>5. Reached(s, g + 1) = 3 * g + 3
    BY <1>1, <1>15 DEF Reached, n
  <2>6. SubSeq(s, 3 * g + 1, 3 * g + 3) = <<a>> \o <<b>> \o <<c>>
    BY <1>13, <1>15
  <2> QED BY <1>11, <2>4, <2>5, <2>6 DEF t
<1>16. CASE n = 3 * g + 2
  <2>1. t[4 * g + 3] = x[3] /\ t[4 * g + 4] = Pad /\ x[3] # Pad
    <3>1. ~ (4 * g + 3 > Size(s) - Padding(n)) /\ 4 * g + 4 > Size(s) - Padding(n)
      BY <1>1, <1>5, <1>16
    <3> QED BY <1>4, <1>7, <3>1
  <2>2. q[3] = 4 * (b % 16) + c \div 64
    BY <1>2, <1>9, <2>1
  <2>3. (16 * q[2] + q[3] \div 4) % 256 = b
    BY <1>3, <1>10, <2>2
  <2>4. Group(t, g) = <<a>> \o <<b>> \o <<>>
    BY <1>8, <1>12, <2>1, <2>3
  <2>5. Reached(s, g + 1) = 3 * g + 2
    BY <1>1, <1>16 DEF Reached, n
  <2>6. SubSeq(s, 3 * g + 1, 3 * g + 2) = <<a>> \o <<b>>
    BY <1>1, <1>13, <1>16
  <2>7. <<a>> \o <<b>> \o <<>> = <<a>> \o <<b>>
    BY <1>14, ConcatEmptySeq
  <2> QED BY <1>11, <2>4, <2>5, <2>6, <2>7 DEF t
<1>17. CASE n = 3 * g + 1
  <2>1. t[4 * g + 3] = Pad /\ t[4 * g + 4] = Pad
    <3>1. 4 * g + 3 > Size(s) - Padding(n) /\ 4 * g + 4 > Size(s) - Padding(n)
      BY <1>1, <1>5, <1>17
    <3> QED BY <1>4, <3>1
  <2>2. Group(t, g) = <<a>> \o <<>> \o <<>>
    BY <1>8, <1>12, <2>1
  <2>3. <<a>> \o <<>> \o <<>> = <<a>>
    BY <1>14, ConcatEmptySeq
  <2>4. Reached(s, g + 1) = 3 * g + 1
    BY <1>1, <1>17 DEF Reached, n
  <2>5. SubSeq(s, 3 * g + 1, 3 * g + 1) = <<a>>
    BY <1>13
  <2> QED BY <1>11, <2>2, <2>3, <2>4, <2>5 DEF t
<1> QED BY <1>1, <1>15, <1>16, <1>17

(* Decoding gives back every string of bytes that was encoded.             *)
LEMMA DecodesEncoded ==
  ASSUME NEW s \in Seq(0 .. 255)
  PROVE  Base64UrlDecode(Base64UrlEncode(s)) = s
<1> DEFINE t == Base64Encode(s)
           n == Len(s)
<1>1. t \in Seq(0 .. 64) /\ Len(t) = Size(s) /\ DOMAIN t = 1 .. Size(s)
  BY EncodedInTable
<1>2. n \in Nat /\ GroupCount(s) \in Nat /\ Size(s) = 4 * GroupCount(s) /\ 3 * GroupCount(s) >= n
  BY DEF Size, GroupCount
<1>3. Base64UrlDecode(Base64UrlEncode(s)) = Base64Decode(t)
  BY <1>1, UrlAndBack DEF Base64UrlDecode, Base64UrlEncode
<1>4. Base64Decode(t) = Groups(t)
  <2>1. Len(t) % 4 = 0
    BY <1>1, <1>2
  <2>2. \A k \in DOMAIN t : InTable(t[k])
    <3>1. \A k \in DOMAIN t : t[k] \in 0 .. 64
      BY <1>1, ElementOfSeq
    <3> QED BY <3>1 DEF InTable, Pad
  <2> QED BY <2>1, <2>2 DEF Base64Decode
<1>5. GroupCount(s) = Len(t) \div 4
  BY <1>1, <1>2
<1>6. PICK f : /\ Groups(t) = f[GroupCount(s)] /\ f[0] = <<>>
               /\ \A g \in 0 .. GroupCount(s) - 1 : f[g + 1] = f[g] \o Group(t, g)
  BY <1>2, <1>5, GroupsAreJoined
<1> DEFINE wrong == {g \in Nat : g <= GroupCount(s) /\ f[g] # SubSeq(s, 1, Reached(s, g))}
<1>7. wrong = {}
  <2>1. SUFFICES ASSUME wrong # {} PROVE FALSE
    OBVIOUS
  <2>2. PICK m \in wrong : \A k \in wrong : m <= k
    BY <2>1, NatHasLeast
  <2>3. m \in Nat /\ m <= GroupCount(s) /\ f[m] # SubSeq(s, 1, Reached(s, m))
    OBVIOUS
  <2>4. \A k \in Nat : k < m => k \notin wrong
    BY <2>2
  <2>5. m # 0
    <3>1. Reached(s, 0) = 0
      BY <1>2 DEF Reached
    <3>2. SubSeq(s, 1, 0) = <<>>
      BY SubSeqEmpty
    <3> QED BY <1>6, <2>3, <3>1, <3>2
  <2>6. m - 1 \in Nat /\ m - 1 < m /\ m - 1 \in 0 .. GroupCount(s) - 1 /\ (m - 1) + 1 = m
    BY <1>2, <2>3, <2>5
  <2>7. f[m - 1] = SubSeq(s, 1, Reached(s, m - 1))
    BY <1>2, <2>3, <2>4, <2>6
  <2>8. f[m] = f[m - 1] \o Group(t, m - 1)
    BY <1>6, <2>6
  <2>9. Group(t, m - 1) = SubSeq(s, Reached(s, m - 1) + 1, Reached(s, m))
    BY <2>6, GroupIsBytes
  <2>10. Reached(s, m - 1) \in 0 .. Len(s) /\ Reached(s, m) \in Reached(s, m - 1) .. Len(s)
    BY <1>2, <2>3, <2>6 DEF Reached
  <2>11. SubSeq(s, 1, Reached(s, m - 1)) \o SubSeq(s, Reached(s, m - 1) + 1, Reached(s, m)) =
           SubSeq(s, 1, Reached(s, m))
    <3> DEFINE i == Reached(s, m - 1)
               j == Reached(s, m)
    <3>1. 1 \in 1 .. Len(s) + 1 /\ i \in 1 - 1 .. Len(s) /\ j \in i .. Len(s)
      BY <1>2, <2>10
    <3> HIDE DEF i, j
    <3>2. SubSeq(s, 1, i) \o SubSeq(s, i + 1, j) = SubSeq(s, 1, j)
      BY <3>1, ConcatAdjacentSubSeq
    <3> QED BY <3>2 DEF i, j
  <2> QED BY <2>3, <2>7, <2>8, <2>9, <2>11
<1>8. f[GroupCount(s)] = SubSeq(s, 1, Reached(s, GroupCount(s)))
  BY <1>2, <1>7
<1>9. Reached(s, GroupCount(s)) = n
  BY <1>2 DEF Reached
<1>10. SubSeq(s, 1, n) = s
  BY SubSeqFull
<1> QED BY <1>3, <1>4, <1>6, <1>8, <1>9, <1>10

-----------------------------------------------------------------------------
(* The buffer of base64decode.                                             *)

(* How many bytes a group gives: one, and one for each of its last two     *)
(* characters that is not padding.                                         *)
LEMMA GroupLength ==
  ASSUME NEW t, NEW g \in Nat, \A j \in 1 .. 4 : t[4 * g + j] \in 0 .. 64
  PROVE  /\ Group(t, g) \in Seq(Int)
         /\ Len(Group(t, g)) = 1 + (IF t[4 * g + 3] = Pad THEN 0 ELSE 1)
                                  + (IF t[4 * g + 4] = Pad THEN 0 ELSE 1)
<1> DEFINE q == [k \in 1 .. 4 |-> Value(t[4 * g + k])]
           x == (4 * q[1] + q[2] \div 16) % 256
           y == (16 * q[2] + q[3] \div 4) % 256
           z == (64 * q[3] + q[4]) % 256
           second == IF t[4 * g + 3] = Pad THEN <<>> ELSE <<y>>
           third  == IF t[4 * g + 4] = Pad THEN <<>> ELSE <<z>>
<1>1. Group(t, g) = <<x>> \o second \o third
  BY DEF Group
<1>2. x \in Int /\ y \in Int /\ z \in Int
  <2>1. \A k \in 1 .. 4 : q[k] \in Int
    <3> TAKE k \in 1 .. 4
    <3> DEFINE v == t[4 * g + k]
    <3>1. v \in 0 .. 64
      OBVIOUS
    <3>2. q[k] = Value(v)
      OBVIOUS
    <3> HIDE DEF v, q
    <3> QED BY <3>1, <3>2 DEF Value
  <2>2. q[1] \in Int /\ q[2] \in Int /\ q[3] \in Int /\ q[4] \in Int
    BY <2>1
  <2> HIDE DEF q
  <2> QED BY <2>2
<1> HIDE DEF x, y, z
<1>3. <<x>> \in Seq(Int) /\ second \in Seq(Int) /\ third \in Seq(Int) /\ Len(<<x>>) = 1
  BY <1>2
<1>4. /\ Len(second) = IF t[4 * g + 3] = Pad THEN 0 ELSE 1
      /\ Len(third) = IF t[4 * g + 4] = Pad THEN 0 ELSE 1
  OBVIOUS
<1> HIDE DEF second, third
<1>5. /\ <<x>> \o second \in Seq(Int) /\ Len(<<x>> \o second) = 1 + Len(second)
  BY <1>3, ConcatProperties
<1>6. /\ <<x>> \o second \o third \in Seq(Int)
      /\ Len(<<x>> \o second \o third) = 1 + Len(second) + Len(third)
  BY <1>3, <1>5, ConcatProperties
<1> QED BY <1>1, <1>4, <1>6

(* On any received text the bytes written are as many as malloc was asked  *)
(* for, or fewer.                                                          *)
LEMMA DecodedFits ==
  ASSUME NEW S, NEW u \in Seq(S), u # <<>>, Base64UrlDecode(u) # Invalid
  PROVE  Len(Base64UrlDecode(u)) <= OutLen(u)
<1> DEFINE t == FromUrl(u)
           n == Len(u) \div 4
<1>1. /\ Len(t) = Len(u) /\ DOMAIN t = 1 .. Len(u) /\ Len(u) \in Nat /\ Len(u) # 0
  <2>1. DOMAIN u = 1 .. Len(u) /\ Len(u) \in Nat /\ Len(u) # 0
    BY LenProperties, EmptySeq
  <2>2. t = [k \in 1 .. Len(u) |-> t[k]]
    BY <2>1 DEF FromUrl
  <2>3. t \in Seq({t[k] : k \in 1 .. Len(u)}) /\ Len(t) = Len(u)
    BY <2>1, <2>2
  <2> QED BY <2>1, <2>2, <2>3
<1>2. \A k \in 1 .. Len(u) : (t[k] = Pad) <=> (u[k] = Pad)
  <2> TAKE k \in 1 .. Len(u)
  <2>1. k \in DOMAIN u
    BY LenProperties
  <2>2. t[k] = CASE u[k] = Minus -> 62 [] u[k] = Under -> 63 [] OTHER -> u[k]
    BY <2>1 DEF FromUrl
  <2>3. CASE u[k] = Minus
    BY <2>2, <2>3 DEF Minus, Pad
  <2>4. CASE u[k] = Under
    BY <2>2, <2>4 DEF Under, Minus, Pad
  <2>5. CASE u[k] # Minus /\ u[k] # Under
    BY <2>2, <2>5
  <2> QED BY <2>3, <2>4, <2>5
<1>3. /\ Base64UrlDecode(u) = Groups(t)
      /\ Len(t) % 4 = 0 /\ \A k \in DOMAIN t : InTable(t[k])
  BY DEF Base64UrlDecode, Base64Decode
<1> HIDE DEF t
<1>4. n \in Nat \ {0} /\ Len(u) = 4 * n /\ n = Len(t) \div 4
  <2> DEFINE l == Len(u)
  <2>1. l \in Nat \ {0} /\ l % 4 = 0 /\ n = l \div 4 /\ Len(t) = l
    BY <1>1, <1>3
  <2> HIDE DEF l, n
  <2>2. n \in Nat \ {0} /\ l = 4 * n
    BY <2>1
  <2> QED BY <2>1, <2>2 DEF l
<1>5. \A g \in 0 .. n - 1 :
        /\ Group(t, g) \in Seq(Int) /\ Len(Group(t, g)) <= 3
        /\ Len(Group(t, g)) = 1 + (IF t[4 * g + 3] = Pad THEN 0 ELSE 1)
                                 + (IF t[4 * g + 4] = Pad THEN 0 ELSE 1)
  <2> TAKE g \in 0 .. n - 1
  <2>1. \A j \in 1 .. 4 : t[4 * g + j] \in 0 .. 64
    <3> TAKE j \in 1 .. 4
    <3> DEFINE k == 4 * g + j
    <3>1. k \in DOMAIN t
      BY <1>1, <1>4
    <3> HIDE DEF k
    <3>2. t[k] \in 0 .. 64
      BY <1>3, <3>1 DEF InTable, Pad
    <3> QED BY <3>2 DEF k
  <2>2. g \in Nat
    BY <1>4
  <2> HIDE DEF n
  <2>3. /\ Group(t, g) \in Seq(Int)
        /\ Len(Group(t, g)) = 1 + (IF t[4 * g + 3] = Pad THEN 0 ELSE 1)
                                 + (IF t[4 * g + 4] = Pad THEN 0 ELSE 1)
    BY <2>1, <2>2, GroupLength
  <2> DEFINE x == IF t[4 * g + 3] = Pad THEN 0 ELSE 1
             y == IF t[4 * g + 4] = Pad THEN 0 ELSE 1
  <2>4. x \in 0 .. 1 /\ y \in 0 .. 1 /\ Len(Group(t, g)) = 1 + x + y
    BY <2>3
  <2> HIDE DEF x, y
  <2>5. Len(Group(t, g)) <= 3
    BY <2>4
  <2> QED BY <2>3, <2>5
<1> HIDE DEF n
<1>6. PICK f : /\ Groups(t) = f[n] /\ f[0] = <<>>
               /\ \A g \in 0 .. n - 1 : f[g + 1] = f[g] \o Group(t, g)
  BY <1>4, GroupsAreJoined
<1> DEFINE long == {g \in Nat : g <= n - 1 /\ ~ (f[g] \in Seq(Int) /\ Len(f[g]) <= 3 * g)}
<1>7. long = {}
  <2>1. SUFFICES ASSUME long # {} PROVE FALSE
    OBVIOUS
  <2>2. PICK m \in long : \A k \in long : m <= k
    BY <2>1, NatHasLeast
  <2>3. m \in Nat /\ m <= n - 1 /\ ~ (f[m] \in Seq(Int) /\ Len(f[m]) <= 3 * m)
    OBVIOUS
  <2>4. m # 0
    <3>1. f[0] \in Seq(Int) /\ Len(f[0]) = 0
      BY <1>6
    <3> QED BY <2>3, <3>1
  <2>5. m - 1 \in Nat /\ m - 1 < m /\ m - 1 \in 0 .. n - 1 /\ (m - 1) + 1 = m
    BY <1>4, <2>3, <2>4
  <2>6. f[m - 1] \in Seq(Int) /\ Len(f[m - 1]) <= 3 * (m - 1)
    BY <1>4, <2>2, <2>3, <2>5
  <2>7. f[m] = f[m - 1] \o Group(t, m - 1)
    BY <1>6, <2>5
  <2>8. Group(t, m - 1) \in Seq(Int) /\ Len(Group(t, m - 1)) <= 3
    <3> DEFINE g == m - 1
    <3>1. g \in 0 .. n - 1
      BY <2>5
    <3> HIDE DEF g
    <3>2. Group(t, g) \in Seq(Int) /\ Len(Group(t, g)) <= 3
      BY <1>5, <3>1
    <3> QED BY <3>2 DEF g
  <2>9. f[m] \in Seq(Int) /\ Len(f[m]) = Len(f[m - 1]) + Len(Group(t, m - 1))
    BY <2>6, <2>7, <2>8, ConcatProperties
  <2>10. Len(f[m - 1]) \in Nat /\ Len(Group(t, m - 1)) \in Nat
    BY <2>6, <2>8, LenProperties
  <2>11. Len(f[m]) <= 3 * m
    <3> DEFINE x == Len(f[m - 1])
               y == Len(Group(t, m - 1))
    <3>1. x \in Nat /\ y \in Nat /\ x <= 3 * (m - 1) /\ y <= 3 /\ Len(f[m]) = x + y
      BY <2>6, <2>8, <2>9, <2>10
    <3> HIDE DEF x, y
    <3>2. x + y <= 3 * m
      BY <2>3, <3>1
    <3> QED BY <3>1, <3>2
  <2> QED BY <2>3, <2>9, <2>11
<1>8. n - 1 \in 0 .. n - 1 /\ n - 1 \in Nat /\ (n - 1) + 1 = n
  BY <1>4
<1>9. f[n - 1] \in Seq(Int) /\ Len(f[n - 1]) <= 3 * (n - 1)
  BY <1>7, <1>8
<1> DEFINE last == Group(t, n - 1)
<1>10. f[n] = f[n - 1] \o last
  BY <1>6, <1>8
<1>11. /\ last \in Seq(Int)
       /\ Len(last) = 1 + (IF t[4 * (n - 1) + 3] = Pad THEN 0 ELSE 1)
                         + (IF t[4 * (n - 1) + 4] = Pad THEN 0 ELSE 1)
  BY <1>5, <1>8
<1>12. /\ 4 * (n - 1) + 3 = Len(u) - 1 /\ 4 * (n - 1) + 4 = Len(u)
       /\ Len(u) - 1 \in 1 .. Len(u) /\ Len(u) \in 1 .. Len(u)
  BY <1>4
<1> HIDE DEF last
<1>13. /\ Len(last) = 1 + (IF u[Len(u) - 1] = Pad THEN 0 ELSE 1)
                         + (IF u[Len(u)] = Pad THEN 0 ELSE 1)
  BY <1>2, <1>11, <1>12
<1>14. Len(f[n]) = Len(f[n - 1]) + Len(last) /\ Len(f[n - 1]) \in Nat /\ Len(last) \in Nat
  <2> DEFINE before == f[n - 1]
  <2>1. before \in Seq(Int) /\ last \in Seq(Int) /\ f[n] = before \o last
    BY <1>9, <1>10, <1>11
  <2> HIDE DEF before
  <2>2. Len(before \o last) = Len(before) + Len(last)
    BY <2>1, ConcatProperties
  <2>3. Len(before) \in Nat /\ Len(last) \in Nat
    BY <2>1, LenProperties
  <2> QED BY <2>1, <2>2, <2>3 DEF before
<1>15. OutLen(u) = 3 * n - (IF u[Len(u)] = Pad THEN 1 ELSE 0)
                         - (IF u[Len(u) - 1] = Pad THEN 1 ELSE 0)
  BY DEF OutLen, n
<1>16. Base64UrlDecode(u) = f[n]
  BY <1>3, <1>6
<1> DEFINE x == Len(f[n - 1])
           y == Len(last)
           lastPad == u[Len(u)] = Pad
           lastButOnePad == u[Len(u) - 1] = Pad
<1>17. /\ x \in Nat /\ x <= 3 * (n - 1) /\ Len(f[n]) = x + y
       /\ y = 1 + (IF lastButOnePad THEN 0 ELSE 1) + (IF lastPad THEN 0 ELSE 1)
       /\ OutLen(u) = 3 * n - (IF lastPad THEN 1 ELSE 0) - (IF lastButOnePad THEN 1 ELSE 0)
  BY <1>9, <1>13, <1>14, <1>15
<1> HIDE DEF x, y, lastPad, lastButOnePad
<1>18. Len(f[n]) <= OutLen(u)
  BY <1>4, <1>17
<1> QED BY <1>16, <1>18

-----------------------------------------------------------------------------
(* The behaviours.                                                         *)

TokenTypes == data \in Seq(Bytes) /\ text \in Seq(Chars)

(* What is coded are bytes, and what is received characters.               *)
LEMMA TypesHold == TokenSpec => []TokenTypes
<1>1. TokenInit => TokenTypes
  BY DEF TokenInit, TokenTypes
<1>2. TokenTypes /\ [TokenNext]_token_vars => TokenTypes'
  <2> SUFFICES ASSUME TokenTypes, [TokenNext]_token_vars PROVE TokenTypes'
    OBVIOUS
  <2>1. CASE Encode
    BY <2>1 DEF TokenTypes, Encode
  <2>2. CASE Receive
    BY <2>2 DEF TokenTypes, Receive
  <2>3. CASE UNCHANGED token_vars
    BY <2>3 DEF TokenTypes, token_vars
  <2> QED BY <2>1, <2>2, <2>3 DEF TokenNext
<1> QED BY <1>1, <1>2, PTL DEF TokenSpec

(* What generate_jwt encodes jwt_validate decodes, for strings of bytes of *)
(* any length: the two mistakes about padding cancel.                      *)
THEOREM CodingIsUndone == TokenSpec => []RoundTrip
<1>1. TokenTypes => RoundTrip
  <2> SUFFICES ASSUME TokenTypes PROVE RoundTrip
    OBVIOUS
  <2>1. data \in Seq(0 .. 255)
    <3>1. data \in Seq(Bytes)
      BY DEF TokenTypes
    <3> DEFINE Wide == 0 .. 255
    <3>2. Bytes \subseteq Wide
      BY TokenAssumption
    <3> HIDE DEF Wide
    <3>3. data \in Seq(Wide)
      BY <3>1, <3>2, SeqMonotonic
    <3> QED BY <3>3 DEF Wide
  <2> QED BY <2>1, DecodesEncoded DEF RoundTrip
<1> QED BY <1>1, TypesHold, PTL

(* No received text, of whatever characters and length, makes base64decode *)
(* write past the buffer it sized by the last two characters.              *)
THEOREM DecodingFits == TokenSpec => []DecodeFits
<1>1. TokenTypes => DecodeFits
  BY DecodedFits DEF TokenTypes, DecodeFits
<1> QED BY <1>1, TypesHold, PTL

-----------------------------------------------------------------------------
(* Template: types, and room for what is written.                          *)

(* What the constants are, taken apart once.                               *)
LEMMA Constants ==
  ASSUME template \in Templates, value \in Values
  PROVE  /\ template.len \in Nat /\ OutSize \in Nat
         /\ \A i \in DOMAIN template.holes :
              /\ i \in Nat /\ template.holes[i].next \in 1 .. template.len + 1
         /\ \A key : ValueLen(key) \in Nat
BY TemplateAssumption DEF OutSize, ValueLen

(* A value is copied character by character.                               *)
LEMMA ValueIsText ==
  ASSUME template \in Templates, value \in Values, NEW i \in DOMAIN template.holes
  PROVE  /\ ValueAt(i) \in Seq(Nat \X Nat)
         /\ Len(ValueAt(i)) = ValueLen(template.holes[i].key)
<1>1. i \in Nat /\ ValueLen(template.holes[i].key) \in Nat
  BY Constants
<1> QED
  BY <1>1 DEF ValueAt

LEMMA JunkIsText ==
  ASSUME NEW n \in Nat
  PROVE  Junk(n) \in Seq(Nat \X Nat)
BY DEF Junk

(* strncpy and the terminator leave a content that fits.                   *)
LEMMA CutFits ==
  ASSUME NEW content \in Seq(Nat \X Nat)
  PROVE  Cut(content) \in Seq(Nat \X Nat) /\ Len(Cut(content)) < BODY_LEN
<1>1. BODY_LEN \in Nat \ {0} /\ Len(content) \in Nat
  BY TemplateAssumption, LenProperties
<1>2. CASE Len(content) < BODY_LEN
  BY <1>2 DEF Cut
<1>3. CASE ~(Len(content) < BODY_LEN)
  <2>1. Cut(content) = SubSeq(content, 1, BODY_LEN - 1)
    BY <1>3 DEF Cut
  <2>2. 1 \in 1 .. Len(content) + 1 /\ BODY_LEN - 1 \in 0 .. Len(content)
    BY <1>1, <1>3
  <2>3. /\ SubSeq(content, 1, BODY_LEN - 1) \in Seq(Nat \X Nat)
        /\ Len(SubSeq(content, 1, BODY_LEN - 1)) = BODY_LEN - 1
    BY <1>1, <1>3, <2>2, SubSeqProperties, Z3
  <2> QED BY <2>1, <2>3, <1>1
<1> QED BY <1>2, <1>3

LEMMA TypeInit == Init => TypeOK /\ OutFits
<1> SUFFICES ASSUME Init PROVE TypeOK /\ OutFits
  OBVIOUS
<1>1. template \in Templates /\ value \in Values
  BY DEF Init
<1>2. template.len \in Nat /\ BODY_LEN \in Nat \ {0} /\ Slack \in Nat \ {0}
  BY <1>1, TemplateAssumption
<1> QED BY <1>1, <1>2 DEF Init, TypeOK, OutFits, OutSize, out_idx

(* One case for each way through the loop, and add_body.                   *)
LEMMA TypeNext ==
  ASSUME TypeOK, OutFits, [Next]_vars
  PROVE  TypeOK' /\ OutFits'
<1>0. /\ template \in Templates /\ value \in Values
      /\ template.len \in Nat /\ OutSize \in Nat /\ out \in Seq(Nat \X Nat)
      /\ \A i \in DOMAIN template.holes : template.holes[i].next \in 1 .. template.len + 1
      /\ p \in 1 .. template.len + 1
  BY Constants DEF TypeOK
<1>1. CASE CopyChar
  <2>1. <<p, 0>> \in Nat \X Nat /\ p + 1 \in 1 .. template.len + 1
    BY <1>0, <1>1 DEF CopyChar
  <2>2. out' \in Seq(Nat \X Nat) /\ Len(out') = Len(out) + 1
    BY <1>0, <1>1, <2>1 DEF CopyChar
  <2>3. UNCHANGED <<template, value, state, body>> /\ p' = p + 1
    BY <1>1 DEF CopyChar, request
  <2>4. OutSize' = OutSize /\ Len(out) < OutSize - 1
    BY <1>1, <2>3 DEF CopyChar, OutSize, out_idx
  <2> QED BY <1>0, <2>1, <2>2, <2>3, <2>4 DEF TypeOK, OutFits, out_idx
<1>2. CASE CopyValue
  <2>1. p \in DOMAIN template.holes
    BY <1>2 DEF CopyValue, IsHole
  <2>2. /\ ValueAt(p) \in Seq(Nat \X Nat)
        /\ Len(ValueAt(p)) = ValueLen(template.holes[p].key)
    BY <1>0, <2>1, ValueIsText
  <2>3. out' \in Seq(Nat \X Nat) /\ Len(out') = Len(out) + Len(ValueAt(p))
    <3>1. out' = out \o ValueAt(p)
      BY <1>2 DEF CopyValue
    <3> QED BY <1>0, <2>2, <3>1, ConcatProperties
  <2>4. UNCHANGED <<template, value, state, body>> /\ p' = template.holes[p].next
    BY <1>2 DEF CopyValue, request
  <2>5. OutSize' = OutSize /\ Len(ValueAt(p)) + Len(out) < OutSize - 1
    BY <1>2, <2>2, <2>4 DEF CopyValue, Fits, OutSize, out_idx
  <2>6. Len(ValueAt(p)) \in Nat /\ Len(out) \in Nat
    BY <1>0, <2>2, LenProperties
  <2> QED BY <1>0, <2>1, <2>3, <2>4, <2>5, <2>6 DEF TypeOK, OutFits, out_idx
<1>3. CASE Break
  BY <1>3 DEF Break, request, TypeOK, OutFits, OutSize, out_idx
<1>4. CASE EndOfTemplate
  BY <1>4 DEF EndOfTemplate, request, TypeOK, OutFits, OutSize, out_idx
<1>5. CASE AddBody
  <2>1. PICK n \in 0 .. OutSize - 1 - out_idx : body' = Cut(out \o Junk(n))
    BY <1>5 DEF AddBody
  <2>2. n \in Nat
    BY <1>0, LenProperties DEF out_idx
  <2>3. out \o Junk(n) \in Seq(Nat \X Nat)
    BY <1>0, <2>2, JunkIsText
  <2>4. body' \in Seq(Nat \X Nat) /\ Len(body') < BODY_LEN
    BY <2>1, <2>3, CutFits
  <2> QED BY <1>5, <2>4 DEF AddBody, request, TypeOK, OutFits, OutSize, out_idx
<1>6. CASE UNCHANGED vars
  BY <1>6 DEF vars, TypeOK, OutFits, OutSize, out_idx
<1> QED BY <1>1, <1>2, <1>3, <1>4, <1>5, <1>6 DEF Next

(* Every variable keeps its type; the body of a response is always         *)
(* shorter than BODY_LEN, whatever a template and its values are.          *)
THEOREM TemplateTypes == Spec => []TypeOK
<1>1. TypeOK /\ OutFits /\ [Next]_vars => (TypeOK /\ OutFits)'
  BY TypeNext
<1> QED BY <1>1, TypeInit, PTL DEF Spec

(* render_template never writes the last byte of out_buf or past it: the   *)
(* two tests of the loop are enough for values of any length.              *)
THEOREM OutputFits == Spec => []OutFits
<1>1. TypeOK /\ OutFits /\ [Next]_vars => (TypeOK /\ OutFits)'
  BY TypeNext
<1> QED BY <1>1, TypeInit, PTL DEF Spec

-----------------------------------------------------------------------------
(* The page that a template means.                                         *)

(* One position of Rendering, from those before it.                        *)
Turn(f, i) ==
  IF i = 1 THEN <<>>
  ELSE LET holes == {h \in DOMAIN template.holes :
                       h < i /\ i <= template.holes[h].next}
       IN IF holes = {} THEN Append(f[i - 1], <<i - 1, 0>>)
          ELSE LET h == CHOOSE h \in holes : TRUE
               IN f[h] \o ValueAt(h)

UpTo(f, n) == f = [i \in 1 .. n |-> Turn(f, i)]

(* A position depends on smaller ones only.                                *)
LEMMA TurnLooksBack ==
  ASSUME NEW m \in Nat, NEW f, NEW g, NEW i \in 1 .. m + 1,
         \A h \in DOMAIN template.holes : h \in Nat \ {0},
         \A j \in 1 .. m : f[j] = g[j]
  PROVE  Turn(f, i) = Turn(g, i)
<1> DEFINE holes == {h \in DOMAIN template.holes : h < i /\ i <= template.holes[h].next}
           h == CHOOSE h \in holes : TRUE
<1>1. CASE i = 1
  BY <1>1 DEF Turn
<1>2. CASE i # 1 /\ holes = {}
  <2>1. f[i - 1] = g[i - 1]
    BY <1>2
  <2> QED BY <1>2, <2>1 DEF Turn
<1>3. CASE i # 1 /\ holes # {}
  <2>1. h \in holes
    BY <1>3
  <2>2. h \in 1 .. m
    BY <2>1
  <2>3. f[h] = g[h]
    BY <2>2
  <2> QED BY <1>3, <2>3 DEF Turn
<1> QED BY <1>1, <1>2, <1>3

(* The recursion of Rendering has a solution up to any position: a least   *)
(* position without one would follow one that has.                         *)
LEMMA RenderingExists ==
  ASSUME \A h \in DOMAIN template.holes : h \in Nat \ {0}, NEW n \in Nat
  PROVE  \E f : UpTo(f, n)
<1> DEFINE without == {m \in Nat : ~ \E f : UpTo(f, m)}
<1> SUFFICES ASSUME without # {} PROVE FALSE
  OBVIOUS
<1>1. PICK m \in without : \A k \in without : m <= k
  BY NatHasLeast
<1>2. m \in Nat /\ ~ \E f : UpTo(f, m)
  OBVIOUS
<1>3. \A k \in Nat : k < m => \E f : UpTo(f, k)
  BY <1>1
<1> HIDE DEF without
<1>4. m # 0
  <2>1. SUFFICES ASSUME m = 0 PROVE FALSE
    OBVIOUS
  <2>2. 1 .. 0 = {}
    OBVIOUS
  <2>3. [i \in 1 .. 0 |-> Turn(<<>>, i)] = <<>>
    BY <2>2
  <2>4. UpTo(<<>>, 0)
    BY <2>3 DEF UpTo
  <2> QED BY <1>2, <2>1, <2>4
<1>5. m - 1 \in Nat /\ m - 1 < m
  BY <1>2, <1>4
<1>6. PICK f : UpTo(f, m - 1)
  BY <1>3, <1>5
<1> DEFINE g == [i \in 1 .. m |-> IF i = m THEN Turn(f, m) ELSE f[i]]
<1>7. f = [i \in 1 .. m - 1 |-> Turn(f, i)]
  BY <1>6 DEF UpTo
<1>8. \A j \in 1 .. m - 1 : f[j] = g[j] /\ f[j] = Turn(f, j)
  <2> TAKE j \in 1 .. m - 1
  <2>1. f[j] = Turn(f, j)
    BY <1>7
  <2>2. j \in 1 .. m /\ j # m
    BY <1>2, <1>5
  <2> QED BY <2>1, <2>2
<1>9. ASSUME NEW i \in 1 .. m
      PROVE  g[i] = Turn(g, i)
  <2> HIDE DEF g
  <2>1. i \in 1 .. (m - 1) + 1
    BY <1>2
  <2>2. Turn(f, i) = Turn(g, i)
    BY <1>5, <1>8, <2>1, TurnLooksBack
  <2>3. g[i] = Turn(f, i)
    <3>1. CASE i = m
      BY <3>1 DEF g
    <3>2. CASE i # m
      <4>1. i \in 1 .. m - 1
        BY <1>2, <3>2
      <4> QED BY <1>8, <4>1
    <3> QED BY <3>1, <3>2
  <2> QED BY <2>2, <2>3
<1>10. UpTo(g, m)
  <2>1. g = [i \in 1 .. m |-> g[i]]
    OBVIOUS
  <2> HIDE DEF g
  <2>2. [i \in 1 .. m |-> g[i]] = [i \in 1 .. m |-> Turn(g, i)]
    BY <1>9
  <2> QED BY <2>1, <2>2 DEF UpTo
<1> QED BY <1>2, <1>10

(* Rendering is what its recursion says.                                   *)
LEMMA RenderingTurns ==
  ASSUME template \in Templates, NEW i \in 1 .. template.len + 1
  PROVE  Rendering[i] = Turn(Rendering, i)
<1>1. template.len + 1 \in Nat /\ \A h \in DOMAIN template.holes : h \in Nat \ {0}
  BY TemplateAssumption
<1>2. \E f : UpTo(f, template.len + 1)
  BY <1>1, RenderingExists
<1>3. Rendering = CHOOSE f : UpTo(f, template.len + 1)
  BY DEF Rendering, UpTo, Turn
<1>4. UpTo(Rendering, template.len + 1)
  BY <1>2, <1>3
<1> QED BY <1>4 DEF UpTo

(* The pointer is never between the braces of a hole.                      *)
Outside == \A h \in DOMAIN template.holes : h < p => template.holes[h].next <= p

PageInv == TypeOK /\ OutFits /\ Outside /\ RendersPrefix

LEMMA PageInit == Init => PageInv
<1> SUFFICES ASSUME Init PROVE PageInv
  OBVIOUS
<1>1. TypeOK /\ OutFits
  BY TypeInit
<1>2. template \in Templates /\ p = 1 /\ out = <<>>
  BY DEF Init
<1>3. Outside
  BY <1>2, TemplateAssumption DEF Outside
<1>4. 1 \in 1 .. template.len + 1
  BY <1>2, TemplateAssumption
<1>5. Rendering[1] = <<>>
  BY <1>2, <1>4, RenderingTurns DEF Turn
<1> QED BY <1>1, <1>2, <1>3, <1>5 DEF PageInv, RendersPrefix

LEMMA PageNext ==
  ASSUME PageInv, [Next]_vars
  PROVE  PageInv'
<1>1. TypeOK' /\ OutFits'
  BY TypeNext DEF PageInv
<1>2. /\ template \in Templates /\ template.len \in Nat /\ p \in 1 .. template.len + 1
      /\ out = Rendering[p]
      /\ \A h \in DOMAIN template.holes :
           /\ h \in Nat /\ template.holes[h].next \in h + 4 .. template.len + 1
           /\ \A k \in DOMAIN template.holes : h < k => template.holes[h].next <= k
           /\ h < p => template.holes[h].next <= p
  BY TemplateAssumption DEF PageInv, TypeOK, Outside, RendersPrefix
<1>3. UNCHANGED <<template, value>> => Rendering' = Rendering
  BY DEF Rendering, ValueAt, ValueLen
<1>4. CASE CopyChar
  <2>1. /\ p <= template.len /\ p \notin DOMAIN template.holes
        /\ out' = Append(out, <<p, 0>>) /\ p' = p + 1 /\ UNCHANGED <<template, value>>
    BY <1>4 DEF CopyChar, IsHole, request
  <2>2. p + 1 \in 1 .. template.len + 1 /\ p + 1 # 1 /\ (p + 1) - 1 = p
    BY <1>2, <2>1
  <2>3. {h \in DOMAIN template.holes : h < p + 1 /\ p + 1 <= template.holes[h].next} = {}
    BY <1>2, <2>1
  <2>4. Turn(Rendering, p + 1) = Append(Rendering[p], <<p, 0>>)
    BY <2>2, <2>3 DEF Turn
  <2>5. Rendering[p + 1] = Append(Rendering[p], <<p, 0>>)
    BY <1>2, <2>2, <2>4, RenderingTurns
  <2>6. RendersPrefix'
    BY <1>2, <1>3, <2>1, <2>5 DEF RendersPrefix
  <2>7. Outside'
    BY <1>2, <2>1 DEF Outside
  <2> QED BY <1>1, <2>6, <2>7 DEF PageInv
<1>5. CASE CopyValue
  <2> DEFINE q == template.holes[p].next
             holes == {h \in DOMAIN template.holes : h < q /\ q <= template.holes[h].next}
  <2>1. /\ p \in DOMAIN template.holes
        /\ out' = out \o ValueAt(p) /\ p' = q /\ UNCHANGED <<template, value>>
    BY <1>5 DEF CopyValue, IsHole, request
  <2>2. q \in 1 .. template.len + 1 /\ q # 1 /\ p < q
    BY <1>2, <2>1
  <2>3. holes = {p}
    <3>1. p \in holes
      BY <1>2, <2>1, <2>2
    <3>2. ASSUME NEW h \in holes, h # p
          PROVE  FALSE
      <4>1. /\ h \in DOMAIN template.holes /\ h \in Nat /\ p \in Nat /\ q \in Nat
            /\ template.holes[h].next \in Nat /\ h < q /\ q <= template.holes[h].next
        BY <1>2, <2>1
      <4>2. CASE h < p
        BY <1>2, <2>2, <4>1, <4>2
      <4>3. CASE p < h
        BY <1>2, <2>1, <4>1, <4>3
      <4> QED BY <3>2, <4>1, <4>2, <4>3
    <3> QED BY <3>1, <3>2
  <2>4. Turn(Rendering, q) = Rendering[p] \o ValueAt(p)
    <3>1. (CHOOSE h \in holes : TRUE) = p
      BY <2>3
    <3> QED BY <2>2, <2>3, <3>1 DEF Turn
  <2>5. Rendering[q] = Rendering[p] \o ValueAt(p)
    BY <1>2, <2>2, <2>4, RenderingTurns
  <2>6. RendersPrefix'
    BY <1>2, <1>3, <2>1, <2>5 DEF RendersPrefix
  <2>7. ASSUME NEW h \in DOMAIN template.holes, h < q
        PROVE  template.holes[h].next <= q
    <3>1. h \in Nat /\ p \in Nat /\ q \in Nat /\ template.holes[h].next \in Nat
      BY <1>2, <2>1
    <3>2. CASE h < p
      BY <1>2, <2>1, <2>2, <3>1, <3>2
    <3>3. CASE p < h
      <4>1. q <= h
        BY <1>2, <2>1, <3>3
      <4> QED BY <2>7, <3>1, <4>1
    <3> QED BY <3>1, <3>2, <3>3
  <2>8. Outside'
    BY <2>1, <2>7 DEF Outside
  <2> QED BY <1>1, <2>6, <2>8 DEF PageInv
<1>6. CASE UNCHANGED <<template, value, p, out>>
  <2>1. RendersPrefix' /\ Outside'
    BY <1>2, <1>3, <1>6 DEF RendersPrefix, Outside
  <2> QED BY <1>1, <2>1 DEF PageInv
<1> QED BY <1>4, <1>5, <1>6 DEF Next, Break, EndOfTemplate, AddBody, vars, request

(* At every turn of the loop the output is the page up to the pointer, for *)
(* any template: no brace is left and no character is lost or doubled.     *)
THEOREM OutputIsPage == Spec => []RendersPrefix
<1>1. PageInv => RendersPrefix
  BY DEF PageInv
<1> QED BY <1>1, PageInit, PageNext, PTL DEF Spec

-----------------------------------------------------------------------------
(* Form: what is encoded is decoded.                                       *)

(* Four places in their order.                                             *)
FourPlaces(S, a, b, c, d) ==
  /\ a \in Nat /\ b \in Nat /\ c \in Nat /\ d \in Nat
  /\ a < b /\ b < c /\ c < d /\ S = {a, b, c, d}

(* A sequence of four.                                                     *)
IsRow(row, a, b, c, d) ==
  /\ DOMAIN row = 1 .. 4 /\ Len(row) = 4
  /\ row[1] = a /\ row[2] = b /\ row[3] = c /\ row[4] = d

(* Four places in order are the sequence of them.                          *)
LEMMA OrderedFour ==
  ASSUME NEW S, NEW a, NEW b, NEW c, NEW d, FourPlaces(S, a, b, c, d)
  PROVE  IsRow(Ordered(S), a, b, c, d)
<1> DEFINE upto(m) == {j \in S : j <= m}
<1> USE DEF FourPlaces
<1>1. upto(a) = {a} /\ upto(b) = {a} \cup {b} /\ upto(c) = ({a} \cup {b}) \cup {c}
      /\ upto(d) = (({a} \cup {b}) \cup {c}) \cup {d}
  OBVIOUS
<1>2. /\ IsFiniteSet({a}) /\ Cardinality({a}) = 1
      /\ IsFiniteSet({a} \cup {b}) /\ Cardinality({a} \cup {b}) = 2
      /\ IsFiniteSet(({a} \cup {b}) \cup {c}) /\ Cardinality(({a} \cup {b}) \cup {c}) = 3
      /\ Cardinality((({a} \cup {b}) \cup {c}) \cup {d}) = 4
  <2>1. IsFiniteSet({a}) /\ Cardinality({a}) = 1
    BY FS_Singleton
  <2>2. IsFiniteSet({a} \cup {b}) /\ Cardinality({a} \cup {b}) = 2
    <3>1. b \notin {a}
      OBVIOUS
    <3>2. IsFiniteSet({a} \cup {b}) /\ Cardinality({a} \cup {b}) = Cardinality({a}) + 1
      BY <2>1, <3>1, FS_AddElement, Zenon
    <3> QED BY <2>1, <3>2
  <2>3. IsFiniteSet(({a} \cup {b}) \cup {c}) /\ Cardinality(({a} \cup {b}) \cup {c}) = 3
    <3>1. c \notin {a} \cup {b}
      OBVIOUS
    <3>2. /\ IsFiniteSet(({a} \cup {b}) \cup {c})
          /\ Cardinality(({a} \cup {b}) \cup {c}) = Cardinality({a} \cup {b}) + 1
      BY <2>2, <3>1, FS_AddElement, Zenon
    <3> QED BY <2>2, <3>2
  <2>4. Cardinality((({a} \cup {b}) \cup {c}) \cup {d}) = 4
    <3>1. d \notin ({a} \cup {b}) \cup {c}
      OBVIOUS
    <3>2. Cardinality((({a} \cup {b}) \cup {c}) \cup {d}) = Cardinality(({a} \cup {b}) \cup {c}) + 1
      BY <2>3, <3>1, FS_AddElement, Zenon
    <3> QED BY <2>3, <3>2
  <2> QED BY <2>1, <2>2, <2>3, <2>4
<1>3. S = (({a} \cup {b}) \cup {c}) \cup {d}
  OBVIOUS
<1>4. Cardinality(S) = 4
  BY <1>2, <1>3
<1>5. Cardinality(upto(a)) = 1 /\ Cardinality(upto(b)) = 2 /\ Cardinality(upto(c)) = 3 /\ Cardinality(upto(d)) = 4
  BY <1>1, <1>2
<1>6. a \in S /\ b \in S /\ c \in S /\ d \in S /\ \A i \in S : i = a \/ i = b \/ i = c \/ i = d
  OBVIOUS
<1> HIDE DEF FourPlaces
<1>7. Ordered(S) = [k \in 1 .. 4 |-> CHOOSE i \in S : Cardinality(upto(i)) = k]
  BY <1>4 DEF Ordered
<1> HIDE DEF upto
<1>8. /\ (CHOOSE i \in S : Cardinality(upto(i)) = 1) = a
      /\ (CHOOSE i \in S : Cardinality(upto(i)) = 2) = b
      /\ (CHOOSE i \in S : Cardinality(upto(i)) = 3) = c
      /\ (CHOOSE i \in S : Cardinality(upto(i)) = 4) = d
  BY <1>5, <1>6
<1>9. DOMAIN Ordered(S) = 1 .. 4 /\ Ordered(S)[1] = a /\ Ordered(S)[2] = b /\ Ordered(S)[3] = c /\ Ordered(S)[4] = d
  BY <1>7, <1>8
<1>10. Len(Ordered(S)) = 4
  BY <1>7
<1> QED BY <1>9, <1>10 DEF IsRow

(* The code of a byte, and the bytes of codes.                             *)
Coded(c) ==
  CASE c \in Digits \cup Letters -> <<c>>
    [] c = Space -> <<Plus>>
    [] OTHER -> <<Percent, HexDigit(c \div 16), HexDigit(c % 16)>>

Safe == Digits \cup Letters \cup {Plus, Percent}

(* A digit of the browser is one of the decoder's, of the same value.      *)
LEMMA HexOfDigit ==
  ASSUME NEW n \in 0 .. 15
  PROVE  HexDigit(n) \in Safe /\ HexDigit(n) \in DOMAIN Hex /\ Hex[HexDigit(n)] = n
<1>1. CASE n < 10
  <2>1. HexDigit(n) = n + 48 /\ n + 48 \in Digits
    BY <1>1 DEF HexDigit, Digits
  <2>2. Hex[n + 48] = (n + 48) - 48 /\ n + 48 \in DOMAIN Hex
    BY <2>1 DEF Hex
  <2> QED BY <2>1, <2>2 DEF Safe
<1>2. CASE ~ (n < 10)
  <2>1. HexDigit(n) = n + 55 /\ n + 55 \in 65 .. 70 /\ n + 55 \notin Digits
    BY <1>2 DEF HexDigit, Digits
  <2>2. Hex[n + 55] = (n + 55) - 55 /\ n + 55 \in DOMAIN Hex
    BY <2>1 DEF Hex
  <2> QED BY <2>1, <2>2 DEF Safe, Letters
<1> QED BY <1>1, <1>2

(* The code of a byte, and what a decoder that stands on it takes.         *)
LEMMA CodedByte ==
  ASSUME NEW c \in 1 .. 255
  PROVE  /\ Coded(c) \in Seq(Safe)
         /\ \/ /\ Len(Coded(c)) = 1 /\ Coded(c)[1] # Percent
               /\ (IF Coded(c)[1] = Plus THEN Space ELSE Coded(c)[1]) = c
            \/ /\ Len(Coded(c)) = 3 /\ Coded(c)[1] = Percent
               /\ Coded(c)[2] \in DOMAIN Hex /\ Coded(c)[3] \in DOMAIN Hex
               /\ 16 * Hex[Coded(c)[2]] + Hex[Coded(c)[3]] = c
<1>1. CASE c \in Digits \cup Letters
  <2>0. c # Space
    BY <1>1 DEF Space, Digits, Letters
  <2>1. Coded(c) = <<c>>
    BY <1>1, <2>0 DEF Coded
  <2>2. c # Percent /\ c # Plus
    BY <1>1 DEF Digits, Letters, Percent, Plus
  <2>3. c \in Safe
    BY <1>1 DEF Safe
  <2> QED BY <2>1, <2>2, <2>3
<1>2. CASE c = Space
  <2>1. c \notin Digits \cup Letters
    BY <1>2 DEF Space, Digits, Letters
  <2>2. Coded(c) = <<Plus>>
    BY <1>2, <2>1 DEF Coded
  <2>3. Plus # Percent /\ Plus \in Safe
    BY DEF Plus, Percent, Safe
  <2> QED BY <1>2, <2>2, <2>3
<1>3. CASE c # Space /\ c \notin Digits \cup Letters
  <2>1. Coded(c) = <<Percent, HexDigit(c \div 16), HexDigit(c % 16)>>
    BY <1>3 DEF Coded
  <2>2. c \div 16 \in 0 .. 15 /\ c % 16 \in 0 .. 15 /\ 16 * (c \div 16) + (c % 16) = c
    OBVIOUS
  <2>3. Percent \in Safe
    BY DEF Safe
  <2> DEFINE x == HexDigit(c \div 16)  y == HexDigit(c % 16)
  <2>4. x \in Safe /\ x \in DOMAIN Hex /\ Hex[x] = c \div 16
    BY <2>2, HexOfDigit
  <2>5. y \in Safe /\ y \in DOMAIN Hex /\ Hex[y] = c % 16
    BY <2>2, HexOfDigit
  <2>6. Coded(c) = <<Percent, x, y>>
    BY <2>1
  <2> HIDE DEF x, y
  <2>7. 16 * Hex[x] + Hex[y] = c
    BY <2>2, <2>4, <2>5
  <2>8. <<Percent, x, y>> \in Seq(Safe) /\ Len(<<Percent, x, y>>) = 3
    BY <2>3, <2>4, <2>5
  <2> QED BY <2>4, <2>5, <2>6, <2>7, <2>8
<1> QED BY <1>1, <1>2, <1>3

(* urldecode: what it makes of the rest of a text, from every place on.    *)
DecodeTurn(f, src, i) ==
  IF i > Len(src) THEN <<>>
  ELSE IF /\ src[i] = Percent /\ i + 2 <= Len(src)
          /\ src[i + 1] \in DOMAIN Hex /\ src[i + 2] \in DOMAIN Hex
       THEN <<16 * Hex[src[i + 1]] + Hex[src[i + 2]]>> \o f[i + 3]
       ELSE <<IF src[i] = Plus THEN Space ELSE src[i]>> \o f[i + 1]

(* Such a function from a place on.                                        *)
FromPlace(f, src, k) == f = [i \in k .. Len(src) + 1 |-> DecodeTurn(f, src, i)]

(* There is one from every place on: by the greatest place without one.    *)
LEMMA FromPlaceExists ==
  ASSUME NEW src, NEW n \in Nat, Len(src) = n, NEW k \in 1 .. n + 1
  PROVE  \E f : FromPlace(f, src, k)
<1> DEFINE without == {d \in 0 .. n : ~ \E f : FromPlace(f, src, n + 1 - d)}
<1>1. without = {}
  <2> SUFFICES ASSUME without # {} PROVE FALSE
    OBVIOUS
  <2>1. PICK d \in without : \A j \in without : d <= j
    <3>1. without \in SUBSET Nat
      OBVIOUS
    <3> HIDE DEF without
    <3> QED BY <3>1, NatHasLeast
  <2>2. d \in 0 .. n /\ ~ \E f : FromPlace(f, src, n + 1 - d)
    BY <2>1
  <2>3. d # 0 => d - 1 \in 0 .. n /\ d - 1 < d
    BY <2>2
  <2>4. d # 0 => \E f : FromPlace(f, src, n + 1 - (d - 1))
    <3>1. d # 0 => d - 1 \notin without
      <4> HIDE DEF without
      <4> QED BY <2>1, <2>2, <2>3
    <3>2. d - 1 \in 0 .. n /\ d - 1 \notin without => \E f : FromPlace(f, src, n + 1 - (d - 1))
      BY Zenon
    <3> QED BY <2>3, <3>1, <3>2
  <2> HIDE DEF without
  <2>5. d # 0
    <3> SUFFICES ASSUME d = 0 PROVE FALSE
      OBVIOUS
    <3> DEFINE f == [i \in n + 1 .. n + 1 |-> <<>>]
    <3>1. f = [i \in n + 1 .. Len(src) + 1 |-> DecodeTurn(f, src, i)]
      <4>1. \A i \in n + 1 .. n + 1 : DecodeTurn(f, src, i) = <<>>
        BY DEF DecodeTurn
      <4> HIDE DEF DecodeTurn
      <4> QED BY <4>1
    <3>2. FromPlace(f, src, n + 1)
      BY <3>1 DEF FromPlace
    <3>3. n + 1 - d = n + 1
      OBVIOUS
    <3> QED BY <2>2, <3>2, <3>3
  <2> DEFINE m == n + 1 - d
  <2>6. m \in 1 .. n /\ n + 1 - (d - 1) = m + 1
    BY <2>2, <2>5
  <2>7. PICK f : FromPlace(f, src, m + 1)
    BY <2>4, <2>5, <2>6
  <2> HIDE DEF m
  <2>8. \A i \in m + 1 .. n + 1 : f[i] = DecodeTurn(f, src, i)
    <3>1. f = [i \in m + 1 .. n + 1 |-> DecodeTurn(f, src, i)]
      BY <2>7 DEF FromPlace
    <3> QED BY <3>1
  <2> DEFINE h == [i \in m .. n + 1 |-> IF i = m THEN DecodeTurn(f, src, m) ELSE f[i]]
  <2>9. h[m] = DecodeTurn(f, src, m) /\ \A i \in m + 1 .. n + 1 : h[i] = f[i]
    BY <2>6
  <2>10. h = [i \in m .. n + 1 |-> h[i]]
    OBVIOUS
  <2> HIDE DEF h
  <2>11. \A i \in m .. n + 1 : DecodeTurn(h, src, i) = DecodeTurn(f, src, i)
    <3> TAKE i \in m .. n + 1
    <3>1. i <= n => i + 1 \in m + 1 .. n + 1
      BY <2>6
    <3>2. i + 2 <= n => i + 3 \in m + 1 .. n + 1
      BY <2>6
    <3>3. i <= n => h[i + 1] = f[i + 1]
      BY <2>9, <3>1
    <3>4. i + 2 <= n => h[i + 3] = f[i + 3]
      BY <2>9, <3>2
    <3>5. ~ (i > Len(src)) => i <= n
      BY <2>6
    <3> QED BY <3>3, <3>4, <3>5 DEF DecodeTurn
  <2>12. \A i \in m .. n + 1 : h[i] = DecodeTurn(h, src, i)
    <3> TAKE i \in m .. n + 1
    <3>1. i # m => i \in m + 1 .. n + 1
      BY <2>6
    <3>2. i # m => h[i] = f[i] /\ f[i] = DecodeTurn(f, src, i)
      BY <2>8, <2>9, <3>1
    <3> QED BY <2>9, <2>11, <3>2
  <2>13. h = [i \in m .. n + 1 |-> DecodeTurn(h, src, i)]
    BY <2>10, <2>12
  <2>14. FromPlace(h, src, m)
    BY <2>13 DEF FromPlace
  <2> QED BY <2>2, <2>14 DEF m
<1>2. n + 1 - k \in 0 .. n /\ n + 1 - (n + 1 - k) = k
  OBVIOUS
<1> QED BY <1>1, <1>2

(* What urldecode returns obeys the equation at every place.               *)
LEMMA DecodedFromPlaces ==
  ASSUME NEW src, NEW n \in Nat, Len(src) = n
  PROVE  \E f : urldecode(src) = f[1] /\ \A i \in 1 .. n + 1 : f[i] = DecodeTurn(f, src, i)
<1> DEFINE f == CHOOSE f : FromPlace(f, src, 1)
<1>1. FromPlace(f, src, 1)
  <2>1. 1 \in 1 .. n + 1
    OBVIOUS
  <2> QED BY <2>1, FromPlaceExists
<1>2. urldecode(src) = f[1]
  BY DEF urldecode, FromPlace, DecodeTurn
<1> HIDE DEF f
<1>3. f = [i \in 1 .. n + 1 |-> DecodeTurn(f, src, i)]
  BY <1>1 DEF FromPlace
<1>4. \A i \in 1 .. n + 1 : f[i] = DecodeTurn(f, src, i)
  BY <1>3
<1> QED BY <1>2, <1>4

(* A code is finite.                                                       *)
LEMMA CodeLength ==
  ASSUME NEW c \in 1 .. 255
  PROVE  Len(Coded(c)) \in Nat
<1>1. Len(Coded(c)) = 1 \/ Len(Coded(c)) = 3
  BY CodedByte, Zenon
<1> QED BY <1>1

(* Behind the first q bytes comes the code of a byte.                      *)
CodeStands(src, q, c) ==
  /\ Len(src) \in Nat /\ q + Len(Coded(c)) <= Len(src)
  /\ \A j \in 1 .. Len(Coded(c)) : src[q + j] = Coded(c)[j]

(* On the code of a byte the decoder takes the byte and goes on behind it. *)
LEMMA TurnTakesByte ==
  ASSUME NEW f, NEW src, NEW q \in Nat, NEW c \in 1 .. 255, CodeStands(src, q, c)
  PROVE  DecodeTurn(f, src, q + 1) = <<c>> \o f[q + Len(Coded(c)) + 1]
<1> DEFINE n == Len(src)
<1>0. /\ n \in Nat /\ q + Len(Coded(c)) <= n
      /\ \A j \in 1 .. Len(Coded(c)) : src[q + j] = Coded(c)[j]
  BY DEF CodeStands
<1>1. CASE /\ Len(Coded(c)) = 1 /\ Coded(c)[1] # Percent
           /\ (IF Coded(c)[1] = Plus THEN Space ELSE Coded(c)[1]) = c
  <2>1. src[q + 1] = Coded(c)[1] /\ q + 1 <= n
    BY <1>0, <1>1
  <2>2. ~ (q + 1 > Len(src)) /\ q + 1 + 1 = q + Len(Coded(c)) + 1
    BY <1>0, <1>1, <2>1
  <2>3. DecodeTurn(f, src, q + 1) = <<IF src[q + 1] = Plus THEN Space ELSE src[q + 1]>> \o f[q + 1 + 1]
    BY <1>1, <2>1, <2>2, Zenon DEF DecodeTurn
  <2> QED BY <1>1, <2>1, <2>2, <2>3, Zenon
<1>2. CASE /\ Len(Coded(c)) = 3 /\ Coded(c)[1] = Percent
           /\ Coded(c)[2] \in DOMAIN Hex /\ Coded(c)[3] \in DOMAIN Hex
           /\ 16 * Hex[Coded(c)[2]] + Hex[Coded(c)[3]] = c
  <2>1. src[q + 1] = Coded(c)[1] /\ src[q + 2] = Coded(c)[2] /\ src[q + 3] = Coded(c)[3] /\ q + 3 <= n
    <3>1. 1 \in 1 .. Len(Coded(c)) /\ 2 \in 1 .. Len(Coded(c)) /\ 3 \in 1 .. Len(Coded(c))
      BY <1>2
    <3> QED BY <1>0, <1>2, <3>1
  <2>2. /\ ~ (q + 1 > Len(src)) /\ q + 1 + 2 <= Len(src) /\ q + 1 + 3 = q + Len(Coded(c)) + 1
        /\ q + 1 + 1 = q + 2 /\ q + 1 + 2 = q + 3
    BY <1>0, <1>2, <2>1
  <2>3. src[q + 1 + 1] = Coded(c)[2] /\ src[q + 1 + 2] = Coded(c)[3]
    BY <2>1, <2>2, Zenon
  <2>4. DecodeTurn(f, src, q + 1) =
          <<16 * Hex[src[q + 1 + 1]] + Hex[src[q + 1 + 2]]>> \o f[q + 1 + 3]
    BY <1>2, <2>1, <2>2, <2>3, Zenon DEF DecodeTurn
  <2> QED BY <1>2, <2>2, <2>3, <2>4, Zenon
<1> QED BY <1>1, <1>2, CodedByte

(* What can be typed.                                                      *)
Typeable == Seq(1 .. 255)

(* What the browser encodes has no byte that means something to the server *)
(* before it is decoded, and decoded it is what was typed.                 *)
LEMMA EncodedIsDecoded ==
  ASSUME NEW t \in Typeable
  PROVE  Encoded(t) \in Seq(Safe) /\ urldecode(Encoded(t)) = t
<1> DEFINE n == Len(t)  codes == [i \in DOMAIN t |-> Coded(t[i])]
<1>1. n \in Nat /\ DOMAIN t = 1 .. n /\ \A i \in 1 .. n : t[i] \in 1 .. 255
  BY LenProperties, ElementOfSeq DEF Typeable
<1>2. Encoded(t) = FlattenSeq(codes)
  BY DEF Encoded, Coded
<1>3. \A i \in 1 .. n : codes[i] = Coded(t[i]) /\ Coded(t[i]) \in Seq(Safe)
  BY <1>1, CodedByte
<1>4. codes \in Seq(Seq(Safe)) /\ Len(codes) = n
  <2>1. codes = [i \in 1 .. n |-> Coded(t[i])]
    BY <1>1
  <2> HIDE DEF codes, n
  <2> QED BY <1>1, <1>3, <2>1
<1>5. Encoded(t) \in Seq(Safe)
  <2> HIDE DEF codes
  <2> QED BY <1>2, <1>4, FlattenType
<1>6. PICK f : /\ urldecode(Encoded(t)) = f[1]
               /\ \A i \in 1 .. Len(Encoded(t)) + 1 : f[i] = DecodeTurn(f, Encoded(t), i)
  <2>1. Len(Encoded(t)) \in Nat
    BY <1>5, LenProperties
  <2> QED BY <2>1, DecodedFromPlaces
<1> HIDE DEF codes
<1>7. CASE n = 0
  <2>1. t = <<>>
    BY <1>7, EmptySeq DEF Typeable
  <2>2. codes = <<>>
    BY <1>4, <1>7, EmptySeq
  <2>3. Encoded(t) = <<>> /\ Len(Encoded(t)) = 0
    BY <1>2, <2>2, FlattenNothing
  <2>4. f[1] = DecodeTurn(f, Encoded(t), 1)
    BY <1>6, <2>3
  <2>5. DecodeTurn(f, Encoded(t), 1) = <<>>
    BY <2>3 DEF DecodeTurn
  <2> QED BY <1>5, <1>6, <2>1, <2>4, <2>5
<1>8. CASE n # 0
  <2> DEFINE src == Encoded(t)
  <2>11. PICK pos : Ends(pos, codes, n)
    <3>1. n \in Nat \ {0}
      BY <1>1, <1>8
    <3>2. Strings(codes, n, Safe)
      BY <1>3 DEF Strings
    <3>3. Len(codes) = n
      BY <1>4
    <3> HIDE DEF n
    <3> QED BY <3>1, <3>2, <3>3, FlattenPlaces
  <2>1. /\ pos[0] = 0 /\ pos[n] = Len(FlattenSeq(codes))
        /\ \A i \in 1 .. n :
             /\ pos[i] = pos[i - 1] + Len(codes[i]) /\ pos[i] <= pos[n]
             /\ \A j \in 1 .. Len(codes[i]) : FlattenSeq(codes)[pos[i - 1] + j] = codes[i][j]
    BY <2>11 DEF Ends
  <2>9. pos[n] = Len(src) /\ src = FlattenSeq(codes)
    BY <1>2, <2>1
  <2>10. \A i \in 0 .. n : pos[i] \in Nat
    BY <2>11 DEF Ends
  <2> HIDE DEF src
  <2> DEFINE whole(i) == f[pos[i] + 1] = SubSeq(t, i + 1, n)
             left == {d \in 0 .. n : ~ whole(n - d)}
  <2>2. whole(n)
    <3>1. pos[n] \in Nat /\ pos[n] + 1 > Len(src) /\ pos[n] + 1 \in 1 .. Len(src) + 1
      BY <1>1, <2>9, <2>10
    <3>2. f[pos[n] + 1] = <<>>
      BY <1>6, <3>1, Zenon DEF DecodeTurn, src
    <3>3. SubSeq(t, n + 1, n) = <<>>
      BY <1>1, SubSeqEmpty
    <3> QED BY <3>2, <3>3
  <2>3. ASSUME NEW i \in 1 .. n, whole(i) PROVE whole(i - 1)
    <3> DEFINE c == t[i]
    <3>1. c \in 1 .. 255 /\ i - 1 \in 0 .. n /\ pos[i - 1] \in Nat /\ pos[i] \in Nat /\ pos[n] \in Nat
      BY <1>1, <2>10
    <3>2. codes[i] = Coded(c)
      BY <1>3
    <3>3. /\ pos[i] = pos[i - 1] + Len(Coded(c)) /\ pos[i] <= Len(src)
          /\ \A j \in 1 .. Len(Coded(c)) : src[pos[i - 1] + j] = Coded(c)[j]
      BY <2>1, <2>9, <3>2
    <3>4. f[pos[i] + 1] = SubSeq(t, i + 1, n)
      BY <2>3
    <3>5. Len(src) \in Nat /\ Len(Coded(c)) \in Nat
      <4> HIDE DEF c, n, whole, left
      <4>1. Len(Coded(c)) \in Nat
        BY <3>1, CodeLength
      <4> QED BY <2>9, <3>1, <4>1
    <3> HIDE DEF c, n
    <3>6. DecodeTurn(f, src, pos[i - 1] + 1) = <<c>> \o f[pos[i] + 1]
      <4>1. CodeStands(src, pos[i - 1], c)
        BY <3>3, <3>5 DEF CodeStands
      <4>2. DecodeTurn(f, src, pos[i - 1] + 1) = <<c>> \o f[pos[i - 1] + Len(Coded(c)) + 1]
        BY <3>1, <4>1, TurnTakesByte
      <4> QED BY <3>3, <4>2, Zenon
    <3>7. pos[i - 1] + 1 \in 1 .. Len(src) + 1
      BY <3>1, <3>3, <3>5
    <3>8. f[pos[i - 1] + 1] = <<c>> \o SubSeq(t, i + 1, n)
      BY <1>6, <3>4, <3>6, <3>7, Zenon DEF src
    <3>9. SubSeq(t, i, n) = <<t[i]>> \o SubSeq(t, i + 1, n)
      <4>1. i \in 1 .. Len(t) /\ n \in i .. Len(t)
        BY <1>1 DEF n
      <4> QED BY <4>1, SubSeqRecursiveFirst DEF Typeable
    <3>10. (i - 1) + 1 = i
      OBVIOUS
    <3> QED BY <3>8, <3>9, <3>10, Zenon DEF c
  <2>4. left = {}
    <3> SUFFICES ASSUME left # {} PROVE FALSE
      OBVIOUS
    <3> HIDE DEF whole
    <3>1. left \in SUBSET Nat
      BY <1>1
    <3>2. PICK d \in left : \A j \in left : d <= j
      <4> HIDE DEF left
      <4> QED BY <3>1, NatHasLeast
    <3>3. d \in 0 .. n /\ ~ whole(n - d)
      OBVIOUS
    <3>4. d # 0
      <4>1. d = 0 => n - d = n
        BY <1>1
      <4> QED BY <2>2, <3>3, <4>1
    <3>5. d - 1 \in 0 .. n /\ n - (d - 1) \in 1 .. n /\ n - (d - 1) - 1 = n - d
      BY <1>1, <3>3, <3>4
    <3>6. d - 1 \notin left
      <4> HIDE DEF left
      <4> QED BY <3>2, <3>3, <3>5
    <3>7. whole(n - (d - 1))
      BY <3>5, <3>6
    <3>8. whole(n - (d - 1) - 1)
      <4> HIDE DEF n, left
      <4> QED BY <2>3, <3>5, <3>7, Zenon
    <3> QED BY <3>3, <3>5, <3>8
  <2>5. whole(0)
    <3>1. n \in 0 .. n /\ n - n = 0
      BY <1>1
    <3>2. whole(n - n)
      <4> HIDE DEF whole, n
      <4> QED BY <2>4, <3>1, Zenon
    <3> QED BY <3>1, <3>2
  <2>6. f[1] = SubSeq(t, 1, n)
    <3>1. pos[0] + 1 = 1 /\ 0 + 1 = 1
      BY <2>1
    <3> QED BY <2>5, <3>1
  <2>7. SubSeq(t, 1, n) = t
    BY SubSeqFull DEF Typeable
  <2> QED BY <1>5, <1>6, <2>6, <2>7
<1> QED BY <1>7, <1>8

(* strtok_r over four runs of bytes with a separator between any two.      *)
LEMMA FourTokens ==
  ASSUME NEW s, NEW a \in Nat, NEW b \in Nat, NEW c \in Nat, NEW d \in Nat,
         0 < a, a + 1 < b, b + 1 < c, c + 1 < d, DOMAIN s = 1 .. d,
         \A i \in 1 .. d : s[i] \in Separators <=> i \in {a + 1, b + 1, c + 1}
  PROVE  IsRow(Tokens(s), SubSeq(s, 1, a), SubSeq(s, a + 2, b), SubSeq(s, b + 2, c),
               SubSeq(s, c + 2, d))
<1> DEFINE inside == {i \in DOMAIN s : s[i] \notin Separators}
           firsts == {i \in inside : i - 1 \notin inside}
           ends   == {i \in inside : i + 1 \notin inside}
           first  == Ordered(firsts)
           last   == Ordered(ends)
<1>1. \A i \in Int : i \in inside <=> i \in 1 .. d /\ i \notin {a + 1, b + 1, c + 1}
  OBVIOUS
<1>2. inside \subseteq Int
  OBVIOUS
<1> HIDE DEF inside
<1>3. firsts = {1, a + 2, b + 2, c + 2}
  <2>1. \A i \in Int : i \in firsts <=> i \in {1, a + 2, b + 2, c + 2}
    <3> TAKE i \in Int
    <3>1. i \in firsts <=> i \in inside /\ i - 1 \notin inside
      OBVIOUS
    <3>2. i \in inside <=> i \in 1 .. d /\ i \notin {a + 1, b + 1, c + 1}
      BY <1>1
    <3>3. i - 1 \in inside <=> i - 1 \in 1 .. d /\ i - 1 \notin {a + 1, b + 1, c + 1}
      BY <1>1
    <3> HIDE DEF firsts
    <3> QED BY <3>1, <3>2, <3>3
  <2>2. firsts \subseteq Int
    BY <1>2
  <2>3. {1, a + 2, b + 2, c + 2} \subseteq Int
    OBVIOUS
  <2> HIDE DEF firsts
  <2> QED BY <2>1, <2>2, <2>3, Zenon
<1>4. ends = {a, b, c, d}
  <2>1. \A i \in Int : i \in ends <=> i \in {a, b, c, d}
    <3> TAKE i \in Int
    <3>1. i \in ends <=> i \in inside /\ i + 1 \notin inside
      OBVIOUS
    <3>2. i \in inside <=> i \in 1 .. d /\ i \notin {a + 1, b + 1, c + 1}
      BY <1>1
    <3>3. i + 1 \in inside <=> i + 1 \in 1 .. d /\ i + 1 \notin {a + 1, b + 1, c + 1}
      BY <1>1
    <3> HIDE DEF ends
    <3> QED BY <3>1, <3>2, <3>3
  <2>2. ends \subseteq Int
    BY <1>2
  <2>3. {a, b, c, d} \subseteq Int
    OBVIOUS
  <2> HIDE DEF ends
  <2> QED BY <2>1, <2>2, <2>3, Zenon
<1> HIDE DEF firsts, ends
<1>5. IsRow(first, 1, a + 2, b + 2, c + 2)
  <2>1. FourPlaces(firsts, 1, a + 2, b + 2, c + 2)
    BY <1>3 DEF FourPlaces
  <2> QED BY <2>1, OrderedFour
<1>6. IsRow(last, a, b, c, d)
  <2>1. FourPlaces(ends, a, b, c, d)
    BY <1>4 DEF FourPlaces
  <2> QED BY <2>1, OrderedFour
<1>7. Tokens(s) = [k \in DOMAIN first |-> SubSeq(s, first[k], last[k])]
  BY DEF Tokens, inside, firsts, ends
<1> HIDE DEF first, last
<1>8. DOMAIN Tokens(s) = DOMAIN first /\ \A k \in DOMAIN first : Tokens(s)[k] = SubSeq(s, first[k], last[k])
  BY <1>7, Zenon
<1>9. 1 \in 1 .. 4 /\ 2 \in 1 .. 4 /\ 3 \in 1 .. 4 /\ 4 \in 1 .. 4
  OBVIOUS
<1>10. Len(Tokens(s)) = 4
  BY <1>5, <1>7 DEF IsRow
<1> QED BY <1>5, <1>6, <1>8, <1>9, <1>10, Zenon DEF IsRow

(* A token of the form: the name, the sign of equality and the code.       *)
TokenStands(s, q, k, e) ==
  s[q + 1] = k /\ s[q + 2] = Eq /\ \A j \in 1 .. Len(e) : s[q + 2 + j] = e[j]

LEMMA TokenIsCut ==
  ASSUME NEW s, NEW q \in Nat, NEW k \in Nat, NEW e \in Seq(Nat), TokenStands(s, q, k, e)
  PROVE  SubSeq(s, q + 1, q + 2 + Len(e)) = <<k, Eq>> \o e
<1> DEFINE m == Len(e)  cut == SubSeq(s, q + 1, q + 2 + m)  all == <<k, Eq>> \o e
<1>1. m \in Nat /\ \A j \in 1 .. m : e[j] \in Nat
  BY LenProperties, ElementOfSeq
<1>2. Eq \in Nat /\ <<k, Eq>> \in Seq(Nat) /\ Len(<<k, Eq>>) = 2 /\ <<k, Eq>>[1] = k /\ <<k, Eq>>[2] = Eq
  BY DEF Eq
<1>3. /\ all \in Seq(Nat) /\ Len(all) = 2 + m
      /\ \A i \in 1 .. 2 + m : all[i] = IF i <= 2 THEN <<k, Eq>>[i] ELSE e[i - 2]
  BY <1>2, ConcatProperties
<1>4. s[q + 1] = k /\ s[q + 2] = Eq /\ \A j \in 1 .. m : s[q + 2 + j] = e[j]
  BY DEF TokenStands
<1> HIDE DEF m, all
<1>5. \A i \in 1 .. 2 + m : all[i] = s[q + 1 + i - 1] /\ all[i] \in Nat
  <2> TAKE i \in 1 .. 2 + m
  <2>1. CASE i = 1
    <3>1. q + 1 + i - 1 = q + 1 /\ i <= 2
      BY <2>1
    <3> QED BY <1>1, <1>2, <1>3, <1>4, <2>1, <3>1
  <2>2. CASE i = 2
    <3>1. q + 1 + i - 1 = q + 2 /\ i <= 2
      BY <2>2
    <3> QED BY <1>1, <1>2, <1>3, <1>4, <2>2, <3>1
  <2>3. CASE i # 1 /\ i # 2
    <3>1. i - 2 \in 1 .. m /\ q + 2 + (i - 2) = q + 1 + i - 1 /\ ~ (i <= 2)
      BY <1>1, <2>3
    <3>2. all[i] = e[i - 2]
      BY <1>3, <3>1
    <3>3. s[q + 2 + (i - 2)] = e[i - 2] /\ e[i - 2] \in Nat
      BY <1>1, <1>4, <3>1
    <3> QED BY <3>1, <3>2, <3>3
  <2> QED BY <2>1, <2>2, <2>3
<1>6. \A i \in q + 1 .. q + 2 + m : s[i] \in Nat
  <2> TAKE i \in q + 1 .. q + 2 + m
  <2>1. i - q \in 1 .. 2 + m /\ q + 1 + (i - q) - 1 = i
    BY <1>1
  <2> QED BY <1>5, <2>1
<1>7. /\ cut \in Seq(Nat) /\ Len(cut) = 2 + m
      /\ \A i \in 1 .. 2 + m : cut[i] = s[q + 1 + i - 1]
  <2>1. q + 1 \in Int /\ q + 2 + m \in Int /\ q + 1 <= q + 2 + m /\ (q + 2 + m) - (q + 1) + 1 = 2 + m
    BY <1>1
  <2>2. /\ cut \in Seq(Nat) /\ Len(cut) = IF q + 1 <= q + 2 + m THEN (q + 2 + m) - (q + 1) + 1 ELSE 0
        /\ \A i \in 1 .. (q + 2 + m) - (q + 1) + 1 : cut[i] = s[q + 1 + i - 1]
    BY <1>6, <2>1, SubSeqProperties
  <2> QED BY <2>1, <2>2
<1> HIDE DEF cut
<1>8. cut = all
  BY <1>3, <1>5, <1>7, SeqEqual
<1> QED BY <1>8 DEF cut, all, m

(* No byte of a code separates tokens.                                     *)
LEMMA SafeBytes == Safe \subseteq Nat /\ \A c \in Safe : c \notin Separators
BY DEF Safe, Digits, Letters, Percent, Plus, Separators

(* The names of the fields, as they are sent.                              *)
LEMMA FieldKeys ==
  /\ DOMAIN Fields = 1 .. 4 /\ Len(Fields) = 4
  /\ Fields[1] = "name" /\ Fields[2] = "email" /\ Fields[3] = "cpf" /\ Fields[4] = "password"
  /\ Key["name"] = 110 /\ Key["email"] = 101 /\ Key["cpf"] = 99 /\ Key["password"] = 112
  /\ \A i \in 1 .. 4 : Key[Fields[i]] \in Nat /\ Key[Fields[i]] # Eq /\ Key[Fields[i]] \notin Separators
<1>1. DOMAIN Fields = 1 .. 4 /\ Len(Fields) = 4
  BY DEF Fields
<1>2. Fields[1] = "name" /\ Fields[2] = "email" /\ Fields[3] = "cpf" /\ Fields[4] = "password"
  BY DEF Fields
<1>3. Key["name"] = 110 /\ Key["email"] = 101 /\ Key["cpf"] = 99 /\ Key["password"] = 112
  BY DEF Key
<1>4. \A n \in {110, 101, 99, 112} : n \in Nat /\ n # Eq /\ n \notin Separators
  BY DEF Eq, Separators
<1>5. \A i \in 1 .. 4 : i = 1 \/ i = 2 \/ i = 3 \/ i = 4
  OBVIOUS
<1>6. \A i \in 1 .. 4 : Key[Fields[i]] \in {110, 101, 99, 112}
  BY <1>2, <1>3, <1>5
<1> QED BY <1>1, <1>2, <1>3, <1>4, <1>6

(* No byte of a token separates tokens.                                    *)
LEMMA TokenIsClean ==
  ASSUME NEW s, NEW q \in Nat, NEW k \in Nat \ Separators, NEW e \in Seq(Safe), TokenStands(s, q, k, e)
  PROVE  \A i \in q + 1 .. q + 2 + Len(e) : s[i] \notin Separators
<1> DEFINE m == Len(e)
<1>1. m \in Nat /\ \A j \in 1 .. m : e[j] \in Safe
  BY LenProperties, ElementOfSeq
<1>2. s[q + 1] = k /\ s[q + 2] = Eq /\ \A j \in 1 .. m : s[q + 2 + j] = e[j]
  BY DEF TokenStands
<1>3. k \notin Separators /\ Eq \notin Separators
  BY DEF Eq, Separators
<1> HIDE DEF m
<1>4. ASSUME NEW i \in q + 1 .. q + 2 + m
      PROVE  s[i] \notin Separators
  <2>1. i = q + 1 \/ i = q + 2 \/ (i - (q + 2) \in 1 .. m /\ q + 2 + (i - (q + 2)) = i)
    BY <1>1
  <2>2. i - (q + 2) \in 1 .. m => s[q + 2 + (i - (q + 2))] \in Safe
    BY <1>1, <1>2
  <2> QED BY <1>2, <1>3, <2>1, <2>2, SafeBytes
<1> QED BY <1>4 DEF m

-----------------------------------------------------------------------------
(* The body: the fields' tokens, with a separator before all but the first. *)
Code(i) == Encoded(typed[Fields[i]])
FormPart(i) == (IF i = 1 THEN <<>> ELSE <<38>>) \o <<Key[Fields[i]], Eq>> \o Code(i)
TypedIsText == \A i \in 1 .. 4 : typed[Fields[i]] \in Typeable

(* A part is a token, all but the first behind its separator.              *)
LEMMA PartOfBody ==
  ASSUME TypedIsText, NEW i \in 1 .. 4
  PROVE  /\ Code(i) \in Seq(Safe) /\ Code(i) \in Seq(Nat) /\ Len(Code(i)) \in Nat
         /\ FormPart(i) \in Seq(Nat)
         /\ i = 1 => /\ Len(FormPart(i)) = 2 + Len(Code(i))
                     /\ TokenStands(FormPart(i), 0, Key[Fields[i]], Code(i))
         /\ i # 1 => /\ Len(FormPart(i)) = 3 + Len(Code(i)) /\ FormPart(i)[1] = 38
                     /\ TokenStands(FormPart(i), 1, Key[Fields[i]], Code(i))
<1> DEFINE k == Key[Fields[i]]  e == Code(i)
<1>1. e \in Seq(Safe)
  BY EncodedIsDecoded DEF TypedIsText, Code
<1>2. e \in Seq(Nat) /\ Len(e) \in Nat
  <2>1. \A T : Safe \subseteq T => e \in Seq(T)
    BY <1>1, SeqMonotonic
  <2> QED BY <1>1, <2>1, SafeBytes, LenProperties
<1>3. k \in Nat /\ Eq \in Nat
  BY FieldKeys DEF Eq
<1>4. FormPart(i) = ((IF i = 1 THEN <<>> ELSE <<38>>) \o <<k, Eq>>) \o e
  BY DEF FormPart
<1> HIDE DEF k, e
<1>5. CASE i = 1
  <2>1. <<>> \o <<k, Eq>> = <<k, Eq>> /\ <<k, Eq>> \in Seq(Nat) /\ Len(<<k, Eq>>) = 2
    BY <1>3
  <2>2. FormPart(i) = <<k, Eq>> \o e
    BY <1>4, <1>5, <2>1
  <2> DEFINE all == <<k, Eq>> \o e
  <2>3. /\ all \in Seq(Nat) /\ Len(all) = 2 + Len(e)
        /\ \A j \in 1 .. 2 + Len(e) : all[j] = IF j <= 2 THEN <<k, Eq>>[j] ELSE e[j - 2]
    BY <1>2, <2>1, ConcatProperties
  <2>4. all[1] = k /\ all[2] = Eq /\ \A j \in 1 .. Len(e) : all[2 + j] = e[j]
    <3> HIDE DEF all
    <3>1. 1 \in 1 .. 2 + Len(e) /\ 2 \in 1 .. 2 + Len(e)
      BY <1>2
    <3>2. \A j \in 1 .. Len(e) : 2 + j \in 1 .. 2 + Len(e) /\ ~ (2 + j <= 2) /\ (2 + j) - 2 = j
      BY <1>2
    <3> QED BY <2>3, <3>1, <3>2
  <2>5. TokenStands(all, 0, k, e)
    <3> HIDE DEF all
    <3>1. 0 + 1 = 1 /\ 0 + 2 = 2
      OBVIOUS
    <3> QED BY <2>4, <3>1 DEF TokenStands
  <2> QED BY <1>1, <1>2, <1>5, <2>2, <2>3, <2>5 DEF k, e
<1>6. CASE i # 1
  <2>1. <<38>> \o <<k, Eq>> = <<38, k, Eq>> /\ <<38, k, Eq>> \in Seq(Nat) /\ Len(<<38, k, Eq>>) = 3
    <3>1. <<38, k, Eq>> \in Seq(Nat) /\ Len(<<38, k, Eq>>) = 3
      BY <1>3
    <3>2. <<38, k, Eq>> = <<38>> \o <<k, Eq>>
      OBVIOUS
    <3> QED BY <3>1, <3>2
  <2>2. FormPart(i) = <<38, k, Eq>> \o e
    BY <1>4, <1>6, <2>1
  <2> DEFINE all == <<38, k, Eq>> \o e
  <2>3. /\ all \in Seq(Nat) /\ Len(all) = 3 + Len(e)
        /\ \A j \in 1 .. 3 + Len(e) : all[j] = IF j <= 3 THEN <<38, k, Eq>>[j] ELSE e[j - 3]
    BY <1>2, <2>1, ConcatProperties
  <2>4. all[1] = 38 /\ all[2] = k /\ all[3] = Eq /\ \A j \in 1 .. Len(e) : all[3 + j] = e[j]
    <3> HIDE DEF all
    <3>1. 1 \in 1 .. 3 + Len(e) /\ 2 \in 1 .. 3 + Len(e) /\ 3 \in 1 .. 3 + Len(e)
      BY <1>2
    <3>2. \A j \in 1 .. Len(e) : 3 + j \in 1 .. 3 + Len(e) /\ ~ (3 + j <= 3) /\ (3 + j) - 3 = j
      BY <1>2
    <3> QED BY <2>3, <3>1, <3>2
  <2>5. TokenStands(all, 1, k, e)
    <3> HIDE DEF all
    <3>1. 1 + 1 = 2 /\ 1 + 2 = 3
      OBVIOUS
    <3> QED BY <2>4, <3>1 DEF TokenStands
  <2> QED BY <1>1, <1>2, <1>6, <2>2, <2>3, <2>4, <2>5 DEF k, e
<1> QED BY <1>5, <1>6

(* A token behind the first q bytes, of a key and a code.                  *)
TokenAt(s, q, k, e) ==
  q \in Nat /\ k \in Nat \ Separators /\ e \in Seq(Safe) /\ e \in Seq(Nat) /\ TokenStands(s, q, k, e)

(* Where a token stands it can be cut out, and nothing cuts it before.     *)
LEMMA TokenAtPlace ==
  ASSUME NEW s, NEW q, NEW k, NEW e, TokenAt(s, q, k, e)
  PROVE  /\ SubSeq(s, q + 1, q + 2 + Len(e)) = <<k, Eq>> \o e
         /\ \A i \in q + 1 .. q + 2 + Len(e) : s[i] \notin Separators
<1>1. q \in Nat /\ k \in Nat /\ k \in Nat \ Separators /\ e \in Seq(Safe) /\ e \in Seq(Nat) /\ TokenStands(s, q, k, e)
  BY DEF TokenAt
<1>2. SubSeq(s, q + 1, q + 2 + Len(e)) = <<k, Eq>> \o e
  BY <1>1, TokenIsCut
<1>3. \A i \in q + 1 .. q + 2 + Len(e) : s[i] \notin Separators
  BY <1>1, TokenIsClean
<1> QED BY <1>2, <1>3

(* A token of a part is one of the text the part is in.                    *)
LEMMA TokenMoves ==
  ASSUME NEW s, NEW r, NEW q \in Nat, NEW x \in Nat, NEW k, NEW e, Len(e) \in Nat,
         TokenStands(r, x, k, e), \A j \in 1 .. x + 2 + Len(e) : s[q + j] = r[j]
  PROVE  TokenStands(s, q + x, k, e)
<1> DEFINE m == Len(e)
<1>1. r[x + 1] = k /\ r[x + 2] = Eq /\ \A j \in 1 .. m : r[x + 2 + j] = e[j]
  BY DEF TokenStands
<1>2. m \in Nat /\ \A j \in 1 .. x + 2 + m : s[q + j] = r[j]
  OBVIOUS
<1> HIDE DEF m
<1>3. /\ x + 1 \in 1 .. x + 2 + m /\ x + 2 \in 1 .. x + 2 + m
      /\ q + x + 1 = q + (x + 1) /\ q + x + 2 = q + (x + 2)
      /\ \A j \in 1 .. m : x + 2 + j \in 1 .. x + 2 + m /\ q + x + 2 + j = q + (x + 2 + j)
  BY <1>2
<1>4. s[q + x + 1] = k /\ s[q + x + 2] = Eq /\ \A j \in 1 .. m : s[q + x + 2 + j] = e[j]
  BY <1>1, <1>2, <1>3
<1> QED BY <1>4 DEF TokenStands, m

(* The token of a field.                                                   *)
FormToken(i) == <<Key[Fields[i]], Eq>> \o Code(i)

(* The body comes apart as it was put together.                            *)
LEMMA FormTokens ==
  ASSUME TypedIsText
  PROVE  IsRow(Tokens(FormBody), FormToken(1), FormToken(2), FormToken(3), FormToken(4))
<1> DEFINE parts == [i \in DOMAIN Fields |-> FormPart(i)]
           k(i) == Key[Fields[i]]
           m(i) == Len(Code(i))
<1>1. FormBody = FlattenSeq(parts)
  BY DEF FormBody, FormPart, Code
<1>2. /\ Len(parts) = 4 /\ \A i \in 1 .. 4 : parts[i] = FormPart(i)
      /\ parts = [i \in 1 .. 4 |-> FormPart(i)]
  BY FieldKeys
<1> HIDE DEF parts
<1>3. \A i \in 1 .. 4 : m(i) \in Nat
  BY PartOfBody
<1>20. ASSUME NEW i \in 1 .. 4, NEW r, NEW q \in Nat, TokenStands(r, q, k(i), Code(i))
       PROVE  TokenAt(r, q, k(i), Code(i))
  <2>1. Code(i) \in Seq(Safe) /\ Code(i) \in Seq(Nat)
    BY PartOfBody
  <2>2. k(i) \in Nat \ Separators
    BY FieldKeys
  <2> QED BY <1>20, <2>1, <2>2, Zenon DEF TokenAt
<1>4. parts \in Seq(Seq(Nat))
  <2>1. \A i \in 1 .. 4 : FormPart(i) \in Seq(Nat)
    BY PartOfBody
  <2> QED BY <1>2, <2>1
<1> DEFINE s == FlattenSeq(parts)
<1>28. PICK pos : Ends(pos, parts, 4)
  <2> DEFINE n == Len(parts)
  <2>1. n \in Nat \ {0} /\ Len(parts) = n
    BY <1>2
  <2>2. Strings(parts, n, Nat)
    BY <1>2, PartOfBody DEF Strings
  <2>3. n = 4
    BY <1>2
  <2> HIDE DEF n
  <2>4. \E pos : Ends(pos, parts, n)
    BY <2>1, <2>2, FlattenPlaces
  <2> QED BY <2>3, <2>4
<1>5. /\ pos \in [0 .. 4 -> Nat] /\ pos[0] = 0 /\ pos[4] = Len(s)
      /\ \A i \in 1 .. 4 :
           /\ pos[i] = pos[i - 1] + Len(parts[i])
           /\ \A j \in 1 .. Len(parts[i]) : s[pos[i - 1] + j] = parts[i][j]
  BY <1>28 DEF Ends
<1>6. s \in Seq(Nat)
  BY <1>4, FlattenType
<1> HIDE DEF s
<1> DEFINE a == pos[1]  b == pos[2]  c == pos[3]  d == pos[4]
<1>7. pos[0] \in Nat /\ a \in Nat /\ b \in Nat /\ c \in Nat /\ d \in Nat
  BY <1>5
<1>8. DOMAIN s = 1 .. d
  BY <1>5, <1>6, LenProperties
<1>9. /\ Len(parts[1]) = 2 + m(1) /\ Len(parts[2]) = 3 + m(2)
      /\ Len(parts[3]) = 3 + m(3) /\ Len(parts[4]) = 3 + m(4)
  BY <1>2, PartOfBody
<1>10. /\ pos[0] = 0
       /\ a = pos[0] + Len(parts[1]) /\ \A j \in 1 .. Len(parts[1]) : s[pos[0] + j] = FormPart(1)[j]
       /\ b = a + Len(parts[2]) /\ \A j \in 1 .. Len(parts[2]) : s[a + j] = FormPart(2)[j]
       /\ c = b + Len(parts[3]) /\ \A j \in 1 .. Len(parts[3]) : s[b + j] = FormPart(3)[j]
       /\ d = c + Len(parts[4]) /\ \A j \in 1 .. Len(parts[4]) : s[c + j] = FormPart(4)[j]
  <2>1. 1 - 1 = 0 /\ 2 - 1 = 1 /\ 3 - 1 = 2 /\ 4 - 1 = 3
    OBVIOUS
  <2>2. 1 \in 1 .. 4 /\ 2 \in 1 .. 4 /\ 3 \in 1 .. 4 /\ 4 \in 1 .. 4
    OBVIOUS
  <2>3. /\ parts[1] = FormPart(1) /\ parts[2] = FormPart(2)
        /\ parts[3] = FormPart(3) /\ parts[4] = FormPart(4)
    BY <1>2, <2>2
  <2>4. /\ pos[1] = pos[1 - 1] + Len(parts[1]) /\ \A j \in 1 .. Len(parts[1]) : s[pos[1 - 1] + j] = parts[1][j]
        /\ pos[2] = pos[2 - 1] + Len(parts[2]) /\ \A j \in 1 .. Len(parts[2]) : s[pos[2 - 1] + j] = parts[2][j]
        /\ pos[3] = pos[3 - 1] + Len(parts[3]) /\ \A j \in 1 .. Len(parts[3]) : s[pos[3 - 1] + j] = parts[3][j]
        /\ pos[4] = pos[4 - 1] + Len(parts[4]) /\ \A j \in 1 .. Len(parts[4]) : s[pos[4 - 1] + j] = parts[4][j]
    BY <1>5, <2>2, Zenon
  <2> QED BY <1>5, <2>1, <2>3, <2>4, Zenon
<1> DEFINE m1 == m(1)  m2 == m(2)  m3 == m(3)  m4 == m(4)
<1>11. m1 \in Nat /\ m2 \in Nat /\ m3 \in Nat /\ m4 \in Nat
  BY <1>3
<1> HIDE DEF a, b, c, d, k
<1>12. /\ TokenStands(FormPart(1), 0, k(1), Code(1)) /\ TokenStands(FormPart(2), 1, k(2), Code(2))
       /\ TokenStands(FormPart(3), 1, k(3), Code(3)) /\ TokenStands(FormPart(4), 1, k(4), Code(4))
       /\ FormPart(2)[1] = 38 /\ FormPart(3)[1] = 38 /\ FormPart(4)[1] = 38
  BY PartOfBody DEF k
<1>13. TokenStands(s, pos[0] + 0, k(1), Code(1))
  <2>1. 0 \in Nat /\ 0 + 2 + m1 = Len(parts[1])
    BY <1>9, <1>11
  <2>2. \A j \in 1 .. 0 + 2 + Len(Code(1)) : s[pos[0] + j] = FormPart(1)[j]
    BY <1>10, <2>1, Zenon
  <2> QED BY <1>7, <1>11, <1>12, <2>1, <2>2, TokenMoves
<1>14. TokenStands(s, a + 1, k(2), Code(2)) /\ s[a + 1] = 38
  <2>1. 1 \in Nat /\ 1 + 2 + m2 = Len(parts[2]) /\ 1 \in 1 .. Len(parts[2])
    BY <1>9, <1>11
  <2>2. \A j \in 1 .. 1 + 2 + Len(Code(2)) : s[a + j] = FormPart(2)[j]
    BY <1>10, <2>1, Zenon
  <2>3. s[a + 1] = FormPart(2)[1]
    BY <1>10, <2>1, Zenon
  <2>4. TokenStands(s, a + 1, k(2), Code(2))
    BY <1>7, <1>11, <1>12, <2>1, <2>2, TokenMoves
  <2> QED BY <1>12, <2>3, <2>4
<1>15. TokenStands(s, b + 1, k(3), Code(3)) /\ s[b + 1] = 38
  <2>1. 1 \in Nat /\ 1 + 2 + m3 = Len(parts[3]) /\ 1 \in 1 .. Len(parts[3])
    BY <1>9, <1>11
  <2>2. \A j \in 1 .. 1 + 2 + Len(Code(3)) : s[b + j] = FormPart(3)[j]
    BY <1>10, <2>1, Zenon
  <2>3. s[b + 1] = FormPart(3)[1]
    BY <1>10, <2>1, Zenon
  <2>4. TokenStands(s, b + 1, k(3), Code(3))
    BY <1>7, <1>11, <1>12, <2>1, <2>2, TokenMoves
  <2> QED BY <1>12, <2>3, <2>4
<1>16. TokenStands(s, c + 1, k(4), Code(4)) /\ s[c + 1] = 38
  <2>1. 1 \in Nat /\ 1 + 2 + m4 = Len(parts[4]) /\ 1 \in 1 .. Len(parts[4])
    BY <1>9, <1>11
  <2>2. \A j \in 1 .. 1 + 2 + Len(Code(4)) : s[c + j] = FormPart(4)[j]
    BY <1>10, <2>1, Zenon
  <2>3. s[c + 1] = FormPart(4)[1]
    BY <1>10, <2>1, Zenon
  <2>4. TokenStands(s, c + 1, k(4), Code(4))
    BY <1>7, <1>11, <1>12, <2>1, <2>2, TokenMoves
  <2> QED BY <1>12, <2>3, <2>4
<1>17. /\ 0 \in Nat /\ a + 1 \in Nat /\ b + 1 \in Nat /\ c + 1 \in Nat /\ pos[0] + 0 = 0
       /\ 1 \in 1 .. 4 /\ 2 \in 1 .. 4 /\ 3 \in 1 .. 4 /\ 4 \in 1 .. 4
  <2>1. pos[0] = 0
    BY <1>5
  <2> HIDE DEF m, m1, m2, m3, m4
  <2> QED BY <1>7, <2>1
<1>18. /\ TokenAt(s, 0, k(1), Code(1)) /\ TokenAt(s, a + 1, k(2), Code(2))
       /\ TokenAt(s, b + 1, k(3), Code(3)) /\ TokenAt(s, c + 1, k(4), Code(4))
  BY <1>13, <1>14, <1>15, <1>16, <1>17, <1>20
<1>19. /\ SubSeq(s, 0 + 1, 0 + 2 + m1) = FormToken(1)
       /\ SubSeq(s, (a + 1) + 1, (a + 1) + 2 + m2) = FormToken(2)
       /\ SubSeq(s, (b + 1) + 1, (b + 1) + 2 + m3) = FormToken(3)
       /\ SubSeq(s, (c + 1) + 1, (c + 1) + 2 + m4) = FormToken(4)
       /\ \A i \in 0 + 1 .. 0 + 2 + m1 : s[i] \notin Separators
       /\ \A i \in (a + 1) + 1 .. (a + 1) + 2 + m2 : s[i] \notin Separators
       /\ \A i \in (b + 1) + 1 .. (b + 1) + 2 + m3 : s[i] \notin Separators
       /\ \A i \in (c + 1) + 1 .. (c + 1) + 2 + m4 : s[i] \notin Separators
  <2>1. \A i \in 1 .. 4 : FormToken(i) = <<k(i), Eq>> \o Code(i)
    BY DEF FormToken, k
  <2>2. \A q, i : TokenAt(s, q, k(i), Code(i)) =>
          /\ SubSeq(s, q + 1, q + 2 + Len(Code(i))) = <<k(i), Eq>> \o Code(i)
          /\ \A j \in q + 1 .. q + 2 + Len(Code(i)) : s[j] \notin Separators
    BY TokenAtPlace
  <2> QED BY <1>17, <1>18, <2>1, <2>2, Zenon
<1>26. Len(parts[1]) = 2 + m1 /\ Len(parts[2]) = 3 + m2 /\ Len(parts[3]) = 3 + m3 /\ Len(parts[4]) = 3 + m4
  BY <1>9
<1>27. pos[0] = 0 /\ a = pos[0] + Len(parts[1]) /\ b = a + Len(parts[2]) /\ c = b + Len(parts[3])
       /\ d = c + Len(parts[4])
  BY <1>10
<1> HIDE DEF m, m1, m2, m3, m4
<1>21. a = 2 + m1 /\ b = a + 3 + m2 /\ c = b + 3 + m3 /\ d = c + 3 + m4
  BY <1>7, <1>11, <1>26, <1>27
<1>22. /\ 0 < a /\ a + 1 < b /\ b + 1 < c /\ c + 1 < d
       /\ 0 + 1 = 1 /\ 0 + 2 + m1 = a
       /\ (a + 1) + 1 = a + 2 /\ (a + 1) + 2 + m2 = b
       /\ (b + 1) + 1 = b + 2 /\ (b + 1) + 2 + m3 = c
       /\ (c + 1) + 1 = c + 2 /\ (c + 1) + 2 + m4 = d
  BY <1>7, <1>11, <1>21
<1>23. \A i \in 1 .. d : s[i] \in Separators <=> i \in {a + 1, b + 1, c + 1}
  <2>1. /\ \A i \in 1 .. a : s[i] \notin Separators
        /\ \A i \in a + 2 .. b : s[i] \notin Separators
        /\ \A i \in b + 2 .. c : s[i] \notin Separators
        /\ \A i \in c + 2 .. d : s[i] \notin Separators
    BY <1>19, <1>22, Zenon
  <2>2. 38 \in Separators
    BY DEF Separators
  <2> TAKE i \in 1 .. d
  <2>3. \/ i \in 1 .. a \/ i = a + 1 \/ i \in a + 2 .. b \/ i = b + 1
        \/ i \in b + 2 .. c \/ i = c + 1 \/ i \in c + 2 .. d
    BY <1>7, <1>22
  <2>4. \A j \in {a + 1, b + 1, c + 1} : s[j] = 38
    BY <1>14, <1>15, <1>16, Zenon
  <2>5. i \in {a + 1, b + 1, c + 1} => s[i] \in Separators
    BY <2>2, <2>4, Zenon
  <2>6. s[i] \in Separators => i = a + 1 \/ i = b + 1 \/ i = c + 1
    BY <2>1, <2>3, Zenon
  <2> QED BY <2>5, <2>6
<1>24. IsRow(Tokens(s), SubSeq(s, 1, a), SubSeq(s, a + 2, b), SubSeq(s, b + 2, c), SubSeq(s, c + 2, d))
  BY <1>7, <1>8, <1>22, <1>23, FourTokens
<1>25. s = FormBody
  BY <1>1 DEF s
<1> QED BY <1>19, <1>22, <1>24, <1>25, Zenon

(* A token is cut at its first sign of equality.                           *)
FirstEq(t) == Min({i \in DOMAIN t : t[i] = Eq})

(* A token of a key and a code.                                            *)
IsToken(t, k, e) == t = <<k, Eq>> \o e

(* The key of a token is what is before, its value what is behind it.      *)
LEMMA TokenComesApart ==
  ASSUME NEW k \in Nat, k # Eq, NEW e \in Seq(Nat), NEW t, IsToken(t, k, e)
  PROVE  /\ Eq \in ToSet(t) /\ FirstEq(t) = 2
         /\ SubSeq(t, 1, FirstEq(t) - 1) = <<k>> /\ SubSeq(t, FirstEq(t) + 1, Len(t)) = e
<1> DEFINE m == Len(e)
<1>1. m \in Nat /\ \A j \in 1 .. m : e[j] \in Nat
  BY LenProperties, ElementOfSeq
<1>2. Eq \in Nat /\ <<k, Eq>> \in Seq(Nat) /\ Len(<<k, Eq>>) = 2 /\ <<k, Eq>>[1] = k /\ <<k, Eq>>[2] = Eq
  BY DEF Eq
<1> DEFINE all == <<k, Eq>> \o e
<1>3. /\ all \in Seq(Nat) /\ Len(all) = 2 + m
      /\ \A i \in 1 .. 2 + m : all[i] = IF i <= 2 THEN <<k, Eq>>[i] ELSE e[i - 2]
  BY <1>2, ConcatProperties
<1>4. t = all
  BY DEF IsToken
<1> HIDE DEF all, m
<1>5. /\ Len(t) = 2 + m /\ DOMAIN t = 1 .. 2 + m /\ t[1] = k /\ t[2] = Eq
      /\ \A j \in 1 .. m : t[2 + j] = e[j]
  <2>1. 1 \in 1 .. 2 + m /\ 2 \in 1 .. 2 + m
    BY <1>1
  <2>2. \A j \in 1 .. m : 2 + j \in 1 .. 2 + m /\ ~ (2 + j <= 2) /\ (2 + j) - 2 = j
    BY <1>1
  <2>3. DOMAIN all = 1 .. 2 + m
    BY <1>3, LenProperties
  <2>4. all[1] = k /\ all[2] = Eq
    BY <1>2, <1>3, <2>1
  <2>5. \A j \in 1 .. m : all[2 + j] = e[j]
    BY <1>3, <2>2
  <2> QED BY <1>3, <1>4, <2>3, <2>4, <2>5
<1>6. Eq \in ToSet(t)
  <2>1. 2 \in DOMAIN t
    BY <1>1, <1>5
  <2> QED BY <1>5, <2>1 DEF ToSet
<1>7. FirstEq(t) = 2
  <2> DEFINE S == {i \in DOMAIN t : t[i] = Eq}
  <2>1. S \in SUBSET Nat /\ 2 \in S
    BY <1>1, <1>5
  <2>2. \A i \in S : 2 <= i
    <3> SUFFICES ASSUME NEW i \in S, ~ (2 <= i) PROVE FALSE
      OBVIOUS
    <3>1. i \in 1 .. 2 + m /\ t[i] = Eq
      BY <1>5
    <3>2. i = 1
      BY <1>1, <3>1
    <3> QED BY <1>5, <3>1, <3>2
  <2> HIDE DEF S
  <2>3. Min(S) = 2
    BY <2>1, <2>2, MinIsUnique
  <2> QED BY <2>3 DEF FirstEq, S
<1>8. SubSeq(t, 1, 1) = <<k>>
  <2>1. SubSeq(t, 1, 1) = [i \in 1 .. 1 |-> t[i]]
    <3>1. SubSeq(t, 1, 1) = [i \in 1 .. (1 - 1 + 1) |-> t[i + 1 - 1]]
      OBVIOUS
    <3>2. \A i \in 1 .. 1 : i + 1 - 1 = i
      OBVIOUS
    <3> QED BY <3>1, <3>2
  <2>2. <<k>> = [i \in 1 .. 1 |-> t[i]]
    BY <1>5
  <2> QED BY <2>1, <2>2
<1>9. SubSeq(t, 3, 2 + m) = e
  <2>1. \A i \in 3 .. 2 + m : t[i] \in Nat
    <3> TAKE i \in 3 .. 2 + m
    <3>1. i - 2 \in 1 .. m /\ 2 + (i - 2) = i
      BY <1>1
    <3> QED BY <1>1, <1>5, <3>1
  <2> DEFINE lo == 3  hi == 2 + m  cut == SubSeq(t, lo, hi)
  <2>8. lo \in Int /\ hi \in Int /\ hi - lo + 1 = m /\ (IF lo <= hi THEN hi - lo + 1 ELSE 0) = m
    BY <1>1
  <2>9. \A i \in lo .. hi : t[i] \in Nat
    BY <2>1
  <2> HIDE DEF lo, hi
  <2>3. /\ cut \in Seq(Nat) /\ Len(cut) = IF lo <= hi THEN hi - lo + 1 ELSE 0
        /\ \A i \in 1 .. hi - lo + 1 : cut[i] = t[lo + i - 1]
    BY <2>8, <2>9, SubSeqProperties
  <2> HIDE DEF cut
  <2>4. Len(cut) = m /\ \A i \in 1 .. m : cut[i] = t[3 + i - 1]
    BY <2>3, <2>8, Zenon DEF lo
  <2>5. \A i \in 1 .. m : 3 + i - 1 = 2 + i
    BY <1>1
  <2>6. \A i \in 1 .. m : cut[i] = e[i]
    BY <1>5, <2>4, <2>5
  <2>7. cut = e
    BY <2>3, <2>4, <2>6, SeqEqual DEF m
  <2> QED BY <2>7 DEF cut, lo, hi
<1>10. 2 - 1 = 1 /\ 2 + 1 = 3
  OBVIOUS
<1> QED BY <1>5, <1>6, <1>7, <1>8, <1>9, <1>10

-----------------------------------------------------------------------------
(* The parameters that the form gives.                                     *)
Given == [k \in 1 .. 4 |-> [key |-> <<Key[Fields[k]]>>, value |-> typed[Fields[k]]]]

(* The middleware finds them, whatever was typed.                          *)
LEMMA FormDecoded ==
  ASSUME TypedIsText, form_body = FormBody
  PROVE  Decoded = Given
<1> DEFINE tokens == Tokens(form_body)
           chosen == {k \in DOMAIN tokens : Eq \in ToSet(tokens[k])}
           pairs == Ordered(chosen)
           Pair(t) == [key   |-> SubSeq(t, 1, FirstEq(t) - 1),
                       value |-> urldecode(SubSeq(t, FirstEq(t) + 1, Len(t)))]
<1>1. Decoded = [k \in 1 .. Min({Len(pairs), MAX_PARAMS}) |-> Pair(tokens[pairs[k]])]
  BY DEF Decoded, FirstEq
<1>2. DOMAIN tokens = 1 .. 4 /\ \A i \in 1 .. 4 : tokens[i] = FormToken(i)
  <2>1. IsRow(tokens, FormToken(1), FormToken(2), FormToken(3), FormToken(4))
    BY FormTokens
  <2>2. \A i \in 1 .. 4 : i = 1 \/ i = 2 \/ i = 3 \/ i = 4
    OBVIOUS
  <2> HIDE DEF tokens
  <2> QED BY <2>1, <2>2, Zenon DEF IsRow
<1> HIDE DEF tokens
<1>3. ASSUME NEW i \in 1 .. 4
      PROVE  Eq \in ToSet(tokens[i]) /\ Pair(tokens[i]) = Given[i]
  <2> DEFINE t == FormToken(i)  k == Key[Fields[i]]  e == Code(i)
  <2>1. k \in Nat /\ k # Eq /\ e \in Seq(Nat) /\ IsToken(t, k, e)
    BY FieldKeys, PartOfBody DEF FormToken, IsToken
  <2>2. urldecode(e) = typed[Fields[i]]
    BY EncodedIsDecoded DEF TypedIsText, Code
  <2>3. Given[i] = [key |-> <<k>>, value |-> typed[Fields[i]]]
    BY DEF Given
  <2> HIDE DEF t, k, e
  <2>4. /\ Eq \in ToSet(t) /\ FirstEq(t) = 2
        /\ SubSeq(t, 1, FirstEq(t) - 1) = <<k>> /\ SubSeq(t, FirstEq(t) + 1, Len(t)) = e
    BY <2>1, TokenComesApart
  <2>5. tokens[i] = t
    BY <1>2 DEF t
  <2> QED BY <2>2, <2>3, <2>4, <2>5, Zenon
<1>4. chosen = {1, 2, 3, 4}
  <2>1. \A i \in DOMAIN tokens : Eq \in ToSet(tokens[i])
    BY <1>2, <1>3
  <2>2. chosen = DOMAIN tokens
    BY <2>1
  <2>3. 1 .. 4 = {1, 2, 3, 4}
    OBVIOUS
  <2> QED BY <1>2, <2>2, <2>3
<1> HIDE DEF chosen
<1>5. IsRow(pairs, 1, 2, 3, 4)
  <2>1. FourPlaces(chosen, 1, 2, 3, 4)
    BY <1>4 DEF FourPlaces
  <2> QED BY <2>1, OrderedFour
<1>6. Len(pairs) = 4 /\ \A i \in 1 .. 4 : pairs[i] = i
  <2>1. \A i \in 1 .. 4 : i = 1 \/ i = 2 \/ i = 3 \/ i = 4
    OBVIOUS
  <2> HIDE DEF pairs
  <2> QED BY <1>5, <2>1, Zenon DEF IsRow
<1> HIDE DEF pairs
<1>7. Min({Len(pairs), MAX_PARAMS}) = 4
  <2>1. {4, MAX_PARAMS} \in SUBSET Nat /\ 4 \in {4, MAX_PARAMS} /\ \A k \in {4, MAX_PARAMS} : 4 <= k
    BY FormAssumption
  <2>2. Min({4, MAX_PARAMS}) = 4
    BY <2>1, MinIsUnique
  <2> QED BY <1>6, <2>2
<1>8. \A i \in 1 .. 4 : Pair(tokens[pairs[i]]) = Given[i]
  BY <1>3, <1>6, Zenon
<1>9. Given = [i \in 1 .. 4 |-> Given[i]]
  BY DEF Given
<1> HIDE DEF Pair
<1>10. Decoded = [i \in 1 .. 4 |-> Pair(tokens[pairs[i]])]
  BY <1>1, <1>7, Zenon
<1> QED BY <1>8, <1>9, <1>10

(* Memory from 0 to n with a text at a place, terminated.                  *)
Holds(memory, n, o, t) ==
  /\ DOMAIN memory = 0 .. n /\ o \in Nat /\ t \in Typeable /\ o + Len(t) <= n
  /\ \A j \in 1 .. Len(t) : memory[o + j - 1] = t[j]
  /\ memory[o + Len(t)] = Terminator

(* A text by its places.                                                   *)
LEMMA TextPlaces ==
  ASSUME NEW t \in Typeable
  PROVE  /\ Len(t) \in Nat /\ DOMAIN t = 1 .. Len(t) /\ t = [i \in 1 .. Len(t) |-> t[i]]
         /\ \A j \in 1 .. Len(t) : t[j] \in 1 .. 255
<1>1. t \in Seq(1 .. 255)
  BY DEF Typeable
<1>2. Len(t) \in Nat /\ DOMAIN t = 1 .. Len(t)
  BY <1>1, LenProperties
<1>3. \A j \in 1 .. Len(t) : t[j] \in 1 .. 255
  BY <1>1, ElementOfSeq
<1>4. t \in [1 .. Len(t) -> 1 .. 255]
  BY <1>1, LenProperties
<1> QED BY <1>2, <1>3, <1>4, Zenon

(* What was copied is held where it was copied to.                         *)
LEMMA StrcpyHolds ==
  ASSUME NEW n \in Nat, NEW memory, DOMAIN memory = 0 .. n, NEW o \in Nat, NEW t \in Typeable,
         o + Len(t) <= n
  PROVE  Holds(strcpy(memory, o, t), n, o, t)
<1> DEFINE after == strcpy(memory, o, t)  m == Len(t)
<1>1. m \in Nat /\ DOMAIN t = 1 .. m
  BY TextPlaces
<1>2. /\ DOMAIN after = 0 .. n
      /\ \A i \in 0 .. n : after[i] =
           IF i - o + 1 \in DOMAIN t THEN t[i - o + 1] ELSE IF i - o + 1 = Len(t) + 1 THEN Terminator ELSE memory[i]
  <2>1. DOMAIN memory = 0 .. n
    OBVIOUS
  <2> HIDE DEF after, m
  <2> SUFFICES /\ DOMAIN strcpy(memory, o, t) = 0 .. n
               /\ \A i \in 0 .. n :
                    strcpy(memory, o, t)[i] =
                      IF i - o + 1 \in DOMAIN t THEN t[i - o + 1]
                      ELSE IF i - o + 1 = Len(t) + 1 THEN Terminator ELSE memory[i]
    BY DEF after
  <2> QED BY <2>1 DEF strcpy
<1>3. o + m <= n
  OBVIOUS
<1> HIDE DEF after, m
<1>4. ASSUME NEW j \in 1 .. m PROVE after[o + j - 1] = t[j]
  <2>1. o + j - 1 \in 0 .. n /\ (o + j - 1) - o + 1 = j
    BY <1>1, <1>3
  <2> QED BY <1>1, <1>2, <2>1
<1>5. after[o + m] = Terminator
  <2>1. o + m \in 0 .. n /\ (o + m) - o + 1 = m + 1 /\ m + 1 \notin 1 .. m
    BY <1>1, <1>3
  <2> QED BY <1>1, <1>2, <2>1
<1> QED BY <1>2, <1>3, <1>4, <1>5 DEF Holds, after, m

(* A copy that ends before it or begins behind it leaves it alone.         *)
LEMMA StrcpyElsewhere ==
  ASSUME NEW n \in Nat, NEW memory, NEW o, NEW t, Holds(memory, n, o, t),
         NEW x \in Nat, NEW u \in Typeable, x + Len(u) < o \/ o + Len(t) < x
  PROVE  Holds(strcpy(memory, x, u), n, o, t)
<1> DEFINE after == strcpy(memory, x, u)  m == Len(t)  k == Len(u)
<1>1. m \in Nat /\ k \in Nat /\ DOMAIN u = 1 .. k /\ o \in Nat
  BY LenProperties DEF Typeable, Holds
<1>2. /\ DOMAIN memory = 0 .. n /\ t \in Typeable /\ o + m <= n
      /\ \A j \in 1 .. m : memory[o + j - 1] = t[j]
      /\ memory[o + m] = Terminator
  BY DEF Holds
<1>3. /\ DOMAIN after = 0 .. n
      /\ \A i \in 0 .. n : after[i] =
           IF i - x + 1 \in DOMAIN u THEN u[i - x + 1] ELSE IF i - x + 1 = k + 1 THEN Terminator ELSE memory[i]
  <2>1. DOMAIN memory = 0 .. n
    BY <1>2
  <2> HIDE DEF after, k
  <2> SUFFICES /\ DOMAIN strcpy(memory, x, u) = 0 .. n
               /\ \A i \in 0 .. n :
                    strcpy(memory, x, u)[i] =
                      IF i - x + 1 \in DOMAIN u THEN u[i - x + 1]
                      ELSE IF i - x + 1 = Len(u) + 1 THEN Terminator ELSE memory[i]
    BY DEF after, k
  <2> QED BY <2>1 DEF strcpy
<1>4. x + k < o \/ o + m < x
  OBVIOUS
<1> HIDE DEF after, m, k
<1>5. ASSUME NEW i \in o .. o + m PROVE after[i] = memory[i]
  <2>1. i \in 0 .. n /\ i - x + 1 \notin 1 .. k /\ i - x + 1 # k + 1
    BY <1>1, <1>2, <1>4
  <2> QED BY <1>1, <1>3, <2>1
<1>6. \A j \in 1 .. m : o + j - 1 \in o .. o + m
  BY <1>1
<1>7. o + m \in o .. o + m
  BY <1>1
<1> QED BY <1>1, <1>2, <1>3, <1>5, <1>6, <1>7 DEF Holds, after, m

(* What is held is read.                                                   *)
LEMMA HeldIsRead ==
  ASSUME NEW n \in Nat, NEW memory, NEW o, NEW t, Holds(memory, n, o, t)
  PROVE  StringFrom(memory, o) = t
<1> DEFINE m == Len(t)
           ends == {i \in DOMAIN memory : i >= o /\ memory[i] = Terminator} \cup {Max(DOMAIN memory) + 1}
<1>1. m \in Nat /\ o \in Nat /\ t = [i \in 1 .. m |-> t[i]] /\ \A j \in 1 .. m : t[j] \in 1 .. 255
  <2>1. t \in Typeable /\ o \in Nat
    BY DEF Holds
  <2>2. m \in Nat /\ t = [i \in 1 .. m |-> t[i]] /\ \A j \in 1 .. m : t[j] \in 1 .. 255
    BY <2>1, TextPlaces
  <2> QED BY <2>1, <2>2
<1>2. /\ DOMAIN memory = 0 .. n /\ o + m <= n
      /\ \A j \in 1 .. m : memory[o + j - 1] = t[j]
      /\ memory[o + m] = Terminator
  BY DEF Holds
<1>3. Max(DOMAIN memory) = n
  BY <1>2 DEF Max
<1>4. StringFrom(memory, o) = [i \in 1 .. Min(ends) - o |-> memory[o + i - 1]]
  BY DEF StringFrom
<1> HIDE DEF m
<1>5. Min(ends) = o + m
  <2>1. ends \in SUBSET Nat
    BY <1>2, <1>3
  <2>2. o + m \in ends
    <3>1. o + m \in 0 .. n /\ o + m >= o
      BY <1>1, <1>2
    <3> QED BY <1>2, <3>1
  <2>3. \A k \in ends : o + m <= k
    <3> SUFFICES ASSUME NEW k \in ends, ~ (o + m <= k) PROVE FALSE
      OBVIOUS
    <3>1. k \in Nat
      BY <2>1
    <3>2. k # n + 1
      BY <1>1, <1>2, <3>1
    <3>3. k >= o /\ memory[k] = Terminator
      BY <1>3, <3>2
    <3> HIDE DEF ends
    <3>4. k - o + 1 \in 1 .. m /\ o + (k - o + 1) - 1 = k
      BY <1>1, <3>1, <3>3
    <3>5. memory[k] = t[k - o + 1] /\ t[k - o + 1] \in 1 .. 255
      BY <1>1, <1>2, <3>4
    <3> QED BY <3>3, <3>5 DEF Terminator
  <2> HIDE DEF ends
  <2> QED BY <2>1, <2>2, <2>3, MinIsUnique
<1> HIDE DEF ends
<1>6. (o + m) - o = m
  BY <1>1
<1>7. StringFrom(memory, o) = [i \in 1 .. m |-> memory[o + i - 1]]
  BY <1>4, <1>5, <1>6, Zenon
<1> QED BY <1>1, <1>2, <1>7

(* A text that is cut fits, and one that fits is not cut.                  *)
LEMMA ShortenedFits ==
  ASSUME NEW t \in Typeable, NEW size \in Nat \ {0}
  PROVE  /\ Shortened(t, size) \in Typeable
         /\ Len(Shortened(t, size)) \in Nat /\ Len(Shortened(t, size)) <= size - 1 /\ Len(Shortened(t, size)) <= Len(t)
         /\ Len(t) < size => Shortened(t, size) = t
<1> DEFINE m == Len(t)  k == Min({m, size - 1})  cut == SubSeq(t, 1, k)
<1>1. m \in Nat /\ t = [i \in 1 .. m |-> t[i]] /\ \A j \in 1 .. m : t[j] \in 1 .. 255
  BY TextPlaces
<1> HIDE DEF m
<1>2. k \in Nat /\ k <= m /\ k <= size - 1 /\ (m < size => k = m)
  <2>1. size - 1 \in Nat
    OBVIOUS
  <2> DEFINE least == IF m <= size - 1 THEN m ELSE size - 1
  <2>2. least \in {m, size - 1} /\ {m, size - 1} \in SUBSET Nat /\ \A i \in {m, size - 1} : least <= i
    BY <1>1, <2>1
  <2>3. least \in Nat /\ least <= m /\ least <= size - 1 /\ (m < size => least = m)
    BY <1>1, <2>1
  <2> DEFINE both == {m, size - 1}
  <2> HIDE DEF least, both
  <2>4. Min(both) = least
    <3>1. least \in both /\ both \in SUBSET Nat /\ \A i \in both : least <= i
      BY <2>2 DEF both
    <3> QED BY <3>1, MinIsUnique
  <2>5. k = least
    BY <2>4 DEF both
  <2> HIDE DEF k
  <2> QED BY <2>3, <2>5, Zenon
<1> HIDE DEF k
<1>3. \A j \in 1 .. k : t[j] \in 1 .. 255
  BY <1>1, <1>2
<1>4. cut = [i \in 1 .. k |-> t[i]]
  <2>1. cut = [i \in 1 .. (k - 1 + 1) |-> t[i + 1 - 1]]
    BY <1>2
  <2>2. k - 1 + 1 = k /\ \A i \in 1 .. k : i + 1 - 1 = i
    BY <1>2
  <2> QED BY <2>1, <2>2
<1>5. cut \in Seq(1 .. 255) /\ Len(cut) = k
  <2> DEFINE lo == 1  B == 1 .. 255
  <2>1. lo \in Int /\ k \in Int /\ (IF lo <= k THEN k - lo + 1 ELSE 0) = k
    BY <1>2
  <2>2. \A i \in lo .. k : t[i] \in B
    BY <1>3
  <2> HIDE DEF lo, B
  <2>3. /\ SubSeq(t, lo, k) \in Seq(B) /\ Len(SubSeq(t, lo, k)) = IF lo <= k THEN k - lo + 1 ELSE 0
    BY <2>1, <2>2, SubSeqProperties
  <2>4. cut = SubSeq(t, lo, k)
    BY DEF lo
  <2> HIDE DEF cut
  <2>5. cut \in Seq(B) /\ Len(cut) = k
    BY <2>1, <2>3, <2>4, Zenon
  <2> QED BY <2>5 DEF B
<1>6. k = m => cut = t
  BY <1>1, <1>4, Zenon
<1>7. Shortened(t, size) = cut
  BY DEF Shortened, k, m
<1> HIDE DEF cut
<1>8. Len(cut) \in Nat /\ Len(cut) <= size - 1 /\ Len(cut) <= m /\ (m < size => cut = t)
  BY <1>2, <1>5, <1>6
<1> QED BY <1>5, <1>7, <1>8 DEF m, Typeable

(* The names of the fields.                                                *)
FieldNames == {"name", "email", "cpf", "password"}

(* What a field of the schema has room for is within its size.             *)
LEMMA RoomFits ==
  ASSUME TypedIsText, NEW f \in FieldNames
  PROVE  /\ typed[f] \in Typeable /\ Len(typed[f]) \in Nat /\ SchemaSize[f] \in Nat \ {0}
         /\ Room(f) \in Typeable /\ Len(Room(f)) \in Nat /\ Len(Room(f)) <= SchemaSize[f] - 1
         /\ Len(Room(f)) <= Len(typed[f])
         /\ Len(typed[f]) < SchemaSize[f] => Room(f) = typed[f]
<1>1. typed[f] \in Typeable
  <2>1. 1 \in 1 .. 4 /\ 2 \in 1 .. 4 /\ 3 \in 1 .. 4 /\ 4 \in 1 .. 4
    OBVIOUS
  <2>2. \A i \in 1 .. 4 : typed[Fields[i]] \in Typeable
    BY DEF TypedIsText
  <2>3. f = Fields[1] \/ f = Fields[2] \/ f = Fields[3] \/ f = Fields[4]
    BY FieldKeys DEF FieldNames
  <2> QED BY <2>1, <2>2, <2>3, Zenon
<1>2. SchemaSize[f] \in Nat \ {0}
  BY FormAssumption DEF FieldNames
<1>3. Room(f) = Shortened(typed[f], SchemaSize[f])
  BY DEF Room, Shortened
<1> HIDE DEF Room
<1>4. Len(typed[f]) \in Nat
  BY <1>1, TextPlaces
<1> DEFINE t == typed[f]  size == SchemaSize[f]
<1>5. /\ Shortened(t, size) \in Typeable
      /\ Len(Shortened(t, size)) \in Nat /\ Len(Shortened(t, size)) <= size - 1 /\ Len(Shortened(t, size)) <= Len(t)
      /\ Len(t) < size => Shortened(t, size) = t
  <2> t \in Typeable /\ size \in Nat \ {0}
    BY <1>1, <1>2
  <2> HIDE DEF t, size
  <2> QED BY ShortenedFits
<1> QED BY <1>1, <1>2, <1>3, <1>4, <1>5, Zenon

(* Each field is given once, and parsed with the size of its schema.       *)
LEMMA GivenParsed ==
  ASSUME params = Given, NEW sizes, NEW f \in FieldNames, f \in DOMAIN sizes, sizes[f] = SchemaSize[f]
  PROVE  Parsed(sizes)[f] = Room(f)
<1> DEFINE given == {i \in DOMAIN params : params[i].key = <<Key[f]>>}
<1>1. Parsed(sizes)[f] = IF given = {} THEN <<>> ELSE Shortened(params[Max(given)].value, sizes[f])
  BY DEF Parsed
<1>2. PICK i \in 1 .. 4 : f = Fields[i]
  <2>1. 1 \in 1 .. 4 /\ 2 \in 1 .. 4 /\ 3 \in 1 .. 4 /\ 4 \in 1 .. 4
    OBVIOUS
  <2>3. f = Fields[1] \/ f = Fields[2] \/ f = Fields[3] \/ f = Fields[4]
    BY FieldKeys DEF FieldNames
  <2> QED BY <2>1, <2>3, Zenon
<1>3. \A j \in 1 .. 4 : Key[Fields[j]] = Key[Fields[i]] => j = i
  <2>1. \A j \in 1 .. 4 : j = 1 \/ j = 2 \/ j = 3 \/ j = 4
    OBVIOUS
  <2> QED BY <2>1, FieldKeys
<1>4. DOMAIN params = 1 .. 4
      /\ \A j \in 1 .. 4 : params[j].key = <<Key[Fields[j]]>> /\ params[j].value = typed[Fields[j]]
  BY DEF Given
<1>5. given = {i}
  <2>1. \A j \in 1 .. 4 : <<Key[Fields[j]]>> = <<Key[Fields[i]]>> => Key[Fields[j]] = Key[Fields[i]]
    OBVIOUS
  <2> QED BY <1>2, <1>3, <1>4, <2>1
<1> HIDE DEF given
<1>6. Max(given) = i
  BY <1>5 DEF Max
<1>7. params[i].value = typed[f]
  BY <1>2, <1>4
<1>8. Parsed(sizes)[f] = Shortened(typed[f], SchemaSize[f])
  BY <1>1, <1>5, <1>6, <1>7
<1> QED BY <1>8 DEF Room, Shortened

(* The last byte looked at behind the DTO.                                 *)
DtoEnd == StructSize + SchemaSize.email

(* Where the fields of the DTO lie, and how far a text reaches in them.    *)
LEMMA DtoPlaces ==
  /\ Offset.name = 0 /\ Offset.email = DtoSize.name
  /\ Offset.cpf = Offset.email + DtoSize.email /\ Offset.password = Offset.cpf + DtoSize.cpf
  /\ StructSize = Offset.password + DtoSize.password
  /\ Offset.email \in Nat /\ Offset.cpf \in Nat /\ Offset.password \in Nat /\ StructSize \in Nat
  /\ Behind = StructSize .. DtoEnd
<1>1. DtoSize.name \in Nat /\ DtoSize.email \in Nat /\ DtoSize.cpf \in Nat /\ DtoSize.password \in Nat
  BY FormAssumption
<1>2. /\ Offset.name = 0 /\ Offset.email = DtoSize.name
      /\ Offset.cpf = DtoSize.name + DtoSize.email /\ Offset.password = DtoSize.name + DtoSize.email + DtoSize.cpf
  BY DEF Offset
<1>3. \A a, b, c, d \in Nat : a + b \in Nat /\ a + b + c \in Nat /\ a + b + c + d \in Nat
  OBVIOUS
<1>4. StructSize = Offset.password + DtoSize.password /\ Behind = StructSize .. DtoEnd
  BY DEF StructSize, Behind, DtoEnd
<1>5. StructSize \in Nat
  BY <1>1, <1>2, <1>3, <1>4
<1> QED BY <1>1, <1>2, <1>3, <1>4, <1>5

(* What each copy of the code may write over, and what it may not.         *)
LEMMA DtoRoom ==
  ASSUME TypedIsText
  PROVE  /\ DtoEnd \in Nat /\ StructSize <= DtoEnd
         /\ Offset.email + Len(Room("email")) <= DtoEnd
         /\ Offset.cpf + Len(Room("cpf")) < Offset.password
         /\ Offset.name + Len(Room("name")) < Offset.cpf
         /\ Offset.password + Len(Room("password")) < StructSize
         /\ Len(typed.email) < StructSize - Offset.email => Offset.email + Len(Room("email")) < StructSize
         /\ EmailFits => Room("email") = typed.email /\ Offset.email + Len(Room("email")) < Offset.cpf
         /\ Len(typed.name) < DtoSize.name =>
              Room("name") = typed.name /\ Offset.name + Len(Room("name")) < Offset.email
<1> DEFINE dn == DtoSize.name  de == DtoSize.email  dc == DtoSize.cpf  dp == DtoSize.password
           sn == SchemaSize.name  se == SchemaSize.email  sc == SchemaSize.cpf  sp == SchemaSize.password
           n == Len(Room("name"))  e == Len(Room("email"))  c == Len(Room("cpf"))  pw == Len(Room("password"))
           tn == Len(typed.name)  te == Len(typed.email)
           oe == Offset.email  oc == Offset.cpf  op == Offset.password  size == StructSize  end == DtoEnd
<1>1. /\ dn \in Nat /\ de \in Nat /\ dc \in Nat /\ dp \in Nat
      /\ sn \in Nat /\ se \in Nat /\ sc \in Nat /\ sp \in Nat
      /\ dn <= sn /\ sn <= dn + de /\ de <= se /\ sc <= dc /\ sp <= dp
  BY FormAssumption
<1>2. /\ n \in Nat /\ n <= sn - 1
      /\ e \in Nat /\ e <= se - 1 /\ e <= te /\ te \in Nat /\ tn \in Nat
      /\ c \in Nat /\ c <= sc - 1 /\ pw \in Nat /\ pw <= sp - 1
      /\ n <= tn
      /\ tn < sn => Room("name") = typed.name
      /\ te < se => Room("email") = typed.email
  <2>1. "name" \in FieldNames /\ "email" \in FieldNames /\ "cpf" \in FieldNames /\ "password" \in FieldNames
    BY DEF FieldNames
  <2> QED BY <2>1, RoomFits
<1>3. /\ Offset.name = 0 /\ oe = dn /\ oc = oe + de /\ op = oc + dc /\ size = op + dp
      /\ oe \in Nat /\ oc \in Nat /\ op \in Nat /\ size \in Nat
      /\ end = size + se
  BY DtoPlaces DEF DtoEnd
<1>4. EmailFits => te < de
  BY DEF EmailFits
<1> HIDE DEF dn, de, dc, dp, sn, se, sc, sp, n, e, c, pw, tn, te, oe, oc, op, size, end
<1>5. end \in Nat /\ size <= end /\ oe + e <= end
  BY <1>1, <1>2, <1>3
<1>6. oc + c < op /\ 0 + n < oc /\ op + pw < size
  BY <1>1, <1>2, <1>3
<1>7. te < size - oe => oe + e < size
  BY <1>1, <1>2, <1>3
<1>8. te < de => te < se /\ oe + e < oc
  BY <1>1, <1>2, <1>3
<1>9. tn < dn => tn < sn /\ 0 + n < oe
  BY <1>1, <1>2, <1>3
<1> QED
  BY <1>2, <1>3, <1>4, <1>5, <1>6, <1>7, <1>8, <1>9 DEF dn, n, e, c, pw, tn, te, oe, oc, op, size, end

(* Nothing was written behind the DTO.                                     *)
Untouched(memory) == \A i \in Behind : memory[i] = Foreign

(* A copy that ends inside of it writes nothing there.                     *)
LEMMA StrcpyInside ==
  ASSUME NEW memory, DOMAIN memory = 0 .. DtoEnd, DtoEnd \in Nat, Untouched(memory),
         NEW x \in Nat, NEW u \in Typeable, x + Len(u) < StructSize
  PROVE  Untouched(strcpy(memory, x, u))
<1> DEFINE k == Len(u)  size == StructSize  end == DtoEnd
<1>1. k \in Nat /\ DOMAIN u = 1 .. k
  BY TextPlaces
<1>2. x + k < size
  OBVIOUS
<1>3. Behind = size .. end /\ size \in Nat
  BY DtoPlaces
<1> SUFFICES ASSUME NEW i \in Behind PROVE strcpy(memory, x, u)[i] = Foreign
  BY DEF Untouched
<1>4. memory[i] = Foreign
  BY DEF Untouched
<1> HIDE DEF k, size
<1>5. i \in 0 .. DtoEnd /\ i - x + 1 \notin 1 .. k /\ i - x + 1 # k + 1
  BY <1>1, <1>2, <1>3
<1>6. strcpy(memory, x, u)[i] =
        IF i - x + 1 \in DOMAIN u THEN u[i - x + 1] ELSE IF i - x + 1 = Len(u) + 1 THEN Terminator ELSE memory[i]
  BY <1>5 DEF strcpy
<1> QED BY <1>1, <1>4, <1>5, <1>6 DEF k

(* A copy does not make memory larger.                                     *)
LEMMA StrcpyDomain ==
  ASSUME NEW memory, NEW x, NEW u PROVE DOMAIN strcpy(memory, x, u) = DOMAIN memory
BY DEF strcpy

(* The texts that the DTO holds.                                           *)
DtoHolds ==
  /\ Holds(dto, DtoEnd, Offset.email, typed.email)
  /\ Holds(dto, DtoEnd, Offset.cpf, Room("cpf"))
  /\ Holds(dto, DtoEnd, Offset.password, Room("password"))
  /\ Len(typed.name) < DtoSize.name => Holds(dto, DtoEnd, Offset.name, typed.name)

(* In the order of the code, a copy only ever runs over what comes later.  *)
LEMMA DtoBuilt ==
  ASSUME TypedIsText, schema = [f \in DOMAIN SchemaSize |-> Room(f)], dto = user_dto_from_register_acc_schema
  PROVE  /\ StaysInside
         /\ EmailFits => DtoHolds
<1> DEFINE n == Room("name")  e == Room("email")  c == Room("cpf")  pw == Room("password")
           on == Offset.name  oe == Offset.email  oc == Offset.cpf  op == Offset.password
           m1 == strcpy(Zeroed, oc, c)  m2 == strcpy(m1, on, n)  m3 == strcpy(m2, op, pw)  m4 == strcpy(m3, oe, e)
<1>1. n \in Typeable /\ e \in Typeable /\ c \in Typeable /\ pw \in Typeable
  BY RoomFits DEF FieldNames
<1>2. /\ on \in Nat /\ oe \in Nat /\ oc \in Nat /\ op \in Nat /\ DtoEnd \in Nat /\ StructSize \in Nat
      /\ on = 0 /\ on <= oe /\ oe <= oc /\ oc <= op /\ op <= StructSize /\ StructSize <= DtoEnd
  <2>1. DtoSize.name \in Nat /\ DtoSize.email \in Nat /\ DtoSize.cpf \in Nat /\ DtoSize.password \in Nat
    BY FormAssumption
  <2>2. /\ on = 0 /\ oe = DtoSize.name /\ oc = oe + DtoSize.email /\ op = oc + DtoSize.cpf
        /\ StructSize = op + DtoSize.password
        /\ oe \in Nat /\ oc \in Nat /\ op \in Nat /\ StructSize \in Nat
    BY DtoPlaces
  <2>3. DtoEnd \in Nat /\ StructSize <= DtoEnd
    BY DtoRoom
  <2> HIDE DEF on, oe, oc, op
  <2> QED BY <2>1, <2>2, <2>3
<1>3. /\ oe + Len(e) <= DtoEnd /\ oc + Len(c) < op /\ on + Len(n) < oc /\ op + Len(pw) < StructSize
      /\ Len(typed.email) < StructSize - oe => oe + Len(e) < StructSize
      /\ EmailFits => e = typed.email /\ oe + Len(e) < oc
      /\ Len(typed.name) < DtoSize.name => n = typed.name /\ on + Len(n) < oe
  BY DtoRoom
<1>4. dto = m4
  <2>1. "name" \in DOMAIN SchemaSize /\ "email" \in DOMAIN SchemaSize /\ "cpf" \in DOMAIN SchemaSize
        /\ "password" \in DOMAIN SchemaSize
    BY FormAssumption
  <2>2. schema.name = n /\ schema.email = e /\ schema.cpf = c /\ schema.password = pw
    BY <2>1
  <2> HIDE DEF n, e, c, pw
  <2> QED BY <2>2 DEF user_dto_from_register_acc_schema
<1>5. DOMAIN Zeroed = 0 .. DtoEnd /\ Untouched(Zeroed)
  <2>1. Behind \subseteq 0 .. DtoEnd
    BY <1>2, DtoPlaces
  <2> QED BY <2>1 DEF Zeroed, Untouched, DtoEnd
<1> HIDE DEF n, e, c, pw, on, oe, oc, op
<1>6. DOMAIN m1 = 0 .. DtoEnd /\ DOMAIN m2 = 0 .. DtoEnd /\ DOMAIN m3 = 0 .. DtoEnd /\ DOMAIN m4 = 0 .. DtoEnd
  <2>1. DOMAIN m1 = DOMAIN Zeroed /\ DOMAIN m2 = DOMAIN m1 /\ DOMAIN m3 = DOMAIN m2 /\ DOMAIN m4 = DOMAIN m3
    BY StrcpyDomain
  <2> HIDE DEF m1, m2, m3, m4
  <2> QED BY <1>5, <2>1, Zenon
<1>7. Len(n) \in Nat /\ Len(e) \in Nat /\ Len(c) \in Nat /\ Len(pw) \in Nat
  BY <1>1, TextPlaces
<1> DEFINE ln == Len(n)  le == Len(e)  lc == Len(c)  lp == Len(pw)  end == DtoEnd  size == StructSize
<1> HIDE DEF m1, m2, m3, m4
<1>8. /\ on + ln <= end /\ oc + lc <= end /\ op + lp <= end
      /\ on + ln < size /\ oc + lc < size
      /\ oe + le <= end /\ op + lp < size
  <2> ln \in Nat /\ le \in Nat /\ lc \in Nat /\ lp \in Nat /\ end \in Nat /\ size \in Nat
    BY <1>2, <1>7
  <2>1. size <= end /\ oe + le <= end /\ oc + lc < op /\ on + ln < oc /\ op + lp < size /\ oc <= op /\ op <= size
    BY <1>2, <1>3
  <2> HIDE DEF ln, le, lc, lp, end, size
  <2> QED BY <1>2, <2>1
<1>9. StaysInside
  <2> SUFFICES ASSUME Len(typed.email) < StructSize - oe
               PROVE  Untouched(m4)
    BY <1>4 DEF StaysInside, Untouched, oe
  <2>1. Untouched(m1)
    BY <1>1, <1>2, <1>5, <1>8, StrcpyInside DEF m1
  <2>2. Untouched(m2)
    BY <1>1, <1>2, <1>6, <1>8, <2>1, StrcpyInside DEF m2
  <2>3. Untouched(m3)
    BY <1>1, <1>2, <1>6, <1>8, <2>2, StrcpyInside DEF m3
  <2>4. oe + Len(e) < StructSize
    BY <1>3
  <2> QED BY <1>1, <1>2, <1>6, <2>3, <2>4, StrcpyInside DEF m4
<1>10. ASSUME EmailFits
       PROVE  DtoHolds
  <2>1. e = typed.email /\ oe + Len(e) < oc
    BY <1>3, <1>10
  <2>2. oe + Len(e) < op
    <3> le \in Nat /\ le = Len(e)
      BY <1>7
    <3> HIDE DEF le
    <3> QED BY <1>2, <2>1
  <2>3. Holds(m4, DtoEnd, oe, e)
    BY <1>1, <1>2, <1>6, <1>8, StrcpyHolds DEF m4
  <2>4. Holds(m4, DtoEnd, oc, c)
    <3>1. Holds(m1, DtoEnd, oc, c)
      BY <1>1, <1>2, <1>5, <1>8, StrcpyHolds DEF m1
    <3>2. Holds(m2, DtoEnd, oc, c)
      <4>1. on + Len(n) < oc
        BY <1>3
      <4> QED BY <1>1, <1>2, <3>1, <4>1, StrcpyElsewhere DEF m2
    <3>3. Holds(m3, DtoEnd, oc, c)
      <4>1. oc + Len(c) < op
        BY <1>3
      <4> QED BY <1>1, <1>2, <3>2, <4>1, StrcpyElsewhere DEF m3
    <3> QED BY <1>1, <1>2, <2>1, <3>3, StrcpyElsewhere DEF m4
  <2>5. Holds(m4, DtoEnd, op, pw)
    <3>1. Holds(m3, DtoEnd, op, pw)
      BY <1>1, <1>2, <1>6, <1>8, StrcpyHolds DEF m3
    <3> QED BY <1>1, <1>2, <2>2, <3>1, StrcpyElsewhere DEF m4
  <2>6. ASSUME Len(typed.name) < DtoSize.name
        PROVE  Holds(m4, DtoEnd, on, typed.name)
    <3>1. n = typed.name /\ on + Len(n) < oe
      BY <1>3, <2>6
    <3>2. Holds(m2, DtoEnd, on, n)
      BY <1>1, <1>2, <1>6, <1>8, StrcpyHolds DEF m2
    <3>3. Holds(m3, DtoEnd, on, n)
      <4>1. on + Len(n) < op
        <5> ln \in Nat /\ ln = Len(n)
          BY <1>7
        <5> HIDE DEF ln
        <5> QED BY <1>2, <3>1
      <4> QED BY <1>1, <1>2, <3>2, <4>1, StrcpyElsewhere DEF m3
    <3>4. Holds(m4, DtoEnd, on, n)
      BY <1>1, <1>2, <3>1, <3>3, StrcpyElsewhere DEF m4
    <3> QED BY <3>1, <3>4, Zenon
  <2> HIDE DEF m4
  <2> QED BY <1>4, <2>1, <2>3, <2>4, <2>5, <2>6, Zenon DEF DtoHolds, on, oe, oc, op, c, pw
<1> QED BY <1>9, <1>10

(* What the DTO holds is read from it.                                     *)
LEMMA DtoIsRead ==
  ASSUME TypedIsText, DtoHolds
  PROVE  /\ StringAt("email") = typed.email /\ StringAt("cpf") = Room("cpf") /\ StringAt("password") = Room("password")
         /\ Len(typed.name) < DtoSize.name => StringAt("name") = typed.name
<1>1. DtoEnd \in Nat
  BY DtoRoom
<1>2. /\ Holds(dto, DtoEnd, Offset.email, typed.email)
      /\ Holds(dto, DtoEnd, Offset.cpf, Room("cpf"))
      /\ Holds(dto, DtoEnd, Offset.password, Room("password"))
      /\ Len(typed.name) < DtoSize.name => Holds(dto, DtoEnd, Offset.name, typed.name)
  BY DEF DtoHolds
<1>3. StringFrom(dto, Offset.email) = typed.email
  BY <1>1, <1>2, HeldIsRead
<1>4. StringFrom(dto, Offset.cpf) = Room("cpf")
  BY <1>1, <1>2, HeldIsRead
<1>5. StringFrom(dto, Offset.password) = Room("password")
  BY <1>1, <1>2, HeldIsRead
<1>6. Len(typed.name) < DtoSize.name => StringFrom(dto, Offset.name) = typed.name
  BY <1>1, <1>2, HeldIsRead
<1> QED BY <1>3, <1>4, <1>5, <1>6 DEF StringAt

(* It is what was typed, or what the login form makes of it.               *)
LEMMA FormRegisters ==
  ASSUME TypedIsText, params = Given, DtoHolds
  PROVE  Registered
<1>1. DOMAIN LoginSize = {"cpf", "password"} /\ \A f \in DOMAIN LoginSize : LoginSize[f] = SchemaSize[f]
  BY FormAssumption
<1>2. ASSUME NEW f \in DOMAIN LoginSize
      PROVE  Parsed(LoginSize)[f] = Room(f)
  <2>1. f \in FieldNames
    BY <1>1 DEF FieldNames
  <2> QED BY <1>1, <2>1, GivenParsed
<1>3. \A f \in DOMAIN LoginSize : StringAt(f) = Room(f)
  BY <1>1, DtoIsRead
<1> QED BY <1>2, <1>3, DtoIsRead DEF Registered

(* The last byte of the user that is looked at.                            *)
UserEnd == UserOffset.password + UserSize.password - 1

(* How far the texts reach in the user.                                    *)
LEMMA UserRoom ==
  ASSUME TypedIsText
  PROVE  /\ UserOffset.name \in Nat /\ UserOffset.cpf \in Nat /\ UserOffset.password \in Nat /\ UserEnd \in Nat
         /\ UserOffset.name <= UserOffset.cpf /\ UserOffset.password + 13 <= UserEnd
         /\ UserOffset.cpf + Len(Room("cpf")) < UserOffset.password
         /\ UserOffset.password <= UserEnd /\ UserOffset.cpf <= UserOffset.password
         /\ Len(typed.name) < DtoSize.name => UserOffset.name + Len(typed.name) < UserOffset.cpf
<1> DEFINE ui == UserSize.id  un == UserSize.name  uc == UserSize.cpf  ue == UserSize.email  up == UserSize.password
           on == UserOffset.name  oc == UserOffset.cpf  op == UserOffset.password  end == UserEnd
           dn == DtoSize.name  dc == DtoSize.cpf  sc == SchemaSize.cpf  c == Len(Room("cpf"))  n == Len(typed.name)
<1>1. /\ ui \in Nat /\ un \in Nat /\ uc \in Nat /\ ue \in Nat /\ up \in Nat /\ dn \in Nat /\ dc \in Nat /\ sc \in Nat
      /\ dn <= un /\ dc <= uc /\ sc <= dc /\ up > 13
  BY FormAssumption
<1>2. on = ui /\ oc = ui + un /\ op = ui + un + uc + ue /\ end = op + up - 1
  BY DEF UserOffset, UserEnd
<1>3. c \in Nat /\ c <= sc - 1 /\ n \in Nat
  BY RoomFits DEF FieldNames
<1> HIDE DEF ui, un, uc, ue, up, on, oc, op, end, dn, dc, sc, c, n
<1>4. on \in Nat /\ oc \in Nat /\ op \in Nat /\ end \in Nat
  BY <1>1, <1>2
<1>5. /\ on <= oc /\ op + 13 <= end /\ oc + c < op /\ op <= end /\ oc <= op
      /\ n < dn => on + n < oc
  BY <1>1, <1>2, <1>3
<1> QED BY <1>4, <1>5 DEF on, oc, op, end, c, n, dn

(* A text that is not empty is read back as it was stored, if it is no     *)
(* longer than the DTO's name or the schema's cpf.                         *)
LEMMA ReadsBack ==
  ASSUME TypedIsText, DtoHolds, NEW name \in ReadBack("name"), NEW cpf \in ReadBack("cpf")
  PROVE  /\ cpf \in Typeable
         /\ Room("cpf") # <<>> => cpf = Room("cpf")
         /\ typed.name # <<>> /\ Len(typed.name) < DtoSize.name => name = typed.name
<1> DEFINE c == Room("cpf")  n == typed.name  rc == ReadSize.cpf  rn == ReadSize.name
           sc == SchemaSize.cpf  dn == DtoSize.name
<1>1. /\ rc \in Nat \ {0} /\ rn \in Nat \ {0} /\ sc \in Nat \ {0} /\ dn \in Nat \ {0}
      /\ sc <= rc /\ dn <= rn
  BY FormAssumption
<1>2. Leftovers \subseteq Typeable
  BY FormAssumption DEF Typeable
<1>3. /\ c \in Typeable /\ Len(c) \in Nat /\ Len(c) <= sc - 1
      /\ n \in Typeable /\ Len(n) \in Nat
  BY RoomFits DEF FieldNames
<1>4. /\ StringAt("cpf") = c
      /\ Len(n) < dn => StringAt("name") = n
  BY DtoIsRead
<1> HIDE DEF c, n, rc, rn, sc, dn
<1>5. Shortened(c, rc) = c
  <2>1. Len(c) < rc
    BY <1>1, <1>3
  <2> QED BY <1>1, <1>3, <2>1, ShortenedFits
<1>6. cpf \in Typeable /\ (c # <<>> => cpf = c)
  <2>1. cpf \in IF c = <<>> THEN Leftovers ELSE {Shortened(c, rc)}
    BY <1>4 DEF ReadBack, rc
  <2> QED BY <1>2, <1>3, <1>5, <2>1
<1>7. ASSUME n # <<>>, Len(n) < dn
      PROVE  name = n
  <2>1. Shortened(n, rn) = n
    <3>1. Len(n) < rn
      BY <1>1, <1>3, <1>7
    <3> QED BY <1>1, <1>3, <3>1, ShortenedFits
  <2>2. StringAt("name") = n
    BY <1>4, <1>7
  <2>3. name \in {Shortened(n, rn)}
    BY <1>7, <2>2 DEF ReadBack, rn
  <2> QED BY <2>1, <2>3
<1> QED BY <1>6, <1>7 DEF c, n, dn

(* The cpf is copied after the name and the password after both, whatever  *)
(* their lengths.                                                          *)
LEMMA UserBuilt ==
  ASSUME TypedIsText, DtoHolds, NEW name \in ReadBack("name"), NEW cpf \in ReadBack("cpf"),
         user = mount_user_from_line_buf(name, cpf)
  PROVE  Mounted
<1> DEFINE on == UserOffset.name  oc == UserOffset.cpf  op == UserOffset.password
           m1 == strcpy(ZeroedUser, on, name)  m2 == strcpy(m1, oc, cpf)  m3 == strcpy(m2, op, Hashed)
<1>1. cpf \in Typeable /\ Hashed \in Typeable /\ Len(Hashed) = 13
  <2> DEFINE B == 1 .. 255  k == 13
  <2>1. 72 \in B /\ k \in Nat /\ Hashed = [i \in 1 .. k |-> 72]
    BY DEF Hashed
  <2> HIDE DEF B, k
  <2>3. Hashed \in Seq(B) /\ Len(Hashed) = k
    BY <2>1
  <2>2. Hashed \in Seq(1 .. 255) /\ Len(Hashed) = 13
    BY <2>3 DEF B, k
  <2> QED BY <2>2, ReadsBack DEF Typeable
<1>2. /\ on \in Nat /\ oc \in Nat /\ op \in Nat /\ UserEnd \in Nat /\ op + 13 <= UserEnd
      /\ oc + Len(Room("cpf")) < op /\ oc <= op /\ op <= UserEnd
      /\ Len(typed.name) < DtoSize.name => on + Len(typed.name) < oc
  BY UserRoom
<1>3. user = m3
  BY DEF mount_user_from_line_buf
<1>4. DOMAIN ZeroedUser = 0 .. UserEnd
  BY DEF ZeroedUser, UserEnd
<1>5. Len(Room("cpf")) \in Nat
  BY RoomFits DEF FieldNames
<1> HIDE DEF on, oc, op
<1>6. DOMAIN m1 = 0 .. UserEnd /\ DOMAIN m2 = 0 .. UserEnd
  <2>1. DOMAIN m1 = DOMAIN ZeroedUser /\ DOMAIN m2 = DOMAIN m1
    BY StrcpyDomain
  <2> HIDE DEF m1, m2
  <2> QED BY <1>4, <2>1, Zenon
<1> HIDE DEF m1, m2, m3
<1>7. Holds(m3, UserEnd, op, Hashed)
  <2>1. op + Len(Hashed) <= UserEnd
    BY <1>1, <1>2
  <2> QED BY <1>1, <1>2, <1>6, <2>1, StrcpyHolds DEF m3
<1>8. ASSUME Room("cpf") # <<>>
      PROVE  Holds(m3, UserEnd, oc, Room("cpf"))
  <2>1. cpf = Room("cpf")
    BY <1>8, ReadsBack
  <2>2. oc + Len(cpf) < op /\ oc + Len(cpf) <= UserEnd
    BY <1>2, <1>5, <2>1
  <2>3. Holds(m2, UserEnd, oc, cpf)
    BY <1>1, <1>2, <1>6, <2>2, StrcpyHolds DEF m2
  <2>4. Holds(m3, UserEnd, oc, cpf)
    BY <1>1, <1>2, <2>2, <2>3, StrcpyElsewhere DEF m3
  <2> QED BY <2>1, <2>4
<1>9. ASSUME typed.name # <<>>, Len(typed.name) < DtoSize.name
      PROVE  Holds(m3, UserEnd, on, typed.name)
  <2>1. name = typed.name
    BY <1>9, ReadsBack
  <2>2. typed.name \in Typeable /\ Len(typed.name) \in Nat
    BY RoomFits DEF FieldNames
  <2>3. on + Len(typed.name) < oc
    BY <1>2, <1>9
  <2>4. on + Len(typed.name) <= UserEnd /\ on + Len(typed.name) < op
    BY <1>2, <2>2, <2>3
  <2>5. Holds(m1, UserEnd, on, typed.name)
    <3>1. Holds(strcpy(ZeroedUser, on, typed.name), UserEnd, on, typed.name)
      BY <1>2, <1>4, <2>2, <2>4, StrcpyHolds
    <3> QED BY <2>1, <3>1 DEF m1
  <2>6. Holds(m2, UserEnd, on, typed.name)
    BY <1>1, <1>2, <2>3, <2>5, StrcpyElsewhere DEF m2
  <2> QED BY <1>1, <1>2, <2>4, <2>6, StrcpyElsewhere DEF m3
<1>10. StringFrom(m3, op) = Hashed
  BY <1>2, <1>7, HeldIsRead
<1>11. Room("cpf") # <<>> => StringFrom(m3, oc) = Room("cpf")
  BY <1>2, <1>8, HeldIsRead
<1>12. typed.name # <<>> /\ Len(typed.name) < DtoSize.name => StringFrom(m3, on) = typed.name
  BY <1>2, <1>9, HeldIsRead
<1> QED BY <1>3, <1>10, <1>11, <1>12, Zenon DEF Mounted, on, oc, op

(* The user is one that the row's values give.                             *)
IsMounted ==
  \E name \in ReadBack("name"), cpf \in ReadBack("cpf") : user = mount_user_from_line_buf(name, cpf)

(* Each stage has left what it makes of what was typed: the body, the      *)
(* parameters it gives, what the schema has room for, and the two records  *)
(* of the copies. Before the DTO is copied to it is as it was zeroed.      *)
FormInv ==
  /\ typed \in Typed
  /\ form_phase \in {"typed", "sent", "decoded", "parsed", "copied", "mounted"}
  /\ form_phase # "typed" => form_body = FormBody
  /\ form_phase \in {"decoded", "parsed", "copied", "mounted"} => params = Given
  /\ form_phase \in {"parsed", "copied", "mounted"} => schema = [f \in DOMAIN SchemaSize |-> Room(f)]
  /\ dto = IF form_phase \in {"copied", "mounted"} THEN user_dto_from_register_acc_schema ELSE Zeroed
  /\ form_phase = "mounted" => IsMounted

(* Customers type texts.                                                   *)
LEMMA TypedHolds ==
  ASSUME typed \in Typed
  PROVE  TypedIsText
<1>1. typed \in [{"name", "email", "cpf", "password"} -> Seq(1 .. 255)]
  BY FormAssumption
<1>2. \A f \in FieldNames : typed[f] \in Typeable
  BY <1>1 DEF FieldNames, Typeable
<1>3. \A i \in 1 .. 4 : Fields[i] \in FieldNames
  <2>1. \A i \in 1 .. 4 : i = 1 \/ i = 2 \/ i = 3 \/ i = 4
    OBVIOUS
  <2> QED BY <2>1, FieldKeys DEF FieldNames
<1> QED BY <1>2, <1>3 DEF TypedIsText

(* The invariant holds at first, and a stage keeps it.                     *)
LEMMA FormInvInit == FormInit => FormInv
BY DEF FormInit, FormInv

LEMMA FormInvNext == FormInv /\ [FormNext]_form_vars => FormInv'
<1> SUFFICES ASSUME FormInv, [FormNext]_form_vars
             PROVE  FormInv'
  OBVIOUS
<1>0. /\ typed \in Typed
      /\ form_phase \in {"typed", "sent", "decoded", "parsed", "copied", "mounted"}
      /\ form_phase # "typed" => form_body = FormBody
      /\ form_phase \in {"decoded", "parsed", "copied", "mounted"} => params = Given
      /\ form_phase \in {"parsed", "copied", "mounted"} => schema = [f \in DOMAIN SchemaSize |-> Room(f)]
      /\ dto = IF form_phase \in {"copied", "mounted"} THEN user_dto_from_register_acc_schema ELSE Zeroed
      /\ form_phase = "mounted" => IsMounted
  BY DEF FormInv
<1>1. ASSUME typed' = typed
      PROVE  FormBody' = FormBody /\ Given' = Given
             /\ [f \in DOMAIN SchemaSize |-> Room(f)]' = [f \in DOMAIN SchemaSize |-> Room(f)]
  BY <1>1 DEF FormBody, Given, Room
<1>2. ASSUME schema' = schema
      PROVE  user_dto_from_register_acc_schema' = user_dto_from_register_acc_schema
  BY <1>2 DEF user_dto_from_register_acc_schema
<1>3. Zeroed' = Zeroed
  BY DEF Zeroed
<1>4. ASSUME dto' = dto, user' = user
      PROVE  IsMounted' = IsMounted
  <2>1. ReadBack("name")' = ReadBack("name") /\ ReadBack("cpf")' = ReadBack("cpf")
    BY <1>4 DEF ReadBack, StringAt
  <2> QED BY <1>4, <2>1 DEF IsMounted, mount_user_from_line_buf
<1>5. CASE Submit
  BY <1>0, <1>1, <1>3, <1>5, Zenon DEF FormInv, Submit
<1>6. CASE DecodeUrl
  <2>1. params' = Given
    BY <1>0, <1>6, FormDecoded, TypedHolds DEF DecodeUrl
  <2> QED BY <1>0, <1>1, <1>3, <1>6, <2>1, Zenon DEF FormInv, DecodeUrl
<1>7. CASE ParseSchema
  <2>1. params = Given
    BY <1>0, <1>7 DEF ParseSchema
  <2>2. DOMAIN SchemaSize = FieldNames
    BY FormAssumption DEF FieldNames
  <2>3. \A f \in DOMAIN SchemaSize : Parsed(SchemaSize)[f] = Room(f)
    BY <2>1, <2>2, GivenParsed
  <2>4. Parsed(SchemaSize) = [f \in DOMAIN SchemaSize |-> Parsed(SchemaSize)[f]]
    BY DEF Parsed
  <2>5. schema' = [f \in DOMAIN SchemaSize |-> Room(f)]
    BY <1>7, <2>3, <2>4 DEF ParseSchema
  <2> QED BY <1>0, <1>1, <1>3, <1>7, <2>5, Zenon DEF FormInv, ParseSchema
<1>8. CASE CopyToDto
  BY <1>0, <1>1, <1>2, <1>8, Zenon DEF FormInv, CopyToDto
<1>9. CASE MountUser
  <2>1. dto' = dto
    BY <1>9 DEF MountUser
  <2>2. ReadBack("name")' = ReadBack("name") /\ ReadBack("cpf")' = ReadBack("cpf")
    BY <2>1 DEF ReadBack, StringAt
  <2>3. IsMounted'
    BY <1>9, <2>2 DEF IsMounted, MountUser, mount_user_from_line_buf
  <2> QED BY <1>0, <1>1, <1>2, <1>9, <2>3, Zenon DEF FormInv, MountUser
<1>10. CASE UNCHANGED form_vars
  BY <1>0, <1>1, <1>2, <1>3, <1>4, <1>10, Zenon DEF FormInv, form_vars
<1> QED BY <1>5, <1>6, <1>7, <1>8, <1>9, <1>10 DEF FormNext

(* What the stages left is what FormKept promises.                         *)
LEMMA FormInvKeeps == FormInv => FormKept
<1> SUFFICES ASSUME FormInv
             PROVE  FormKept
  OBVIOUS
<1>1. TypedIsText
  BY TypedHolds DEF FormInv
<1>2. CASE form_phase \in {"copied", "mounted"}
  <2>1. /\ params = Given /\ schema = [f \in DOMAIN SchemaSize |-> Room(f)]
        /\ dto = user_dto_from_register_acc_schema
        /\ form_phase = "mounted" => IsMounted
    BY <1>2 DEF FormInv
  <2>2. StaysInside /\ (EmailFits => DtoHolds)
    BY <1>1, <2>1, DtoBuilt
  <2>3. EmailFits => Registered
    BY <1>1, <2>1, <2>2, FormRegisters
  <2>4. form_phase = "mounted" /\ EmailFits => Mounted
    BY <1>1, <2>1, <2>2, UserBuilt DEF IsMounted
  <2> QED BY <2>2, <2>3, <2>4 DEF FormKept
<1>3. CASE form_phase \notin {"copied", "mounted"}
  <2>1. dto = Zeroed
    BY <1>3 DEF FormInv
  <2>2. StructSize \in Nat /\ Behind = StructSize .. DtoEnd
    BY DtoPlaces
  <2>3. \A i \in Behind : i \in 0 .. StructSize + SchemaSize.email
    <3>1. DtoEnd = StructSize + SchemaSize.email
      BY DEF DtoEnd
    <3> QED BY <2>2, <3>1
  <2>4. StaysInside
    BY <2>1, <2>3 DEF StaysInside, Zeroed
  <2> QED BY <1>3, <2>4 DEF FormKept
<1> QED BY <1>2, <1>3

(* Registration and login agree on what was typed: whatever bytes, and     *)
(* for all sizes that lie to each other as those of the code do, an e-mail *)
(* that fits comes through the url-encoding, the parameters, the schema    *)
(* and the copies between the records, with the cpf and password cut to    *)
(* their sizes and a name that fits, and nothing is written behind the     *)
(* DTO unless an e-mail is longer than all that is left of it. Of the user *)
(* mounted from the row the password's hash stands whatever a buffer held  *)
(* that an empty name or cpf left unwritten; the name and the cpf stand    *)
(* when they are not empty.                                                *)
THEOREM FormIsKept == FormSpec => []FormKept
<1>1. FormInit => FormInv
  BY FormInvInit
<1>2. FormInv /\ [FormNext]_form_vars => FormInv'
  BY FormInvNext
<1>3. FormInv => FormKept
  BY FormInvKeeps
<1> QED BY <1>1, <1>2, <1>3, PTL DEF FormSpec

=============================================================================
