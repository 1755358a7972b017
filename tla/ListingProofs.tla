--------------------------- MODULE ListingProofs ---------------------------
(***************************************************************************)
(* Theorems about the account table's queries (SelectQuery, as Listing     *)
(* uses it): a result set, read through its one list of names, is SQL's    *)
(* relation, and an account that is shown is the customer's own.           *)
(***************************************************************************)
EXTENDS Listing, Ranks, SequenceTheorems

-----------------------------------------------------------------------------
(* The elements of a sequence at some of its places.                       *)

(* The place that is the k-th, and the k-th place that is kept.            *)
LEMMA KeptAt ==
  ASSUME NEW seq, NEW n \in Nat, NEW P \in SUBSET (1 .. n)
  PROVE  /\ Cardinality(P) \in Nat
         /\ DOMAIN Kept(seq, P) = 1 .. Cardinality(P)
         /\ \A i \in P : /\ Upto(P, i) \in 1 .. Cardinality(P)
                         /\ Kept(seq, P)[Upto(P, i)] = seq[i]
         /\ \A k \in 1 .. Cardinality(P) : \E i \in P : Upto(P, i) = k
<1>1. \A i \in P : Kept(seq, P)[Upto(P, i)] = seq[i]
  <2> TAKE i \in P
  <2>1. (CHOOSE j \in P : Cardinality({m \in P : m <= j}) = Upto(P, i)) = i
    BY PlaceOfRank
  <2>2. Upto(P, i) \in 1 .. Cardinality(P)
    BY RanksArePlaces
  <2> QED BY <2>1, <2>2 DEF Kept
<1> QED BY <1>1, RanksArePlaces DEF Kept

-----------------------------------------------------------------------------
(* Lines of the table.                                                     *)

(* A row, or one of the two lines of a torn one.                           *)
Wholes == {Whole(id, user, balance) : id \in Ids, user \in Ids, balance \in Balances}
Fronts == {SubSeq(row, 1, 4) : row \in Wholes}
Rears  == {SubSeq(row, 5, 5) : row \in Wholes}
Lines  == Wholes \cup Fronts \cup Rears

(* The columns of a row, in their order.                                   *)
Order == <<"id", "user_id_fk", "balance", "created_at", "updated_at">>

LEMMA WholeShape ==
  ASSUME NEW line \in Wholes
  PROVE  /\ line \in Lines /\ line \in Seq({line[k] : k \in 1 .. 5})
         /\ Len(line) = 5 /\ DOMAIN line = 1 .. 5
         /\ \A k \in 1 .. 5 : line[k] = Pair(line[k].column, line[k].value)
         /\ \A k \in 1 .. 5 : line[k].column = Order[k]
         /\ \A k \in 1 .. 5 : ValueOf(line, Order[k]) = line[k].value
         /\ Columns(line) = AccountColumns
<1>1. PICK id \in Ids, user \in Ids, balance \in Balances : line = Whole(id, user, balance)
  BY DEF Wholes
<1>2. line \in Lines /\ Len(line) = 5 /\ DOMAIN line = 1 .. 5
  BY <1>1 DEF Whole, Lines
<1>3. \A k \in 1 .. 5 : line[k].column = Order[k]
  BY <1>1 DEF Whole, Pair, Order
<1>4. \A k, m \in 1 .. 5 : Order[k] = Order[m] => k = m
  BY DEF Order
<1>5. ASSUME NEW k \in 1 .. 5
      PROVE  ValueOf(line, Order[k]) = line[k].value
  <2>1. (CHOOSE i \in DOMAIN line : line[i].column = Order[k]) = k
    BY <1>2, <1>3, <1>4
  <2> QED BY <2>1 DEF ValueOf
<1>6. Columns(line) = AccountColumns
  BY <1>1 DEF Whole, Pair, Columns, AccountColumns
<1>7. line \in Seq({line[k] : k \in 1 .. 5})
  BY <1>1 DEF Whole
<1>8. \A k \in 1 .. 5 : line[k] = Pair(line[k].column, line[k].value)
  BY <1>1 DEF Whole, Pair
<1> QED BY <1>2, <1>3, <1>5, <1>6, <1>7, <1>8

(* A line is some places of a row; its columns are different, and only a   *)
(* row has all of them.                                                    *)
LEMMA LineShape ==
  ASSUME NEW line \in Lines
  PROVE  /\ Len(line) \in Nat /\ DOMAIN line = 1 .. Len(line)
         /\ \A k \in DOMAIN line : line[k] = Pair(line[k].column, line[k].value)
         /\ \A k, m \in DOMAIN line : line[k].column = line[m].column => k = m
         /\ AccountColumns \subseteq Columns(line) => line \in Wholes
<1>1. \A k, m \in 1 .. 5 : Order[k] = Order[m] => k = m
  BY DEF Order
<1>2. CASE line \in Wholes
  <2>1. Len(line) = 5 /\ DOMAIN line = 1 .. 5 /\ \A k \in 1 .. 5 : line[k].column = Order[k]
    BY <1>2, WholeShape
  <2>2. \A k \in 1 .. 5 : line[k] = Pair(line[k].column, line[k].value)
    BY <1>2, WholeShape, Zenon
  <2>3. \A k, m \in DOMAIN line : line[k].column = line[m].column => k = m
    BY <1>1, <2>1
  <2>4. Len(line) \in Nat
    BY <2>1
  <2>5. \A k \in DOMAIN line : line[k] = Pair(line[k].column, line[k].value)
    BY <2>1, <2>2, Zenon
  <2> QED BY <1>2, <2>1, <2>3, <2>4, <2>5, Zenon
<1>3. CASE line \in Fronts
  <2>1. PICK row \in Wholes : line = SubSeq(row, 1, 4)
    BY <1>3 DEF Fronts
  <2>2. Len(line) = 4 /\ line \in Seq({row[k] : k \in 1 .. 5})
           /\ \A k \in 1 .. 4 : line[k] = row[k]
    <3>1. \A i \in 1 .. 4 : row[i] \in {row[k] : k \in 1 .. 5}
      OBVIOUS
    <3> QED BY <2>1, <3>1, SubSeqProperties
  <2>3. DOMAIN line = 1 .. 4
    BY <2>2
  <2>4. \A k \in 1 .. 4 : line[k] = Pair(line[k].column, line[k].value)
                           /\ line[k].column = Order[k]
    <3> TAKE k \in 1 .. 4
    <3>1. line[k] = row[k] /\ k \in 1 .. 5
      BY <2>2
    <3>2. row[k] = Pair(row[k].column, row[k].value)
            /\ row[k].column = Order[k]
      BY <3>1, WholeShape, Zenon
    <3> QED BY <3>1, <3>2, Zenon
  <2>5. "updated_at" \notin Columns(line)
    BY <2>3, <2>4 DEF Columns, Order
  <2> QED BY <1>1, <2>2, <2>3, <2>4, <2>5 DEF AccountColumns
<1>4. CASE line \in Rears
  <2>1. PICK row \in Wholes : line = SubSeq(row, 5, 5)
    BY <1>4 DEF Rears
  <2>2. Len(line) = 1 /\ line \in Seq({row[k] : k \in 1 .. 5})
           /\ \A k \in 1 .. 1 : line[k] = row[k + 4]
    <3>1. \A i \in 5 .. 5 : row[i] \in {row[k] : k \in 1 .. 5}
      OBVIOUS
    <3> QED BY <2>1, <3>1, SubSeqProperties
  <2>3. DOMAIN line = 1 .. 1
    BY <2>2
  <2>4. \A k \in 1 .. 1 : line[k] = Pair(line[k].column, line[k].value)
                           /\ line[k].column = Order[k + 4]
    <3> TAKE k \in 1 .. 1
    <3>1. line[k] = row[k + 4] /\ k + 4 \in 1 .. 5
      BY <2>2
    <3>2. row[k + 4] = Pair(row[k + 4].column, row[k + 4].value)
            /\ row[k + 4].column = Order[k + 4]
      BY <3>1, WholeShape, Zenon
    <3> QED BY <3>1, <3>2, Zenon
  <2>5. "id" \notin Columns(line)
    BY <2>3, <2>4 DEF Columns, Order
  <2> QED BY <1>1, <2>2, <2>3, <2>4, <2>5 DEF AccountColumns
<1> QED BY <1>2, <1>3, <1>4 DEF Lines

LEMMA ColumnsPlaced ==
  \A column \in AccountColumns : \E k \in 1 .. 5 : Order[k] = column
BY DEF AccountColumns, Order

-----------------------------------------------------------------------------
(* The invariant: what the table's lines are, and that a result set that   *)
(* is alive is the query's over the lines that are still there.            *)

Asked(q) == \A c \in q.where : c.column \in AccountColumns
SelectInv ==
  /\ lines \in Seq(Lines)
  /\ query \in Queries \cup {NoQuery}
  /\ result = Execute(query, IF query = NoQuery THEN <<>> ELSE lines)

LEMMA QueriesNameColumns ==
  ASSUME NEW q \in Queries
  PROVE  q.select \subseteq AccountColumns /\ Asked(q)
BY DEF Queries, Query, Condition, AccountColumns, Asked

LEMMA SelectInductive == Spec => []SelectInv
<1>1. Init => SelectInv
  BY DEF Init, SelectInit, SelectInv
<1>2. SelectInv /\ [Next]_vars => SelectInv'
  <2> SUFFICES ASSUME SelectInv, [Next]_vars PROVE SelectInv'
    OBVIOUS
  <2>1. CASE UNCHANGED select_vars
    BY <2>1 DEF SelectInv, select_vars
  <2>2. CASE Insert
    <3>1. PICK id \in Ids, user \in Ids, balance \in Balances :
            lines' = Append(lines, Whole(id, user, balance))
      BY <2>2 DEF Insert
    <3>2. Whole(id, user, balance) \in Lines
      BY DEF Lines, Wholes
    <3>3. lines' \in Seq(Lines)
      BY <3>1, <3>2 DEF SelectInv
    <3>4. query = NoQuery /\ UNCHANGED <<query, result>>
      BY <2>2 DEF Insert
    <3> QED BY <3>3, <3>4 DEF SelectInv
  <2>3. CASE InsertTorn
    <3>1. PICK id \in Ids, user \in Ids, balance \in Balances :
            lines' = lines \o << SubSeq(Whole(id, user, balance), 1, 4),
                                 SubSeq(Whole(id, user, balance), 5, 5) >>
      BY <2>3 DEF InsertTorn
    <3>2. /\ SubSeq(Whole(id, user, balance), 1, 4) \in Lines
          /\ SubSeq(Whole(id, user, balance), 5, 5) \in Lines
      BY DEF Lines, Wholes, Fronts, Rears
    <3>3. lines' \in Seq(Lines)
      BY <3>1, <3>2 DEF SelectInv
    <3>4. query = NoQuery /\ UNCHANGED <<query, result>>
      BY <2>3 DEF InsertTorn
    <3> QED BY <3>3, <3>4 DEF SelectInv
  <2>4. CASE Select
    <3>1. query' # NoQuery
      <4>1. \A q \in Queries : q.select # {}
        BY DEF Queries, Query, AccountColumns
      <4> QED BY <2>4, <4>1 DEF Select, NoQuery, Query
    <3> QED BY <2>4, <3>1 DEF Select, SelectInv
  <2>5. CASE FreeResult
    BY <2>5 DEF FreeResult, SelectInv
  <2> QED
    BY <2>1, <2>2, <2>3, <2>4, <2>5
    DEF Next, Table, SelectNext, StartListing, ListOne, Build, Answer, vars
<1> QED BY <1>1, <1>2, PTL DEF Spec

-----------------------------------------------------------------------------
(* Result sets.                                                            *)

Found(q, all) == {i \in DOMAIN all : Where(q, all[i])}
Places(q, line) == {i \in DOMAIN line : line[i].column \in q.select}

(* The pairs of a line that a query takes.                                 *)
LEMMA PickedShape ==
  ASSUME NEW q, NEW line \in Lines
  PROVE  /\ Cardinality(Places(q, line)) \in Nat
         /\ DOMAIN Picked(q, line) = 1 .. Cardinality(Places(q, line))
         /\ Len(Picked(q, line)) = Cardinality(Places(q, line))
         /\ \A k \in Places(q, line) :
              /\ Upto(Places(q, line), k) \in DOMAIN Picked(q, line)
              /\ Picked(q, line)[Upto(Places(q, line), k)] = line[k]
         /\ \A j \in DOMAIN Picked(q, line) :
              \E k \in Places(q, line) : Upto(Places(q, line), k) = j /\ Picked(q, line)[j] = line[k]
<1> DEFINE P == Places(q, line)
<1>1. P \in SUBSET (1 .. Len(line)) /\ Len(line) \in Nat
  BY LineShape DEF Places
<1>2. Picked(q, line) = Kept(line, P)
  BY DEF Picked, Places
<1> HIDE DEF P
<1>3. /\ Cardinality(P) \in Nat
      /\ DOMAIN Kept(line, P) = 1 .. Cardinality(P)
      /\ \A k \in P : Upto(P, k) \in 1 .. Cardinality(P) /\ Kept(line, P)[Upto(P, k)] = line[k]
      /\ \A j \in 1 .. Cardinality(P) : \E k \in P : Upto(P, k) = j
  BY <1>1, KeptAt
<1>4. Len(Kept(line, P)) = Cardinality(P)
  BY <1>3 DEF Kept
<1>5. \A j \in 1 .. Cardinality(P) : \E k \in P : Upto(P, k) = j /\ Kept(line, P)[j] = line[k]
  BY <1>3
<1> QED BY <1>2, <1>3, <1>4, <1>5 DEF P

(* The rows of a result set are what is picked of the lines that are       *)
(* found; the names come from the first, their number from the last.       *)
Shaped(q, all) ==
  LET n  == Cardinality(Found(q, all))
      h  == Hits(q, all)
      rs == Execute(q, all)
  IN /\ n \in Nat /\ DOMAIN h = 1 .. n
     /\ DOMAIN rs.rows = 1 .. n /\ Len(rs.rows) = n /\ (rs.rows = <<>> <=> n = 0)
     /\ \A r \in 1 .. n :
          /\ \E i \in Found(q, all) : h[r] = all[i]
          /\ h[r] \in Lines /\ Where(q, h[r])
          /\ rs.rows[r] = [j \in DOMAIN Picked(q, h[r]) |-> Picked(q, h[r])[j].value]
     /\ n > 0 =>
          /\ rs.order = [j \in DOMAIN Picked(q, h[1]) |-> Picked(q, h[1])[j].column]
          /\ rs.cols = Len(Picked(q, h[n]))

LEMMA ExecuteShape ==
  ASSUME NEW q, NEW all \in Seq(Lines)
  PROVE  Shaped(q, all)
<1> DEFINE n  == Cardinality(Found(q, all))
           h  == Hits(q, all)
           rs == Execute(q, all)
           F  == Found(q, all)
           picks == [i \in DOMAIN h |-> Picked(q, h[i])]
           values == [i \in DOMAIN picks |-> [j \in DOMAIN picks[i] |-> picks[i][j].value]]
<1>0. n = Cardinality(Found(q, all)) /\ h = Hits(q, all) /\ rs = Execute(q, all)
  OBVIOUS
<1> HIDE DEF n, h, rs
<1> USE <1>0
<1>1. F \in SUBSET (1 .. Len(all)) /\ Len(all) \in Nat
  BY DEF Found
<1>2. h = Kept(all, F)
  BY DEF Hits, Found
<1>3. /\ n \in Nat /\ DOMAIN h = 1 .. n
      /\ \A r \in 1 .. n : \E i \in F : Upto(F, i) = r /\ h[r] = all[i]
  <2> HIDE DEF F
  <2>1. n = Cardinality(F)
    BY DEF F
  <2>2. /\ Cardinality(F) \in Nat
        /\ DOMAIN Kept(all, F) = 1 .. Cardinality(F)
        /\ \A k \in F : Kept(all, F)[Upto(F, k)] = all[k]
        /\ \A j \in 1 .. Cardinality(F) : \E k \in F : Upto(F, k) = j
    BY <1>1, KeptAt
  <2> QED BY <1>2, <2>1, <2>2
<1>4. \A r \in 1 .. n : h[r] \in Lines /\ Where(q, h[r])
  BY <1>3 DEF Found
<1>5. /\ rs.rows = values
      /\ rs.order = IF h = <<>> THEN <<>>
                    ELSE [j \in DOMAIN Head(picks) |-> Head(picks)[j].column]
      /\ rs.cols = IF h = <<>> THEN 0 ELSE Len(Last(picks))
  BY DEF Execute
<1>6. /\ picks \in Seq({Picked(q, h[r]) : r \in 1 .. n}) /\ Len(picks) = n
      /\ DOMAIN picks = 1 .. n /\ \A r \in 1 .. n : picks[r] = Picked(q, h[r])
  BY <1>3
<1> HIDE DEF picks
<1>7. n > 0 => h # <<>> /\ Head(picks) = Picked(q, h[1]) /\ Last(picks) = Picked(q, h[n])
  BY <1>3, <1>6 DEF Last
<1>8. DOMAIN values = 1 .. n /\ Len(values) = n /\ (values = <<>> <=> n = 0)
  <2>1. DOMAIN values = 1 .. n
    BY <1>6
  <2>2. values \in [1 .. n -> {values[r] : r \in 1 .. n}]
    BY <2>1
  <2> HIDE DEF values
  <2>3. Len(values) = n /\ values \in Seq({values[r] : r \in 1 .. n})
    BY <1>3, <2>1, <2>2
  <2> QED BY <2>1, <2>3, EmptySeq
<1>9. \A r \in 1 .. n :
        values[r] = [j \in DOMAIN Picked(q, h[r]) |-> Picked(q, h[r])[j].value]
  BY <1>6
<1>10. DOMAIN rs.rows = 1 .. n /\ Len(rs.rows) = n /\ (rs.rows = <<>> <=> n = 0)
  BY <1>5, <1>8, Zenon
<1>11. \A r \in 1 .. n :
         rs.rows[r] = [j \in DOMAIN Picked(q, h[r]) |-> Picked(q, h[r])[j].value]
  BY <1>5, <1>9, Zenon
<1> HIDE DEF values
<1>12. n > 0 => /\ rs.order = [j \in DOMAIN Picked(q, h[1]) |-> Picked(q, h[1])[j].column]
               /\ rs.cols = Len(Picked(q, h[n]))
  BY <1>5, <1>7
<1>13. \A r \in 1 .. n : \E i \in Found(q, all) : h[r] = all[i]
  BY <1>3 DEF F
<1> QED BY <1>3, <1>4, <1>10, <1>11, <1>12, <1>13, Zenon DEF n, h, rs, Shaped

-----------------------------------------------------------------------------
(* What the first row shows.                                               *)

(* The first row's pairs are a found line's, under its own columns; more   *)
(* of them may be asked for than it has.                                   *)
LEMMA FirstRowIsALine ==
  ASSUME NEW q, NEW all \in Seq(Lines), Execute(q, all).rows # <<>>
  PROVE  LET rs == Execute(q, all)
         IN /\ DOMAIN FullLine(rs, 1) = 1 .. rs.cols
            /\ \E i \in DOMAIN all :
                 /\ all[i] \in Lines /\ Where(q, all[i])
                 /\ \A j \in 1 .. rs.cols :
                      \/ FullLine(rs, 1)[j] = Pair(Null, Null)
                      \/ \E k \in DOMAIN all[i] : all[i][k] = FullLine(rs, 1)[j]
<1> DEFINE h == Hits(q, all)  n == Cardinality(Found(q, all))  rs == Execute(q, all)
<1>0. rs = Execute(q, all) /\ rs.rows # <<>>
  OBVIOUS
<1> HIDE DEF rs
<1> USE <1>0
<1>1. /\ n \in Nat /\ n # 0
      /\ \E i \in Found(q, all) : h[1] = all[i]
      /\ h[1] \in Lines /\ Where(q, h[1])
      /\ rs.rows[1] = [j \in DOMAIN Picked(q, h[1]) |-> Picked(q, h[1])[j].value]
      /\ rs.order = [j \in DOMAIN Picked(q, h[1]) |-> Picked(q, h[1])[j].column]
  <2> HIDE DEF h, n
  <2>1. /\ n \in Nat /\ (rs.rows = <<>> <=> n = 0)
        /\ \A r \in 1 .. n : \E i \in Found(q, all) : h[r] = all[i]
        /\ \A r \in 1 .. n :
             /\ h[r] \in Lines /\ Where(q, h[r])
             /\ rs.rows[r] = [j \in DOMAIN Picked(q, h[r]) |-> Picked(q, h[r])[j].value]
        /\ n > 0 => rs.order = [j \in DOMAIN Picked(q, h[1]) |-> Picked(q, h[1])[j].column]
    BY ExecuteShape DEF h, n, rs, Shaped
  <2>2. n > 0 /\ 1 \in 1 .. n
    BY <2>1
  <2> QED BY <2>1, <2>2
<1> HIDE DEF h, n
<1>2. PICK i \in DOMAIN all : h[1] = all[i]
  BY <1>1 DEF Found
<1>3. ASSUME NEW j \in 1 .. rs.cols
      PROVE  \/ FullLine(rs, 1)[j] = Pair(Null, Null)
             \/ \E k \in DOMAIN all[i] : all[i][k] = FullLine(rs, 1)[j]
  <2>1. FullLine(rs, 1)[j] = Pair(At(rs.order, j), At(rs.rows[1], j))
    BY DEF FullLine
  <2>2. DOMAIN rs.order = DOMAIN Picked(q, h[1]) /\ DOMAIN rs.rows[1] = DOMAIN Picked(q, h[1])
    BY <1>1
  <2>3. CASE j \notin DOMAIN Picked(q, h[1])
    BY <2>1, <2>2, <2>3 DEF At
  <2>4. CASE j \in DOMAIN Picked(q, h[1])
    <3>1. PICK k \in DOMAIN h[1] : Picked(q, h[1])[j] = h[1][k]
      <4>1. h[1] \in Lines
        BY <1>1
      <4>2. \A x \in DOMAIN Picked(q, h[1]) :
              \E m \in Places(q, h[1]) : Picked(q, h[1])[x] = h[1][m]
        BY <4>1, PickedShape
      <4>3. PICK m \in Places(q, h[1]) : Picked(q, h[1])[j] = h[1][m]
        BY <4>2, <2>4, Zenon
      <4> QED BY <4>3 DEF Places
    <3>2. FullLine(rs, 1)[j] = Pair(h[1][k].column, h[1][k].value)
      BY <1>1, <2>1, <2>2, <2>4, <3>1 DEF At
    <3>3. h[1][k] = Pair(h[1][k].column, h[1][k].value)
      BY <1>1, LineShape
    <3> QED BY <1>2, <3>2, <3>3
  <2> QED BY <2>3, <2>4
<1>4. DOMAIN FullLine(rs, 1) = 1 .. rs.cols
  BY DEF FullLine
<1> QED BY <1>1, <1>2, <1>3, <1>4 DEF rs

LEMMA OwnIsFound ==
  ASSUME SelectInv
  PROVE  FindsOwn
<1> SUFFICES ASSUME NEW v \in Ids
             PROVE  LET found == GetAccountByField(
                          Execute(Query(AccountColumns, {Condition("user_id_fk", "=", v)}), lines))
                    IN \/ found = Blank
                       \/ \E i \in DOMAIN lines :
                            /\ IsWhole(lines[i]) /\ ValueOf(lines[i], "user_id_fk") = v
                            /\ found = Mount(lines[i])
  BY DEF FindsOwn
<1> DEFINE q == Query(AccountColumns, {Condition("user_id_fk", "=", v)})
           rs == Execute(q, lines)
           shown == FullLine(rs, 1)
<1>1. CASE rs.rows = <<>>
  BY <1>1 DEF GetAccountByField
<1>2. CASE rs.rows # <<>> /\ ~ (AccountColumns \subseteq Columns(shown))
  BY <1>2 DEF GetAccountByField, Mount
<1>3. CASE rs.rows # <<>> /\ AccountColumns \subseteq Columns(shown)
  <2>1. lines \in Seq(Lines)
    BY DEF SelectInv
  <2> HIDE DEF rs
  <2>2. DOMAIN shown = 1 .. rs.cols
    <3> HIDE DEF q
    <3> QED BY <1>3, <2>1, FirstRowIsALine DEF rs
  <2>3. PICK i \in DOMAIN lines :
          /\ lines[i] \in Lines /\ Where(q, lines[i])
          /\ \A j \in 1 .. rs.cols : \/ shown[j] = Pair(Null, Null)
                                    \/ \E k \in DOMAIN lines[i] : lines[i][k] = shown[j]
    <3> HIDE DEF q
    <3> QED BY <1>3, <2>1, FirstRowIsALine DEF rs
  <2> HIDE DEF q, shown
  <2>4. ASSUME NEW column \in AccountColumns
        PROVE  column \in Columns(lines[i]) /\ ValueOf(shown, column) = ValueOf(lines[i], column)
    <3> DEFINE j == CHOOSE m \in DOMAIN shown : shown[m].column = column
    <3>1. j \in DOMAIN shown /\ shown[j].column = column
      BY <1>3 DEF Columns
    <3>2. ValueOf(shown, column) = shown[j].value
      BY DEF ValueOf
    <3> HIDE DEF j
    <3>3. shown[j] # Pair(Null, Null)
      BY <3>1 DEF Pair, Null, AccountColumns
    <3>4. PICK k \in DOMAIN lines[i] : lines[i][k] = shown[j]
      BY <2>2, <2>3, <3>1, <3>3
    <3>5. (CHOOSE m \in DOMAIN lines[i] : lines[i][m].column = column) = k
      BY <2>3, <3>1, <3>4, LineShape
    <3> QED BY <3>1, <3>2, <3>4, <3>5 DEF Columns, ValueOf
  <2>5. lines[i] \in Wholes
    BY <2>3, <2>4, LineShape
  <2>6. PICK m \in 1 .. 5 : Order[m] = "user_id_fk"
    BY DEF Order
  <2>7. /\ Columns(lines[i]) = AccountColumns /\ DOMAIN lines[i] = 1 .. 5
        /\ lines[i][m].column = "user_id_fk"
        /\ ValueOf(lines[i], "user_id_fk") = lines[i][m].value
    BY <2>5, <2>6, WholeShape
  <2>8. lines[i][m].value = v
    <3>1. Compare(lines[i][m].value, "=", v)
      BY <2>3, <2>7 DEF q, Where, Query, Condition
    <3> QED BY <3>1 DEF Compare
  <2>9. Mount(shown) = Mount(lines[i])
    BY <1>3, <2>4, <2>7 DEF Mount, AccountColumns
  <2>10. GetAccountByField(rs) = Mount(lines[i])
    BY <1>3, <2>9 DEF GetAccountByField, shown
  <2> QED BY <2>7, <2>8, <2>10 DEF q, rs, IsWhole
<1> QED BY <1>1, <1>2, <1>3

-----------------------------------------------------------------------------
(* A table of rows.                                                        *)

(* On a row, no contradicted condition means that every one holds.         *)
LEMMA WhereSatisfies ==
  ASSUME NEW line \in Wholes, NEW q, Asked(q)
  PROVE  Where(q, line) <=> Satisfies(line, q)
<1>1. /\ DOMAIN line = 1 .. 5
      /\ \A k \in 1 .. 5 : line[k].column = Order[k] /\ ValueOf(line, Order[k]) = line[k].value
  BY WholeShape
<1>2. ASSUME Where(q, line), NEW c \in q.where
      PROVE  Compare(ValueOf(line, c.column), c.op, c.value)
  <2>1. PICK k \in 1 .. 5 : Order[k] = c.column
    BY ColumnsPlaced DEF Asked
  <2> QED BY <1>1, <1>2, <2>1 DEF Where
<1>3. ASSUME Satisfies(line, q), NEW k \in DOMAIN line, NEW c \in q.where,
             c.column = line[k].column
      PROVE  Compare(line[k].value, c.op, c.value)
  <2>1. ValueOf(line, c.column) = line[k].value
    BY <1>1, <1>3
  <2> QED BY <1>3, <2>1 DEF Satisfies
<1>4. Where(q, line) => Satisfies(line, q)
  BY <1>2 DEF Satisfies
<1>5. Satisfies(line, q) => Where(q, line)
  BY <1>3 DEF Where
<1> QED BY <1>4, <1>5

(* Every row picks at the same places, so one list of names serves all.    *)
LEMMA ValueUnderColumn ==
  ASSUME NEW q, q.select \subseteq AccountColumns,
         NEW all \in Seq(Lines), \A i \in DOMAIN all : all[i] \in Wholes,
         NEW row \in DOMAIN Hits(q, all), NEW column \in q.select
  PROVE  GetRowColValue(Execute(q, all), row, column) = ValueOf(Hits(q, all)[row], column)
<1> DEFINE n  == Cardinality(Found(q, all))
           h  == Hits(q, all)
           rs == Execute(q, all)
           P == {k \in 1 .. 5 : Order[k] \in q.select}
<1>1. /\ n \in Nat /\ DOMAIN h = 1 .. n
      /\ \A r \in 1 .. n : \E i \in Found(q, all) : h[r] = all[i]
      /\ \A r \in 1 .. n :
           rs.rows[r] = [j \in DOMAIN Picked(q, h[r]) |-> Picked(q, h[r])[j].value]
      /\ n > 0 => /\ rs.order = [j \in DOMAIN Picked(q, h[1]) |-> Picked(q, h[1])[j].column]
                  /\ rs.cols = Len(Picked(q, h[n]))
  <2>1. Shaped(q, all)
    BY ExecuteShape
  <2> QED BY <2>1 DEF Shaped
<1>0. row \in DOMAIN h
  OBVIOUS
<1> HIDE DEF n, h, rs
<1>2. row \in 1 .. n /\ n > 0 /\ 1 \in 1 .. n /\ n \in 1 .. n
  BY <1>0, <1>1
<1>3. \A r \in 1 .. n : h[r] \in Wholes
  BY <1>1 DEF Found
<1>4. ASSUME NEW r \in 1 .. n
      PROVE  /\ h[r] \in Lines /\ Places(q, h[r]) = P
             /\ \A k \in 1 .. 5 : /\ h[r][k].column = Order[k]
                                 /\ ValueOf(h[r], Order[k]) = h[r][k].value
  <2>1. /\ h[r] \in Lines /\ DOMAIN h[r] = 1 .. 5
        /\ \A k \in 1 .. 5 : /\ h[r][k].column = Order[k]
                            /\ ValueOf(h[r], Order[k]) = h[r][k].value
    BY <1>3, WholeShape
  <2>2. Places(q, h[r]) = P
    BY <2>1 DEF Places
  <2> QED BY <2>1, <2>2
<1>5. PICK k \in 1 .. 5 : Order[k] = column
  BY ColumnsPlaced
<1>6. k \in P /\ P \subseteq 1 .. 5
  BY <1>5
<1> HIDE DEF P
<1> DEFINE place == Upto(P, k)
<1>7. ASSUME NEW r \in 1 .. n
      PROVE  /\ Cardinality(P) \in Nat /\ Len(Picked(q, h[r])) = Cardinality(P)
             /\ DOMAIN Picked(q, h[r]) = 1 .. Cardinality(P)
             /\ place \in 1 .. Cardinality(P)
             /\ Picked(q, h[r])[place] = h[r][k]
             /\ \A j \in 1 .. Cardinality(P) :
                  \E m \in P : Upto(P, m) = j /\ Picked(q, h[r])[j] = h[r][m]
  <2>1. h[r] \in Lines /\ Places(q, h[r]) = P
    BY <1>4
  <2>2. /\ Cardinality(P) \in Nat /\ Len(Picked(q, h[r])) = Cardinality(P)
        /\ DOMAIN Picked(q, h[r]) = 1 .. Cardinality(P)
        /\ \A m \in P : /\ Upto(P, m) \in DOMAIN Picked(q, h[r])
                       /\ Picked(q, h[r])[Upto(P, m)] = h[r][m]
        /\ \A j \in DOMAIN Picked(q, h[r]) :
             \E m \in P : Upto(P, m) = j /\ Picked(q, h[r])[j] = h[r][m]
    <3>1. /\ Cardinality(Places(q, h[r])) \in Nat
          /\ Len(Picked(q, h[r])) = Cardinality(Places(q, h[r]))
          /\ DOMAIN Picked(q, h[r]) = 1 .. Cardinality(Places(q, h[r]))
          /\ \A m \in Places(q, h[r]) :
               /\ Upto(Places(q, h[r]), m) \in DOMAIN Picked(q, h[r])
               /\ Picked(q, h[r])[Upto(Places(q, h[r]), m)] = h[r][m]
          /\ \A j \in DOMAIN Picked(q, h[r]) :
               \E m \in Places(q, h[r]) :
                 Upto(Places(q, h[r]), m) = j /\ Picked(q, h[r])[j] = h[r][m]
      BY <2>1, PickedShape
    <3> QED BY <2>1, <3>1
  <2> QED BY <1>6, <2>2
<1> HIDE DEF place
<1>8. DOMAIN rs.order = 1 .. Cardinality(P) /\ rs.cols = Cardinality(P)
  BY <1>1, <1>2, <1>7
<1>9. \A j \in 1 .. Cardinality(P) : rs.order[j] = column <=> j = place
  <2> TAKE j \in 1 .. Cardinality(P)
  <2>1. PICK m \in P : Upto(P, m) = j /\ Picked(q, h[1])[j] = h[1][m]
    BY <1>2, <1>7
  <2>2. rs.order[j] = h[1][m].column
    BY <1>1, <1>2, <1>7, <2>1
  <2>3. rs.order[j] = Order[m]
    BY <1>2, <1>4, <1>6, <2>2
  <2>4. Order[m] = column <=> m = k
    BY <1>5, <1>6 DEF Order
  <2>5. j = place => rs.order[j] = column
    <3>1. Picked(q, h[1])[place] = h[1][k] /\ h[1][k].column = column
      BY <1>2, <1>4, <1>5, <1>7
    <3> QED BY <1>1, <1>2, <1>7, <3>1
  <2> QED BY <2>1, <2>3, <2>4, <2>5 DEF place
<1>10. GetRowColValue(rs, row, column) = At(rs.rows[row], place)
  <2> DEFINE js == {j \in DOMAIN rs.order : j <= rs.cols /\ rs.order[j] = column}
  <2>1. js = {place}
    BY <1>2, <1>7, <1>8, <1>9
  <2>2. GetRowColValue(rs, row, column)
          = IF js = {} THEN Null
            ELSE At(rs.rows[row], CHOOSE j \in js : \A m \in js : j <= m)
    BY DEF GetRowColValue
  <2> HIDE DEF js
  <2>3. (CHOOSE j \in js : \A m \in js : j <= m) = place
    BY <1>2, <1>7, <2>1
  <2> QED BY <2>1, <2>2, <2>3
<1>11. At(rs.rows[row], place) = h[row][k].value
  <2>1. rs.rows[row] = [j \in DOMAIN Picked(q, h[row]) |-> Picked(q, h[row])[j].value]
    BY <1>1, <1>2
  <2>2. place \in DOMAIN Picked(q, h[row]) /\ Picked(q, h[row])[place] = h[row][k]
    BY <1>2, <1>7
  <2> QED BY <2>1, <2>2 DEF At
<1> QED BY <1>2, <1>4, <1>5, <1>10, <1>11 DEF h, rs

LEMMA RelationIsSelected ==
  ASSUME SelectInv
  PROVE  SelectsRelation
<1>1. lines \in Seq(Lines)
  BY DEF SelectInv
<1>2. ASSUME AllWhole, query # NoQuery
      PROVE  /\ Len(result.rows) = Len(Relation)
             /\ \A row \in DOMAIN Relation : \A column \in query.select :
                  GetRowColValue(result, row, column) = ValueOf(Relation[row], column)
  <2>1. query \in Queries /\ result = Execute(query, lines)
    BY <1>2 DEF SelectInv
  <2>2. query.select \subseteq AccountColumns /\ Asked(query)
    BY <2>1, QueriesNameColumns
  <2>3. \A i \in DOMAIN lines : lines[i] \in Wholes
    <3> TAKE i \in DOMAIN lines
    <3>1. lines[i] \in Lines
      BY <1>1
    <3>2. AccountColumns \subseteq Columns(lines[i])
      BY <1>2 DEF AllWhole, IsWhole
    <3> QED BY <3>1, <3>2, LineShape
  <2>4. Found(query, lines) = {i \in DOMAIN lines : Satisfies(lines[i], query)}
    BY <2>2, <2>3, WhereSatisfies DEF Found
  <2>5. Relation = Hits(query, lines)
    BY <2>4 DEF Relation, Hits, Found
  <2>6. Len(result.rows) = Cardinality(Found(query, lines))
          /\ DOMAIN Hits(query, lines) = 1 .. Cardinality(Found(query, lines))
          /\ Cardinality(Found(query, lines)) \in Nat
    <3>1. Shaped(query, lines)
      BY <1>1, ExecuteShape
    <3> QED BY <2>1, <3>1 DEF Shaped
  <2>7. Len(Hits(query, lines)) = Cardinality(Found(query, lines))
    BY <2>6 DEF Hits, Kept, Found
  <2> QED BY <1>1, <2>1, <2>2, <2>3, <2>5, <2>6, <2>7, ValueUnderColumn
<1>3. ASSUME result.rows # <<>>
      PROVE  \E i \in DOMAIN lines : \A j \in 1 .. result.cols :
               LET shown == FullLine(result, 1)[j]
               IN shown.value # Null => \E k \in DOMAIN lines[i] : lines[i][k] = shown
  <2>1. query # NoQuery
    <3>1. <<>> \in Seq(Lines)
      OBVIOUS
    <3>2. Found(NoQuery, <<>>) = {}
      BY DEF Found
    <3>3. Cardinality(Found(NoQuery, <<>>)) = 0
      BY <3>2, FS_EmptySet
    <3>4. Execute(NoQuery, <<>>).rows = <<>>
      <4>1. Shaped(NoQuery, <<>>)
        BY <3>1, ExecuteShape
      <4> QED BY <3>3, <4>1 DEF Shaped
    <3> QED BY <1>3, <3>4 DEF SelectInv
  <2>2. result = Execute(query, lines)
    BY <2>1 DEF SelectInv
  <2>3. PICK i \in DOMAIN lines :
          \A j \in 1 .. result.cols :
            \/ FullLine(result, 1)[j] = Pair(Null, Null)
            \/ \E k \in DOMAIN lines[i] : lines[i][k] = FullLine(result, 1)[j]
    BY <1>1, <1>3, <2>2, FirstRowIsALine
  <2>4. Pair(Null, Null).value = Null
    BY DEF Pair
  <2> QED BY <2>3, <2>4
<1> QED BY <1>2, <1>3 DEF SelectsRelation

-----------------------------------------------------------------------------
(* What list_accounts finds in a table of rows: all of them, as they are.  *)

LEMMA AllKept ==
  ASSUME NEW S, NEW seq \in Seq(S)
  PROVE  Kept(seq, 1 .. Len(seq)) = seq /\ Cardinality(1 .. Len(seq)) = Len(seq)
<1> DEFINE n == Len(seq)  P == 1 .. n
<1>1. n \in Nat /\ DOMAIN seq = 1 .. n /\ seq = [i \in 1 .. n |-> seq[i]]
  BY LenProperties
<1>2. Cardinality(P) = n
  BY <1>1, FS_Interval
<1>3. \A i \in P : Upto(P, i) = i
  <2> TAKE i \in P
  <2>1. {j \in 1 .. i : j \in P} = 1 .. i
    BY <1>1
  <2>2. Cardinality(1 .. i) = i
    <3>1. i \in Int /\ 1 \in Int /\ ~ (1 > i) /\ i - 1 + 1 = i
      BY <1>1
    <3> HIDE DEF P, n
    <3> QED BY <3>1, FS_Interval
  <2> QED BY <2>1, <2>2 DEF Upto
<1>4. /\ DOMAIN Kept(seq, P) = 1 .. Cardinality(P)
      /\ \A i \in P : Kept(seq, P)[Upto(P, i)] = seq[i]
  <2>1. P \in SUBSET (1 .. n) /\ n \in Nat
    BY <1>1
  <2> HIDE DEF P, n
  <2> QED BY <2>1, KeptAt
<1>5. Kept(seq, P) = [k \in 1 .. Cardinality(P) |-> Kept(seq, P)[k]]
  BY DEF Kept
<1>6. \A k \in 1 .. n : Kept(seq, P)[k] = seq[k]
  BY <1>3, <1>4
<1> QED BY <1>1, <1>2, <1>5, <1>6

LEMMA RowsAreListed ==
  ASSUME lines \in Seq(Lines), AllWhole, Len(lines) <= RS_MAX_ROWS
  PROVE  /\ Len(lines) \in Nat /\ DOMAIN lines = 1 .. Len(lines)
         /\ \A r \in DOMAIN lines : lines[r] \in Wholes
         /\ ListAccounts(lines).ends
         /\ ListAccounts(lines).accounts = [r \in 1 .. Len(lines) |-> Mount(lines[r])]
<1> DEFINE n == Len(lines)
           q == Query(AccountColumns, {})
           rs == Execute(q, lines)
<1>1. n \in Nat /\ DOMAIN lines = 1 .. n
  BY LenProperties
<1>2. ASSUME NEW r \in DOMAIN lines PROVE lines[r] \in Wholes
  <2>1. lines[r] \in Lines
    BY ElementOfSeq, <1>1
  <2>2. AccountColumns \subseteq Columns(lines[r])
    BY DEF AllWhole, IsWhole
  <2> QED BY <2>1, <2>2, LineShape
<1>3. Found(q, lines) = 1 .. n
  BY <1>1 DEF Found, Where, Query
<1>4. Cardinality(Found(q, lines)) = n /\ Hits(q, lines) = lines
  BY <1>1, <1>3, AllKept DEF Hits, Found
<1>5. ASSUME NEW r \in 1 .. n
      PROVE  Picked(q, lines[r]) = lines[r] /\ Len(lines[r]) = 5 /\ DOMAIN lines[r] = 1 .. 5
  <2>1. /\ lines[r] \in Seq({lines[r][k] : k \in 1 .. 5})
        /\ Len(lines[r]) = 5 /\ DOMAIN lines[r] = 1 .. 5
        /\ Columns(lines[r]) = AccountColumns
    <3>1. lines[r] \in Wholes
      BY <1>1, <1>2
    <3> QED BY <3>1, WholeShape, Zenon
  <2>2. Places(q, lines[r]) = 1 .. 5
    BY <2>1 DEF Places, Columns, Query
  <2>3. Picked(q, lines[r]) = Kept(lines[r], 1 .. 5)
    BY <2>2 DEF Picked, Places
  <2> QED BY <2>1, <2>3, AllKept
<1>6. /\ DOMAIN rs.rows = 1 .. n /\ Len(rs.rows) = n
      /\ \A r \in 1 .. n : rs.rows[r] = [j \in DOMAIN lines[r] |-> lines[r][j].value]
      /\ n > 0 => rs.order = [j \in 1 .. 5 |-> lines[1][j].column] /\ rs.cols = 5
  <2>1. Shaped(q, lines)
    BY ExecuteShape
  <2>2. /\ DOMAIN rs.rows = 1 .. n /\ Len(rs.rows) = n
        /\ \A r \in 1 .. n :
             rs.rows[r] = [j \in DOMAIN Picked(q, lines[r]) |-> Picked(q, lines[r])[j].value]
        /\ n > 0 =>
             /\ rs.order = [j \in DOMAIN Picked(q, lines[1]) |-> Picked(q, lines[1])[j].column]
             /\ rs.cols = Len(Picked(q, lines[n]))
    BY <1>4, <2>1 DEF Shaped
  <2> HIDE DEF rs, q, n
  <2>3. n > 0 => 1 \in 1 .. n /\ n \in 1 .. n
    BY <1>1
  <2>4. ASSUME NEW r \in 1 .. n
        PROVE  rs.rows[r] = [j \in DOMAIN lines[r] |-> lines[r][j].value]
    <3>1. Picked(q, lines[r]) = lines[r]
      BY <1>5
    <3>2. rs.rows[r] = [j \in DOMAIN Picked(q, lines[r]) |-> Picked(q, lines[r])[j].value]
      BY <2>2
    <3> QED BY <3>1, <3>2
  <2>5. ASSUME n > 0
        PROVE  rs.order = [j \in 1 .. 5 |-> lines[1][j].column] /\ rs.cols = 5
    <3>1. /\ Picked(q, lines[1]) = lines[1] /\ DOMAIN lines[1] = 1 .. 5
          /\ Len(Picked(q, lines[n])) = 5
      BY <1>5, <2>3, <2>5
    <3> QED BY <2>2, <2>5, <3>1
  <2> QED BY <2>2, <2>4, <2>5
<1>7. \A line \in Wholes : \A k \in 1 .. 5 :
        line[k].column = Order[k] /\ line[k] = Pair(line[k].column, line[k].value)
  BY WholeShape
<1> HIDE DEF rs
<1>8. ASSUME NEW r \in 1 .. n
      PROVE  FullLine(rs, r) = lines[r] /\ ~ LineCrashes(rs, r)
  <2>1. n > 0 /\ 1 \in 1 .. n
    BY <1>1
  <2>2. /\ DOMAIN rs.order = 1 .. 5 /\ \A k \in 1 .. 5 : rs.order[k] = Order[k]
    BY <1>1, <1>2, <1>6, <1>7, <2>1
  <2>3. /\ DOMAIN rs.rows[r] = 1 .. 5 /\ \A k \in 1 .. 5 : rs.rows[r][k] = lines[r][k].value
    <3>1. DOMAIN lines[r] = 1 .. 5
      BY <1>5
    <3>2. rs.rows[r] = [j \in DOMAIN lines[r] |-> lines[r][j].value]
      BY <1>6
    <3> QED BY <3>1, <3>2
  <2>4. rs.cols = 5
    BY <1>6, <2>1
  <2>5. FullLine(rs, r) = [k \in 1 .. 5 |-> Pair(Order[k], lines[r][k].value)]
    BY <2>2, <2>3, <2>4 DEF FullLine, At
  <2>6. \A k \in 1 .. 5 : lines[r][k] = Pair(Order[k], lines[r][k].value)
    <3>1. lines[r] \in Wholes
      BY <1>1, <1>2
    <3> QED BY <1>7, <3>1
  <2>7. lines[r] = [k \in 1 .. 5 |-> lines[r][k]]
    <3>1. lines[r] \in Seq({lines[r][k] : k \in 1 .. 5}) /\ DOMAIN lines[r] = 1 .. 5
      <4>1. lines[r] \in Wholes
        BY <1>1, <1>2
      <4> QED BY <4>1, WholeShape, Zenon
    <3> QED BY <3>1
  <2>8. ~ LineCrashes(rs, r)
    BY <2>2, <2>3, <2>4 DEF LineCrashes
  <2> QED BY <2>5, <2>6, <2>7, <2>8
<1>9. ~ Overflows(rs)
  <2>1. RS_MAX_ROWS \in Nat
    BY ListingAssumption
  <2> QED BY <1>1, <1>6, <2>1 DEF Overflows
<1>10. /\ ListAccounts(lines).ends
       /\ ListAccounts(lines).accounts = [r \in 1 .. n |-> Mount(FullLine(rs, r))]
  BY <1>6, <1>8, <1>9 DEF ListAccounts, rs
<1> QED BY <1>1, <1>2, <1>8, <1>10

-----------------------------------------------------------------------------
(* The builder: what every call of it keeps.                               *)

(* The tokens of a listing, without their widths.                          *)
Words ==
  {<<"{">>, <<"}">>, <<"]">>, <<",">>, <<"data", "[">>, <<"created_at", "now">>}
    \cup {<<"id", v>> : v \in Ids} \cup {<<"balance", NumberOf[v]>> : v \in Balances}
Tokens == [text : Words, width : Nat]
Builders == [doc : Seq(Tokens), offset : Nat, is_first : BOOLEAN, kept : Nat, stray : BOOLEAN]
Texts(b) == [i \in DOMAIN b.doc |-> b.doc[i].text]

(* offset is the length of the document, and a document that leaves room   *)
(* for the terminator is in the buffer.                                    *)
Sound(b) ==
  /\ b \in Builders /\ b.offset = Length(b.doc)
  /\ b.offset < JSON_BUF_SIZE => b.kept = b.offset /\ ~ b.stray

(* The builder has what another one had, and some words more.              *)
Wrote(before, b, words) ==
  Sound(b) /\ words \in Seq(Words) /\ Texts(b) = Texts(before) \o words

LEMMA LengthOfNothing == Length(<<>>) = 0
<1>1. [i \in DOMAIN <<>> |-> [c \in 1 .. (<<>>)[i].width |-> i]] = <<>>
  OBVIOUS
<1> QED BY <1>1, FlattenNothing DEF Length, Characters

LEMMA LengthGrows ==
  ASSUME NEW doc \in Seq(Tokens), NEW token \in Tokens
  PROVE  /\ Length(doc) \in Nat
         /\ Length(Append(doc, token)) = Length(doc) + token.width
<1> DEFINE n == Len(doc)
           more == Append(doc, token)
           old == [i \in DOMAIN doc |-> [c \in 1 .. doc[i].width |-> i]]
           new == [i \in DOMAIN more |-> [c \in 1 .. more[i].width |-> i]]
           last == [c \in 1 .. token.width |-> n + 1]
<1>1. /\ n \in Nat /\ DOMAIN doc = 1 .. n /\ DOMAIN more = 1 .. n + 1
      /\ more[n + 1] = token /\ \A i \in 1 .. n : more[i] = doc[i]
  OBVIOUS
<1>2. token.width \in Nat /\ \A i \in 1 .. n : doc[i].width \in Nat
  <2>1. \A i \in 1 .. n : doc[i] \in Tokens
    BY ElementOfSeq
  <2> QED BY <2>1 DEF Tokens
<1>3. last \in Seq(Nat) /\ Len(last) = token.width
  BY <1>1, <1>2
<1>4. \A i \in 1 .. n : [c \in 1 .. doc[i].width |-> i] \in Seq(Nat)
  BY <1>1, <1>2
<1>5. old \in Seq(Seq(Nat)) /\ Len(old) = n
  <2> DEFINE piece(i) == [c \in 1 .. doc[i].width |-> i]
  <2>1. \A i \in 1 .. n : piece(i) \in Seq(Nat)
    BY <1>4
  <2>2. old = [i \in 1 .. n |-> piece(i)]
    BY <1>1
  <2> HIDE DEF piece, old
  <2> QED BY <1>1, <2>1, <2>2
<1>6. new = Append(old, last)
  <2> DEFINE both == Append(old, last)
  <2>1. /\ DOMAIN both = 1 .. n + 1 /\ both[n + 1] = last
        /\ \A i \in 1 .. n : both[i] = old[i]
        /\ both = [i \in 1 .. n + 1 |-> both[i]]
    <3> DEFINE pieces == Seq(Nat)
    <3>1. old \in Seq(pieces) /\ last \in pieces /\ Len(old) = n
      BY <1>3, <1>5
    <3> HIDE DEF old, last, pieces, n
    <3>2. /\ Len(both) = n + 1 /\ both[n + 1] = last /\ both \in Seq(pieces)
          /\ \A i \in 1 .. n : both[i] = old[i]
      BY <3>1
    <3> HIDE DEF both
    <3> QED BY <1>1, <3>2
  <2> HIDE DEF both
  <2>2. ASSUME NEW i \in 1 .. n + 1
        PROVE  both[i] = [c \in 1 .. more[i].width |-> i]
    <3>1. CASE i = n + 1
      BY <1>1, <2>1, <3>1
    <3>2. CASE i # n + 1
      <4>1. i \in 1 .. n
        BY <1>1, <3>2
      <4>2. old[i] = [c \in 1 .. doc[i].width |-> i]
        BY <1>1, <4>1
      <4> QED BY <1>1, <2>1, <4>1, <4>2
    <3> QED BY <3>1, <3>2
  <2>3. new = [i \in 1 .. n + 1 |-> [c \in 1 .. more[i].width |-> i]]
    BY <1>1
  <2> QED BY <2>1, <2>2, <2>3 DEF both
<1>7. Length(doc) = Len(FlattenSeq(old)) /\ Length(more) = Len(FlattenSeq(new))
  BY DEF Length, Characters
<1> HIDE DEF old, new, last, more
<1>8. FlattenSeq(old) \in Seq(Nat)
  BY <1>5, FlattenType
<1>9. FlattenSeq(new) = FlattenSeq(old) \o last
  BY <1>3, <1>5, <1>6, FlattenAppend
<1>10. Len(FlattenSeq(old) \o last) = Len(FlattenSeq(old)) + Len(last) /\ Len(FlattenSeq(old)) \in Nat
  BY <1>3, <1>8, ConcatProperties, LenProperties
<1> QED BY <1>3, <1>7, <1>9, <1>10 DEF more

LEMMA PrintedSound ==
  ASSUME NEW b, Sound(b), NEW token \in Tokens
  PROVE  /\ Sound(Printed(b, token)) /\ Printed(b, token).is_first = b.is_first
         /\ Texts(b) \in Seq(Words)
         /\ Texts(Printed(b, token)) = Append(Texts(b), token.text)
<1> DEFINE c == Printed(b, token)
<1>1. /\ b.doc \in Seq(Tokens) /\ b.offset \in Nat /\ b.is_first \in BOOLEAN
      /\ b.kept \in Nat /\ b.stray \in BOOLEAN /\ token.width \in Nat /\ token.text \in Words
      /\ JSON_BUF_SIZE \in Nat \ {0} /\ b.offset = Length(b.doc)
      /\ b.offset < JSON_BUF_SIZE => b.kept = b.offset /\ ~ b.stray
      /\ b \in Builders
  BY ListingAssumption DEF Sound, Builders, Tokens
<1> DEFINE room == {b.offset + token.width, JSON_BUF_SIZE - 1}
           kept == IF b.offset < JSON_BUF_SIZE THEN Min(room) ELSE b.kept
<1>2. /\ c.doc = Append(b.doc, token) /\ c.offset = b.offset + token.width
      /\ c.kept = kept /\ c.stray = (b.stray \/ b.offset > JSON_BUF_SIZE)
      /\ c.is_first = b.is_first
  BY <1>1 DEF Printed, Builders
<1>3. Min(room) \in Nat /\ (b.offset + token.width <= JSON_BUF_SIZE - 1 =>
                              Min(room) = b.offset + token.width)
  <2>1. room \in SUBSET Nat /\ room # {}
    BY <1>1
  <2>2. b.offset + token.width \in room
    OBVIOUS
  <2>3. b.offset + token.width <= JSON_BUF_SIZE - 1 => \A k \in room : b.offset + token.width <= k
    BY <1>1
  <2> HIDE DEF room
  <2>4. Min(room) \in Nat
    BY <2>1, MinIsLeast
  <2> QED BY <2>1, <2>2, <2>3, <2>4, MinIsUnique
<1>4. c \in Builders
  <2>1. Append(b.doc, token) \in Seq(Tokens)
    BY <1>1
  <2>2. kept \in Nat /\ b.offset + token.width \in Nat
    BY <1>1, <1>3
  <2>3. c = [b EXCEPT !.doc = Append(@, token), !.offset = @ + token.width,
                      !.kept = kept, !.stray = @ \/ b.offset > JSON_BUF_SIZE]
    BY <1>1 DEF Printed, Builders
  <2> HIDE DEF c, kept
  <2> QED BY <1>1, <2>1, <2>2, <2>3 DEF Builders
<1>5. c.offset = Length(c.doc)
  BY <1>1, <1>2, LengthGrows
<1>6. c.offset < JSON_BUF_SIZE => c.kept = c.offset /\ ~ c.stray
  <2> HIDE DEF c, room
  <2> QED BY <1>1, <1>2, <1>3
<1>7. Texts(b) \in Seq(Words)
  <2>1. \A i \in DOMAIN b.doc : b.doc[i].text \in Words
    <3>1. \A i \in DOMAIN b.doc : b.doc[i] \in Tokens
      BY <1>1
    <3> QED BY <3>1 DEF Tokens
  <2> QED BY <1>1, <2>1 DEF Texts
<1>8. Texts(c) = Append(Texts(b), token.text)
  <2> DEFINE doc == b.doc  more == Append(doc, token)  n == Len(doc)
             words == Append(Texts(b), token.text)
  <2>1. /\ n \in Nat /\ DOMAIN doc = 1 .. n /\ DOMAIN more = 1 .. n + 1
        /\ more[n + 1] = token /\ \A i \in 1 .. n : more[i] = doc[i]
    BY <1>1
  <2>2. Texts(b) = [i \in 1 .. n |-> doc[i].text] /\ Texts(c) = [i \in 1 .. n + 1 |-> more[i].text]
    BY <1>2, <2>1 DEF Texts
  <2> HIDE DEF doc, more, n
  <2>3. /\ words = [i \in 1 .. n + 1 |-> words[i]] /\ words[n + 1] = token.text
        /\ \A i \in 1 .. n : words[i] = doc[i].text
    BY <1>1, <1>7, <2>1, <2>2
  <2> HIDE DEF words
  <2>4. \A i \in 1 .. n + 1 : words[i] = more[i].text
    <3> TAKE i \in 1 .. n + 1
    <3>1. i = n + 1 \/ i \in 1 .. n
      BY <2>1
    <3> QED BY <2>1, <2>3, <3>1
  <2> QED BY <2>2, <2>3, <2>4 DEF words
<1> QED BY <1>2, <1>4, <1>5, <1>6, <1>7, <1>8 DEF Sound

(* The same of a builder that has already written something.               *)
LEMMA PrintedMore ==
  ASSUME NEW before, Sound(before), NEW b, NEW words, Wrote(before, b, words), NEW token \in Tokens
  PROVE  /\ Wrote(before, Printed(b, token), Append(words, token.text))
         /\ Printed(b, token).is_first = b.is_first
<1>1. /\ Sound(Printed(b, token)) /\ Printed(b, token).is_first = b.is_first
      /\ Texts(Printed(b, token)) = Append(Texts(b), token.text)
  BY PrintedSound DEF Wrote
<1>2. Texts(before) \in Seq(Words) /\ words \in Seq(Words) /\ token.text \in Words
  BY PrintedSound DEF Wrote, Tokens
<1>3. Append(Texts(before) \o words, token.text) = Texts(before) \o Append(words, token.text)
  BY <1>2
<1> QED BY <1>1, <1>2, <1>3 DEF Wrote

(* Setting the flag writes nothing.                                        *)
LEMMA FlagWritesNothing ==
  ASSUME NEW before, NEW b, NEW words, Wrote(before, b, words), NEW flag \in BOOLEAN
  PROVE  /\ Wrote(before, [b EXCEPT !.is_first = flag], words)
         /\ [b EXCEPT !.is_first = flag].is_first = flag
<1> DEFINE c == [b EXCEPT !.is_first = flag]
<1>1. b \in Builders
  BY DEF Wrote, Sound
<1>2. /\ c \in Builders /\ c.doc = b.doc /\ c.offset = b.offset /\ c.kept = b.kept
      /\ c.stray = b.stray /\ c.is_first = flag
  BY <1>1 DEF Builders
<1> HIDE DEF c
<1> QED BY <1>2 DEF c, Wrote, Sound, Texts

(* One element at the end of a sequence.                                   *)
LEMMA OneJoined ==
  ASSUME NEW S, NEW s \in Seq(S), NEW x \in S
  PROVE  s \o << x >> = Append(s, x)
OBVIOUS

(* The operations of the builder, by what they write.                      *)
CommaIf(first) == IF first THEN <<>> ELSE << <<",">> >>

LEMMA TextsAreWords ==
  ASSUME NEW b, Sound(b)
  PROVE  Texts(b) \in Seq(Words)
<1> DEFINE token == [text |-> <<"{">>, width |-> 1]
<1>1. token \in Tokens
  BY DEF Tokens, Words
<1> HIDE DEF token
<1> QED BY <1>1, PrintedSound

LEMMA WroteNothing ==
  ASSUME NEW b, Sound(b)
  PROVE  Wrote(b, b, <<>>)
<1>1. <<>> \in Seq(Words)
  OBVIOUS
<1>2. Texts(b) \o <<>> = Texts(b)
  BY TextsAreWords, ConcatEmptySeq
<1> QED BY <1>1, <1>2 DEF Wrote

LEMMA Marks ==
  /\ Mark("{") \in Tokens /\ Mark("{").text = <<"{">>
  /\ Mark("}") \in Tokens /\ Mark("}").text = <<"}">>
  /\ Mark("]") \in Tokens /\ Mark("]").text = <<"]">>
  /\ Mark(",") \in Tokens /\ Mark(",").text = <<",">>
BY DEF Mark, Token, Tokens, Words

LEMMA CommaWritten ==
  ASSUME NEW before, Sound(before), NEW b, NEW words, Wrote(before, b, words)
  PROVE  /\ Wrote(before, add_comma_if_needed(b), words \o CommaIf(b.is_first))
         /\ add_comma_if_needed(b).is_first = FALSE
<1>1. words \in Seq(Words) /\ b.is_first \in BOOLEAN
  BY DEF Wrote, Sound, Builders
<1>2. CASE b.is_first
  <2>1. words \o <<>> = words
    BY <1>1, ConcatEmptySeq
  <2> QED BY <1>2, <2>1, FlagWritesNothing DEF add_comma_if_needed, CommaIf
<1>3. CASE ~ b.is_first
  <2>1. words \o << <<",">> >> = Append(words, <<",">>)
    <3> DEFINE comma == <<",">>
    <3>1. comma \in Words
      BY DEF Words
    <3> HIDE DEF comma
    <3>2. words \o << comma >> = Append(words, comma)
      BY <1>1, <3>1, OneJoined
    <3> QED BY <3>2 DEF comma
  <2>2. Mark(",") \in Tokens /\ Mark(",").text = <<",">>
    BY Marks
  <2>3. /\ Wrote(before, Printed(b, Mark(",")), Append(words, <<",">>))
        /\ Printed(b, Mark(",")).is_first = b.is_first
    BY <2>2, PrintedMore
  <2> QED BY <1>1, <1>3, <2>1, <2>3 DEF add_comma_if_needed, CommaIf
<1> QED BY <1>2, <1>3

LEMMA AddWritten ==
  ASSUME NEW before, Sound(before), NEW b, NEW words, Wrote(before, b, words),
         NEW key, NEW val, NEW width \in Nat, <<key, val>> \in Words
  PROVE  /\ Wrote(before, add(b, key, val, width), Append(words \o CommaIf(b.is_first), <<key, val>>))
         /\ add(b, key, val, width).is_first = FALSE
<1> DEFINE token == Token(<<key, val>>, width)
<1>1. token \in Tokens /\ token.text = <<key, val>>
  BY DEF Token, Tokens
<1> HIDE DEF token
<1>2. /\ Wrote(before, add_comma_if_needed(b), words \o CommaIf(b.is_first))
      /\ add_comma_if_needed(b).is_first = FALSE
  BY CommaWritten
<1> QED BY <1>1, <1>2, PrintedMore DEF add, token

LEMMA StartObjectWritten ==
  ASSUME NEW before, Sound(before), NEW b, NEW words, Wrote(before, b, words)
  PROVE  /\ Wrote(before, start_object(b), Append(words, <<"{">>))
         /\ start_object(b).is_first = TRUE
<1>1. Wrote(before, Printed(b, Mark("{")), Append(words, <<"{">>))
  BY Marks, PrintedMore
<1> QED BY <1>1, FlagWritesNothing DEF start_object

LEMMA StartArrayWritten ==
  ASSUME NEW before, Sound(before), NEW b, NEW words, Wrote(before, b, words)
  PROVE  /\ Wrote(before, start_array(b, "data"),
                  Append(words \o CommaIf(b.is_first), <<"data", "[">>))
         /\ start_array(b, "data").is_first = TRUE
<1> DEFINE token == Token(<<"data", "[">>, 1)
<1>1. token \in Tokens /\ token.text = <<"data", "[">>
  BY DEF Token, Tokens, Words
<1> HIDE DEF token
<1>2. Wrote(before, add_comma_if_needed(b), words \o CommaIf(b.is_first))
  BY CommaWritten
<1>3. Wrote(before, Printed(add_comma_if_needed(b), token),
            Append(words \o CommaIf(b.is_first), <<"data", "[">>))
  BY <1>1, <1>2, PrintedMore
<1> QED BY <1>3, FlagWritesNothing DEF start_array, token

LEMMA EndsWritten ==
  ASSUME NEW before, Sound(before), NEW b, NEW words, Wrote(before, b, words)
  PROVE  /\ Wrote(before, end_object(b), Append(words, <<"}">>))
         /\ end_object(b).is_first = b.is_first
         /\ Wrote(before, end_array(b), Append(words, <<"]">>))
<1>1. /\ Wrote(before, Printed(b, Mark("}")), Append(words, <<"}">>))
      /\ Printed(b, Mark("}")).is_first = b.is_first
      /\ Wrote(before, Printed(b, Mark("]")), Append(words, <<"]">>))
  BY Marks, PrintedMore
<1> QED BY <1>1, FlagWritesNothing DEF end_object, end_array

LEMMA StartsEmpty == Sound(json_init) /\ Texts(json_init) = <<>>
<1>1. json_init \in Builders /\ json_init.doc = <<>> /\ json_init.offset = 0
      /\ json_init.kept = 0 /\ ~ json_init.stray
  BY DEF json_init, Builders
<1>2. Texts(json_init) = <<>>
  BY <1>1 DEF Texts
<1> QED BY <1>1, <1>2, LengthOfNothing DEF Sound

-----------------------------------------------------------------------------
(* One account after another.                                              *)

LEMMA AccountWords ==
  ASSUME NEW line \in Wholes
  PROVE  /\ Mount(line).id = ValueOf(line, "id")
         /\ Mount(line).balance = ValueOf(line, "balance")
         /\ <<"id", ValueOf(line, "id")>> \in Words
         /\ <<"balance", NumberOf[ValueOf(line, "balance")]>> \in Words
         /\ IdWidth[ValueOf(line, "id")] \in Nat
         /\ BalanceWidth[NumberOf[ValueOf(line, "balance")]] \in Nat
<1>1. PICK id \in Ids, user \in Ids, balance \in Balances : line = Whole(id, user, balance)
  BY DEF Wholes
<1>2. /\ \A k \in 1 .. 5 : ValueOf(line, Order[k]) = line[k].value
      /\ Columns(line) = AccountColumns
  BY WholeShape
<1>3. line[1].value = id /\ line[3].value = balance
  BY <1>1 DEF Whole, Pair
<1>4. Order[1] = "id" /\ Order[3] = "balance" /\ 1 \in 1 .. 5 /\ 3 \in 1 .. 5
  BY DEF Order
<1>5. ValueOf(line, "id") = id /\ ValueOf(line, "balance") = balance
  BY <1>2, <1>3, <1>4
<1>6. Mount(line) = [id |-> ValueOf(line, "id"), balance |-> ValueOf(line, "balance")]
  BY <1>2 DEF Mount
<1> QED BY <1>5, <1>6, ListingAssumption DEF Words

(* What is said after what was there before, and one word more.            *)
Said(before, text, said) == said \in Seq(Words) /\ text = before \o said

LEMMA SaidMore ==
  ASSUME NEW before \in Seq(Words), NEW text, NEW said, Said(before, text, said),
         NEW word \in Words
  PROVE  /\ Said(before, Append(text, word), Append(said, word))
         /\ Said(before, text \o << word >>, Append(said, word))
         /\ Said(before, text \o <<>>, said)
<1>1. said \in Seq(Words) /\ text = before \o said
  BY DEF Said
<1>2. text \in Seq(Words)
  BY <1>1, ConcatProperties
<1>3. \A t \in Seq(Words) : /\ Append(t, word) \in Seq(Words)
                            /\ Append(before \o t, word) = before \o Append(t, word)
  OBVIOUS
<1>4. text \o << word >> = Append(text, word) /\ text \o <<>> = text
  BY <1>2, OneJoined, ConcatEmptySeq
<1> QED BY <1>1, <1>3, <1>4, Zenon DEF Said

LEMMA Sevens ==
  ASSUME NEW a, NEW b, NEW c, NEW d, NEW e, NEW f, NEW g
  PROVE  Append(Append(Append(Append(Append(Append(Append(<<>>, a), b), c), d), e), f), g) =
           << a, b, c, d, e, f, g >>
<1>1. << a >> = Append(<<>>, a)
  OBVIOUS
<1>2. << a, b >> = Append(<< a >>, b)
  OBVIOUS
<1>3. << a, b, c >> = Append(<< a, b >>, c)
  OBVIOUS
<1>4. << a, b, c, d >> = Append(<< a, b, c >>, d)
  OBVIOUS
<1>5. << a, b, c, d, e >> = Append(<< a, b, c, d >>, e)
  OBVIOUS
<1>6. << a, b, c, d, e, f >> = Append(<< a, b, c, d, e >>, f)
  OBVIOUS
<1>7. << a, b, c, d, e, f, g >> = Append(<< a, b, c, d, e, f >>, g)
  OBVIOUS
<1> QED BY <1>1, <1>2, <1>3, <1>4, <1>5, <1>6, <1>7, Zenon

LEMMA ObjectWritten ==
  ASSUME NEW b, Sound(b), NEW line \in Wholes
  PROVE  /\ Wrote(b, accountDTO_to_json_obj(b, Mount(line)), CommaIf(b.is_first) \o Object(line))
         /\ accountDTO_to_json_obj(b, Mount(line)).is_first = FALSE
<1> DEFINE id == ValueOf(line, "id")
           balance == NumberOf[ValueOf(line, "balance")]
           b0 == add_comma_if_needed(b)
           b1 == start_object(b0)
           b2 == add(b1, "id", id, IdWidth[id])
           b3 == add(b2, "created_at", "now", 1)
           b4 == add(b3, "balance", balance, BalanceWidth[balance])
           b5 == end_object(b4)
           w0 == CommaIf(b.is_first)
           w1 == Append(w0, <<"{">>)
           w2 == Append(w1 \o <<>>, <<"id", id>>)
           w3 == Append(w2 \o << <<",">> >>, <<"created_at", "now">>)
           w4 == Append(w3 \o << <<",">> >>, <<"balance", balance>>)
           w5 == Append(w4, <<"}">>)
<1>1. accountDTO_to_json_obj(b, Mount(line)) = b5
  BY AccountWords DEF accountDTO_to_json_obj
<1>2. /\ <<"id", id>> \in Words /\ <<"balance", balance>> \in Words
      /\ IdWidth[id] \in Nat /\ BalanceWidth[balance] \in Nat
  BY AccountWords
<1>3. /\ <<"created_at", "now">> \in Words /\ <<"{">> \in Words /\ <<",">> \in Words
      /\ <<"}">> \in Words /\ 1 \in Nat
  BY DEF Words
<1>4. Object(line) = << <<"{">>, <<"id", id>>, <<",">>, <<"created_at", "now">>, <<",">>,
                        <<"balance", balance>>, <<"}">> >>
  BY DEF Object
<1> HIDE DEF id, balance, w1, w2, w3, w4, w5, b0, b1, b2, b3, b4, b5
<1>5. w0 \in Seq(Words)
  <2>1. <<>> \in Seq(Words) /\ << <<",">> >> \in Seq(Words)
    <3> DEFINE comma == <<",">>
    <3>1. comma \in Words
      BY <1>3
    <3> HIDE DEF comma
    <3>2. << comma >> \in Seq(Words) /\ <<>> \in Seq(Words)
      BY <3>1
    <3> QED BY <3>2 DEF comma
  <2> QED BY <2>1 DEF CommaIf
<1> HIDE DEF w0
<1>6. Wrote(b, b0, w0) /\ b0.is_first = FALSE
  <2>1. Wrote(b, b, <<>>)
    BY WroteNothing
  <2>2. <<>> \o w0 = w0
    BY <1>5, ConcatEmptySeq
  <2>3. Wrote(b, b0, <<>> \o w0) /\ b0.is_first = FALSE
    BY <2>1, CommaWritten DEF b0, w0
  <2> QED BY <2>2, <2>3
<1>7. Wrote(b, b1, w1) /\ b1.is_first = TRUE
  BY <1>6, StartObjectWritten DEF b1, w1
<1>8. CommaIf(TRUE) = <<>> /\ CommaIf(FALSE) = << <<",">> >>
  BY DEF CommaIf
<1>9. Wrote(b, b2, w2) /\ b2.is_first = FALSE
  <2>1. /\ Wrote(b, add(b1, "id", id, IdWidth[id]), Append(w1 \o CommaIf(b1.is_first), <<"id", id>>))
        /\ add(b1, "id", id, IdWidth[id]).is_first = FALSE
    <3> DEFINE width == IdWidth[id]
    <3>1. width \in Nat
      BY <1>2
    <3> HIDE DEF width
    <3>2. /\ Wrote(b, add(b1, "id", id, width), Append(w1 \o CommaIf(b1.is_first), <<"id", id>>))
          /\ add(b1, "id", id, width).is_first = FALSE
      BY <1>2, <1>7, <3>1, AddWritten
    <3> QED BY <3>2 DEF width
  <2> QED BY <1>7, <1>8, <2>1 DEF b2, w2
<1>10. Wrote(b, b3, w3) /\ b3.is_first = FALSE
  <2>1. /\ Wrote(b, add(b2, "created_at", "now", 1),
                 Append(w2 \o CommaIf(b2.is_first), <<"created_at", "now">>))
        /\ add(b2, "created_at", "now", 1).is_first = FALSE
    BY <1>3, <1>9, AddWritten
  <2> QED BY <1>8, <1>9, <2>1 DEF b3, w3
<1>11. Wrote(b, b4, w4) /\ b4.is_first = FALSE
  <2>1. /\ Wrote(b, add(b3, "balance", balance, BalanceWidth[balance]),
                 Append(w3 \o CommaIf(b3.is_first), <<"balance", balance>>))
        /\ add(b3, "balance", balance, BalanceWidth[balance]).is_first = FALSE
    BY <1>2, <1>10, AddWritten
  <2> QED BY <1>8, <1>10, <2>1 DEF b4, w4
<1>12. Wrote(b, b5, w5) /\ b5.is_first = FALSE
  BY <1>11, EndsWritten DEF b5, w5
<1>13. w5 = w0 \o Object(line)
  <2> DEFINE open == <<"{">>  comma == <<",">>  close == <<"}">>
             first == <<"id", id>>  created == <<"created_at", "now">>  last == <<"balance", balance>>
  <2>1. /\ open \in Words /\ comma \in Words /\ close \in Words
        /\ first \in Words /\ created \in Words /\ last \in Words
    BY <1>2, <1>3
  <2>2. /\ w1 = Append(w0, open) /\ w2 = Append(w1 \o <<>>, first)
        /\ w3 = Append(w2 \o << comma >>, created) /\ w4 = Append(w3 \o << comma >>, last)
        /\ w5 = Append(w4, close)
        /\ Object(line) = << open, first, comma, created, comma, last, close >>
    BY <1>4 DEF w1, w2, w3, w4, w5
  <2> DEFINE t1 == Append(<<>>, open)  t2 == Append(t1, first)  t3 == Append(t2, comma)
             t4 == Append(t3, created)  t5 == Append(t4, comma)  t6 == Append(t5, last)
             t7 == Append(t6, close)
  <2> HIDE DEF open, comma, close, first, created, last
  <2>3. t7 = Object(line)
    <3>1. t7 = << open, first, comma, created, comma, last, close >>
      BY Sevens
    <3> QED BY <2>2, <3>1
  <2> HIDE DEF t1, t2, t3, t4, t5, t6, t7
  <2>4. Said(w0, w0, <<>>)
    BY <1>5, ConcatEmptySeq DEF Said
  <2>5. Said(w0, w1, t1)
    BY <1>5, <2>1, <2>2, <2>4, SaidMore DEF t1
  <2>6. Said(w0, w2, t2)
    <3>1. Said(w0, w1 \o <<>>, t1)
      BY <1>5, <2>1, <2>5, SaidMore
    <3> QED BY <1>5, <2>1, <2>2, <3>1, SaidMore DEF t2
  <2>7. Said(w0, w3, t4)
    <3>1. Said(w0, w2 \o << comma >>, t3)
      BY <1>5, <2>1, <2>6, SaidMore DEF t3
    <3> QED BY <1>5, <2>1, <2>2, <3>1, SaidMore DEF t4
  <2>8. Said(w0, w4, t6)
    <3>1. Said(w0, w3 \o << comma >>, t5)
      BY <1>5, <2>1, <2>7, SaidMore DEF t5
    <3> QED BY <1>5, <2>1, <2>2, <3>1, SaidMore DEF t6
  <2>9. Said(w0, w5, t7)
    BY <1>5, <2>1, <2>2, <2>8, SaidMore DEF t7
  <2> QED BY <2>3, <2>9 DEF Said
<1> QED BY <1>1, <1>12, <1>13 DEF w0

-----------------------------------------------------------------------------
(* The whole listing.                                                      *)

Listable == AllWhole /\ Len(lines) <= RS_MAX_ROWS
Began == << <<"{">>, <<"data", "[">> >>
Ended == << <<"]">>, <<"}">> >>
Members(k) == FlattenSeq([i \in 1 .. k |-> Member(i)])

(* Of a table that can be listed, the builder has the document's beginning *)
(* and the members of the lines whose accounts are no longer waiting.      *)
Listed(k) ==
  /\ accounts = [i \in 1 .. Len(lines) - k |-> Mount(lines[k + i])]
  /\ Texts(jb) = Began \o Members(k)
  /\ jb.is_first = (k = 0)

ListInv ==
  /\ phase \in {"idle", "list", "built"}
  /\ phase = "idle" => jb = json_init
  /\ phase # "idle" /\ Listable =>
       /\ Sound(jb)
       /\ phase = "list" => \E k \in 0 .. Len(lines) : Listed(k)
       /\ phase = "built" => Texts(jb) = Document

LEMMA MemberWords ==
  ASSUME lines \in Seq(Lines), Listable, NEW i \in 1 .. Len(lines)
  PROVE  Member(i) = CommaIf(i = 1) \o Object(lines[i]) /\ Member(i) \in Seq(Words)
<1>1. lines[i] \in Wholes
  BY RowsAreListed DEF Listable
<1>2. Member(i) = CommaIf(i = 1) \o Object(lines[i])
  BY DEF Member, CommaIf
<1>3. CommaIf(i = 1) \in Seq(Words) /\ Object(lines[i]) \in Seq(Words)
  <2>1. Object(lines[i]) \in Seq(Words)
    <3> DEFINE id == <<"id", ValueOf(lines[i], "id")>>
               balance == <<"balance", NumberOf[ValueOf(lines[i], "balance")]>>
               open == <<"{">>  comma == <<",">>  close == <<"}">>
               created == <<"created_at", "now">>
    <3>1. id \in Words /\ balance \in Words
      BY <1>1, AccountWords
    <3>2. open \in Words /\ comma \in Words /\ close \in Words /\ created \in Words
      BY DEF Words
    <3>3. Object(lines[i]) = << open, id, comma, created, comma, balance, close >>
      BY DEF Object
    <3> HIDE DEF id, balance, open, comma, close, created
    <3> QED BY <3>1, <3>2, <3>3
  <2>2. CommaIf(i = 1) \in Seq(Words)
    <3> DEFINE comma == <<",">>
    <3>1. comma \in Words
      BY DEF Words
    <3> HIDE DEF comma
    <3>2. << comma >> \in Seq(Words) /\ <<>> \in Seq(Words)
      BY <3>1
    <3> QED BY <3>2 DEF CommaIf, comma
  <2> QED BY <2>1, <2>2
<1> QED BY <1>2, <1>3, ConcatProperties

LEMMA MembersMore ==
  ASSUME lines \in Seq(Lines), Listable
  PROVE  /\ Members(0) = <<>>
         /\ \A k \in 0 .. Len(lines) : Members(k) \in Seq(Words)
         /\ \A k \in 0 .. Len(lines) - 1 : Members(k + 1) = Members(k) \o Member(k + 1)
<1> DEFINE n == Len(lines)  pieces(k) == [i \in 1 .. k |-> Member(i)]  S == Seq(Words)
<1>1. n \in Nat /\ \A i \in 1 .. n : Member(i) \in S
  BY MemberWords, LenProperties
<1>2. Members(0) = <<>>
  <2>1. pieces(0) = <<>>
    OBVIOUS
  <2> QED BY <2>1, FlattenNothing DEF Members
<1> HIDE DEF S, n
<1>3. ASSUME NEW k \in 0 .. n
      PROVE  pieces(k) \in Seq(S) /\ Len(pieces(k)) = k
  BY <1>1
<1>4. ASSUME NEW k \in 0 .. n
      PROVE  Members(k) \in S
  BY <1>3, FlattenType DEF Members, S
<1>5. ASSUME NEW k \in 0 .. n - 1
      PROVE  Members(k + 1) = Members(k) \o Member(k + 1)
  <2>1. k \in 0 .. n /\ k + 1 \in 1 .. n
    BY <1>1
  <2>2. pieces(k) \in Seq(S) /\ Member(k + 1) \in S
    BY <1>1, <1>3, <2>1
  <2>3. pieces(k + 1) = Append(pieces(k), Member(k + 1))
    BY <1>1, <2>1, <2>2
  <2> HIDE DEF pieces
  <2>4. FlattenSeq(Append(pieces(k), Member(k + 1))) = FlattenSeq(pieces(k)) \o Member(k + 1)
    BY <2>2, FlattenAppend DEF S
  <2> QED BY <2>3, <2>4 DEF Members, pieces
<1> QED BY <1>2, <1>4, <1>5 DEF S, n

LEMMA TwoWords ==
  ASSUME NEW a, NEW b
  PROVE  Append(Append(<<>>, a), b) = << a, b >> /\ Append(<<>>, a) \o <<>> = Append(<<>>, a)
<1>1. << a >> = Append(<<>>, a)
  OBVIOUS
<1>2. << a, b >> = Append(<< a >>, b)
  OBVIOUS
<1>3. << a >> \o <<>> = << a >>
  <2>1. << a >> \in Seq({a})
    OBVIOUS
  <2> QED BY <2>1, ConcatEmptySeq
<1> QED BY <1>1, <1>2, <1>3, Zenon

(* The beginning of a document.                                            *)
LEMMA BeginsListing ==
  LET b == start_array(start_object(json_init), "data")
  IN  Sound(b) /\ Texts(b) = Began /\ b.is_first = TRUE
<1> DEFINE a == start_object(json_init)
           b == start_array(a, "data")
           said == Append(<<>>, <<"{">>)
<1>1. Wrote(json_init, a, said) /\ a.is_first = TRUE
  BY StartsEmpty, WroteNothing, StartObjectWritten
<1> HIDE DEF a
<1>2. /\ Wrote(json_init, b, Append(said \o CommaIf(a.is_first), <<"data", "[">>))
      /\ b.is_first = TRUE
  BY <1>1, StartsEmpty, StartArrayWritten
<1>3. Append(said \o CommaIf(a.is_first), <<"data", "[">>) = Began
  <2>1. CommaIf(a.is_first) = <<>>
    BY <1>1 DEF CommaIf
  <2>2. Append(said \o <<>>, <<"data", "[">>) = Began
    BY TwoWords DEF Began
  <2> HIDE DEF said
  <2> QED BY <2>1, <2>2, Zenon
<1>4. Texts(b) = <<>> \o Began /\ Sound(b) /\ Began \in Seq(Words)
  BY <1>2, <1>3, StartsEmpty DEF Wrote
<1>5. <<>> \o Began = Began
  BY <1>4, ConcatEmptySeq
<1> QED BY <1>2, <1>4, <1>5 DEF a

(* The end of one.                                                         *)
LEMMA EndsListing ==
  ASSUME NEW b, Sound(b)
  PROVE  Sound(end_object(end_array(b))) /\ Texts(end_object(end_array(b))) = Texts(b) \o Ended
<1> DEFINE a == end_array(b)  said == Append(<<>>, <<"]">>)
<1>1. Wrote(b, a, said)
  BY WroteNothing, EndsWritten
<1> HIDE DEF a
<1>2. Wrote(b, end_object(a), Append(said, <<"}">>))
  BY <1>1, EndsWritten
<1>3. Append(said, <<"}">>) = Ended
  BY TwoWords DEF Ended
<1> QED BY <1>2, <1>3 DEF Wrote, a

LEMMA ListingInductive == Spec => []ListInv
<1>1. Init => ListInv
  BY DEF Init, ListInv
<1>2. SelectInv /\ ListInv /\ [Next]_vars => ListInv'
  <2> SUFFICES ASSUME SelectInv, ListInv, [Next]_vars PROVE ListInv'
    OBVIOUS
  <2>1. lines \in Seq(Lines)
    BY DEF SelectInv
  <2>2. CASE UNCHANGED vars
    BY <2>2 DEF ListInv, vars, select_vars, Listable, AllWhole, Listed, Members, Member, Document
  <2>3. CASE Table
    BY <2>3 DEF Table, ListInv
  <2>4. CASE StartListing
    <3>1. /\ phase' = "list" /\ lines' = lines
          /\ accounts' = ListAccounts(lines).accounts
          /\ jb' = start_array(start_object(json_init), "data")
      BY <2>4 DEF StartListing, select_vars
    <3>2. ASSUME Listable
          PROVE  Sound(jb') /\ Listed(0)'
      <4>1. /\ Len(lines) \in Nat
            /\ accounts' = [r \in 1 .. Len(lines) |-> Mount(lines[r])]
        BY <2>1, <3>1, <3>2, RowsAreListed DEF Listable
      <4>2. accounts' = [i \in 1 .. Len(lines) - 0 |-> Mount(lines[0 + i])]
        BY <4>1
      <4>3. Sound(jb') /\ Texts(jb') = Began /\ jb'.is_first = TRUE
        BY <3>1, BeginsListing
      <4>4. Members(0) = <<>>
        BY <2>1, <3>2, MembersMore
      <4>5. Began \o <<>> = Began
        BY DEF Began
      <4> QED BY <3>1, <4>2, <4>3, <4>4, <4>5 DEF Listed, Members, Member
    <3>3. Listable' => Listable
      BY <3>1 DEF Listable, AllWhole
    <3>4. Listable => 0 \in 0 .. Len(lines')
      BY <2>1, <3>1, LenProperties
    <3> QED BY <3>1, <3>2, <3>3, <3>4 DEF ListInv
  <2>5. CASE ListOne
    <3>1. /\ phase = "list" /\ phase' = "list" /\ lines' = lines /\ accounts # <<>>
          /\ accounts' = Tail(accounts) /\ jb' = accountDTO_to_json_obj(jb, Head(accounts))
      BY <2>5 DEF ListOne, select_vars
    <3>2. Listable' => Listable
      BY <3>1 DEF Listable, AllWhole
    <3>3. ASSUME Listable
          PROVE  Sound(jb') /\ \E k \in 0 .. Len(lines) : Listed(k)'
      <4>1. Sound(jb)
        BY <3>1, <3>3 DEF ListInv
      <4>2. PICK k \in 0 .. Len(lines) : Listed(k)
        BY <3>1, <3>3 DEF ListInv
      <4> DEFINE n == Len(lines)
      <4>3. n \in Nat /\ \A r \in 1 .. n : lines[r] \in Wholes
        BY <2>1, <3>3, RowsAreListed DEF Listable
      <4> HIDE DEF n
      <4>4. accounts = [i \in 1 .. n - k |-> Mount(lines[k + i])] /\ k \in 0 .. n
        BY <4>2 DEF Listed, n
      <4>5. k < n
        BY <3>1, <4>3, <4>4
      <4>6. /\ Head(accounts) = Mount(lines[k + 1])
            /\ accounts' = [i \in 1 .. n - (k + 1) |-> Mount(lines[(k + 1) + i])]
        <5> DEFINE account(i) == Mount(lines[i])
                   m == n - k
        <5>1. accounts = [i \in 1 .. m |-> account(k + i)] /\ m \in Nat \ {0} /\ k \in Nat
          BY <4>3, <4>4, <4>5
        <5>2. n - (k + 1) = m - 1 /\ \A i \in 1 .. m - 1 : k + (i + 1) = (k + 1) + i
          BY <4>3, <4>4
        <5> HIDE DEF account, m
        <5>3. Len(accounts) = m /\ Head(accounts) = account(k + 1)
          BY <5>1
        <5>4. Tail(accounts) = [i \in 1 .. m - 1 |-> account(k + (i + 1))]
          BY <5>1
        <5>5. Tail(accounts) = [i \in 1 .. m - 1 |-> account((k + 1) + i)]
          BY <5>2, <5>4
        <5> QED BY <3>1, <5>2, <5>3, <5>5 DEF account
      <4>7. k + 1 \in 1 .. n /\ lines[k + 1] \in Wholes
        BY <4>3, <4>4, <4>5
      <4>8. /\ Wrote(jb, jb', CommaIf(jb.is_first) \o Object(lines[k + 1]))
            /\ jb'.is_first = FALSE
        BY <3>1, <4>1, <4>6, <4>7, ObjectWritten
      <4>9. Member(k + 1) = CommaIf(jb.is_first) \o Object(lines[k + 1])
        <5>1. jb.is_first = (k = 0) /\ (k + 1 = 1) = (k = 0)
          BY <4>2, <4>4 DEF Listed
        <5>2. Member(k + 1) = CommaIf(k + 1 = 1) \o Object(lines[k + 1])
          BY <2>1, <3>3, <4>7, MemberWords DEF n
        <5> QED BY <5>1, <5>2
      <4>10. Members(k) \in Seq(Words) /\ Members(k + 1) = Members(k) \o Member(k + 1)
        <5>1. k \in 0 .. Len(lines) /\ k \in 0 .. Len(lines) - 1
          BY <4>3, <4>4, <4>5 DEF n
        <5> QED BY <2>1, <3>3, <5>1, MembersMore
      <4>11. Texts(jb') = Began \o Members(k + 1)
        <5>1. Texts(jb) = Began \o Members(k) /\ Texts(jb') = Texts(jb) \o Member(k + 1)
          BY <4>2, <4>8, <4>9 DEF Listed, Wrote
        <5>2. Began \in Seq(Words) /\ Member(k + 1) \in Seq(Words)
          <6>1. Began \in Seq(Words)
            BY BeginsListing, TextsAreWords
          <6>2. Member(k + 1) \in Seq(Words)
            BY <2>1, <3>3, <4>7, MemberWords DEF n
          <6> QED BY <6>1, <6>2
        <5>3. (Began \o Members(k)) \o Member(k + 1) = Began \o (Members(k) \o Member(k + 1))
          BY <4>10, <5>2, ConcatAssociative
        <5> QED BY <4>10, <5>1, <5>3
      <4>12. Listed(k + 1)'
        <5>1. k + 1 # 0
          BY <4>4
        <5> QED BY <3>1, <4>6, <4>8, <4>11, <5>1 DEF Listed, Members, Member, n
      <4>13. Sound(jb') /\ k + 1 \in 0 .. Len(lines)
        BY <4>7, <4>8 DEF Wrote, n
      <4> QED BY <4>12, <4>13
    <3> QED BY <3>1, <3>2, <3>3 DEF ListInv
  <2>6. CASE Build
    <3>1. /\ phase = "list" /\ phase' = "built" /\ lines' = lines /\ accounts = <<>>
          /\ jb' = end_object(end_array(jb))
      BY <2>6 DEF Build, select_vars
    <3>2. Listable' => Listable
      BY <3>1 DEF Listable, AllWhole
    <3>3. ASSUME Listable
          PROVE  Sound(jb') /\ Texts(jb') = Document
      <4>1. Sound(jb)
        BY <3>1, <3>3 DEF ListInv
      <4>2. PICK k \in 0 .. Len(lines) : Listed(k)
        BY <3>1, <3>3 DEF ListInv
      <4> DEFINE n == Len(lines)
      <4>3. n \in Nat /\ DOMAIN lines = 1 .. n
        BY <2>1, LenProperties
      <4>4. k = n
        <5> HIDE DEF n
        <5>1. <<>> = [i \in 1 .. n - k |-> Mount(lines[k + i])] /\ k \in 0 .. n
          BY <3>1, <4>2 DEF Listed, n
        <5> QED BY <4>3, <5>1
      <4>5. Texts(jb') = (Began \o Members(n)) \o Ended /\ Sound(jb')
        BY <3>1, <4>1, <4>2, <4>4, EndsListing DEF Listed
      <4>6. Document = (Began \o Members(n)) \o Ended
        BY <4>3 DEF Document, Began, Ended, Members
      <4> QED BY <4>5, <4>6
    <3>4. Document' = Document
      BY <3>1 DEF Document, Member
    <3> QED BY <3>1, <3>2, <3>3, <3>4 DEF ListInv
  <2>7. CASE Answer
    BY <2>7 DEF Answer, ListInv
  <2> QED BY <2>2, <2>3, <2>4, <2>5, <2>6, <2>7 DEF Next
<1> QED BY <1>1, <1>2, SelectInductive, PTL DEF Spec

LEMMA WholeIsListed == SelectInv /\ ListInv => ListingWhole
<1> SUFFICES ASSUME SelectInv, ListInv, AllWhole, Len(lines) <= RS_MAX_ROWS
             PROVE  /\ ListAccounts(lines).ends
                    /\ phase = "built" => Texts(jb) = Document
                    /\ Length(jb.doc) < JSON_BUF_SIZE => jb.kept = Length(jb.doc) /\ ~ jb.stray
  BY DEF ListingWhole, Texts
<1>1. ListAccounts(lines).ends
  BY RowsAreListed DEF SelectInv
<1>2. Sound(jb)
  BY StartsEmpty DEF ListInv, Listable
<1> QED BY <1>1, <1>2 DEF ListInv, Listable, Sound

-----------------------------------------------------------------------------
(* The theorems.                                                           *)

(* What get_row_col_value reads of a result set is what SQL's meaning of   *)
(* the query says, as long as no row is torn; however rows are torn, what  *)
(* is read of the first row is of one line, under that line's columns      *)
(* (select_executor keeps one list of names and one count for all rows).   *)
(* Result sets of more than RS_MAX_ROWS rows, which the code writes behind *)
(* its array, are left out.                                                *)
THEOREM QueriesSelectRelation == Spec => []SelectsRelation
BY SelectInductive, RelationIsSelected, PTL

(* get_account_by_field never makes an account of another customer's line, *)
(* or of two lines: it is blank or one row whose user_id_fk was asked for, *)
(* of a result set that has no more than RS_MAX_ROWS rows.                 *)
THEOREM CustomersFindOwn == Spec => []FindsOwn
BY SelectInductive, OwnIsFound, PTL

(* While no line is torn and the table fits a result set, GET /api/accounts *)
(* answers every account once, in order, with its commas right, and what    *)
(* leaves room for the terminator is in the builder's buffer whole.         *)
THEOREM ListingIsWhole == Spec => []ListingWhole
BY SelectInductive, ListingInductive, WholeIsListed, PTL

=============================================================================
