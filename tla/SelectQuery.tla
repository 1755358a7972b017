---------------------------- MODULE SelectQuery ----------------------------
(***************************************************************************)
(* SELECT over the lines of a table. A line is the sequence of its         *)
(* column=value pairs; a result set is rows of values without their        *)
(* columns, one list of column names taken from the first row that         *)
(* matches, and one column count taken from the last. The account table    *)
(* and the queries of acc_store.c and acc.c stand for all callers.         *)
(***************************************************************************)
EXTENDS Integers, Sequences, SequencesExt, FiniteSets

CONSTANTS
  Ids,          \* ids, also those of users
  Balances,     \* texts of balances
  NumberOf,     \* what atof makes of a text
  RS_MAX_ROWS,  \* rows a result set has room for
  MaxInserts    \* bound: how many rows are inserted

VARIABLES
  lines,   \* the lines of stores/account_db
  tears,   \* rows that reached the file as two lines
  query,   \* the query whose result set is alive
  result   \* its result set

select_vars == <<lines, tears, query, result>>

-----------------------------------------------------------------------------
Null == "(null)"     \* a NULL column name or value, as printf writes it

Pair(column, value) == [column |-> column, value |-> value]
Columns(line) == {line[i].column : i \in DOMAIN line}
ValueOf(line, column) ==
  line[CHOOSE i \in DOMAIN line : line[i].column = column].value

(* The columns in the order make_new_account sets them, which is not the   *)
(* order of select_all.                                                    *)
Whole(id, user, balance) ==
  << Pair("id", id), Pair("user_id_fk", user), Pair("balance", balance),
     Pair("created_at", "now"), Pair("updated_at", "NULL") >>
AccountColumns == {"id", "balance", "user_id_fk", "created_at", "updated_at"}
IsWhole(line) == Columns(line) = AccountColumns

(* compare: texts are equal or not, everything else is about numbers.      *)
Compare(left, op, right) ==
  CASE op = "="  -> left = right
    [] op = "!=" -> left # right
    [] op = ">"  -> NumberOf[left] > NumberOf[right]
    [] op = "<"  -> NumberOf[left] < NumberOf[right]
    [] op = ">=" -> NumberOf[left] >= NumberOf[right]
    [] op = "<=" -> NumberOf[left] <= NumberOf[right]
    [] OTHER     -> FALSE

(* Mutant: one condition that holds is enough.                             *)
WhereSome(q, line) ==
  \E i \in DOMAIN line : \E c \in q.where :
    c.column = line[i].column /\ Compare(line[i].value, c.op, c.value)

(* apply_select_where: no pair of the line contradicts a condition.        *)
Where(q, line) ==
  \A i \in DOMAIN line : \A c \in q.where :
    c.column = line[i].column => Compare(line[i].value, c.op, c.value)

(* The elements of a sequence at some of its places, in their order.       *)
Kept(seq, places) ==
  [k \in 1 .. Cardinality(places) |->
     seq[CHOOSE i \in places : Cardinality({j \in places : j <= i}) = k]]

(* The lines a query finds, and the selected pairs of one of them.         *)
Hits(q, all) == Kept(all, {i \in DOMAIN all : Where(q, all[i])})
Picked(q, line) == Kept(line, {i \in DOMAIN line : line[i].column \in q.select})

(* Mutant: the names are taken from every row, so the last one's stay.     *)
ExecuteLastNames(q, all) ==
  LET hits == Hits(q, all)
      rows == [i \in DOMAIN hits |-> Picked(q, hits[i])]
  IN [order |-> IF hits = <<>> THEN <<>>
                ELSE [j \in DOMAIN Last(rows) |-> Last(rows)[j].column],
      cols |-> IF hits = <<>> THEN 0 ELSE Len(Last(rows)),
      rows |-> [i \in DOMAIN rows |-> [j \in DOMAIN rows[i] |-> rows[i][j].value]]]

(* select_executor.                                                        *)
Execute(q, all) ==
  LET hits == Hits(q, all)
      rows == [i \in DOMAIN hits |-> Picked(q, hits[i])]
  IN [order |-> IF hits = <<>> THEN <<>>
                ELSE [j \in DOMAIN Head(rows) |-> Head(rows)[j].column],
      cols |-> IF hits = <<>> THEN 0 ELSE Len(Last(rows)),
      rows |-> [i \in DOMAIN rows |-> [j \in DOMAIN rows[i] |-> rows[i][j].value]]]

(* Rows past the end of result_data: they are written behind it, and       *)
(* nothing is said of such a result set.                                   *)
Overflows(rs) == Len(rs.rows) > RS_MAX_ROWS

-----------------------------------------------------------------------------
(* Reading a result set.                                                   *)

At(seq, i) == IF i \in DOMAIN seq THEN seq[i] ELSE Null

FullLine(rs, row) == [i \in 1 .. rs.cols |-> Pair(At(rs.order, i), At(rs.rows[row], i))]

(* get_line_from_resultset takes strlen of every name and value first.     *)
LineCrashes(rs, row) ==
  \E i \in 1 .. rs.cols : i \notin DOMAIN rs.order \/ i \notin DOMAIN rs.rows[row]

(* No return statement is reached without the column.                      *)
GetRowColValue(rs, row, column) ==
  LET js == {j \in DOMAIN rs.order : j <= rs.cols /\ rs.order[j] = column}
  IN IF js = {} THEN Null
     ELSE At(rs.rows[row], CHOOSE j \in js : \A k \in js : j <= k)

(* mount_acc_from_line_buf: blank unless every column is named.            *)
Blank == [id |-> "", balance |-> "0"]
Mount(line) ==
  IF AccountColumns \subseteq Columns(line)
  THEN [id |-> ValueOf(line, "id"), balance |-> ValueOf(line, "balance")] ELSE Blank

(* get_account_by_field: without a row, the zeroed account.                *)
GetAccountByField(rs) == IF rs.rows = <<>> THEN Blank ELSE Mount(FullLine(rs, 1))

Query(columns, conditions) == [select |-> columns, where |-> conditions]
Condition(column, op, value) == [column |-> column, op |-> op, value |-> value]

(* list_accounts; it ends unless the rows overflow or a name is NULL.      *)
ListAccounts(all) ==
  LET rs == Execute(Query(AccountColumns, {}), all)
  IN [ends |-> ~Overflows(rs) /\ \A row \in DOMAIN rs.rows : ~LineCrashes(rs, row),
      accounts |-> [row \in DOMAIN rs.rows |-> Mount(FullLine(rs, row))]]

-----------------------------------------------------------------------------
NoQuery == Query({}, {})

(* get_account_by_user_id, get_account_by_field, get_next_identity's shape *)
(* (one column, one condition), and the other operators of compare.        *)
Queries ==
  {Query(AccountColumns, {Condition("user_id_fk", "=", v)}) : v \in Ids}
    \cup {Query(AccountColumns, {Condition("id", "=", v),
                                 Condition("user_id_fk", "!=", w)}) : v, w \in Ids}
    \cup {Query({"balance"}, {Condition("id", "=", v)}) : v \in Ids}
    \cup {Query({"user_id_fk", "id"}, {Condition("balance", op, v)}) :
            op \in {">", "<", ">=", "<="}, v \in Balances}

SelectInit ==
  /\ lines = <<>> /\ tears = 0
  /\ query = NoQuery /\ result = Execute(NoQuery, <<>>)

Inserts == Len(lines) - tears

Insert ==
  /\ query = NoQuery /\ Inserts < MaxInserts
  /\ \E id, user \in Ids, balance \in Balances :
       lines' = Append(lines, Whole(id, user, balance))
  /\ UNCHANGED <<tears, query, result>>

(* The date holds a newline: the row ends there and the rest is a line.    *)
InsertTorn ==
  /\ query = NoQuery /\ Inserts < MaxInserts /\ tears = 0
  /\ \E id, user \in Ids, balance \in Balances :
       LET row == Whole(id, user, balance)
       IN lines' = lines \o <<SubSeq(row, 1, 4), SubSeq(row, 5, 5)>>
  /\ tears' = tears + 1
  /\ UNCHANGED <<query, result>>

Select ==
  /\ query = NoQuery
  /\ query' \in Queries /\ result' = Execute(query', lines)
  /\ UNCHANGED <<lines, tears>>

(* result->free and q->destroy.                                            *)
FreeResult ==
  /\ query # NoQuery
  /\ query' = NoQuery /\ result' = Execute(NoQuery, <<>>)
  /\ UNCHANGED <<lines, tears>>

SelectNext == Insert \/ InsertTorn \/ Select \/ FreeResult

-----------------------------------------------------------------------------
(* Properties.                                                             *)

AllWhole == \A i \in DOMAIN lines : IsWhole(lines[i])

(* SQL's meaning of the query, over rows as functions of their columns.    *)
Satisfies(line, q) ==
  \A c \in q.where : Compare(ValueOf(line, c.column), c.op, c.value)
Relation == Kept(lines, {i \in DOMAIN lines : Satisfies(lines[i], query)})

(* On a table whose lines are all whole, the rows, the one list of column  *)
(* names and get_row_col_value together say what SQL would: the lines that *)
(* satisfy the conditions, each value under its own column. And however    *)
(* lines are torn, what a caller reads of the first row are values of one  *)
(* line under their own columns; other rows may only take columns away.    *)
(* Both as long as there are no more rows than RS_MAX_ROWS.                *)
SelectsRelation ==
  /\ AllWhole /\ query # NoQuery /\ ~Overflows(result) =>
       /\ Len(result.rows) = Len(Relation)
       /\ \A row \in DOMAIN Relation : \A column \in query.select :
            GetRowColValue(result, row, column) = ValueOf(Relation[row], column)
  /\ result.rows # <<>> /\ ~Overflows(result) =>
       \E i \in DOMAIN lines : \A j \in 1 .. result.cols :
         LET shown == FullLine(result, 1)[j]
         IN shown.value # Null => \E k \in DOMAIN lines[i] : lines[i][k] = shown

(* The account shown to a customer is one of the customer's own lines, or  *)
(* blank, also when a torn line satisfies every condition. A result set    *)
(* with more rows than RS_MAX_ROWS is not spoken of.                       *)
FindsOwn ==
  \A v \in Ids :
    LET rs    == Execute(Query(AccountColumns, {Condition("user_id_fk", "=", v)}), lines)
        found == GetAccountByField(rs)
    IN \/ Overflows(rs)
       \/ found = Blank
       \/ \E i \in DOMAIN lines :
            /\ IsWhole(lines[i]) /\ ValueOf(lines[i], "user_id_fk") = v
            /\ found = Mount(lines[i])

=============================================================================
