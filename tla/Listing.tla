------------------------------ MODULE Listing ------------------------------
(***************************************************************************)
(* GET /api/accounts on the account table: list_accounts selects every     *)
(* line and mounts an account of it, and the handler makes one JSON        *)
(* document of them. The table changes only between two requests.          *)
(***************************************************************************)
EXTENDS SelectQuery, JsonBuilder

CONSTANTS
  IdWidth,      \* width of an id's member, by the id
  BalanceWidth  \* width of a balance's member, by the number

VARIABLES
  accounts,  \* accounts still to be printed
  jb,        \* the builder
  phase      \* "idle", "list" or "built"

vars == <<select_vars, accounts, jb, phase>>

ASSUME ListingAssumption ==
  /\ {RS_MAX_ROWS, JSON_BUF_SIZE} \subseteq Nat \ {0}
  /\ \A id \in Ids : IdWidth[id] \in Nat
  /\ \A v \in Balances : BalanceWidth[NumberOf[v]] \in Nat

-----------------------------------------------------------------------------
Init ==
  /\ SelectInit
  /\ accounts = <<>> /\ jb = json_init /\ phase = "idle"

Table ==
  /\ phase = "idle" /\ SelectNext
  /\ UNCHANGED <<accounts, jb, phase>>

(* A listing that does not end is past what the model says.                *)
StartListing ==
  /\ phase = "idle" /\ query = NoQuery /\ ListAccounts(lines).ends
  /\ accounts' = ListAccounts(lines).accounts
  /\ jb' = start_array(start_object(json_init), "data")
  /\ phase' = "list"
  /\ UNCHANGED select_vars

accountDTO_to_json_obj(b, acc) ==
  LET balance == NumberOf[acc.balance]
      object  == add(add(add(start_object(add_comma_if_needed(b)),
                   "id", acc.id, IdWidth[acc.id]),
                   "created_at", "now", 1),
                   "balance", balance, BalanceWidth[balance])
  IN end_object(object)

(* A stray print lands on offset and is_first themselves: nothing is said  *)
(* of what comes after it.                                                 *)
ListOne ==
  /\ phase = "list" /\ accounts # <<>> /\ ~jb.stray
  /\ jb' = accountDTO_to_json_obj(jb, Head(accounts))
  /\ accounts' = Tail(accounts)
  /\ UNCHANGED <<select_vars, phase>>

Build ==
  /\ phase = "list" /\ accounts = <<>> /\ ~jb.stray
  /\ jb' = end_object(end_array(jb))
  /\ phase' = "built"
  /\ UNCHANGED <<select_vars, accounts>>

Answer ==
  /\ phase = "built" /\ ~jb.stray
  /\ phase' = "idle" /\ jb' = json_init
  /\ UNCHANGED <<select_vars, accounts>>

Next == Table \/ StartListing \/ ListOne \/ Build \/ Answer

Spec == Init /\ [][Next]_vars

-----------------------------------------------------------------------------
(* Properties.                                                             *)

(* The characters of a document, each the number of its token.             *)
Characters(tokens) ==
  FlattenSeq([i \in DOMAIN tokens |-> [c \in 1 .. tokens[i].width |-> i]])
Length(tokens) == Len(Characters(tokens))

Object(line) ==
  << <<"{">>, <<"id", ValueOf(line, "id")>>, <<",">>, <<"created_at", "now">>, <<",">>,
     <<"balance", NumberOf[ValueOf(line, "balance")]>>, <<"}">> >>

Member(i) == (IF i = 1 THEN <<>> ELSE << <<",">> >>) \o Object(lines[i])

Document ==
  << <<"{">>, <<"data", "[">> >>
    \o FlattenSeq([i \in DOMAIN lines |-> Member(i)])
    \o << <<"]">>, <<"}">> >>

(* While no line is torn and the table has at most RS_MAX_ROWS lines, the  *)
(* listing ends and has every account, in order, with a comma between any  *)
(* two members and any two objects and nowhere else: one flag serves every *)
(* level of nesting, and closing an object does not touch it. A document   *)
(* that leaves room for the terminator is in the buffer whole and nothing  *)
(* was printed outside. (A longer one is possible: a result set holds a    *)
(* hundred accounts, and some sixty are more than the 4096 bytes.)         *)
ListingWhole ==
  AllWhole /\ Len(lines) <= RS_MAX_ROWS =>
    /\ ListAccounts(lines).ends
    /\ phase = "built" => [i \in DOMAIN jb.doc |-> jb.doc[i].text] = Document
    /\ Length(jb.doc) < JSON_BUF_SIZE => jb.kept = Length(jb.doc) /\ ~jb.stray

=============================================================================
