---------------------------- MODULE Registration ----------------------------
(***************************************************************************)
(* Opening an account, as the server process does it: setup_stores at      *)
(* start-up, then make_new_user with everything it calls (the e-mail       *)
(* check, get_next_identity, the INSERT, updt_next_identity, the reselect  *)
(* and make_new_account), one action per system call that changes a file.  *)
(* The process may be killed between any two of them and started again.    *)
(*                                                                         *)
(* The server is one thread, so only crashes and failing calls interrupt   *)
(* a registration; what is on disk then is what the next process finds.    *)
(***************************************************************************)
EXTENDS Integers, Sequences

CONSTANTS
  Emails,      \* the addresses customers register with
  NoEmail,     \* "this line has no email column"
  Faults,      \* the kinds of fault that may happen
  MaxFaults    \* bound: how many faults may happen in one behaviour

FaultKinds == {"crash", "insert", "tmp", "full", "torn"}

ASSUME FaultAssumption ==
  /\ NoEmail \notin Emails
  /\ Faults \subseteq FaultKinds
  /\ MaxFaults \in Nat

VARIABLES
  pc,         \* the system call the process executes next
  table,      \* the table the current step of pc is about
  email,      \* payload.email of the registration being served
  next_id,    \* the local next_id of make_new_user, then of make_new_account
  user_id,    \* user_data.id, as mounted from the reselected row
  users,      \* lines of user_db
  accounts,   \* lines of account_db
  tracker,    \* counters in the file that the path id_tracker_db names
  tmp,        \* counters in id_tracker_tmp.db
  stream,     \* counters in the file that stores.id_tracker_store is open on
  acked,      \* e-mails whose customer was told "User created"
  harmed,     \* what faults have damaged: "row", "stale", "lost", "empty", "torn"
  faults      \* number of faults so far

locals == <<table, email, next_id, user_id>>
files  == <<users, accounts, tracker, tmp>>
ghosts == <<acked, harmed, faults>>
vars   == <<pc, locals, files, stream, ghosts>>

-----------------------------------------------------------------------------
(* Data.                                                                   *)

Tables == {"user", "transaction", "account"}

NoRow  == -1   \* the tracker has no line for the table
Empty  == -1   \* an id column, or struct field, holding ""
Absent == -2   \* the line has no such column
NoId   == -3   \* what is printed for an id when the tracker had no line: no number

NoCounters == [t \in Tables |-> NoRow]

UserRows    == [id : Nat \cup {Absent, NoId}, email : Emails \cup {NoEmail}]
AccountRows == [id : Nat \cup {Absent, NoId}, fk : Nat \cup {Empty, Absent, NoId}]

(* get_fmt_now returns a buffer that is dead by the time it is printed.    *)
(* When the bytes found there contain a newline, the row is torn: a line   *)
(* with every column up to created_at, and a tail with none of them.       *)
UserTail    == [id |-> Absent, email |-> NoEmail]
AccountTail == [id |-> Absent, fk |-> Absent]

(* apply_select_where: a condition on a column a line lacks holds.         *)
WithEmail(e) == {i \in DOMAIN users : users[i].email \in {e, NoEmail}}
WithId(n)    == {i \in DOMAIN users : users[i].id \in {n, Absent}}

Least(S)    == CHOOSE i \in S : \A j \in S : i <= j
Greatest(S) == CHOOSE i \in S : \A j \in S : j <= i

(* The result set takes its column count from the last matching line, and  *)
(* mount_user_from_line_buf answers id "" when a column is missing.        *)
Reselected(n) ==
  LET rows == WithId(n)
  IN  IF rows = {} \/ users[Greatest(rows)] = UserTail
      THEN Empty
      ELSE users[Least(rows)].id

(* What updt_next_identity writes to the temporary file: every counter of  *)
(* the open stream, the given table's plus one.                            *)
Incremented(t) ==
  [s \in Tables |-> IF s = t /\ stream[s] # NoRow
                    THEN stream[s] + 1 ELSE stream[s]]

-----------------------------------------------------------------------------
(* Start-up.                                                               *)

Init ==
  /\ pc = "down"
  /\ table = "user" /\ email = NoEmail /\ next_id = Empty /\ user_id = Empty
  /\ users = <<>> /\ accounts = <<>>
  /\ tracker = NoCounters /\ tmp = NoCounters /\ stream = NoCounters
  /\ acked = {} /\ harmed = {} /\ faults = 0

(* create_store, four times: fopen "a+" creates what is missing.           *)
Start ==
  /\ pc = "down"
  /\ pc' = "setup"
  /\ table' = "user"
  /\ stream' = tracker
  /\ UNCHANGED <<email, next_id, user_id, files, ghosts>>

(* Mutants: initialises with no number; initialises whatever the file says;*)
(* forgets account_db.                                                     *)
InitializedBlank(counters) == [counters EXCEPT ![table] = Absent]
InitializedAlways(counters) == [counters EXCEPT ![table] = 0]
InitializedNoAccount(counters) ==
  IF counters[table] = NoRow /\ table # "account"
  THEN [counters EXCEPT ![table] = 0] ELSE counters

(* The counters once initialize_id_tracker_if_needed has run for a table.  *)
Initialized(counters) ==
  IF counters[table] = NoRow THEN [counters EXCEPT ![table] = 0] ELSE counters

AfterSetupOf == [user |-> "transaction", transaction |-> "account"]

Initialize ==
  /\ pc = "setup"
  /\ stream' = Initialized(stream)
  /\ tracker' = stream'
  /\ IF table = "account"
     THEN pc' = "idle" /\ table' = "user"
     ELSE pc' = pc /\ table' = AfterSetupOf[table]
  /\ UNCHANGED <<email, next_id, user_id, users, accounts, tmp, ghosts>>

-----------------------------------------------------------------------------
(* make_new_user and make_new_account.                                     *)

(* POST /register reaches make_new_user with a parsed form.                *)
Submit(e) ==
  /\ pc = "idle"
  /\ pc' = "check"
  /\ table' = "user"
  /\ email' = e
  /\ UNCHANGED <<next_id, user_id, files, stream, ghosts>>

(* Mutants: compares e-mails and ignores the lines without one; checks the *)
(* last line only.                                                         *)
EmailComparedExactly == \E i \in DOMAIN users : users[i].email = email
EmailComparedToLast ==
  users # <<>> /\ users[Len(users)].email \in {email, NoEmail}

EmailAlreadyRegistered == WithEmail(email) # {}

Reject ==
  /\ pc = "check" /\ EmailAlreadyRegistered
  /\ pc' = "idle"
  /\ email' = NoEmail
  /\ UNCHANGED <<table, next_id, user_id, files, stream, ghosts>>

Accept ==
  /\ pc = "check" /\ ~EmailAlreadyRegistered
  /\ pc' = "identity"
  /\ UNCHANGED <<locals, files, stream, ghosts>>

(* get_next_identity opens the tracker by its path, not by the stream.     *)
(* When the tracker has no line, get_row_col_value falls off its end: what *)
(* it leaves behind is printed, or kills (NoIdentity, below).              *)
GetNextIdentity ==
  /\ pc = "identity"
  /\ next_id' = IF tracker[table] = NoRow THEN NoId ELSE tracker[table]
  /\ pc' = "insert"
  /\ UNCHANGED <<table, email, user_id, files, stream, ghosts>>

(* A line is buffered and flushed once, so it is on disk whole or not.     *)
(* Mutant: the account row carries its own number as the foreign key.      *)
NewAccountOwnId == [id |-> next_id, fk |-> next_id]

NewUser    == [id |-> next_id, email |-> email]
NewAccount == [id |-> next_id, fk |-> user_id]

Insert ==
  /\ pc = "insert"
  /\ \/ table = "user" /\ users' = Append(users, NewUser) /\ UNCHANGED accounts
     \/ table = "account" /\ accounts' = Append(accounts, NewAccount) /\ UNCHANGED users
  /\ pc' = "tmp"
  /\ UNCHANGED <<locals, tracker, tmp, stream, ghosts>>

Fault(kind) == kind \in Faults /\ faults < MaxFaults /\ faults' = faults + 1

InsertTorn ==
  /\ pc = "insert" /\ Fault("torn")
  /\ \/ table = "user" /\ users' = users \o <<NewUser, UserTail>> /\ UNCHANGED accounts
     \/ table = "account" /\ accounts' = accounts \o <<NewAccount, AccountTail>> /\ UNCHANGED users
  /\ harmed' = harmed \cup {"torn"}
  /\ pc' = "tmp"
  /\ UNCHANGED <<locals, tracker, tmp, stream, acked>>

(* fopen fails in insert_query_executor, or the disk is full when the line *)
(* is flushed; both callers ignore what it returns and carry on.           *)
InsertFails ==
  /\ pc = "insert" /\ Fault("insert")
  /\ harmed' = harmed \cup {"row"}
  /\ pc' = "tmp"
  /\ UNCHANGED <<locals, files, stream, acked>>

(* updt_next_identity: write the temporary file, remove the tracker,       *)
(* rename the one to the other, open the new tracker.                      *)
(* Mutant: make_new_user answers before it makes the account.              *)
AfterUpdateNoAccount == [user |-> "reply", account |-> "reply"]

AfterUpdate == [user |-> "reselect", account |-> "reply"]

WriteTmp ==
  /\ pc = "tmp"
  /\ tmp' = Incremented(table)
  /\ pc' = "remove"
  /\ UNCHANGED <<locals, users, accounts, tracker, stream, ghosts>>

(* The disk is full: the few lines are one write, so none of them arrives. *)
(* The result of fclose is not looked at; remove and rename follow.        *)
WriteTmpFull ==
  /\ pc = "tmp" /\ Fault("full")
  /\ tmp' = NoCounters
  /\ harmed' = harmed \cup {"empty"}
  /\ pc' = "remove"
  /\ UNCHANGED <<locals, users, accounts, tracker, stream, acked>>

(* The temporary file cannot be opened: the number stays as it was.        *)
WriteTmpFails ==
  /\ pc = "tmp" /\ Fault("tmp")
  /\ harmed' = harmed \cup {"stale"}
  /\ pc' = AfterUpdate[table]
  /\ UNCHANGED <<locals, files, stream, acked>>

Remove ==
  /\ pc = "remove"
  /\ tracker' = NoCounters
  /\ pc' = "rename"
  /\ UNCHANGED <<locals, users, accounts, tmp, stream, ghosts>>

Rename ==
  /\ pc = "rename"
  /\ tracker' = tmp
  /\ tmp' = NoCounters
  /\ pc' = "reopen"
  /\ UNCHANGED <<locals, users, accounts, stream, ghosts>>

(* Mutant: the "very IMPORTANT" line is dropped.                           *)
ReopenedNot == stream

Reopened == tracker

Reopen ==
  /\ pc = "reopen"
  /\ stream' = Reopened
  /\ pc' = AfterUpdate[table]
  /\ UNCHANGED <<locals, files, ghosts>>

(* Mutant: reopens the files and tries again until the row is there.       *)
ReselectUntilFound ==
  /\ pc = "reselect"
  /\ user_id' = Reselected(next_id)
  /\ IF user_id' = Empty
     THEN pc' = "reopen" /\ UNCHANGED table
     ELSE pc' = "identity" /\ table' = "account"
  /\ UNCHANGED <<email, next_id, files, stream, ghosts>>

Reselect ==
  /\ pc = "reselect"
  /\ user_id' = Reselected(next_id)
  /\ table' = "account"
  /\ pc' = "identity"
  /\ UNCHANGED <<email, next_id, files, stream, ghosts>>

(* make_new_account returns to make_new_user, which returns "User created".*)
Reply ==
  /\ pc = "reply"
  /\ acked' = acked \cup {email}
  /\ pc' = "idle"
  /\ table' = "user" /\ email' = NoEmail /\ next_id' = Empty /\ user_id' = Empty
  /\ UNCHANGED <<files, stream, harmed, faults>>

-----------------------------------------------------------------------------
(* The process is killed: watch.sh does so on every edit, to start it      *)
(* again, and any signal or segmentation fault does the same. Files stay   *)
(* as they are.                                                            *)

HarmOfCrash ==
  CASE pc \in {"tmp", "remove"} -> {"stale"}   \* a row is out, its id not consumed
    [] pc = "rename"            -> {"lost"}    \* no file has the tracker's name
    [] OTHER                    -> {}

Died ==
  /\ pc' = "down"
  /\ table' = "user" /\ email' = NoEmail /\ next_id' = Empty /\ user_id' = Empty
  /\ stream' = NoCounters
  /\ UNCHANGED <<files, acked>>

Crash ==
  /\ pc # "down" /\ Fault("crash")
  /\ Died
  /\ harmed' = harmed \cup HarmOfCrash

(* The tracker has no line, and what get_row_col_value leaves behind is no *)
(* address that can be read.                                               *)
NoIdentity ==
  /\ pc = "identity" /\ tracker[table] = NoRow
  /\ Died
  /\ UNCHANGED <<harmed, faults>>

-----------------------------------------------------------------------------
Serve ==
  \/ Reject \/ Accept \/ GetNextIdentity \/ Insert
  \/ WriteTmp \/ Remove \/ Rename \/ Reopen \/ Reselect \/ Reply

Next ==
  \/ Start \/ Initialize
  \/ \E e \in Emails : Submit(e)
  \/ Serve
  \/ InsertTorn \/ InsertFails \/ WriteTmpFull \/ WriteTmpFails
  \/ Crash \/ NoIdentity

Spec == Init /\ [][Next]_vars

(* The kernel runs a process that is not blocked. Nothing makes a customer *)
(* submit a form, and nothing starts a process that died: watch.sh waits   *)
(* for the next edit.                                                      *)
Fairness == WF_vars(Initialize) /\ WF_vars(Serve)
FairSpec == Spec /\ Fairness

-----------------------------------------------------------------------------
(* Properties.                                                             *)

TypeOK ==
  /\ pc \in {"down", "setup", "idle", "check", "identity", "insert", "tmp",
             "remove", "rename", "reopen", "reselect", "reply"}
  /\ table \in Tables
  /\ pc # "setup" => table # "transaction"
  /\ email \in Emails \cup {NoEmail}
  /\ next_id \in Nat \cup {Empty, NoId}
  /\ user_id \in Nat \cup {Empty, NoId}
  /\ users \in Seq(UserRows)
  /\ accounts \in Seq(AccountRows)
  /\ tracker \in [Tables -> Nat \cup {NoRow}]
  /\ tmp \in [Tables -> Nat \cup {NoRow}]
  /\ stream \in [Tables -> Nat \cup {NoRow}]
  /\ acked \subseteq Emails
  /\ harmed \subseteq {"row", "stale", "lost", "empty", "torn"}
  /\ faults \in Nat

(* No two customers have the same e-mail, whatever fails or crashes: the   *)
(* check of user.c:39 and the insert of user.c:60 are many calls apart.    *)
EmailsUnique ==
  \A i, j \in DOMAIN users :
    users[i].email = users[j].email /\ users[i].email # NoEmail => i = j

(* A torn line ends the user table for good: it satisfies every condition, *)
(* so email_already_registered rejects everybody from then on.             *)
TailIsLast == \A i \in DOMAIN users : users[i] = UserTail => i = Len(users)

NumbersIntact == harmed \cap {"stale", "lost", "empty"} = {}

(* Unless a counter was lost, emptied or left behind, no two users and no  *)
(* two accounts share an id: a counter is consumed exactly once.           *)
IdsUnique ==
  NumbersIntact =>
    /\ \A i, j \in DOMAIN users :
         users[i].id = users[j].id /\ users[i].id # Absent => i = j
    /\ \A i, j \in DOMAIN accounts :
         accounts[i].id = accounts[j].id /\ accounts[i].id # Absent => i = j

(* Under the same condition a user has at most one account, and every      *)
(* account that names an owner names a user of the table. The id goes      *)
(* through the disk and back between the two inserts (user.c:66-78).       *)
OneAccountEach ==
  NumbersIntact =>
    /\ \A i, j \in DOMAIN accounts :
         accounts[i].fk = accounts[j].fk /\ accounts[i].fk \in Nat => i = j
    /\ \A i \in DOMAIN accounts :
         accounts[i].fk \in Nat => \E u \in DOMAIN users : users[u].id = accounts[i].fk

Stored(e) ==
  \E u \in DOMAIN users :
    /\ users[u].email = e
    /\ \E a \in DOMAIN accounts : accounts[a].fk = users[u].id

(* A customer who was told "User created" has a user row and an account    *)
(* row that points to it, also after crashes and lost counters, as long as *)
(* every insert that ran wrote a whole line.                               *)
AckDurable == harmed \cap {"row", "torn"} = {} => \A e \in acked : Stored(e)

(* user.c:79 "Your account has been created!": told without exception.     *)
AckMeansCreated == \A e \in acked : Stored(e)

(* get_row_col_value falls off its end when the row is not there. A number *)
(* is found whenever an identity is taken, also after updates that could   *)
(* not start, crashes between remove and rename and the restarts that make *)
(* the file anew; only a full disk, whose empty temporary file replaces    *)
(* the tracker (store.c:139-141), leaves a process without.                *)
IdentityDefined == "empty" \notin harmed /\ pc = "insert" => next_id \in Nat

(* Between requests the open stream and the path are the same file: one    *)
(* is copied by updt_next_identity, the other read by get_next_identity.   *)
HandleCurrent == pc \in {"setup", "idle"} => stream = tracker

(* No line already written is ever changed or removed.                     *)
Extends(s, t) == Len(s) <= Len(t) /\ SubSeq(t, 1, Len(s)) = s

AppendOnly == [][Extends(users, users') /\ Extends(accounts, accounts')]_vars

(* The number a table hands out goes back in two steps only: the process   *)
(* dies between remove and rename, or it removes the tracker when a full   *)
(* disk has left the temporary file empty. Every other update, restart and *)
(* initialisation keeps or advances it.                                    *)
Counter(t) == IF pc = "rename" THEN tmp[t] ELSE tracker[t]

CountersAdvance ==
  [][\A t \in Tables :
       \/ Counter(t)' >= Counter(t)
       \/ pc = "rename" /\ pc' = "down"
       \/ pc = "remove" /\ tmp = NoCounters /\ "empty" \in harmed]_vars

(* A process that runs gets to its accept loop, from start-up and from     *)
(* every registration, whichever of its calls fail, unless it dies.        *)
ReadyAgain == pc # "down" ~> pc \in {"idle", "down"}

-----------------------------------------------------------------------------
(* What a customer sees: the clients the bank knows, the account row that  *)
(* names each first, and the number get_account_by_user_id mounts for the  *)
(* accounts page.                                                          *)

Clients == {users[i].email : i \in DOMAIN users} \ {NoEmail}

IdOf(e) == users[CHOOSE i \in DOMAIN users : users[i].email = e].id

AccountsOf(n) == {i \in DOMAIN accounts : accounts[i].fk \in {n, Absent}}

NoAccount == -1

AccountOf(e) ==
  IF e \in Clients /\ AccountsOf(IdOf(e)) # {}
  THEN accounts[Least(AccountsOf(IdOf(e)))].id
  ELSE NoAccount

Whole(i) ==
  /\ accounts[i] # AccountTail
  /\ i + 1 \in DOMAIN accounts => accounts[i + 1] # AccountTail

(* full_line prints the first match with the column count of the last one. *)
(* mount_acc_from_line_buf answers id "" when a column is missing, so both *)
(* lines must be whole for a number to be shown.                           *)
AccountShown(e) ==
  IF /\ AccountOf(e) # NoAccount
     /\ Whole(Least(AccountsOf(IdOf(e)))) /\ Whole(Greatest(AccountsOf(IdOf(e))))
  THEN AccountOf(e)
  ELSE NoAccount

Bank == INSTANCE Bank WITH
  clients <- Clients,
  account <- [e \in Emails |-> AccountOf(e)],
  shown   <- [e \in Emails |-> AccountShown(e)],
  intact  <- harmed = {}

(* The files and system calls implement the abstract bank.                 *)
ImplementsBank == Bank!Spec

=============================================================================
