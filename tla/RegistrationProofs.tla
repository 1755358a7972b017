------------------------- MODULE RegistrationProofs -------------------------
(***************************************************************************)
(* Theorems about Registration, for every set of e-mails, every set of     *)
(* fault kinds and every number of faults.                                 *)
(***************************************************************************)
EXTENDS Registration, WellFoundedInduction, SequenceTheorems, TLAPS

-----------------------------------------------------------------------------
(* The e-mails and the counters' file: their inductive invariant.          *)

Working == {"check", "identity", "insert", "tmp", "remove", "rename",
            "reopen", "reselect", "reply"}

Emptied == "empty" \in harmed

(* The open stream lags behind the path only while the files are swapped,  *)
(* and no counter is missing from where the code looks for it, unless a    *)
(* full disk emptied the tracker.                                          *)
Tracked ==
  /\ pc \notin {"down", "rename", "reopen"} => stream = tracker
  /\ pc \notin {"down", "setup"} => Emptied \/ \A t \in Tables : stream[t] # NoRow
  /\ pc \in {"remove", "rename"} => tmp = Incremented(table) \/ (Emptied /\ tmp = NoCounters)
  /\ pc = "reopen" => Emptied \/ \A t \in Tables : tracker[t] # NoRow
  /\ pc = "setup" /\ table # "user" => stream["user"] # NoRow
  /\ pc = "setup" /\ table = "account" => stream["transaction"] # NoRow
  /\ pc \in Working \ {"check", "identity"} =>
       next_id \in Nat \/ (Emptied /\ next_id = NoId)

(* From the check to the insert the e-mail stays free, and no line of the  *)
(* user table lacks its e-mail.                                            *)
Vetted ==
  pc \in {"identity", "insert"} /\ table = "user" =>
    \A i \in DOMAIN users : users[i].email \notin {email, NoEmail}

(* Only a tail has no id.                                                  *)
OnlyTailsLackId == \A i \in DOMAIN users : users[i].id = Absent => users[i] = UserTail

FormHeld == pc \in Working => email \in Emails

EmailInv ==
  /\ TypeOK /\ Tracked /\ FormHeld
  /\ Vetted /\ EmailsUnique /\ TailIsLast /\ OnlyTailsLackId

-----------------------------------------------------------------------------
(* Least and greatest elements.                                            *)

(* A nonempty set of naturals has a least element.                         *)
LEMMA NatHasLeast ==
  ASSUME NEW S \in SUBSET Nat, S # {}
  PROVE  \E m \in S : \A k \in S : m <= k
<1> DEFINE R == {ss \in Nat \X Nat : ss[1] < ss[2]}
<1>1. IsWellFoundedOn(R, Nat)
  BY NatLessThanWellFounded DEF OpToRel
<1>2. \A x, y \in Nat : y < x => <<y, x>> \in R
  OBVIOUS
<1> HIDE DEF R
<1>3. PICK x \in S : \A y \in S : <<y, x>> \notin R
  BY <1>1, WFMin
<1>4. \A y \in S : x <= y
  <2>1. TAKE y \in S
  <2>2. x \in Nat /\ y \in Nat /\ ~(y < x)
    BY <1>2, <1>3
  <2> QED BY <2>2
<1> QED BY <1>4

(* A nonempty set of positions of a list has a greatest element.           *)
LEMMA IndexHasGreatest ==
  ASSUME NEW n \in Nat, NEW S \in SUBSET (1 .. n), S # {}
  PROVE  \E m \in S : \A k \in S : k <= m
<1> DEFINE T == {n - i : i \in S}
<1>1. T \in SUBSET Nat
  <2> SUFFICES ASSUME NEW i \in S PROVE n - i \in Nat
    OBVIOUS
  <2> i \in 1 .. n
    OBVIOUS
  <2> QED OBVIOUS
<1>2. T # {}
  OBVIOUS
<1>3. PICK m \in T : \A k \in T : m <= k
  BY <1>1, <1>2, NatHasLeast
<1>4. PICK i \in S : m = n - i
  OBVIOUS
<1>5. \A j \in S : j <= i
  BY <1>3, <1>4
<1> QED BY <1>5

(* Least and Greatest pick what they are named for.                        *)
LEMMA LeastGreatest ==
  ASSUME NEW n \in Nat, NEW S \in SUBSET (1 .. n), S # {}
  PROVE  /\ Least(S) \in S /\ \A k \in S : Least(S) <= k
         /\ Greatest(S) \in S /\ \A k \in S : k <= Greatest(S)
<1>1. \E m \in S : \A k \in S : m <= k
  BY NatHasLeast
<1>2. \E m \in S : \A k \in S : k <= m
  BY IndexHasGreatest
<1> QED BY <1>1, <1>2 DEF Least, Greatest

(* The reselect of make_new_user yields "" or a number that some line of   *)
(* the user table has and that the query asked for.                        *)
LEMMA ReselectedType ==
  ASSUME users \in Seq(UserRows), TailIsLast, OnlyTailsLackId, NEW n \in Nat \cup {NoId}
  PROVE  \/ Reselected(n) = Empty
         \/ Reselected(n) = n /\ \E i \in DOMAIN users : users[i].id = n
<1> SUFFICES ASSUME WithId(n) # {}, users[Greatest(WithId(n))] # UserTail
             PROVE  Reselected(n) = n /\ \E i \in DOMAIN users : users[i].id = n
  BY DEF Reselected
<1> DEFINE l == Least(WithId(n))
           g == Greatest(WithId(n))
<1>1. Len(users) \in Nat /\ DOMAIN users = 1 .. Len(users)
  OBVIOUS
<1>2. l \in WithId(n) /\ g \in WithId(n) /\ l <= g
  BY <1>1, LeastGreatest DEF WithId
<1>3. users[l].id \in {n, Absent} /\ l \in 1 .. Len(users) /\ g \in 1 .. Len(users)
  BY <1>1, <1>2 DEF WithId
<1>4. users[l].id # Absent
  <2> SUFFICES ASSUME users[l].id = Absent PROVE FALSE
    OBVIOUS
  <2>1. users[l] = UserTail
    BY <1>1, <1>3 DEF OnlyTailsLackId
  <2>2. l = Len(users)
    BY <1>1, <1>3, <2>1 DEF TailIsLast
  <2>3. g = l
    BY <1>2, <1>3, <2>2
  <2> QED BY <2>1, <2>3
<1> QED BY <1>1, <1>3, <1>4 DEF Reselected

-----------------------------------------------------------------------------
(* The invariant holds initially and every action keeps it.                *)

USE FaultAssumption

LEMMA EmailInvInit == Init => EmailInv
BY DEF Init, EmailInv, TypeOK, Tracked, FormHeld, Working, Vetted, EmailsUnique,
       TailIsLast, OnlyTailsLackId, Tables, NoCounters, NoRow, Empty, Absent, UserTail, Emptied

(* A step that leaves the user table alone keeps what is said of its lines.*)
LEMMA SameUsers ==
  ASSUME EmailsUnique, TailIsLast, OnlyTailsLackId, users' = users
  PROVE  (EmailsUnique /\ TailIsLast /\ OnlyTailsLackId)'
BY DEF EmailsUnique, TailIsLast, OnlyTailsLackId

LEMMA StartKeepsEmailInv ==
  ASSUME EmailInv, Start
  PROVE  EmailInv'
<1> USE DEF EmailInv, Start, locals, files, ghosts
<1>1. TypeOK'
  BY DEF TypeOK, Tracked, Emptied, FormHeld, Working, Tables, NoRow, NoId, Empty, UserRows, AccountRows
<1>2. Tracked'
  BY DEF TypeOK, Tracked, Emptied, Working, Tables, NoRow, NoId, NoCounters, Empty
<1>3. FormHeld' /\ Vetted'
  BY DEF TypeOK, FormHeld, Working, Vetted
<1> QED BY <1>1, <1>2, <1>3, SameUsers

LEMMA InitializeKeepsEmailInv ==
  ASSUME EmailInv, Initialize
  PROVE  EmailInv'
<1> USE DEF EmailInv, Initialize, Initialized, AfterSetupOf, locals, files, ghosts
<1>1. TypeOK'
  BY DEF TypeOK, Tracked, Emptied, FormHeld, Working, Tables, NoRow, NoId, Empty, UserRows, AccountRows
<1>2. Tracked'
  BY DEF TypeOK, Tracked, Emptied, Working, Tables, NoRow, NoId, NoCounters, Empty
<1>3. FormHeld' /\ Vetted'
  BY DEF TypeOK, FormHeld, Working, Vetted
<1> QED BY <1>1, <1>2, <1>3, SameUsers

LEMMA SubmitKeepsEmailInv ==
  ASSUME EmailInv, NEW e \in Emails, Submit(e)
  PROVE  EmailInv'
<1> USE DEF EmailInv, Submit, locals, files, ghosts
<1>1. TypeOK'
  BY DEF TypeOK, Tracked, Emptied, FormHeld, Working, Tables, NoRow, NoId, Empty, UserRows, AccountRows
<1>2. Tracked'
  BY DEF TypeOK, Tracked, Emptied, Working, Tables, NoRow, NoId, NoCounters, Empty
<1>3. FormHeld' /\ Vetted'
  BY DEF TypeOK, FormHeld, Working, Vetted
<1> QED BY <1>1, <1>2, <1>3, SameUsers

LEMMA RejectKeepsEmailInv ==
  ASSUME EmailInv, Reject
  PROVE  EmailInv'
<1> USE DEF EmailInv, Reject, locals, files, ghosts
<1>1. TypeOK'
  BY DEF TypeOK, Tracked, Emptied, FormHeld, Working, Tables, NoRow, NoId, Empty, UserRows, AccountRows
<1>2. Tracked'
  BY DEF TypeOK, Tracked, Emptied, Working, Tables, NoRow, NoId, NoCounters, Empty
<1>3. FormHeld' /\ Vetted'
  BY DEF TypeOK, FormHeld, Working, Vetted
<1> QED BY <1>1, <1>2, <1>3, SameUsers

LEMMA AcceptKeepsEmailInv ==
  ASSUME EmailInv, Accept
  PROVE  EmailInv'
<1> USE DEF EmailInv, Accept, EmailAlreadyRegistered, WithEmail, locals, files, ghosts
<1>1. TypeOK'
  BY DEF TypeOK, Tracked, Emptied, FormHeld, Working, Tables, NoRow, NoId, Empty, UserRows, AccountRows
<1>2. Tracked'
  BY DEF TypeOK, Tracked, Emptied, Working, Tables, NoRow, NoId, NoCounters, Empty
<1>3. FormHeld' /\ Vetted'
  BY DEF TypeOK, FormHeld, Working, Vetted
<1> QED BY <1>1, <1>2, <1>3, SameUsers

LEMMA GetNextIdentityKeepsEmailInv ==
  ASSUME EmailInv, GetNextIdentity
  PROVE  EmailInv'
<1> USE DEF EmailInv, GetNextIdentity, locals, files, ghosts
<1>1. TypeOK'
  BY DEF TypeOK, Tracked, Emptied, FormHeld, Working, Tables, NoRow, NoId, Empty, UserRows, AccountRows
<1>2. Tracked'
  BY DEF TypeOK, Tracked, Emptied, Working, Tables, NoRow, NoId, NoCounters, Empty
<1>3. FormHeld' /\ Vetted'
  BY DEF TypeOK, FormHeld, Working, Vetted
<1> QED BY <1>1, <1>2, <1>3, SameUsers

LEMMA InsertFailsKeepsEmailInv ==
  ASSUME EmailInv, InsertFails
  PROVE  EmailInv'
<1> USE DEF EmailInv, InsertFails, Fault, locals, files, ghosts
<1>1. TypeOK'
  BY DEF TypeOK, Tracked, Emptied, FormHeld, Working, Tables, NoRow, NoId, Empty, UserRows, AccountRows
<1>2. Tracked'
  BY DEF TypeOK, Tracked, Emptied, Working, Tables, NoRow, NoId, NoCounters, Empty
<1>3. FormHeld' /\ Vetted'
  BY DEF TypeOK, FormHeld, Working, Vetted
<1> QED BY <1>1, <1>2, <1>3, SameUsers

LEMMA WriteTmpKeepsEmailInv ==
  ASSUME EmailInv, WriteTmp
  PROVE  EmailInv'
<1> USE DEF EmailInv, WriteTmp, Incremented, locals, files, ghosts
<1>1. TypeOK'
  BY DEF TypeOK, Tracked, Emptied, FormHeld, Working, Tables, NoRow, NoId, Empty, UserRows, AccountRows
<1>2. Tracked'
  BY DEF TypeOK, Tracked, Emptied, Working, Tables, NoRow, NoId, NoCounters, Empty
<1>3. FormHeld' /\ Vetted'
  BY DEF TypeOK, FormHeld, Working, Vetted
<1> QED BY <1>1, <1>2, <1>3, SameUsers

LEMMA WriteTmpFullKeepsEmailInv ==
  ASSUME EmailInv, WriteTmpFull
  PROVE  EmailInv'
<1> USE DEF EmailInv, WriteTmpFull, Fault, NoCounters, locals, files, ghosts
<1>1. TypeOK'
  BY DEF TypeOK, Tracked, Emptied, FormHeld, Working, Tables, NoRow, NoId, Empty, UserRows, AccountRows
<1>2. Tracked'
  BY DEF TypeOK, Tracked, Emptied, Working, Tables, NoRow, NoId, NoCounters, Empty
<1>3. FormHeld' /\ Vetted'
  BY DEF TypeOK, FormHeld, Working, Vetted
<1> QED BY <1>1, <1>2, <1>3, SameUsers

LEMMA WriteTmpFailsKeepsEmailInv ==
  ASSUME EmailInv, WriteTmpFails
  PROVE  EmailInv'
<1> USE DEF EmailInv, WriteTmpFails, Fault, AfterUpdate, locals, files, ghosts
<1>1. TypeOK'
  BY DEF TypeOK, Tracked, Emptied, FormHeld, Working, Tables, NoRow, NoId, Empty, UserRows, AccountRows
<1>2. Tracked'
  BY DEF TypeOK, Tracked, Emptied, Working, Tables, NoRow, NoId, NoCounters, Empty
<1>3. FormHeld' /\ Vetted'
  BY DEF TypeOK, FormHeld, Working, Vetted
<1> QED BY <1>1, <1>2, <1>3, SameUsers

LEMMA RemoveKeepsEmailInv ==
  ASSUME EmailInv, Remove
  PROVE  EmailInv'
<1> USE DEF EmailInv, Remove, NoCounters, Incremented, locals, files, ghosts
<1>1. TypeOK'
  BY DEF TypeOK, Tracked, Emptied, FormHeld, Working, Tables, NoRow, NoId, Empty, UserRows, AccountRows
<1>2. Tracked'
  BY DEF TypeOK, Tracked, Emptied, Working, Tables, NoRow, NoId, NoCounters, Empty
<1>3. FormHeld' /\ Vetted'
  BY DEF TypeOK, FormHeld, Working, Vetted
<1> QED BY <1>1, <1>2, <1>3, SameUsers

LEMMA RenameKeepsEmailInv ==
  ASSUME EmailInv, Rename
  PROVE  EmailInv'
<1> USE DEF EmailInv, Rename, NoCounters, Incremented, locals, files, ghosts
<1>1. TypeOK'
  BY DEF TypeOK, Tracked, Emptied, FormHeld, Working, Tables, NoRow, NoId, Empty, UserRows, AccountRows
<1>2. Tracked'
  BY DEF TypeOK, Tracked, Emptied, Working, Tables, NoRow, NoId, NoCounters, Empty
<1>3. FormHeld' /\ Vetted'
  BY DEF TypeOK, FormHeld, Working, Vetted
<1> QED BY <1>1, <1>2, <1>3, SameUsers

LEMMA ReopenKeepsEmailInv ==
  ASSUME EmailInv, Reopen
  PROVE  EmailInv'
<1> USE DEF EmailInv, Reopen, Reopened, AfterUpdate, locals, files, ghosts
<1>1. TypeOK'
  BY DEF TypeOK, Tracked, Emptied, FormHeld, Working, Tables, NoRow, NoId, Empty, UserRows, AccountRows
<1>2. Tracked'
  BY DEF TypeOK, Tracked, Emptied, Working, Tables, NoRow, NoId, NoCounters, Empty
<1>3. FormHeld' /\ Vetted'
  BY DEF TypeOK, FormHeld, Working, Vetted
<1> QED BY <1>1, <1>2, <1>3, SameUsers

LEMMA ReplyKeepsEmailInv ==
  ASSUME EmailInv, Reply
  PROVE  EmailInv'
<1> USE DEF EmailInv, Reply, locals, files, ghosts
<1>1. TypeOK'
  BY DEF TypeOK, Tracked, Emptied, FormHeld, Working, Tables, NoRow, NoId, Empty, UserRows, AccountRows
<1>2. Tracked'
  BY DEF TypeOK, Tracked, Emptied, Working, Tables, NoRow, NoId, NoCounters, Empty
<1>3. FormHeld' /\ Vetted'
  BY DEF TypeOK, FormHeld, Working, Vetted
<1> QED BY <1>1, <1>2, <1>3, SameUsers

LEMMA CrashKeepsEmailInv ==
  ASSUME EmailInv, Crash
  PROVE  EmailInv'
<1> USE DEF EmailInv, Crash, Died, Fault, HarmOfCrash, NoCounters, locals, files, ghosts
<1>1. TypeOK'
  BY DEF TypeOK, Tracked, Emptied, FormHeld, Working, Tables, NoRow, NoId, Empty, UserRows, AccountRows
<1>2. Tracked'
  BY DEF TypeOK, Tracked, Emptied, Working, Tables, NoRow, NoId, NoCounters, Empty
<1>3. FormHeld' /\ Vetted'
  BY DEF TypeOK, FormHeld, Working, Vetted
<1> QED BY <1>1, <1>2, <1>3, SameUsers

LEMMA NoIdentityKeepsEmailInv ==
  ASSUME EmailInv, NoIdentity
  PROVE  EmailInv'
<1> USE DEF EmailInv, NoIdentity, Died, NoCounters, locals, files, ghosts
<1>1. TypeOK'
  BY DEF TypeOK, Tracked, Emptied, FormHeld, Working, Tables, NoRow, NoId, Empty, UserRows, AccountRows
<1>2. Tracked'
  BY DEF TypeOK, Tracked, Emptied, Working, Tables, NoRow, NoId, NoCounters, Empty
<1>3. FormHeld' /\ Vetted'
  BY DEF TypeOK, FormHeld, Working, Vetted
<1> QED BY <1>1, <1>2, <1>3, SameUsers

(* The two lines a registration may add to a table, and what they bring.   *)
LEMMA AppendUser ==
  ASSUME TypeOK, Tracked, FormHeld, Vetted, EmailsUnique, TailIsLast, OnlyTailsLackId,
         pc = "insert", table = "user",
         \/ users' = Append(users, NewUser)
         \/ users' = users \o <<NewUser, UserTail>>
  PROVE  users' \in Seq(UserRows) /\ (EmailsUnique /\ TailIsLast /\ OnlyTailsLackId)'
<1>1. NewUser \in UserRows /\ UserTail \in UserRows
  BY DEF NewUser, UserTail, UserRows, Tracked, FormHeld, Working
<1>2. users \in Seq(UserRows)
  BY DEF TypeOK
<1>3. next_id # Absent /\ email # NoEmail
  BY DEF Tracked, FormHeld, Working, Absent, NoId
<1>4. \A i \in 1 .. Len(users) : users[i] # UserTail /\ users[i].id # Absent
                                /\ users[i].email \notin {email, NoEmail}
  BY <1>2 DEF Vetted, UserTail, OnlyTailsLackId
<1>5. CASE users' = Append(users, NewUser)
  <2>1. /\ users' \in Seq(UserRows) /\ Len(users') = Len(users) + 1
        /\ \A i \in 1 .. Len(users) : users'[i] = users[i]
        /\ users'[Len(users) + 1] = NewUser
    BY <1>1, <1>2, <1>5
  <2>2. \A i \in DOMAIN users' : \/ i \in 1 .. Len(users) /\ users'[i] = users[i]
                                 \/ i = Len(users') /\ users'[i] = NewUser
    BY <1>2, <2>1
  <2>3. OnlyTailsLackId' /\ TailIsLast'
    <3>1. NewUser # UserTail /\ NewUser.id # Absent
      BY <1>3 DEF NewUser, UserTail
    <3>2. OnlyTailsLackId'
      BY <1>4, <2>2, <3>1 DEF OnlyTailsLackId
    <3>3. TailIsLast'
      BY <1>4, <2>2, <3>1 DEF TailIsLast
    <3> QED BY <3>2, <3>3
  <2>4. EmailsUnique'
    BY <1>2, <1>3, <1>4, <2>1, <2>2 DEF EmailsUnique, NewUser
  <2> QED BY <2>1, <2>3, <2>4
<1>6. CASE users' = users \o <<NewUser, UserTail>>
  <2>1. /\ users' \in Seq(UserRows) /\ Len(users') = Len(users) + 2
        /\ \A i \in 1 .. Len(users) : users'[i] = users[i]
        /\ users'[Len(users) + 1] = NewUser /\ users'[Len(users) + 2] = UserTail
    BY <1>1, <1>2, <1>6
  <2>2. \A i \in DOMAIN users' : \/ i \in 1 .. Len(users) /\ users'[i] = users[i]
                                 \/ i = Len(users) + 1 /\ users'[i] = NewUser
                                 \/ i = Len(users') /\ users'[i] = UserTail
    BY <1>2, <2>1
  <2>3. /\ NewUser.email = email /\ NewUser.id = next_id /\ NewUser # UserTail
        /\ UserTail.email = NoEmail /\ UserTail.id = Absent
    BY <1>3 DEF NewUser, UserTail
  <2>4. Len(users) \in Nat /\ DOMAIN users' = 1 .. Len(users')
    BY <1>2, <2>1
  <2>5. OnlyTailsLackId'
    BY <1>3, <1>4, <2>2, <2>3 DEF OnlyTailsLackId, UserTail
  <2>6. TailIsLast'
    BY <1>4, <2>2, <2>3 DEF TailIsLast, UserTail
  <2>7. EmailsUnique'
    BY <1>3, <1>4, <2>1, <2>2, <2>3, <2>4 DEF EmailsUnique
  <2> QED BY <2>1, <2>5, <2>6, <2>7
<1> QED BY <1>5, <1>6

LEMMA AppendAccount ==
  ASSUME TypeOK, Tracked, pc = "insert",
         \/ accounts' = Append(accounts, NewAccount)
         \/ accounts' = accounts \o <<NewAccount, AccountTail>>
  PROVE  accounts' \in Seq(AccountRows)
<1>1. NewAccount \in AccountRows /\ AccountTail \in AccountRows
  BY DEF NewAccount, AccountTail, AccountRows, TypeOK, Tracked, Working, Empty
<1>2. accounts \in Seq(AccountRows)
  BY DEF TypeOK
<1>3. <<NewAccount, AccountTail>> \in Seq(AccountRows)
  BY <1>1
<1>4. Append(accounts, NewAccount) \in Seq(AccountRows)
  BY <1>1, <1>2, AppendProperties
<1>5. accounts \o <<NewAccount, AccountTail>> \in Seq(AccountRows)
  BY <1>2, <1>3, ConcatProperties
<1> QED BY <1>4, <1>5

LEMMA InsertKeepsEmailInv ==
  ASSUME EmailInv, Insert
  PROVE  EmailInv'
<1> USE DEF Insert, locals, files, ghosts
<1>1. /\ users' \in Seq(UserRows) /\ accounts' \in Seq(AccountRows)
      /\ (EmailsUnique /\ TailIsLast /\ OnlyTailsLackId)'
  <2>1. CASE table = "user"
    BY <2>1, AppendUser DEF EmailInv, TypeOK
  <2>2. CASE table = "account"
    BY <2>2, AppendAccount, SameUsers DEF EmailInv, TypeOK
  <2> QED BY <2>1, <2>2
<1>2. TypeOK' /\ Tracked' /\ FormHeld' /\ Vetted'
  BY <1>1 DEF EmailInv, TypeOK, Tracked, Emptied, FormHeld, Vetted, Working
<1> QED BY <1>1, <1>2 DEF EmailInv

LEMMA InsertTornKeepsEmailInv ==
  ASSUME EmailInv, InsertTorn
  PROVE  EmailInv'
<1> USE DEF InsertTorn, Fault, locals, files, ghosts
<1>1. /\ users' \in Seq(UserRows) /\ accounts' \in Seq(AccountRows)
      /\ (EmailsUnique /\ TailIsLast /\ OnlyTailsLackId)'
  <2>1. CASE table = "user"
    BY <2>1, AppendUser DEF EmailInv, TypeOK
  <2>2. CASE table = "account"
    BY <2>2, AppendAccount, SameUsers DEF EmailInv, TypeOK
  <2> QED BY <2>1, <2>2
<1>2. TypeOK' /\ Tracked' /\ FormHeld' /\ Vetted'
  BY <1>1 DEF EmailInv, TypeOK, Tracked, Emptied, FormHeld, Vetted, Working
<1> QED BY <1>1, <1>2 DEF EmailInv

LEMMA ReselectKeepsEmailInv ==
  ASSUME EmailInv, Reselect
  PROVE  EmailInv'
<1> USE DEF EmailInv, Reselect, files, ghosts
<1>1. next_id \in Nat \cup {NoId} /\ users \in Seq(UserRows)
  BY DEF TypeOK, Tracked, Working
<1>2. user_id' \in Nat \cup {Empty, NoId}
  BY <1>1, ReselectedType
<1>3. TypeOK' /\ Tracked' /\ FormHeld' /\ Vetted'
  BY <1>2 DEF TypeOK, Tracked, Emptied, FormHeld, Vetted, Working, Tables
<1> QED BY <1>3, SameUsers

LEMMA EmailInvNext ==
  ASSUME EmailInv, [Next]_vars
  PROVE  EmailInv'
<1>1. CASE Start
  BY <1>1, StartKeepsEmailInv
<1>2. CASE Initialize
  BY <1>2, InitializeKeepsEmailInv
<1>3. CASE \E e \in Emails : Submit(e)
  BY <1>3, SubmitKeepsEmailInv
<1>4. CASE Reject
  BY <1>4, RejectKeepsEmailInv
<1>5. CASE Accept
  BY <1>5, AcceptKeepsEmailInv
<1>6. CASE GetNextIdentity
  BY <1>6, GetNextIdentityKeepsEmailInv
<1>7. CASE Insert
  BY <1>7, InsertKeepsEmailInv
<1>8. CASE WriteTmp
  BY <1>8, WriteTmpKeepsEmailInv
<1>9. CASE Remove
  BY <1>9, RemoveKeepsEmailInv
<1>10. CASE Rename
  BY <1>10, RenameKeepsEmailInv
<1>11. CASE Reopen
  BY <1>11, ReopenKeepsEmailInv
<1>12. CASE Reselect
  BY <1>12, ReselectKeepsEmailInv
<1>13. CASE Reply
  BY <1>13, ReplyKeepsEmailInv
<1>14. CASE InsertTorn
  BY <1>14, InsertTornKeepsEmailInv
<1>15. CASE InsertFails
  BY <1>15, InsertFailsKeepsEmailInv
<1>16. CASE WriteTmpFails
  BY <1>16, WriteTmpFailsKeepsEmailInv
<1>17. CASE Crash
  BY <1>17, CrashKeepsEmailInv
<1>18. CASE WriteTmpFull
  BY <1>18, WriteTmpFullKeepsEmailInv
<1>19. CASE NoIdentity
  BY <1>19, NoIdentityKeepsEmailInv
<1>20. CASE UNCHANGED vars
  <2>1. TypeOK' /\ Tracked' /\ FormHeld' /\ Vetted'
    BY <1>20 DEF vars, locals, files, ghosts, EmailInv, TypeOK, Tracked, Emptied, Incremented,
                 FormHeld, Vetted
  <2>2. users' = users
    BY <1>20 DEF vars, files
  <2> QED BY <2>1, <2>2, SameUsers DEF EmailInv
<1> QED BY <1>1, <1>2, <1>3, <1>4, <1>5, <1>6, <1>7, <1>8, <1>9, <1>10, <1>11, <1>12, <1>13, <1>14, <1>15, <1>16, <1>17, <1>18, <1>19, <1>20
     DEF Next, Serve

-----------------------------------------------------------------------------
(* Theorems.                                                               *)

(* The inductive invariant holds in every reachable state.                 *)
THEOREM EmailInvariant == Spec => []EmailInv
<1>1. Init => EmailInv
  BY EmailInvInit
<1>2. EmailInv /\ [Next]_vars => EmailInv'
  BY EmailInvNext
<1> QED BY <1>1, <1>2, PTL DEF Spec

(* Every variable keeps its type, whatever fails or crashes.               *)
THEOREM TypeCorrect == Spec => []TypeOK
<1>1. EmailInv => TypeOK
  BY DEF EmailInv
<1> QED BY <1>1, EmailInvariant, PTL

(* No two customers ever have the same e-mail: of make_new_user's check    *)
(* and insert, with every crash, failing insert, failing temporary file    *)
(* and torn line between and around them.                                  *)
THEOREM EmailsStayUnique == Spec => []EmailsUnique
<1>1. EmailInv => EmailsUnique
  BY DEF EmailInv
<1> QED BY <1>1, EmailInvariant, PTL

(* Once a line is torn the user table never grows again.                   *)
THEOREM TornTableIsClosed == Spec => []TailIsLast
<1>1. EmailInv => TailIsLast
  BY DEF EmailInv
<1> QED BY <1>1, EmailInvariant, PTL

(* get_next_identity finds its row unless a full disk emptied the tracker: *)
(* setup, update and reopen leave no other state in which a counter is     *)
(* taken from a file that lacks it.                                        *)
THEOREM IdentityAlwaysDefined == Spec => []IdentityDefined
<1>1. EmailInv => IdentityDefined
  BY DEF EmailInv, Tracked, Emptied, IdentityDefined, Working
<1> QED BY <1>1, EmailInvariant, PTL

(* The open stream and the path agree whenever a request can start.        *)
THEOREM HandleStaysCurrent == Spec => []HandleCurrent
<1>1. EmailInv => HandleCurrent
  BY DEF EmailInv, Tracked, HandleCurrent
<1> QED BY <1>1, EmailInvariant, PTL

-----------------------------------------------------------------------------
(* The numbers handed out, ids and foreign keys, as long as no counter was *)
(* damaged, and the counters themselves: their inductive invariant.        *)

(* The number below which every id of a table lies: its counter, plus one  *)
(* between an insert and the update that consumes the id.                  *)
Used(t) ==
  IF pc = "rename" THEN tmp[t]
  ELSE IF pc \in {"tmp", "remove"} /\ table = t THEN tracker[t] + 1
  ELSE tracker[t]

BelowUsed ==
  /\ \A i \in DOMAIN users : users[i].id # Absent => users[i].id < Used("user")
  /\ \A i \in DOMAIN accounts : accounts[i].id # Absent => accounts[i].id < Used("account")

(* The number taken by get_next_identity is the counter until consumed.    *)
NextIsCounter == pc \in {"insert", "tmp", "remove"} => next_id = tracker[table]

(* While a user is being made no account names them yet, nor a later id.   *)
OwnersBelow ==
  pc \in {"insert", "tmp", "remove", "rename", "reopen", "reselect"} /\ table = "user" =>
    \A i \in DOMAIN accounts : accounts[i].fk \in Nat => accounts[i].fk < next_id

(* While the account is being made its owner exists and has none.          *)
OwnerWaits ==
  pc \in {"identity", "insert"} /\ table = "account" /\ user_id \in Nat =>
    /\ \E u \in DOMAIN users : users[u].id = user_id
    /\ \A i \in DOMAIN accounts : accounts[i].fk # user_id

(* A registration makes the user first and the account second.             *)
UserFirst ==
  /\ pc \in Working => table \in {"user", "account"}
  /\ pc \in {"check", "reselect"} => table = "user"
  /\ pc = "reply" => table = "account"

NumberInv ==
  /\ EmailInv /\ IdsUnique /\ OneAccountEach /\ UserFirst
  /\ NumbersIntact => BelowUsed /\ NextIsCounter /\ OwnersBelow /\ OwnerWaits

-----------------------------------------------------------------------------
(* What never changes.                                                     *)

(* Damage is never repaired.                                               *)
LEMMA IntactBefore ==
  ASSUME [Next]_vars, NumbersIntact'
  PROVE  NumbersIntact
<1>1. harmed \subseteq harmed'
  BY DEF Next, Serve, vars, locals, files, ghosts, Start, Initialize, Submit, Reject,
         Accept, GetNextIdentity, Insert, WriteTmp, Remove, Rename, Reopen, Reselect,
         Reply, InsertTorn, InsertFails, WriteTmpFull, WriteTmpFails, Crash, NoIdentity, Died
<1> QED BY <1>1 DEF NumbersIntact

(* What TypeOK says of a single row.                                       *)
LEMMA RowsTyped ==
  ASSUME EmailInv
  PROVE  /\ \A i \in DOMAIN users : users[i].id \in Int
         /\ \A i \in DOMAIN accounts : accounts[i].id \in Int /\ accounts[i].fk \in Int
<1>1. \A i \in DOMAIN users : users[i] \in UserRows
  BY DEF EmailInv, TypeOK
<1>2. \A i \in DOMAIN accounts : accounts[i] \in AccountRows
  BY DEF EmailInv, TypeOK
<1>3. \A row \in UserRows : row.id \in Int
  BY DEF UserRows, Absent, NoId
<1>4. \A row \in AccountRows : row.id \in Int /\ row.fk \in Int
  BY DEF AccountRows, Absent, NoId, Empty
<1> QED BY <1>1, <1>2, <1>3, <1>4

(* A step that adds no row keeps what is said of the rows, provided it     *)
(* keeps the counters.                                                     *)
LEMMA SameRows ==
  ASSUME NumberInv, [Next]_vars, UNCHANGED <<users, accounts>>, UserFirst',
         NumbersIntact' => /\ Used("user")' \in Int /\ Used("user") <= Used("user")'
                           /\ Used("account")' \in Int /\ Used("account") <= Used("account")'
                           /\ NextIsCounter' /\ OwnersBelow' /\ OwnerWaits'
  PROVE  NumberInv'
<1>1. EmailInv /\ EmailInv'
  BY EmailInvNext DEF NumberInv
<1>2. NumbersIntact' => NumbersIntact
  BY IntactBefore
<1>3. IdsUnique' /\ OneAccountEach'
  BY <1>2 DEF NumberInv, IdsUnique, OneAccountEach
<1>4. Used("user") \in Int /\ Used("account") \in Int
  <2>1. tracker \in [Tables -> Int] /\ tmp \in [Tables -> Int]
    BY <1>1 DEF EmailInv, TypeOK, NoRow
  <2>2. \A t \in Tables : tracker[t] \in Int /\ tmp[t] \in Int
    BY <2>1
  <2>3. \A t \in Tables : Used(t) \in Int
    BY <2>2 DEF Used
  <2> QED BY <2>3 DEF Tables
<1>5. \A i \in DOMAIN users : users[i].id \in Int
  BY <1>1, RowsTyped
<1>6. \A i \in DOMAIN accounts : accounts[i].id \in Int
  BY <1>1, RowsTyped
<1>7. NumbersIntact' => BelowUsed'
  BY <1>2, <1>4, <1>5, <1>6 DEF NumberInv, BelowUsed
<1> QED BY <1>1, <1>3, <1>7 DEF NumberInv

-----------------------------------------------------------------------------
(* Every action keeps the invariant.                                       *)

LEMMA NumberInvInit == Init => NumberInv
<1>1. Init => EmailInv
  BY EmailInvInit
<1> QED BY <1>1 DEF Init, NumberInv, UserFirst, Working, IdsUnique, OneAccountEach, BelowUsed, NextIsCounter,
                    OwnersBelow, OwnerWaits

LEMMA StartKeepsNumberInv ==
  ASSUME NumberInv, Start
  PROVE  NumberInv'
<1> USE DEF Start, NoRow, locals, files, ghosts
<1>1. EmailInv /\ [Next]_vars /\ UserFirst /\ UserFirst'
  BY DEF NumberInv, Next, Serve, UserFirst, Working
<1>2. SUFFICES ASSUME NumbersIntact'
              PROVE  /\ Used("user")' \in Int /\ Used("user") <= Used("user")'
                     /\ Used("account")' \in Int /\ Used("account") <= Used("account")'
                     /\ NextIsCounter' /\ OwnersBelow' /\ OwnerWaits'
  BY <1>1, SameRows
<1>3. BelowUsed /\ NextIsCounter /\ OwnersBelow /\ OwnerWaits
  BY <1>1, <1>2, IntactBefore DEF NumberInv
<1>4. /\ Used("user")' \in Int /\ Used("user") <= Used("user")'
      /\ Used("account")' \in Int /\ Used("account") <= Used("account")'
  BY <1>1, <1>2 DEF EmailInv, TypeOK, Tracked, Emptied, Working, Tables, NoRow, Used, NumbersIntact
<1>5. NextIsCounter' /\ OwnersBelow' /\ OwnerWaits'
  BY <1>1, <1>2, <1>3 DEF EmailInv, TypeOK, NumbersIntact, UserFirst, Working,
                          NextIsCounter, OwnersBelow, OwnerWaits
<1> QED BY <1>4, <1>5

LEMMA InitializeKeepsNumberInv ==
  ASSUME NumberInv, Initialize
  PROVE  NumberInv'
<1> USE DEF Initialize, Initialized, AfterSetupOf, locals, files, ghosts
<1>1. EmailInv /\ [Next]_vars /\ UserFirst /\ UserFirst'
  BY DEF NumberInv, Next, Serve, UserFirst, Working
<1>2. SUFFICES ASSUME NumbersIntact'
              PROVE  /\ Used("user")' \in Int /\ Used("user") <= Used("user")'
                     /\ Used("account")' \in Int /\ Used("account") <= Used("account")'
                     /\ NextIsCounter' /\ OwnersBelow' /\ OwnerWaits'
  BY <1>1, SameRows
<1>3. BelowUsed /\ NextIsCounter /\ OwnersBelow /\ OwnerWaits
  BY <1>1, <1>2, IntactBefore DEF NumberInv
<1>4. /\ Used("user")' \in Int /\ Used("user") <= Used("user")'
      /\ Used("account")' \in Int /\ Used("account") <= Used("account")'
  BY <1>1, <1>2 DEF EmailInv, TypeOK, Tracked, Emptied, Working, Tables, NoRow, Used, NumbersIntact
<1>5. NextIsCounter' /\ OwnersBelow' /\ OwnerWaits'
  BY <1>1, <1>2, <1>3 DEF EmailInv, TypeOK, NumbersIntact, UserFirst, Working,
                          NextIsCounter, OwnersBelow, OwnerWaits
<1> QED BY <1>4, <1>5

LEMMA RejectKeepsNumberInv ==
  ASSUME NumberInv, Reject
  PROVE  NumberInv'
<1> USE DEF Reject, locals, files, ghosts
<1>1. EmailInv /\ [Next]_vars /\ UserFirst /\ UserFirst'
  BY DEF NumberInv, Next, Serve, UserFirst, Working
<1>2. SUFFICES ASSUME NumbersIntact'
              PROVE  /\ Used("user")' \in Int /\ Used("user") <= Used("user")'
                     /\ Used("account")' \in Int /\ Used("account") <= Used("account")'
                     /\ NextIsCounter' /\ OwnersBelow' /\ OwnerWaits'
  BY <1>1, SameRows
<1>3. BelowUsed /\ NextIsCounter /\ OwnersBelow /\ OwnerWaits
  BY <1>1, <1>2, IntactBefore DEF NumberInv
<1>4. /\ Used("user")' \in Int /\ Used("user") <= Used("user")'
      /\ Used("account")' \in Int /\ Used("account") <= Used("account")'
  BY <1>1, <1>2 DEF EmailInv, TypeOK, Tracked, Emptied, Working, Tables, NoRow, Used, NumbersIntact
<1>5. NextIsCounter' /\ OwnersBelow' /\ OwnerWaits'
  BY <1>1, <1>2, <1>3 DEF EmailInv, TypeOK, NumbersIntact, UserFirst, Working,
                          NextIsCounter, OwnersBelow, OwnerWaits
<1> QED BY <1>4, <1>5

LEMMA AcceptKeepsNumberInv ==
  ASSUME NumberInv, Accept
  PROVE  NumberInv'
<1> USE DEF Accept, locals, files, ghosts
<1>1. EmailInv /\ [Next]_vars /\ UserFirst /\ UserFirst'
  BY DEF NumberInv, Next, Serve, UserFirst, Working
<1>2. SUFFICES ASSUME NumbersIntact'
              PROVE  /\ Used("user")' \in Int /\ Used("user") <= Used("user")'
                     /\ Used("account")' \in Int /\ Used("account") <= Used("account")'
                     /\ NextIsCounter' /\ OwnersBelow' /\ OwnerWaits'
  BY <1>1, SameRows
<1>3. BelowUsed /\ NextIsCounter /\ OwnersBelow /\ OwnerWaits
  BY <1>1, <1>2, IntactBefore DEF NumberInv
<1>4. /\ Used("user")' \in Int /\ Used("user") <= Used("user")'
      /\ Used("account")' \in Int /\ Used("account") <= Used("account")'
  BY <1>1, <1>2 DEF EmailInv, TypeOK, Tracked, Emptied, Working, Tables, NoRow, Used, NumbersIntact
<1>5. NextIsCounter' /\ OwnersBelow' /\ OwnerWaits'
  BY <1>1, <1>2, <1>3 DEF EmailInv, TypeOK, NumbersIntact, UserFirst, Working,
                          NextIsCounter, OwnersBelow, OwnerWaits
<1> QED BY <1>4, <1>5

LEMMA GetNextIdentityKeepsNumberInv ==
  ASSUME NumberInv, GetNextIdentity
  PROVE  NumberInv'
<1> USE DEF GetNextIdentity, locals, files, ghosts
<1>1. EmailInv /\ [Next]_vars /\ UserFirst /\ UserFirst'
  BY DEF NumberInv, Next, Serve, UserFirst, Working
<1>2. SUFFICES ASSUME NumbersIntact'
              PROVE  /\ Used("user")' \in Int /\ Used("user") <= Used("user")'
                     /\ Used("account")' \in Int /\ Used("account") <= Used("account")'
                     /\ NextIsCounter' /\ OwnersBelow' /\ OwnerWaits'
  BY <1>1, SameRows
<1>3. BelowUsed /\ NextIsCounter /\ OwnersBelow /\ OwnerWaits
  BY <1>1, <1>2, IntactBefore DEF NumberInv
<1>4. /\ Used("user")' \in Int /\ Used("user") <= Used("user")'
      /\ Used("account")' \in Int /\ Used("account") <= Used("account")'
  BY <1>1, <1>2 DEF EmailInv, TypeOK, Tracked, Emptied, Working, Tables, NoRow, Used, NumbersIntact
<1>5. OwnersBelow'
  <2> tracker[table] # NoRow
    BY <1>1, <1>2 DEF EmailInv, TypeOK, Tracked, Emptied, NumbersIntact
  <2>1. ASSUME table = "user", NEW i \in DOMAIN accounts, accounts[i].fk \in Nat
        PROVE  accounts[i].fk < tracker["user"]
    <3>1. PICK u \in DOMAIN users : users[u].id = accounts[i].fk
      BY <1>1, <1>2, <2>1, IntactBefore DEF NumberInv, OneAccountEach
    <3>2. users[u].id < Used("user")
      BY <1>3, <2>1, <3>1 DEF BelowUsed, Absent
    <3> QED BY <3>1, <3>2 DEF Used
  <2> QED BY <1>3, <2>1 DEF OwnersBelow
<1>6. NextIsCounter' /\ OwnerWaits'
  <2>1. tracker[table] # NoRow
    BY <1>1, <1>2 DEF EmailInv, TypeOK, Tracked, Emptied, NumbersIntact
  <2> QED BY <1>1, <1>3, <2>1 DEF EmailInv, TypeOK, NextIsCounter, OwnerWaits
<1> QED BY <1>4, <1>5, <1>6

LEMMA InsertFailsKeepsNumberInv ==
  ASSUME NumberInv, InsertFails
  PROVE  NumberInv'
<1> USE DEF InsertFails, Fault, locals, files, ghosts
<1>1. EmailInv /\ [Next]_vars /\ UserFirst /\ UserFirst'
  BY DEF NumberInv, Next, Serve, UserFirst, Working
<1>2. SUFFICES ASSUME NumbersIntact'
              PROVE  /\ Used("user")' \in Int /\ Used("user") <= Used("user")'
                     /\ Used("account")' \in Int /\ Used("account") <= Used("account")'
                     /\ NextIsCounter' /\ OwnersBelow' /\ OwnerWaits'
  BY <1>1, SameRows
<1>3. BelowUsed /\ NextIsCounter /\ OwnersBelow /\ OwnerWaits
  BY <1>1, <1>2, IntactBefore DEF NumberInv
<1>4. /\ Used("user")' \in Int /\ Used("user") <= Used("user")'
      /\ Used("account")' \in Int /\ Used("account") <= Used("account")'
  BY <1>1, <1>2 DEF EmailInv, TypeOK, Tracked, Emptied, Working, Tables, NoRow, Used, NumbersIntact
<1>5. NextIsCounter' /\ OwnersBelow' /\ OwnerWaits'
  BY <1>1, <1>2, <1>3 DEF EmailInv, TypeOK, NumbersIntact, UserFirst, Working,
                          NextIsCounter, OwnersBelow, OwnerWaits
<1> QED BY <1>4, <1>5

LEMMA WriteTmpKeepsNumberInv ==
  ASSUME NumberInv, WriteTmp
  PROVE  NumberInv'
<1> USE DEF WriteTmp, Incremented, locals, files, ghosts
<1>1. EmailInv /\ [Next]_vars /\ UserFirst /\ UserFirst'
  BY DEF NumberInv, Next, Serve, UserFirst, Working
<1>2. SUFFICES ASSUME NumbersIntact'
              PROVE  /\ Used("user")' \in Int /\ Used("user") <= Used("user")'
                     /\ Used("account")' \in Int /\ Used("account") <= Used("account")'
                     /\ NextIsCounter' /\ OwnersBelow' /\ OwnerWaits'
  BY <1>1, SameRows
<1>3. BelowUsed /\ NextIsCounter /\ OwnersBelow /\ OwnerWaits
  BY <1>1, <1>2, IntactBefore DEF NumberInv
<1>4. /\ Used("user")' \in Int /\ Used("user") <= Used("user")'
      /\ Used("account")' \in Int /\ Used("account") <= Used("account")'
  BY <1>1, <1>2 DEF EmailInv, TypeOK, Tracked, Emptied, Working, Tables, NoRow, Used, NumbersIntact
<1>5. NextIsCounter' /\ OwnersBelow' /\ OwnerWaits'
  BY <1>1, <1>2, <1>3 DEF EmailInv, TypeOK, NumbersIntact, UserFirst, Working,
                          NextIsCounter, OwnersBelow, OwnerWaits
<1> QED BY <1>4, <1>5

(* The full disk ends what is said of intact numbers.                      *)
LEMMA WriteTmpFullKeepsNumberInv ==
  ASSUME NumberInv, WriteTmpFull
  PROVE  NumberInv'
<1> USE DEF WriteTmpFull, Fault, locals, files, ghosts
<1>1. EmailInv /\ [Next]_vars /\ UserFirst /\ UserFirst'
  BY DEF NumberInv, Next, Serve, UserFirst, Working
<1>2. ~ NumbersIntact'
  BY DEF NumbersIntact
<1> QED BY <1>1, <1>2, SameRows

LEMMA WriteTmpFailsKeepsNumberInv ==
  ASSUME NumberInv, WriteTmpFails
  PROVE  NumberInv'
<1> USE DEF WriteTmpFails, Fault, AfterUpdate, locals, files, ghosts
<1>1. EmailInv /\ [Next]_vars /\ UserFirst /\ UserFirst'
  BY DEF NumberInv, Next, Serve, UserFirst, Working
<1>2. SUFFICES ASSUME NumbersIntact'
              PROVE  /\ Used("user")' \in Int /\ Used("user") <= Used("user")'
                     /\ Used("account")' \in Int /\ Used("account") <= Used("account")'
                     /\ NextIsCounter' /\ OwnersBelow' /\ OwnerWaits'
  BY <1>1, SameRows
<1>3. BelowUsed /\ NextIsCounter /\ OwnersBelow /\ OwnerWaits
  BY <1>1, <1>2, IntactBefore DEF NumberInv
<1>4. /\ Used("user")' \in Int /\ Used("user") <= Used("user")'
      /\ Used("account")' \in Int /\ Used("account") <= Used("account")'
  BY <1>1, <1>2 DEF EmailInv, TypeOK, Tracked, Emptied, Working, Tables, NoRow, Used, NumbersIntact
<1>5. NextIsCounter' /\ OwnersBelow' /\ OwnerWaits'
  BY <1>1, <1>2, <1>3 DEF EmailInv, TypeOK, NumbersIntact, UserFirst, Working,
                          NextIsCounter, OwnersBelow, OwnerWaits
<1> QED BY <1>4, <1>5

LEMMA RemoveKeepsNumberInv ==
  ASSUME NumberInv, Remove
  PROVE  NumberInv'
<1> USE DEF Remove, Incremented, locals, files, ghosts
<1>1. EmailInv /\ [Next]_vars /\ UserFirst /\ UserFirst'
  BY DEF NumberInv, Next, Serve, UserFirst, Working
<1>2. SUFFICES ASSUME NumbersIntact'
              PROVE  /\ Used("user")' \in Int /\ Used("user") <= Used("user")'
                     /\ Used("account")' \in Int /\ Used("account") <= Used("account")'
                     /\ NextIsCounter' /\ OwnersBelow' /\ OwnerWaits'
  BY <1>1, SameRows
<1>3. BelowUsed /\ NextIsCounter /\ OwnersBelow /\ OwnerWaits
  BY <1>1, <1>2, IntactBefore DEF NumberInv
<1>4. /\ Used("user")' \in Int /\ Used("user") <= Used("user")'
      /\ Used("account")' \in Int /\ Used("account") <= Used("account")'
  BY <1>1, <1>2 DEF EmailInv, TypeOK, Tracked, Emptied, Working, Tables, NoRow, Used, NumbersIntact
<1>5. NextIsCounter' /\ OwnersBelow' /\ OwnerWaits'
  BY <1>1, <1>2, <1>3 DEF EmailInv, TypeOK, NumbersIntact, UserFirst, Working,
                          NextIsCounter, OwnersBelow, OwnerWaits
<1> QED BY <1>4, <1>5

LEMMA RenameKeepsNumberInv ==
  ASSUME NumberInv, Rename
  PROVE  NumberInv'
<1> USE DEF Rename, locals, files, ghosts
<1>1. EmailInv /\ [Next]_vars /\ UserFirst /\ UserFirst'
  BY DEF NumberInv, Next, Serve, UserFirst, Working
<1>2. SUFFICES ASSUME NumbersIntact'
              PROVE  /\ Used("user")' \in Int /\ Used("user") <= Used("user")'
                     /\ Used("account")' \in Int /\ Used("account") <= Used("account")'
                     /\ NextIsCounter' /\ OwnersBelow' /\ OwnerWaits'
  BY <1>1, SameRows
<1>3. BelowUsed /\ NextIsCounter /\ OwnersBelow /\ OwnerWaits
  BY <1>1, <1>2, IntactBefore DEF NumberInv
<1>4. /\ Used("user")' \in Int /\ Used("user") <= Used("user")'
      /\ Used("account")' \in Int /\ Used("account") <= Used("account")'
  BY <1>1, <1>2 DEF EmailInv, TypeOK, Tracked, Emptied, Working, Tables, NoRow, Used, NumbersIntact
<1>5. NextIsCounter' /\ OwnersBelow' /\ OwnerWaits'
  BY <1>1, <1>2, <1>3 DEF EmailInv, TypeOK, NumbersIntact, UserFirst, Working,
                          NextIsCounter, OwnersBelow, OwnerWaits
<1> QED BY <1>4, <1>5

LEMMA ReopenKeepsNumberInv ==
  ASSUME NumberInv, Reopen
  PROVE  NumberInv'
<1> USE DEF Reopen, AfterUpdate, locals, files, ghosts
<1>1. EmailInv /\ [Next]_vars /\ UserFirst /\ UserFirst'
  BY DEF NumberInv, Next, Serve, UserFirst, Working
<1>2. SUFFICES ASSUME NumbersIntact'
              PROVE  /\ Used("user")' \in Int /\ Used("user") <= Used("user")'
                     /\ Used("account")' \in Int /\ Used("account") <= Used("account")'
                     /\ NextIsCounter' /\ OwnersBelow' /\ OwnerWaits'
  BY <1>1, SameRows
<1>3. BelowUsed /\ NextIsCounter /\ OwnersBelow /\ OwnerWaits
  BY <1>1, <1>2, IntactBefore DEF NumberInv
<1>4. /\ Used("user")' \in Int /\ Used("user") <= Used("user")'
      /\ Used("account")' \in Int /\ Used("account") <= Used("account")'
  BY <1>1, <1>2 DEF EmailInv, TypeOK, Tracked, Emptied, Working, Tables, NoRow, Used, NumbersIntact
<1>5. NextIsCounter' /\ OwnersBelow' /\ OwnerWaits'
  BY <1>1, <1>2, <1>3 DEF EmailInv, TypeOK, NumbersIntact, UserFirst, Working,
                          NextIsCounter, OwnersBelow, OwnerWaits
<1> QED BY <1>4, <1>5

LEMMA ReselectKeepsNumberInv ==
  ASSUME NumberInv, Reselect
  PROVE  NumberInv'
<1> USE DEF Reselect, locals, files, ghosts
<1>1. EmailInv /\ [Next]_vars /\ UserFirst /\ UserFirst'
  BY DEF NumberInv, Next, Serve, UserFirst, Working
<1>2. SUFFICES ASSUME NumbersIntact'
              PROVE  /\ Used("user")' \in Int /\ Used("user") <= Used("user")'
                     /\ Used("account")' \in Int /\ Used("account") <= Used("account")'
                     /\ NextIsCounter' /\ OwnersBelow' /\ OwnerWaits'
  BY <1>1, SameRows
<1>3. BelowUsed /\ NextIsCounter /\ OwnersBelow /\ OwnerWaits
  BY <1>1, <1>2, IntactBefore DEF NumberInv
<1>4. /\ Used("user")' \in Int /\ Used("user") <= Used("user")'
      /\ Used("account")' \in Int /\ Used("account") <= Used("account")'
  BY <1>1, <1>2 DEF EmailInv, TypeOK, Tracked, Emptied, Working, Tables, NoRow, Used, NumbersIntact
<1>5. OwnerWaits'
  <2>1. next_id \in Nat /\ users \in Seq(UserRows) /\ table = "user"
    BY <1>1, <1>2 DEF EmailInv, TypeOK, Tracked, Emptied, Working, UserFirst, NumbersIntact
  <2>2. CASE user_id' = Empty
    BY <2>2 DEF OwnerWaits, Empty
  <2>3. CASE user_id' = next_id /\ \E u \in DOMAIN users : users[u].id = next_id
    <3>1. \A i \in DOMAIN accounts : accounts[i].fk # next_id
      BY <1>3, <2>1 DEF OwnersBelow
    <3> QED BY <2>3, <3>1 DEF OwnerWaits
  <2> QED BY <1>1, <2>1, <2>2, <2>3, ReselectedType DEF EmailInv
<1>6. NextIsCounter' /\ OwnersBelow'
  BY DEF NextIsCounter, OwnersBelow
<1> QED BY <1>4, <1>5, <1>6

LEMMA ReplyKeepsNumberInv ==
  ASSUME NumberInv, Reply
  PROVE  NumberInv'
<1> USE DEF Reply, locals, files, ghosts
<1>1. EmailInv /\ [Next]_vars /\ UserFirst /\ UserFirst'
  BY DEF NumberInv, Next, Serve, UserFirst, Working
<1>2. SUFFICES ASSUME NumbersIntact'
              PROVE  /\ Used("user")' \in Int /\ Used("user") <= Used("user")'
                     /\ Used("account")' \in Int /\ Used("account") <= Used("account")'
                     /\ NextIsCounter' /\ OwnersBelow' /\ OwnerWaits'
  BY <1>1, SameRows
<1>3. BelowUsed /\ NextIsCounter /\ OwnersBelow /\ OwnerWaits
  BY <1>1, <1>2, IntactBefore DEF NumberInv
<1>4. /\ Used("user")' \in Int /\ Used("user") <= Used("user")'
      /\ Used("account")' \in Int /\ Used("account") <= Used("account")'
  BY <1>1, <1>2 DEF EmailInv, TypeOK, Tracked, Emptied, Working, Tables, NoRow, Used, NumbersIntact
<1>5. NextIsCounter' /\ OwnersBelow' /\ OwnerWaits'
  BY <1>1, <1>2, <1>3 DEF EmailInv, TypeOK, NumbersIntact, UserFirst, Working,
                          NextIsCounter, OwnersBelow, OwnerWaits
<1> QED BY <1>4, <1>5

LEMMA CrashKeepsNumberInv ==
  ASSUME NumberInv, Crash
  PROVE  NumberInv'
<1> USE DEF Crash, Died, Fault, HarmOfCrash, locals, files, ghosts
<1>1. EmailInv /\ [Next]_vars /\ UserFirst /\ UserFirst'
  BY DEF NumberInv, Next, Serve, UserFirst, Working
<1>2. SUFFICES ASSUME NumbersIntact'
              PROVE  /\ Used("user")' \in Int /\ Used("user") <= Used("user")'
                     /\ Used("account")' \in Int /\ Used("account") <= Used("account")'
                     /\ NextIsCounter' /\ OwnersBelow' /\ OwnerWaits'
  BY <1>1, SameRows
<1>3. BelowUsed /\ NextIsCounter /\ OwnersBelow /\ OwnerWaits
  BY <1>1, <1>2, IntactBefore DEF NumberInv
<1>4. /\ Used("user")' \in Int /\ Used("user") <= Used("user")'
      /\ Used("account")' \in Int /\ Used("account") <= Used("account")'
  <2>1. pc \notin {"tmp", "remove", "rename"}
    <3>1. pc \in {"tmp", "remove", "rename"} => HarmOfCrash \cap {"stale", "lost"} # {}
      BY DEF HarmOfCrash
    <3> QED BY <1>2, <3>1 DEF NumbersIntact
  <2> QED BY <1>1, <2>1 DEF EmailInv, TypeOK, Tables, NoRow, Used
<1>5. NextIsCounter' /\ OwnersBelow' /\ OwnerWaits'
  BY <1>1, <1>2, <1>3 DEF EmailInv, TypeOK, NumbersIntact, UserFirst, Working,
                          NextIsCounter, OwnersBelow, OwnerWaits
<1> QED BY <1>4, <1>5

LEMMA NoIdentityKeepsNumberInv ==
  ASSUME NumberInv, NoIdentity
  PROVE  NumberInv'
<1> USE DEF NoIdentity, Died, locals, files, ghosts
<1>1. EmailInv /\ [Next]_vars /\ UserFirst /\ UserFirst'
  BY DEF NumberInv, Next, Serve, UserFirst, Working
<1>2. ~ NumbersIntact'
  BY <1>1 DEF EmailInv, TypeOK, Tracked, Emptied, NumbersIntact
<1> QED BY <1>1, <1>2, SameRows

LEMMA SubmitKeepsNumberInv ==
  ASSUME NumberInv, NEW e \in Emails, Submit(e)
  PROVE  NumberInv'
<1> USE DEF Submit, locals, files, ghosts
<1>1. EmailInv /\ [Next]_vars /\ UserFirst /\ UserFirst'
  BY DEF NumberInv, Next, Serve, UserFirst, Working
<1>2. SUFFICES ASSUME NumbersIntact'
              PROVE  /\ Used("user")' \in Int /\ Used("user") <= Used("user")'
                     /\ Used("account")' \in Int /\ Used("account") <= Used("account")'
                     /\ NextIsCounter' /\ OwnersBelow' /\ OwnerWaits'
  BY <1>1, SameRows
<1>3. BelowUsed /\ NextIsCounter /\ OwnersBelow /\ OwnerWaits
  BY <1>1, <1>2, IntactBefore DEF NumberInv
<1>4. /\ Used("user")' \in Int /\ Used("user") <= Used("user")'
      /\ Used("account")' \in Int /\ Used("account") <= Used("account")'
  BY <1>1, <1>2 DEF EmailInv, TypeOK, Tracked, Emptied, Working, Tables, NoRow, Used, NumbersIntact
<1>5. NextIsCounter' /\ OwnersBelow' /\ OwnerWaits'
  BY <1>1, <1>2, <1>3 DEF EmailInv, TypeOK, NumbersIntact, UserFirst, Working,
                          NextIsCounter, OwnersBelow, OwnerWaits
<1> QED BY <1>4, <1>5

(* Inserting a user takes the next number, which no row has.               *)
LEMMA UserInserted ==
  ASSUME NumberInv, EmailInv', [Next]_vars,
         pc = "insert", pc' = "tmp", table = "user", UNCHANGED <<locals, accounts, tracker>>,
         users' = Append(users, NewUser) \/ users' = users \o <<NewUser, UserTail>>
  PROVE  NumberInv'
<1>1. NewUser \in UserRows /\ UserTail \in UserRows /\ users \in Seq(UserRows)
  BY DEF Emptied, NumberInv, EmailInv, TypeOK, NewUser, UserTail, UserRows, Tracked, FormHeld, Working
<1>2. /\ DOMAIN users \subseteq DOMAIN users'
      /\ \A i \in DOMAIN users : users'[i] = users[i]
      /\ \A i \in DOMAIN users' : \/ i \in DOMAIN users /\ users'[i] = users[i]
                                  \/ i = Len(users) + 1 /\ users'[i] = NewUser
                                  \/ i = Len(users) + 2 /\ users'[i] = UserTail
  <2>1. CASE users' = Append(users, NewUser)
    BY <1>1, <2>1
  <2>2. CASE users' = users \o <<NewUser, UserTail>>
    BY <1>1, <2>2
  <2> QED BY <2>1, <2>2
<1>3. NewUser.id = next_id /\ UserTail.id = Absent
  BY DEF NewUser, UserTail
<1>4. UserFirst'
  BY DEF UserFirst, Working, locals
<1>5. SUFFICES ASSUME NumbersIntact'
              PROVE  (IdsUnique /\ OneAccountEach /\ BelowUsed /\ NextIsCounter
                       /\ OwnersBelow /\ OwnerWaits)'
  BY <1>4, SMT DEF NumberInv, IdsUnique, OneAccountEach
<1>6. /\ NumbersIntact /\ IdsUnique /\ OneAccountEach
      /\ BelowUsed /\ NextIsCounter /\ OwnersBelow /\ OwnerWaits
  BY <1>5, IntactBefore DEF NumberInv
<1> next_id \in Nat
  BY <1>6 DEF NumberInv, EmailInv, Tracked, Emptied, Working, NumbersIntact
<1>7. /\ Used("user") = next_id /\ Used("user")' = next_id + 1
      /\ Used("account")' = Used("account")
  BY <1>6 DEF Used, NextIsCounter, locals
<1>8. \A i \in DOMAIN users : users[i].id \in Int /\ (users[i].id # Absent => users[i].id < next_id)
  BY <1>6, <1>7, RowsTyped DEF BelowUsed, NumberInv
<1>9. BelowUsed'
  BY <1>2, <1>3, <1>6, <1>7, <1>8 DEF BelowUsed
<1>10. IdsUnique'
  BY <1>2, <1>3, <1>6, <1>8 DEF IdsUnique
<1>11. OneAccountEach'
  BY <1>2, <1>6 DEF OneAccountEach
<1>12. NextIsCounter' /\ OwnersBelow' /\ OwnerWaits'
  BY <1>6 DEF NextIsCounter, OwnersBelow, OwnerWaits, locals
<1> QED BY <1>9, <1>10, <1>11, <1>12

(* Inserting an account takes the next number and an owner who has none.   *)
LEMMA AccountInserted ==
  ASSUME NumberInv, EmailInv', [Next]_vars,
         pc = "insert", pc' = "tmp", table = "account", UNCHANGED <<locals, users, tracker>>,
         accounts' = Append(accounts, NewAccount) \/ accounts' = accounts \o <<NewAccount, AccountTail>>
  PROVE  NumberInv'
<1>1. NewAccount \in AccountRows /\ AccountTail \in AccountRows /\ accounts \in Seq(AccountRows)
  BY DEF NumberInv, EmailInv, TypeOK, NewAccount, AccountTail, AccountRows, Tracked, Working, Empty
<1>2. /\ DOMAIN accounts \subseteq DOMAIN accounts'
      /\ \A i \in DOMAIN accounts' : \/ i \in DOMAIN accounts /\ accounts'[i] = accounts[i]
                                     \/ i = Len(accounts) + 1 /\ accounts'[i] = NewAccount
                                     \/ i = Len(accounts) + 2 /\ accounts'[i] = AccountTail
  <2>1. CASE accounts' = Append(accounts, NewAccount)
    BY <1>1, <2>1
  <2>2. CASE accounts' = accounts \o <<NewAccount, AccountTail>>
    BY <1>1, <2>2
  <2> QED BY <2>1, <2>2
<1>3. /\ NewAccount.id = next_id /\ NewAccount.fk = user_id
      /\ AccountTail.id = Absent /\ AccountTail.fk = Absent
      /\ user_id \in Nat \cup {Empty, NoId}
  BY DEF NewAccount, AccountTail, NumberInv, EmailInv, TypeOK, Tracked, Working
<1>4. UserFirst'
  BY DEF UserFirst, Working, locals
<1>5. SUFFICES ASSUME NumbersIntact'
              PROVE  (IdsUnique /\ OneAccountEach /\ BelowUsed /\ NextIsCounter
                       /\ OwnersBelow /\ OwnerWaits)'
  BY <1>4, SMT DEF NumberInv, IdsUnique, OneAccountEach
<1>6. /\ NumbersIntact /\ IdsUnique /\ OneAccountEach
      /\ BelowUsed /\ NextIsCounter /\ OwnersBelow /\ OwnerWaits
  BY <1>5, IntactBefore DEF NumberInv
<1> next_id \in Nat
  BY <1>6 DEF NumberInv, EmailInv, Tracked, Emptied, Working, NumbersIntact
<1>7. /\ Used("account") = next_id /\ Used("account")' = next_id + 1
      /\ Used("user")' = Used("user")
  BY <1>6 DEF Used, NextIsCounter, locals
<1>8. \A i \in DOMAIN accounts : /\ accounts[i].id \in Int
                                 /\ accounts[i].id # Absent => accounts[i].id < next_id
  BY <1>6, <1>7, RowsTyped DEF BelowUsed, NumberInv
<1>9. BelowUsed'
  <2>1. \A i \in DOMAIN accounts' : accounts'[i].id # Absent => accounts'[i].id < next_id + 1
    BY <1>2, <1>3, <1>8
  <2>2. \A i \in DOMAIN users' : users'[i].id # Absent => users'[i].id < Used("user")'
    BY <1>6, <1>7 DEF BelowUsed
  <2> QED BY <1>7, <2>1, <2>2 DEF BelowUsed
<1>10. IdsUnique'
  <2>1. \A i, j \in DOMAIN accounts' :
          accounts'[i].id = accounts'[j].id /\ accounts'[i].id # Absent => i = j
    BY <1>2, <1>3, <1>6, <1>8 DEF IdsUnique
  <2>2. \A i, j \in DOMAIN users' :
          users'[i].id = users'[j].id /\ users'[i].id # Absent => i = j
    BY <1>6 DEF IdsUnique
  <2> QED BY <2>1, <2>2 DEF IdsUnique
<1>11. user_id \in Nat => /\ \E u \in DOMAIN users : users[u].id = user_id
                          /\ \A i \in DOMAIN accounts : accounts[i].fk # user_id
  BY <1>6 DEF OwnerWaits
<1>12. OneAccountEach'
  <2>1. \A i, j \in DOMAIN accounts' :
          accounts'[i].fk = accounts'[j].fk /\ accounts'[i].fk \in Nat => i = j
    BY <1>2, <1>3, <1>6, <1>11 DEF OneAccountEach, Absent
  <2>2. \A i \in DOMAIN accounts' :
          accounts'[i].fk \in Nat => \E u \in DOMAIN users : users[u].id = accounts'[i].fk
    BY <1>2, <1>3, <1>6, <1>11 DEF OneAccountEach, Absent
  <2> QED BY <2>1, <2>2 DEF OneAccountEach
<1>13. NextIsCounter' /\ OwnersBelow' /\ OwnerWaits'
  BY <1>6 DEF NextIsCounter, OwnersBelow, OwnerWaits, locals
<1> QED BY <1>9, <1>10, <1>12, <1>13

LEMMA InsertKeepsNumberInv ==
  ASSUME NumberInv, Insert \/ InsertTorn
  PROVE  NumberInv'
<1>1. [Next]_vars
  BY DEF Next, Serve
<1>2. EmailInv'
  BY <1>1, EmailInvNext DEF NumberInv
<1>3. CASE table = "user"
  BY <1>1, <1>2, <1>3, UserInserted DEF Insert, InsertTorn
<1>4. CASE table = "account"
  BY <1>1, <1>2, <1>4, AccountInserted DEF Insert, InsertTorn
<1> QED BY <1>3, <1>4 DEF Insert, InsertTorn

LEMMA NumberInvNext ==
  ASSUME NumberInv, [Next]_vars
  PROVE  NumberInv'
<1>1. CASE UNCHANGED vars
  <2>1. EmailInv'
    BY EmailInvNext DEF NumberInv
  <2> QED BY <1>1, <2>1 DEF vars, locals, files, ghosts, NumberInv, UserFirst, NumbersIntact,
          IdsUnique, OneAccountEach, BelowUsed, Used, NextIsCounter, OwnersBelow, OwnerWaits
<1>2. CASE Start \/ Initialize
  BY <1>2, StartKeepsNumberInv, InitializeKeepsNumberInv
<1>3. CASE \E e \in Emails : Submit(e)
  BY <1>3, SubmitKeepsNumberInv
<1>4. CASE Reject \/ Accept \/ GetNextIdentity \/ Insert
  BY <1>4, RejectKeepsNumberInv, AcceptKeepsNumberInv, GetNextIdentityKeepsNumberInv,
     InsertKeepsNumberInv
<1>5. CASE WriteTmp \/ Remove \/ Rename \/ Reopen
  BY <1>5, WriteTmpKeepsNumberInv, RemoveKeepsNumberInv, RenameKeepsNumberInv,
     ReopenKeepsNumberInv
<1>6. CASE Reselect \/ Reply
  BY <1>6, ReselectKeepsNumberInv, ReplyKeepsNumberInv
<1>7. CASE InsertTorn \/ InsertFails \/ WriteTmpFull \/ WriteTmpFails \/ Crash \/ NoIdentity
  BY <1>7, InsertKeepsNumberInv, InsertFailsKeepsNumberInv, WriteTmpFullKeepsNumberInv,
     WriteTmpFailsKeepsNumberInv, CrashKeepsNumberInv, NoIdentityKeepsNumberInv
<1> QED BY <1>1, <1>2, <1>3, <1>4, <1>5, <1>6, <1>7 DEF Next, Serve

(* Only the two inserts change a table, and they append.                   *)
LEMMA LinesStay ==
  ASSUME EmailInv, [Next]_vars
  PROVE  Extends(users, users') /\ Extends(accounts, accounts')
<1>1. users \in Seq(UserRows) /\ accounts \in Seq(AccountRows)
  BY DEF EmailInv, TypeOK
<1>2. Extends(users, users) /\ Extends(accounts, accounts)
  BY <1>1 DEF Extends
<1>3. CASE Insert \/ InsertTorn
  <2>1. /\ pc = "insert"
        /\ \/ UNCHANGED accounts /\ \/ users' = Append(users, NewUser)
                                    \/ users' = users \o <<NewUser, UserTail>>
           \/ UNCHANGED users /\ \/ accounts' = Append(accounts, NewAccount)
                                 \/ accounts' = accounts \o <<NewAccount, AccountTail>>
    BY <1>3 DEF Insert, InsertTorn
  <2>2. NewUser \in UserRows /\ UserTail \in UserRows
    BY <2>1 DEF EmailInv, TypeOK, NewUser, UserTail, UserRows, Tracked, Emptied, FormHeld, Working
  <2>3. NewAccount \in AccountRows /\ AccountTail \in AccountRows
    BY <2>1 DEF EmailInv, TypeOK, NewAccount, AccountTail, AccountRows, Tracked, Emptied, Working, Empty
  <2>4. CASE users' = Append(users, NewUser) /\ UNCHANGED accounts
    BY <1>1, <1>2, <2>2, <2>4 DEF Extends
  <2>5. CASE users' = users \o <<NewUser, UserTail>> /\ UNCHANGED accounts
    BY <1>1, <1>2, <2>2, <2>5 DEF Extends
  <2>6. CASE accounts' = Append(accounts, NewAccount) /\ UNCHANGED users
    BY <1>1, <1>2, <2>3, <2>6 DEF Extends
  <2>7. CASE accounts' = accounts \o <<NewAccount, AccountTail>> /\ UNCHANGED users
    BY <1>1, <1>2, <2>3, <2>7 DEF Extends
  <2> QED BY <2>1, <2>4, <2>5, <2>6, <2>7
<1>4. CASE UNCHANGED <<users, accounts>>
  BY <1>2, <1>4
<1> QED BY <1>3, <1>4 DEF Next, Serve, vars, locals, files, ghosts, Start, Initialize,
        Submit, Reject, Accept, GetNextIdentity, WriteTmp, Remove, Rename, Reopen,
        Reselect, Reply, InsertFails, WriteTmpFull, WriteTmpFails, Crash, NoIdentity, Died

-----------------------------------------------------------------------------
(* Theorems.                                                               *)

(* The inductive invariant holds in every reachable state.                 *)
THEOREM NumberInvariant == Spec => []NumberInv
<1>1. Init => NumberInv
  BY NumberInvInit
<1>2. NumberInv /\ [Next]_vars => NumberInv'
  BY NumberInvNext
<1> QED BY <1>1, <1>2, PTL DEF Spec

(* Unless a counter was damaged, no two users and no two accounts share an *)
(* id.                                                                     *)
THEOREM IdsStayUnique == Spec => []IdsUnique
<1>1. NumberInv => IdsUnique
  BY DEF NumberInv
<1> QED BY <1>1, NumberInvariant, PTL

(* Under the same condition a user has at most one account, and an account *)
(* with an owner has one that exists.                                      *)
THEOREM OneAccountStays == Spec => []OneAccountEach
<1>1. NumberInv => OneAccountEach
  BY DEF NumberInv
<1> QED BY <1>1, NumberInvariant, PTL

(* No step changes or removes a line already written.                      *)
THEOREM TablesOnlyGrow == Spec => AppendOnly
<1>1. EmailInv /\ [Next]_vars => [Extends(users, users') /\ Extends(accounts, accounts')]_vars
  BY LinesStay
<1> QED BY <1>1, EmailInvariant, PTL DEF Spec, AppendOnly

(* No counter goes back, unless the process dies between remove and rename *)
(* or a full disk left the temporary file empty that replaces the tracker. *)
THEOREM CountersOnlyAdvance == Spec => CountersAdvance
<1> DEFINE Advance ==
             \A t \in Tables :
               \/ Counter(t)' >= Counter(t)
               \/ pc = "rename" /\ pc' = "down"
               \/ pc = "remove" /\ tmp = NoCounters /\ "empty" \in harmed
<1>1. NumberInv /\ [Next]_vars => [Advance]_vars
  <2> DEFINE Excused == \/ pc = "rename" /\ pc' = "down"
                        \/ pc = "remove" /\ tmp = NoCounters /\ "empty" \in harmed
  <2> SUFFICES ASSUME NumberInv, [Next]_vars, NEW t \in Tables, ~ Excused
               PROVE  Counter(t)' >= Counter(t)
    OBVIOUS
  <2>1. TypeOK /\ Tracked /\ TypeOK' /\ UserFirst
    BY EmailInvNext DEF EmailInv, NumberInv
  <2>2. tracker[t] \in Int /\ tmp[t] \in Int /\ stream[t] \in Int
    BY <2>1 DEF TypeOK, NoRow
  <2>3. CASE Initialize
    BY <2>1, <2>2, <2>3 DEF TypeOK, Tracked, Initialize, Initialized, Counter, NoRow
  <2>4. CASE Remove
    <3>1. pc = "remove" /\ pc' = "rename" /\ tmp' = tmp /\ stream = tracker /\ tmp = Incremented(table)
      BY <2>1, <2>4 DEF Tracked, Emptied, Remove
    <3>2. Counter(t) = tracker[t] /\ Counter(t)' = Incremented(table)[t]
      BY <3>1 DEF Counter
    <3>3. Incremented(table)[t] \in {tracker[t], tracker[t] + 1}
      BY <3>1 DEF Incremented
    <3> QED BY <2>2, <3>2, <3>3
  <2>5. CASE Rename
    BY <2>1, <2>2, <2>5 DEF TypeOK, Rename, Counter, files
  <2>6. CASE Crash \/ NoIdentity
    BY <2>2, <2>6 DEF Crash, NoIdentity, Died, Counter, files
  <2>7. CASE UNCHANGED tracker /\ pc # "rename" /\ pc' # "rename"
    BY <2>2, <2>7 DEF Counter
  <2>8. CASE UNCHANGED vars
    BY <2>2, <2>8 DEF Counter, vars, files
  <2>9. CASE Start \/ \E e \in Emails : Submit(e)
    BY <2>7, <2>9 DEF Start, Submit, files
  <2>10. CASE Reject \/ Accept \/ GetNextIdentity \/ Reselect \/ Reply
    BY <2>7, <2>10 DEF Reject, Accept, GetNextIdentity, Reselect, Reply, files
  <2>11. CASE Insert \/ InsertTorn \/ InsertFails \/ WriteTmp \/ WriteTmpFull
    BY <2>7, <2>11 DEF Insert, InsertTorn, InsertFails, WriteTmp, WriteTmpFull, files
  <2>12. CASE Reopen \/ WriteTmpFails
    <3>1. table \in {"user", "account"}
      BY <2>1, <2>12 DEF UserFirst, Working, Reopen, WriteTmpFails
    <3>2. AfterUpdate[table] # "rename"
      BY <3>1 DEF AfterUpdate
    <3> QED BY <2>7, <2>12, <3>2 DEF Reopen, WriteTmpFails, files
  <2>13. \/ Start \/ Initialize \/ \E e \in Emails : Submit(e)
         \/ Serve \/ InsertTorn \/ InsertFails \/ WriteTmpFull \/ WriteTmpFails
         \/ Crash \/ NoIdentity \/ UNCHANGED vars
    BY Zenon DEF Next
  <2> HIDE DEF Excused
  <2>14. CASE Serve
    BY <2>4, <2>5, <2>10, <2>11, <2>12, <2>14 DEF Serve
  <2> QED BY <2>3, <2>6, <2>8, <2>9, <2>11, <2>12, <2>13, <2>14
<1> QED BY <1>1, NumberInvariant, PTL DEF Spec, CountersAdvance

-----------------------------------------------------------------------------
(* What a customer was promised: who was told "User created" is stored,    *)
(* and the files and system calls implement the abstract Bank. The         *)
(* inductive invariant.                                                    *)

WholeLines == harmed \cap {"row", "torn"} = {}

(* No table has a tail.                                                    *)
NoTails ==
  /\ \A i \in DOMAIN users : users[i].id # Absent
  /\ \A i \in DOMAIN accounts : accounts[i].fk # Absent

(* The registration being served has its user row as long as its account   *)
(* is missing, and then both.                                              *)
InHand ==
  /\ pc \in {"tmp", "remove", "rename", "reopen", "reselect"} /\ table = "user" =>
       \E u \in DOMAIN users : users[u].email = email /\ users[u].id = next_id
  /\ pc \in {"identity", "insert"} /\ table = "account" =>
       \E u \in DOMAIN users : users[u].email = email /\ users[u].id = user_id
  /\ pc \in {"tmp", "remove", "rename", "reopen", "reply"} /\ table = "account" =>
       Stored(email)

(* Every id is a number.                                                   *)
Numbered == \A i \in DOMAIN users : users[i].id # NoId

DurableInv ==
  /\ NumberInv /\ AckDurable
  /\ WholeLines => NoTails /\ InHand
  /\ harmed = {} => Numbered

-----------------------------------------------------------------------------
(* Lines, seen from the next state.                                        *)

LEMMA RowsStay ==
  ASSUME EmailInv, [Next]_vars
  PROVE  /\ \A i \in DOMAIN users : i \in DOMAIN users' /\ users'[i] = users[i]
         /\ \A i \in DOMAIN accounts : i \in DOMAIN accounts' /\ accounts'[i] = accounts[i]
         /\ Len(users) \in Nat /\ DOMAIN users = 1 .. Len(users)
         /\ Len(accounts) \in Nat /\ DOMAIN accounts = 1 .. Len(accounts)
         /\ Len(users') \in Nat /\ DOMAIN users' = 1 .. Len(users')
         /\ Len(accounts') \in Nat /\ DOMAIN accounts' = 1 .. Len(accounts')
<1>1. /\ users \in Seq(UserRows) /\ users' \in Seq(UserRows)
      /\ accounts \in Seq(AccountRows) /\ accounts' \in Seq(AccountRows)
  BY EmailInvNext DEF EmailInv, TypeOK
<1>2. Extends(users, users') /\ Extends(accounts, accounts')
  BY LinesStay
<1>3. \A i \in 1 .. Len(users) : i \in 1 .. Len(users') /\ users'[i] = users[i]
  BY <1>1, <1>2 DEF Extends
<1>4. \A i \in 1 .. Len(accounts) : i \in 1 .. Len(accounts') /\ accounts'[i] = accounts[i]
  BY <1>1, <1>2 DEF Extends
<1>5. /\ Len(users) \in Nat /\ DOMAIN users = 1 .. Len(users)
      /\ Len(accounts) \in Nat /\ DOMAIN accounts = 1 .. Len(accounts)
  BY <1>1
<1>6. /\ Len(users') \in Nat /\ DOMAIN users' = 1 .. Len(users')
      /\ Len(accounts') \in Nat /\ DOMAIN accounts' = 1 .. Len(accounts')
  BY <1>1
<1> QED BY <1>3, <1>4, <1>5, <1>6

(* Who is stored stays stored.                                             *)
LEMMA StoredStays ==
  ASSUME EmailInv, [Next]_vars, NEW e, Stored(e)
  PROVE  Stored(e)'
BY RowsStay DEF Stored

LEMMA WholeBefore ==
  ASSUME [Next]_vars
  PROVE  harmed \subseteq harmed'
BY DEF Next, Serve, vars, locals, files, ghosts, Start, Initialize, Submit, Reject,
       Accept, GetNextIdentity, Insert, WriteTmp, Remove, Rename, Reopen, Reselect,
       Reply, InsertTorn, InsertFails, WriteTmpFull, WriteTmpFails, Crash, NoIdentity, Died

(* With no tail in the table the reselect finds the row just written.      *)
LEMMA ReselectedIs ==
  ASSUME users \in Seq(UserRows), NoTails, NEW n \in Nat \cup {NoId},
         NEW u \in DOMAIN users, users[u].id = n
  PROVE  Reselected(n) = n
<1>1. Len(users) \in Nat /\ DOMAIN users = 1 .. Len(users)
  OBVIOUS
<1>2. WithId(n) # {} /\ WithId(n) \in SUBSET (1 .. Len(users))
  BY <1>1 DEF WithId
<1>3. Least(WithId(n)) \in WithId(n) /\ Greatest(WithId(n)) \in WithId(n)
  BY <1>1, <1>2, LeastGreatest
<1>4. \A i \in WithId(n) : users[i].id = n
  BY DEF WithId, NoTails
<1>5. \A i \in DOMAIN users : users[i] # UserTail
  BY DEF NoTails, UserTail
<1> QED BY <1>1, <1>2, <1>3, <1>4, <1>5 DEF Reselected

-----------------------------------------------------------------------------
(* The invariant is kept.                                                  *)

LEMMA DurableInvInit == Init => DurableInv
BY NumberInvInit DEF Init, DurableInv, AckDurable, NoTails, InHand, Numbered

(* What a step must still show, the numbers and the lines being accounted  *)
(* for.                                                                    *)
LEMMA DurableStep ==
  ASSUME DurableInv, [Next]_vars,
         WholeLines' => NoTails' /\ InHand',
         users' = users \/ (harmed' = {} => Numbered'),
         acked' = acked \/ (WholeLines => \A e \in acked' : e \in acked \/ Stored(e))
  PROVE  DurableInv'
<1>1. NumberInv /\ NumberInv' /\ EmailInv
  BY NumberInvNext DEF DurableInv, NumberInv
<1>2. WholeLines' => WholeLines
  BY WholeBefore DEF WholeLines
<1>3. AckDurable'
  <2> SUFFICES ASSUME WholeLines', NEW e \in acked' PROVE Stored(e)'
    BY DEF AckDurable, WholeLines
  <2>1. Stored(e)
    BY <1>2 DEF DurableInv, AckDurable, WholeLines
  <2> QED BY <1>1, <2>1, StoredStays
<1>4. harmed' = {} => Numbered'
  BY WholeBefore DEF DurableInv, Numbered
<1> QED BY <1>1, <1>3, <1>4 DEF DurableInv

(* Steps that write no row and hand nothing over.                          *)
LEMMA QuietStepsKeepDurableInv ==
  ASSUME DurableInv,
         \/ Start \/ Initialize \/ (\E e \in Emails : Submit(e)) \/ Reject \/ Accept
         \/ GetNextIdentity \/ WriteTmp \/ WriteTmpFull \/ WriteTmpFails \/ Remove \/ Rename
         \/ Reopen \/ InsertFails \/ Crash \/ NoIdentity \/ UNCHANGED vars
  PROVE  DurableInv'
<1> USE DEF Start, Initialize, Submit, Reject, Accept, GetNextIdentity, WriteTmp, WriteTmpFull,
            WriteTmpFails, Remove, Rename, Reopen, InsertFails, Crash, NoIdentity, Died, Fault, vars, locals, files, ghosts
<1>1. [Next]_vars
  BY DEF Next, Serve
<1>2. UNCHANGED <<users, accounts, acked>>
  OBVIOUS
<1>3. UserFirst /\ UserFirst' /\ TypeOK
  BY <1>1, NumberInvNext DEF DurableInv, NumberInv, EmailInv
<1>4. WholeLines' => NoTails' /\ InHand'
  <2> SUFFICES ASSUME WholeLines' PROVE NoTails' /\ InHand'
    OBVIOUS
  <2>1. NoTails /\ InHand
    BY <1>1, WholeBefore DEF DurableInv, WholeLines
  <2>2. NoTails'
    BY <1>2, <2>1 DEF NoTails
  <2>3. ~ InsertFails
    BY DEF WholeLines
  <2>4. Stored(email) /\ email' = email => Stored(email)'
    BY <1>2 DEF Stored
  <2>5. CASE pc' \in {"down", "setup", "idle", "check"}
    BY <2>2, <2>5 DEF InHand
  <2>6. CASE Accept \/ GetNextIdentity
    BY <1>2, <1>3, <2>1, <2>2, <2>4, <2>6 DEF InHand, UserFirst, Working
  <2>7. CASE WriteTmp \/ WriteTmpFull \/ Remove \/ Rename
    BY <1>2, <1>3, <2>1, <2>2, <2>4, <2>7 DEF InHand
  <2>8. CASE Reopen \/ WriteTmpFails
    BY <1>2, <1>3, <2>1, <2>2, <2>4, <2>8 DEF InHand, AfterUpdate, UserFirst, Working
  <2>9. CASE UNCHANGED vars
    BY <1>2, <2>1, <2>2, <2>4, <2>9 DEF InHand
  <2> QED BY <2>3, <2>5, <2>6, <2>7, <2>8, <2>9
<1> QED BY <1>1, <1>2, <1>4, DurableStep

LEMMA ReselectKeepsDurableInv ==
  ASSUME DurableInv, Reselect
  PROVE  DurableInv'
<1> USE DEF Reselect, locals, files, ghosts
<1>1. [Next]_vars
  BY DEF Next, Serve
<1>2. next_id \in Nat \cup {NoId} /\ users \in Seq(UserRows) /\ table = "user"
  BY DEF DurableInv, NumberInv, EmailInv, TypeOK, Tracked, Working, UserFirst
<1>3. WholeLines' => NoTails' /\ InHand'
  <2> SUFFICES ASSUME WholeLines' PROVE NoTails' /\ InHand'
    OBVIOUS
  <2>1. NoTails /\ InHand
    BY <1>1, WholeBefore DEF DurableInv, WholeLines
  <2>2. PICK u \in DOMAIN users : users[u].email = email /\ users[u].id = next_id
    BY <1>2, <2>1 DEF InHand
  <2>3. user_id' = next_id
    BY <1>2, <2>1, <2>2, ReselectedIs
  <2> QED BY <2>1, <2>2, <2>3 DEF NoTails, InHand
<1> QED BY <1>1, <1>3, DurableStep

LEMMA ReplyKeepsDurableInv ==
  ASSUME DurableInv, Reply
  PROVE  DurableInv'
<1> USE DEF Reply, locals, files, ghosts
<1>1. [Next]_vars
  BY DEF Next, Serve
<1>2. table = "account"
  BY DEF DurableInv, NumberInv, UserFirst
<1>3. WholeLines => Stored(email)
  BY <1>2 DEF DurableInv, InHand
<1>4. WholeLines' => NoTails' /\ InHand'
  BY <1>1, WholeBefore DEF DurableInv, WholeLines, NoTails, InHand
<1> QED BY <1>1, <1>3, <1>4, DurableStep

LEMMA InsertKeepsDurableInv ==
  ASSUME DurableInv, Insert \/ InsertTorn
  PROVE  DurableInv'
<1>1. [Next]_vars /\ EmailInv /\ UNCHANGED acked
  BY DEF DurableInv, NumberInv, Next, Serve, Insert, InsertTorn, ghosts
<1>2. WholeLines' => NoTails' /\ InHand'
  <2> SUFFICES ASSUME WholeLines' PROVE NoTails' /\ InHand'
    OBVIOUS
  <2>1. NoTails /\ InHand
    BY <1>1, WholeBefore DEF DurableInv, WholeLines
  <2>2. Insert
    BY DEF InsertTorn, WholeLines
  <2>3. /\ NewUser \in UserRows /\ NewAccount \in AccountRows
        /\ next_id # Absent /\ user_id # Absent
        /\ users \in Seq(UserRows) /\ accounts \in Seq(AccountRows)
    BY <1>1, <2>2 DEF EmailInv, TypeOK, NewUser, NewAccount, UserRows, AccountRows, Tracked,
       FormHeld, Working, Insert, Absent, NoId, Empty
  <2>4. CASE table = "user"
    <3>1. UNCHANGED <<accounts, table, email, next_id>> /\ users' = Append(users, NewUser) /\ pc' = "tmp"
      BY <2>2, <2>4 DEF Insert, locals
    <3>2. /\ users'[Len(users) + 1] = NewUser /\ Len(users) + 1 \in DOMAIN users'
          /\ \A i \in DOMAIN users' : (i \in DOMAIN users /\ users'[i] = users[i]) \/ users'[i] = NewUser
      BY <2>3, <3>1
    <3>3. NoTails'
      BY <2>1, <2>3, <3>1, <3>2 DEF NoTails, NewUser
    <3>4. InHand'
      BY <2>4, <3>1, <3>2 DEF InHand, NewUser
    <3> QED BY <3>3, <3>4
  <2>5. CASE table = "account"
    <3>1. /\ UNCHANGED <<users, table, email, user_id>> /\ accounts' = Append(accounts, NewAccount)
          /\ pc = "insert" /\ pc' = "tmp"
      BY <2>2, <2>5 DEF Insert, locals
    <3>2. /\ accounts'[Len(accounts) + 1] = NewAccount /\ Len(accounts) + 1 \in DOMAIN accounts'
          /\ \A i \in DOMAIN accounts' :
               (i \in DOMAIN accounts /\ accounts'[i] = accounts[i]) \/ accounts'[i] = NewAccount
      BY <2>3, <3>1
    <3>3. NoTails'
      BY <2>1, <2>3, <3>1, <3>2 DEF NoTails, NewAccount
    <3>4. Stored(email)'
      BY <2>1, <2>5, <3>1, <3>2 DEF InHand, Stored, NewAccount
    <3>5. InHand'
      BY <2>5, <3>1, <3>4 DEF InHand
    <3> QED BY <3>3, <3>5
  <2> QED BY <2>2, <2>4, <2>5 DEF Insert
<1>3. harmed' = {} => Numbered'
  <2> SUFFICES ASSUME harmed' = {} PROVE Numbered'
    OBVIOUS
  <2>1. harmed = {} /\ Insert /\ Numbered
    BY <1>1, WholeBefore DEF DurableInv, InsertTorn
  <2>2. next_id \in Nat /\ NewUser \in UserRows /\ users \in Seq(UserRows)
    BY <1>1, <2>1 DEF EmailInv, TypeOK, NewUser, UserRows, Tracked, Emptied, FormHeld, Working, Insert
  <2>3. CASE users' = Append(users, NewUser)
    <3>1. \A i \in DOMAIN users' : (i \in DOMAIN users /\ users'[i] = users[i]) \/ users'[i] = NewUser
      BY <2>2, <2>3
    <3>2. NewUser.id # NoId
      BY <2>2 DEF NewUser, NoId
    <3> QED BY <2>1, <3>1, <3>2 DEF Numbered
  <2> QED BY <2>1, <2>3 DEF Insert, Numbered
<1> QED BY <1>1, <1>2, <1>3, DurableStep

LEMMA DurableInvNext ==
  ASSUME DurableInv, [Next]_vars
  PROVE  DurableInv'
BY QuietStepsKeepDurableInv, ReselectKeepsDurableInv, ReplyKeepsDurableInv, InsertKeepsDurableInv
   DEF Next, Serve

LEMMA DurableInvariant == Spec => []DurableInv
<1>1. DurableInv /\ [Next]_vars => DurableInv'
  BY DurableInvNext
<1> QED BY <1>1, DurableInvInit, PTL DEF Spec

(* Whoever was told "User created" has a user row and an account row that  *)
(* points to it, through every crash, restart and lost counter after the   *)
(* answer or before it, as long as no insert failed or tore its line.      *)
THEOREM AcknowledgedIsDurable == Spec => []AckDurable
<1>1. DurableInv => AckDurable
  BY DEF DurableInv
<1> QED BY <1>1, DurableInvariant, PTL

-----------------------------------------------------------------------------
(* The refinement: what a customer sees of the tables.                     *)

(* With e-mails unique, the row chosen by e-mail is the row that has it.   *)
LEMMA RowByEmail ==
  ASSUME NEW rows, NEW u \in DOMAIN rows,
         \A i, j \in DOMAIN rows :
           rows[i].email = rows[j].email /\ rows[i].email # NoEmail => i = j,
         rows[u].email # NoEmail
  PROVE  (CHOOSE i \in DOMAIN rows : rows[i].email = rows[u].email) = u
OBVIOUS

(* The same for every client of the bank, now and after a step.            *)
LEMMA ClientRow ==
  ASSUME EmailInv, [Next]_vars, NEW u \in DOMAIN users, users[u].email # NoEmail
  PROVE  /\ users[u].email \in Clients /\ users[u].email \in Clients'
         /\ IdOf(users[u].email) = users[u].id
         /\ users'[CHOOSE i \in DOMAIN users' : users'[i].email = users[u].email].id = users[u].id
<1>1. EmailsUnique /\ EmailsUnique'
  BY EmailInvNext DEF EmailInv
<1>2. u \in DOMAIN users' /\ users'[u] = users[u]
  BY RowsStay
<1>3. (CHOOSE i \in DOMAIN users : users[i].email = users[u].email) = u
  BY <1>1, RowByEmail DEF EmailsUnique
<1>4. (CHOOSE i \in DOMAIN users' : users'[i].email = users'[u].email) = u
  <2>1. \A i, j \in DOMAIN users' :
          users'[i].email = users'[j].email /\ users'[i].email # NoEmail => i = j
    BY <1>1 DEF EmailsUnique
  <2>2. users'[u].email # NoEmail
    BY <1>2
  <2> QED BY <1>2, <2>1, <2>2, RowByEmail
<1> QED BY <1>2, <1>3, <1>4 DEF Clients, IdOf

(* No client disappears, and no account gets another number, under every   *)
(* fault of the model.                                                     *)
LEMMA AccountsStay ==
  ASSUME EmailInv, [Next]_vars
  PROVE  /\ Clients \subseteq Clients'
         /\ \A e \in Emails : AccountOf(e) # NoAccount => AccountOf(e)' = AccountOf(e)
<1>1. Clients \subseteq Clients'
  <2> SUFFICES ASSUME NEW e \in Clients PROVE e \in Clients'
    OBVIOUS
  <2>1. PICK u \in DOMAIN users : users[u].email = e /\ e # NoEmail
    BY DEF Clients
  <2> QED BY <2>1, ClientRow
<1>2. ASSUME NEW e \in Emails, AccountOf(e) # NoAccount
      PROVE  AccountOf(e)' = AccountOf(e)
  <2>1. e \in Clients /\ AccountsOf(IdOf(e)) # {}
    BY <1>2 DEF AccountOf
  <2>2. PICK u \in DOMAIN users : users[u].email = e /\ e # NoEmail
    BY <2>1 DEF Clients
  <2> DEFINE n == users[u].id
             S == {i \in DOMAIN accounts : accounts[i].fk \in {n, Absent}}
             T == {i \in DOMAIN accounts' : accounts'[i].fk \in {n, Absent}}
  <2>3. IdOf(e) = n /\ IdOf(e)' = n /\ e \in Clients'
    BY <2>2, ClientRow DEF IdOf
  <2>4. AccountsOf(IdOf(e)) = S /\ AccountsOf(IdOf(e))' = T
    BY <2>3 DEF AccountsOf
  <2> HIDE DEF n
  <2>5. /\ S # {} /\ S \subseteq T /\ S \in SUBSET (1 .. Len(accounts)) /\ T \in SUBSET (1 .. Len(accounts'))
        /\ \A i \in T : i \in DOMAIN accounts => i \in S
    BY <2>1, <2>4, RowsStay
  <2>6. Least(S) \in S /\ \A k \in S : Least(S) <= k
    BY <2>5, RowsStay, LeastGreatest
  <2>7. Least(T) \in T /\ \A k \in T : Least(T) <= k
    BY <2>5, RowsStay, LeastGreatest
  <2>8. Least(T) = Least(S)
    <3>1. Least(T) <= Least(S) /\ Least(T) \in 1 .. Len(accounts') /\ Least(S) \in 1 .. Len(accounts)
      BY <2>5, <2>6, <2>7
    <3>2. Least(T) \in DOMAIN accounts
      BY <3>1, RowsStay
    <3>3. Least(S) <= Least(T)
      BY <2>5, <2>6, <2>7, <3>2
    <3> QED BY <3>1, <3>3, RowsStay
  <2>9. accounts'[Least(T)] = accounts[Least(S)]
    BY <2>5, <2>6, <2>8, RowsStay
  <2>10. AccountOf(e) = accounts[Least(S)].id
    BY <2>1, <2>4 DEF AccountOf
  <2>11. AccountOf(e)' = accounts'[Least(T)].id
    BY <2>3, <2>4, <2>5 DEF AccountOf, Least
  <2> QED BY <2>9, <2>10, <2>11
<1> QED BY <1>1, <1>2

(* While the accounts stay, every client keeps theirs.                     *)
LEMMA SameAccountOf ==
  ASSUME EmailInv, [Next]_vars, accounts' = accounts, NEW e \in Clients
  PROVE  AccountOf(e)' = AccountOf(e)
<1>1. PICK u \in DOMAIN users : users[u].email = e /\ e # NoEmail
  BY DEF Clients
<1>2. IdOf(e)' = IdOf(e) /\ e \in Clients'
  BY <1>1, ClientRow DEF IdOf
<1>3. AccountsOf(IdOf(e))' = AccountsOf(IdOf(e))
  BY <1>2 DEF AccountsOf
<1> QED BY <1>2, <1>3 DEF AccountOf

(* With no tail in the table the page shows every account.                 *)
LEMMA WholeRows ==
  ASSUME NEW rows, NEW S, S # {}, S \in SUBSET DOMAIN rows,
         Len(rows) \in Nat, DOMAIN rows = 1 .. Len(rows),
         \A i \in DOMAIN rows : rows[i].fk # Absent
  PROVE  \A i \in {Least(S), Greatest(S)} :
           rows[i] # AccountTail /\ (i + 1 \in DOMAIN rows => rows[i + 1] # AccountTail)
<1>1. Least(S) \in DOMAIN rows /\ Greatest(S) \in DOMAIN rows
  BY LeastGreatest
<1>2. \A i \in DOMAIN rows : rows[i] # AccountTail
  BY DEF AccountTail
<1> QED BY <1>1, <1>2

LEMMA ShownWhole ==
  ASSUME EmailInv, NoTails, NEW e
  PROVE  AccountShown(e) = AccountOf(e)
<1> SUFFICES ASSUME AccountOf(e) # NoAccount PROVE AccountShown(e) = AccountOf(e)
  BY DEF AccountShown
<1> DEFINE S == AccountsOf(IdOf(e))
<1>1. S # {} /\ S \in SUBSET DOMAIN accounts /\ Len(accounts) \in Nat
      /\ DOMAIN accounts = 1 .. Len(accounts)
  BY DEF AccountOf, AccountsOf, EmailInv, TypeOK
<1>2. \A i \in DOMAIN accounts : accounts[i].fk # Absent
  BY DEF NoTails
<1>3. Whole(Least(S)) /\ Whole(Greatest(S))
  <2> HIDE DEF S
  <2> QED BY <1>1, <1>2, WholeRows DEF Whole
<1> QED BY <1>3 DEF AccountShown

(* The same after a step.                                                  *)
LEMMA ShownWholeNext ==
  ASSUME EmailInv', NoTails', NEW e \in Emails
  PROVE  AccountShown(e)' = AccountOf(e)'
<1> SUFFICES ASSUME AccountOf(e)' # NoAccount PROVE AccountShown(e)' = AccountOf(e)'
  BY DEF AccountShown
<1> DEFINE S == AccountsOf(IdOf(e))'
<1>1. S # {} /\ S \in SUBSET DOMAIN accounts' /\ Len(accounts') \in Nat
      /\ DOMAIN accounts' = 1 .. Len(accounts')
  BY DEF AccountOf, AccountsOf, EmailInv, TypeOK
<1>2. \A i \in DOMAIN accounts' : accounts'[i].fk # Absent
  BY DEF NoTails
<1>3. \A i \in {Least(S), Greatest(S)} :
        accounts'[i] # AccountTail /\ (i + 1 \in DOMAIN accounts' => accounts'[i + 1] # AccountTail)
  <2> HIDE DEF S
  <2> QED BY <1>1, <1>2, WholeRows
<1>4. Least(AccountsOf(IdOf(e)))' = Least(S) /\ Greatest(AccountsOf(IdOf(e)))' = Greatest(S)
  BY DEF Least, Greatest
<1>5. Whole(Least(AccountsOf(IdOf(e))))' /\ Whole(Greatest(AccountsOf(IdOf(e))))'
  BY <1>3, <1>4 DEF Whole
<1> QED BY <1>5 DEF AccountShown

(* With no fault before or after a step the page shows every account.      *)
LEMMA AllShown ==
  ASSUME DurableInv, [Next]_vars, harmed' = {}
  PROVE  /\ [e \in Emails |-> AccountShown(e)] = [e \in Emails |-> AccountOf(e)]
         /\ [e \in Emails |-> AccountShown(e)]' = [e \in Emails |-> AccountOf(e)]'
<1>1. harmed = {}
  BY WholeBefore
<1>2. EmailInv /\ NoTails
  BY <1>1 DEF DurableInv, NumberInv, WholeLines
<1>3. EmailInv' /\ NoTails'
  BY DurableInvNext DEF DurableInv, NumberInv, WholeLines
<1>4. \A e \in Emails : AccountShown(e) = AccountOf(e)
  BY <1>2, ShownWhole
<1>5. \A e \in Emails : AccountShown(e)' = AccountOf(e)'
  BY <1>3, ShownWholeNext
<1> QED BY <1>4, <1>5

(* Everything the invariants say of a store no fault has touched.          *)
LEMMA UnharmedFacts ==
  ASSUME DurableInv, harmed = {}
  PROVE  /\ EmailInv /\ TypeOK /\ NoTails /\ InHand /\ UserFirst /\ IdsUnique
         /\ NumbersIntact /\ BelowUsed /\ NextIsCounter /\ OwnersBelow /\ OwnerWaits
         /\ Numbered /\ ~ Emptied
BY DEF DurableInv, NumberInv, EmailInv, WholeLines, NumbersIntact, Emptied

(* The insert of the user row admits a client, who is shown no account.    *)
LEMMA UserInsertAdmits ==
  ASSUME DurableInv, Insert, table = "user", harmed = {}
  PROVE  Bank!Admit(email)
<1>1. [Next]_vars
  BY DEF Next, Serve
<1>2. /\ EmailInv /\ TypeOK /\ NoTails /\ OwnersBelow /\ ~ Emptied
  BY UnharmedFacts
<1>3. /\ pc = "insert" /\ users' = Append(users, NewUser)
      /\ UNCHANGED <<accounts, email, next_id, harmed>>
  BY DEF Insert, locals, ghosts
<1>4. /\ users \in Seq(UserRows) /\ NewUser \in UserRows /\ email \in Emails /\ email # NoEmail
      /\ next_id \in Nat /\ email \notin Clients
  BY <1>2, <1>3, FaultAssumption DEF EmailInv, TypeOK, NewUser, UserRows, Tracked, FormHeld, Working, Vetted, Clients
<1> PICK c \in Emails : c = email /\ c = email'
  BY <1>3, <1>4
<1> DEFINE k == Len(users) + 1
<1>5. /\ k \in DOMAIN users' /\ users'[k] = NewUser
      /\ \A i \in DOMAIN users' : i \in DOMAIN users \/ i = k
      /\ \A i \in DOMAIN users : i \in DOMAIN users' /\ users'[i] = users[i]
  BY <1>3, <1>4
<1> HIDE DEF k
<1>6. users'[k].email = email /\ users'[k].id = next_id
  <2>1. NewUser.email = email /\ NewUser.id = next_id
    BY DEF NewUser
  <2> QED BY <1>5, <2>1
<1>7. Clients' = Clients \cup {email}
  <2>1. Clients' \subseteq Clients \cup {email}
    BY <1>5, <1>6 DEF Clients
  <2>2. Clients \subseteq Clients'
    BY <1>1, <1>2, AccountsStay
  <2>3. email \in Clients'
    BY <1>4, <1>5, <1>6 DEF Clients
  <2> QED BY <2>1, <2>2, <2>3
<1>8. \A e \in Emails : AccountOf(e)' = AccountOf(e)
  <2>1. ASSUME NEW e \in Clients PROVE AccountOf(e)' = AccountOf(e)
    BY <1>1, <1>2, <1>3, SameAccountOf
  <2>2. AccountOf(c)' = NoAccount
    <3>1. \A i, j \in DOMAIN users' :
            users'[i].email = users'[j].email /\ users'[i].email # NoEmail => i = j
      BY <1>1, <1>2, EmailInvNext DEF EmailInv, EmailsUnique
    <3>2. (CHOOSE i \in DOMAIN users' : users'[i].email = users'[k].email) = k
      BY <1>4, <1>5, <1>6, <3>1, RowByEmail
    <3>3. IdOf(c)' = next_id
      BY <1>6, <3>2 DEF IdOf
    <3>4. \A i \in DOMAIN accounts : accounts[i].fk \notin {next_id, Absent}
      BY <1>2, <1>3, <1>4 DEF OwnersBelow, NoTails
    <3>5. AccountsOf(IdOf(email))' = {}
      BY <1>3, <3>3, <3>4 DEF AccountsOf
    <3> QED BY <3>5 DEF AccountOf
  <2>3. \A e \in Emails : e \notin Clients => AccountOf(e) = NoAccount
    BY DEF AccountOf
  <2>4. \A e \in Emails : e \notin Clients' => AccountOf(e)' = NoAccount
    BY DEF AccountOf
  <2> QED BY <1>4, <1>7, <2>1, <2>2, <2>3, <2>4
<1>9. UNCHANGED <<[e \in Emails |-> AccountOf(e)], [e \in Emails |-> AccountShown(e)], harmed>>
  BY <1>1, <1>3, <1>8, AllShown
<1> QED BY <1>3, <1>4, <1>7, <1>9 DEF Bank!Admit

(* The insert of the account row opens the account of the client whose row *)
(* was written before, under a number nobody is shown.                     *)
LEMMA AccountInsertOpens ==
  ASSUME DurableInv, Insert, table = "account", harmed = {}
  PROVE  Bank!Open(email)
<1>1. [Next]_vars
  BY DEF Next, Serve
<1>2. /\ EmailInv /\ TypeOK /\ NoTails /\ InHand /\ IdsUnique /\ NumbersIntact
      /\ BelowUsed /\ NextIsCounter /\ OwnerWaits /\ Numbered /\ ~ Emptied
  BY UnharmedFacts
<1>3. /\ pc = "insert" /\ accounts' = Append(accounts, NewAccount)
      /\ UNCHANGED <<users, email, next_id, user_id, harmed>>
  BY DEF Insert, locals, ghosts
<1>4. /\ accounts \in Seq(AccountRows) /\ NewAccount \in AccountRows /\ email \in Emails /\ email # NoEmail
      /\ next_id \in Nat /\ user_id \in Nat \cup {Empty, NoId}
  BY <1>2, <1>3, FaultAssumption DEF EmailInv, TypeOK, NewAccount, AccountRows, Tracked, FormHeld, Working, Empty
<1> PICK c \in Emails : c = email /\ c = email'
  BY <1>3, <1>4
<1> DEFINE k == Len(accounts) + 1
<1>5. /\ k \in DOMAIN accounts' /\ accounts'[k] = NewAccount
      /\ \A i \in DOMAIN accounts' : i \in DOMAIN accounts \/ i = k
      /\ \A i \in DOMAIN accounts : i \in DOMAIN accounts' /\ accounts'[i] = accounts[i]
      /\ k \in 1 .. k /\ k \in Nat
  BY <1>3, <1>4
<1> HIDE DEF k
<1>6. accounts'[k].id = next_id /\ accounts'[k].fk = user_id
  BY <1>5 DEF NewAccount
<1>7. PICK u \in DOMAIN users : users[u].email = email /\ users[u].id = user_id
  BY <1>2, <1>3 DEF InHand
<1>8. users[u].id # Absent /\ user_id # Empty /\ user_id \in Nat /\ user_id # Absent
  <2>1. users[u] \in UserRows
    BY <1>2, <1>7 DEF TypeOK
  <2> QED BY <1>2, <1>4, <1>7, <2>1 DEF NoTails, Numbered, UserRows, Empty, Absent
<1>9. email \in Clients /\ IdOf(email) = user_id
  BY <1>1, <1>2, <1>4, <1>7, ClientRow
<1>10. Clients' = Clients /\ \A e : IdOf(e)' = IdOf(e)
  BY <1>3 DEF Clients, IdOf
<1>11. AccountOf(email) = NoAccount
  <2>1. \A i \in DOMAIN accounts : accounts[i].fk \notin {user_id, Absent}
    BY <1>2, <1>3, <1>8 DEF OwnerWaits, NoTails
  <2>2. AccountsOf(IdOf(email)) = {}
    BY <1>9, <2>1 DEF AccountsOf
  <2> QED BY <2>2 DEF AccountOf
<1>12. AccountOf(c)' = next_id
  <2>1. \A i \in DOMAIN accounts : accounts[i].fk \notin {user_id, Absent}
    BY <1>2, <1>3, <1>8 DEF OwnerWaits, NoTails
  <2>2. {i \in DOMAIN accounts' : accounts'[i].fk \in {user_id, Absent}} = {k}
    BY <1>5, <1>6, <2>1
  <2>3. AccountsOf(IdOf(c))' = {k}
    BY <1>9, <1>10, <2>2 DEF AccountsOf
  <2>4. Least({k}) = k
    BY <1>5, LeastGreatest
  <2>5. Least(AccountsOf(IdOf(c)))' = k
    BY <2>3, <2>4, Zenon DEF Least
  <2>6. c \in Clients'
    BY <1>9, <1>10
  <2> QED BY <1>6, <2>3, <2>5, <2>6, Zenon DEF AccountOf
<1>13. \A d \in Emails : d # email => AccountOf(d)' = AccountOf(d)
  <2> SUFFICES ASSUME NEW d \in Clients, d # email
               PROVE  AccountOf(d)' = AccountOf(d)
    BY <1>10 DEF AccountOf
  <2>1. PICK v \in DOMAIN users : users[v].email = d /\ d # NoEmail
    BY DEF Clients
  <2> DEFINE S == {i \in DOMAIN accounts : accounts[i].fk \in {users[v].id, Absent}}
  <2>2. IdOf(d) = users[v].id
    BY <1>1, <1>2, <2>1, ClientRow
  <2>3. users[v].id # user_id
    BY <1>2, <1>7, <1>8, <2>1 DEF IdsUnique
  <2>4. AccountsOf(IdOf(d)) = S /\ AccountsOf(IdOf(d))' = S
    <3>1. {i \in DOMAIN accounts' : accounts'[i].fk \in {users[v].id, Absent}} = S
      BY <1>5, <1>6, <1>8, <2>3
    <3> QED BY <1>3, <1>10, <2>2, <3>1 DEF AccountsOf
  <2>5. S # {} => Least(S) \in DOMAIN accounts
    <3>1. S \in SUBSET (1 .. Len(accounts)) /\ Len(accounts) \in Nat
      BY <1>4
    <3> QED BY <3>1, LeastGreatest
  <2>6. S # {} => accounts'[Least(S)] = accounts[Least(S)]
    BY <1>5, <2>5
  <2> HIDE DEF S
  <2>7. AccountOf(d) = IF S # {} THEN accounts[Least(S)].id ELSE NoAccount
    BY <2>4 DEF AccountOf
  <2>8. AccountOf(d)' = IF S # {} THEN accounts'[Least(S)].id ELSE NoAccount
    BY <1>10, <2>4 DEF AccountOf, Least
  <2> QED BY <2>6, <2>7, <2>8
<1>14. \A d \in Emails : AccountOf(d) # next_id
  <2> SUFFICES ASSUME NEW d \in Emails, AccountOf(d) = next_id PROVE FALSE
    OBVIOUS
  <2> DEFINE S == AccountsOf(IdOf(d))
  <2>1. S # {} /\ AccountOf(d) = accounts[Least(S)].id
    BY <1>4 DEF AccountOf, NoAccount
  <2>2. Least(S) \in DOMAIN accounts
    <3>1. S \in SUBSET (1 .. Len(accounts)) /\ Len(accounts) \in Nat
          /\ DOMAIN accounts = 1 .. Len(accounts)
      BY <1>4 DEF AccountsOf
    <3> HIDE DEF S
    <3> QED BY <2>1, <3>1, LeastGreatest
  <2>3. accounts[Least(S)].id # Absent => accounts[Least(S)].id < next_id
    BY <1>2, <1>3, <2>2 DEF BelowUsed, NextIsCounter, Used
  <2> QED BY <1>4, <2>1, <2>3 DEF Absent
<1>15. [e \in Emails |-> AccountShown(e)]' = [e \in Emails |-> AccountOf(e)]'
  BY <1>1, <1>3, AllShown
<1> QED BY <1>3, <1>4, <1>9, <1>10, <1>11, <1>12, <1>13, <1>14, <1>15 DEF Bank!Open, Bank!NoAccount, NoAccount

(* Every step of the files is a step of the bank, or none.                 *)
LEMMA BankStep ==
  ASSUME DurableInv, [Next]_vars
  PROVE  [Bank!Next]_(Bank!vars)
<1>1. EmailInv /\ harmed \subseteq harmed'
  BY WholeBefore DEF DurableInv, NumberInv
<1>2. CASE harmed' # {}
  <2>1. Bank!Degraded
    <3>1. \A e \in Emails : AccountShown(e)' \in {AccountOf(e)', NoAccount}
      BY DEF AccountShown
    <3>2. \A e \in Emails : AccountOf(e) # NoAccount => AccountOf(e)' = AccountOf(e)
      BY <1>1, AccountsStay
    <3>3. Clients \subseteq Clients' /\ ~(harmed = {})'
      BY <1>1, <1>2, AccountsStay
    <3> QED BY <3>1, <3>2, <3>3 DEF Bank!Degraded, Bank!NoAccount, NoAccount
  <2> QED BY <2>1 DEF Bank!Next
<1>3. CASE harmed' = {} /\ Insert
  <2>1. harmed = {} /\ email \in Emails
    BY <1>1, <1>3 DEF Insert, EmailInv, FormHeld, Working
  <2>2. Bank!Admit(email) \/ Bank!Open(email)
    BY <1>3, <2>1, UserInsertAdmits, AccountInsertOpens DEF Insert
  <2> QED BY <2>1, <2>2 DEF Bank!Next
<1>4. CASE harmed' = {} /\ UNCHANGED <<users, accounts>>
  <2>1. Clients' = Clients
    BY <1>4 DEF Clients
  <2>2. \A e \in Emails : AccountOf(e)' = AccountOf(e)
    BY <1>4 DEF AccountOf, Clients, IdOf, AccountsOf
  <2>3. harmed = {}
    BY <1>1, <1>4
  <2>4. UNCHANGED <<[e \in Emails |-> AccountOf(e)], [e \in Emails |-> AccountShown(e)]>>
    BY <1>4, <2>2, AllShown
  <2> QED BY <1>4, <2>1, <2>3, <2>4 DEF Bank!vars
<1>5. harmed' # {} \/ Insert \/ UNCHANGED <<users, accounts>>
  BY DEF Next, Serve, vars, locals, files, ghosts, Start, Initialize, Submit, Reject, Accept,
     GetNextIdentity, WriteTmp, Remove, Rename, Reopen, Reselect, Reply, InsertTorn, InsertFails,
     WriteTmpFull, WriteTmpFails, Crash, NoIdentity, Died
<1> QED BY <1>2, <1>3, <1>4, <1>5

(* The four files, the system calls on them and every fault of Registration*)
(* implement the bank: a client is admitted once and gets one account of   *)
(* its own, and under damage no client disappears, no account changes its  *)
(* number, and the page shows this number or none.                         *)
THEOREM FilesImplementBank == Spec => ImplementsBank
<1>1. Init => Bank!Init
  <2> SUFFICES ASSUME Init PROVE Bank!Init
    OBVIOUS
  <2>1. Clients = {}
    BY DEF Init, Clients
  <2>2. \A e \in Emails : AccountOf(e) = NoAccount
    BY <2>1 DEF AccountOf
  <2>3. \A e \in Emails : AccountShown(e) = NoAccount
    BY <2>2 DEF AccountShown
  <2> QED BY <2>1, <2>2, <2>3 DEF Init, Bank!Init, Bank!NoAccount, NoAccount
<1>2. DurableInv /\ [Next]_vars => [Bank!Next]_(Bank!vars)
  BY BankStep
<1> QED BY <1>1, <1>2, DurableInvariant, PTL DEF Spec, ImplementsBank, Bank!Spec

=============================================================================
