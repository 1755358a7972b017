---------------------------- MODULE SessionProofs ---------------------------
(***************************************************************************)
(* Theorems about logging in: whose accounts a browser is shown, and who   *)
(* can log in, for any number of browsers, users and ticks of the clock.   *)
(***************************************************************************)
EXTENDS Session, SequenceTheorems, WellFoundedInduction, TLAPS

-----------------------------------------------------------------------------
(* The inductive invariant.                                                *)

UserRows == [cpf : Cpfs, pwd : Passwords, name : Names] \cup {UserTail}
Tokens == [sub : Nat, name : Seq(Pieces), exp : Nat, gone : Int]

SessionTypes ==
  /\ users \in Seq(UserRows) /\ clock \in Nat
  /\ at \in [Browsers -> {"page", "/login", "/accounts"}]
  /\ cookie \in [Browsers -> Tokens]
  /\ shown = [b \in Browsers |-> shown[b]]
  /\ used \in [Browsers -> Credentials \cup {NoCredentials}]
  /\ refused \subseteq DOMAIN users

(* A token names the user of the login that made it, with the name of the  *)
(* row; the page shown is that user's or the name says a sub, although the *)
(* token may have been dropped since.                                      *)
TokenIsOwn ==
  \A b \in Browsers : cookie[b] # NoCookie =>
    cookie[b].sub \in LoggedInAs(b) /\ users[cookie[b].sub].name = cookie[b].name
PageOf(b, page) == \E u \in LoggedInAs(b) : page = u \/ Says(users[u].name, "sub")
PageIsOwn == \A b \in Browsers : shown[b] # Nobody => PageOf(b, shown[b])

SessionInv == SessionTypes /\ TokenIsOwn /\ PageIsOwn /\ OwnCredentialsWork

-----------------------------------------------------------------------------
(* Payloads.                                                               *)

(* The payload of a token: the token's claims at both ends, the name's     *)
(* between them.                                                           *)
LEMMA PayloadPlaces ==
  ASSUME NEW t \in Tokens, NEW key \in {"sub", "exp"}, ~ Says(t.name, key)
  PROVE  /\ Payload(t)[1] = Claim("sub", t.sub)
         /\ Payload(t)[Len(t.name) + 2] = Claim("exp", t.exp)
         /\ Places(Payload(t), key) = IF key = "sub" THEN {1} ELSE {Len(t.name) + 2}
         /\ Len(t.name) \in Nat
<1> DEFINE n == Len(t.name)
           P(i) == Payload(t)[i]
<1>1. t.name \in Seq(Pieces) /\ n \in Nat /\ DOMAIN t.name = 1 .. n
  BY DEF Tokens
<1>2. DOMAIN Payload(t) = 1 .. n + 3
  BY <1>1 DEF Payload
<1>3. /\ P(1) = Claim("sub", t.sub) /\ P(n + 2) = Claim("exp", t.exp)
      /\ P(n + 3) = Brace
      /\ \A i \in 2 .. n + 1 : P(i) = t.name[i - 1]
  BY <1>1 DEF Payload
<1>4. \A i \in 2 .. n + 1 : P(i).key # key
  <2> SUFFICES ASSUME NEW i \in 2 .. n + 1 PROVE P(i).key # key
    OBVIOUS
  <2>1. i - 1 \in 1 .. n
    BY <1>1
  <2> QED BY <1>1, <1>3, <2>1 DEF Says, Places
<1>5. P(1).key = "sub" /\ P(n + 2).key = "exp" /\ P(n + 3).key = "brace"
  BY <1>3 DEF Claim, Brace
<1> HIDE DEF P
<1>6. \A i \in 1 .. n + 3 : i = 1 \/ i \in 2 .. n + 1 \/ i = n + 2 \/ i = n + 3
  BY <1>1
<1>7. \A i \in 1 .. n + 3 : P(i).key = key <=> i = IF key = "sub" THEN 1 ELSE n + 2
  BY <1>1, <1>4, <1>5, <1>6
<1>8. Places(Payload(t), key) = {i \in 1 .. n + 3 : P(i).key = key}
  BY <1>2 DEF Places, P
<1> QED BY <1>1, <1>3, <1>7, <1>8 DEF P

(* Unless the name says otherwise, /accounts shows the token's own user,   *)
(* and what jwt_validate compares is the token's own exp.                  *)
LEMMA SubIsOwn ==
  ASSUME NEW t \in Tokens, ~ Says(t.name, "sub")
  PROVE  Parsed(t, "sub") = t.sub
<1> DEFINE read == {i \in Places(Payload(t), "sub") :
                      \A j \in 1 .. i : Payload(t)[j] # Brace}
<1>1. Places(Payload(t), "sub") = {1} /\ Payload(t)[1] = Claim("sub", t.sub)
  BY PayloadPlaces
<1>2. \A j \in 1 .. 1 : j = 1
  OBVIOUS
<1>3. Claim("sub", t.sub) # Brace
  BY DEF Claim, Brace
<1>4. read = {1}
  BY <1>1, <1>2, <1>3
<1> HIDE DEF read
<1>5. (CHOOSE i \in read : \A j \in read : j <= i) = 1
  BY <1>4
<1>6. Parsed(t, "sub") =
        IF read = {} THEN 0
        ELSE Payload(t)[CHOOSE i \in read : \A j \in read : j <= i].value
  BY DEF Parsed, read
<1> QED BY <1>1, <1>4, <1>5, <1>6 DEF Claim

LEMMA ExpIsOwn ==
  ASSUME NEW t \in Tokens, ~ Says(t.name, "exp")
  PROVE  FirstExp(t) = t.exp
<1> DEFINE exps == Places(Payload(t), "exp")
           e    == Len(t.name) + 2
<1>1. exps = {e} /\ Payload(t)[e] = Claim("exp", t.exp) /\ e \in Nat
  BY PayloadPlaces
<1>2. FirstExp(t) = Payload(t)[CHOOSE i \in exps : \A j \in exps : i <= j].value
  BY DEF FirstExp
<1> HIDE DEF exps, e
<1>3. (CHOOSE i \in exps : \A j \in exps : i <= j) = e
  BY <1>1
<1> QED BY <1>1, <1>2, <1>3 DEF Claim

-----------------------------------------------------------------------------
(* Rows.                                                                   *)

(* A row that has no cpf is a tail, and no credentials are its own.        *)
LEMMA UsersTyped ==
  ASSUME SessionTypes
  PROVE  /\ Len(users) \in Nat /\ DOMAIN users = 1 .. Len(users)
         /\ \A u \in DOMAIN users : u \in Nat /\ u # Nobody /\ users[u] \in UserRows
BY DEF SessionTypes, Nobody

LEMMA TailsTyped ==
  ASSUME SessionTypes, NEW u \in DOMAIN users, users[u].cpf = NoCpf
  PROVE  users[u] = UserTail /\ users[u].pwd \notin Passwords
<1>1. users[u] \in [cpf : Cpfs, pwd : Passwords, name : Names] \cup {UserTail}
  BY UsersTyped DEF UserRows
<1>2. users[u] = UserTail
  BY <1>1, SessionAssumption
<1>3. UserTail.pwd \notin Passwords
  BY SessionAssumption DEF UserTail
<1> QED BY <1>2, <1>3

LEMMA NamesTyped ==
  ASSUME SessionTypes, NEW u \in DOMAIN users
  PROVE  users[u].name \in Seq(Pieces)
<1>1. users[u] \in [cpf : Cpfs, pwd : Passwords, name : Names] \cup {UserTail}
  BY UsersTyped DEF UserRows
<1>2. \A n \in Names : n \in Seq(Pieces)
  BY SessionAssumption
<1>3. UserTail.name = <<>> /\ <<>> \in Seq(Pieces)
  BY DEF UserTail
<1> QED BY <1>1, <1>2, <1>3

(* The first row with a cpf exists when one does.                          *)
LEMMA FirstIsLeast ==
  ASSUME SessionTypes, NEW cpf, WithCpf(cpf) # {}
  PROVE  /\ FirstWith(cpf) \in DOMAIN users /\ users[FirstWith(cpf)].cpf \in {cpf, NoCpf}
         /\ \A v \in WithCpf(cpf) : FirstWith(cpf) <= v
<1>1. WithCpf(cpf) \subseteq Nat
  BY UsersTyped DEF WithCpf
<1>2. IsWellFoundedOn(OpToRel(<, Nat), Nat)
  BY NatLessThanWellFounded
<1>3. \E u \in WithCpf(cpf) : \A v \in WithCpf(cpf) : ~ (<<v, u>> \in OpToRel(<, Nat))
  BY <1>1, <1>2, WFMin, Zenon
<1>4. \A u, v \in Nat : u < v => <<u, v>> \in OpToRel(<, Nat)
  BY Zenon DEF OpToRel
<1>5. PICK u \in WithCpf(cpf) : \A v \in WithCpf(cpf) : ~ (v < u)
  BY <1>1, <1>3, <1>4, Zenon
<1>6. \A v \in WithCpf(cpf) : u <= v
  BY <1>1, <1>5
<1>7. /\ FirstWith(cpf) \in WithCpf(cpf)
      /\ \A v \in WithCpf(cpf) : FirstWith(cpf) <= v
  BY <1>5, <1>6 DEF FirstWith
<1> QED BY <1>7 DEF WithCpf

(* login() answers with a user of these credentials.                       *)
LEMMA LoginFindsOwner ==
  ASSUME SessionTypes, NEW c \in Credentials, LoginAs(c) # Nobody
  PROVE  /\ LoginAs(c) \in DOMAIN users
         /\ users[LoginAs(c)].cpf = c.cpf /\ users[LoginAs(c)].pwd = c.pwd
<1>1. LoginAs(c) = FirstWith(c.cpf) /\ WithCpf(c.cpf) # {} /\ users[FirstWith(c.cpf)].pwd = c.pwd
  BY DEF LoginAs, LoginUser
<1>2. c.pwd \in Passwords
  BY DEF Credentials
<1> QED BY <1>1, <1>2, FirstIsLeast, TailsTyped

(* It refuses a row's own credentials only for an older row of that cpf,   *)
(* for their length or for a tail.                                         *)
LEMMA RefusalHasReason ==
  ASSUME SessionTypes, NEW c \in Credentials, LoginAs(c) = Nobody,
         NEW u \in DOMAIN users, users[u].cpf = c.cpf, users[u].pwd = c.pwd
  PROVE  Twin(u) \/ users[u].pwd.length > 6 \/ Torn
<1>1. CASE ~ LoginSchemaValid(c.pwd)
  <2>1. c.pwd.length \in Nat
    BY SessionAssumption DEF Credentials
  <2> QED BY <1>1, <2>1 DEF LoginSchemaValid
<1>2. CASE LoginSchemaValid(c.pwd)
  <2>1. u \in WithCpf(c.cpf)
    BY DEF WithCpf
  <2>2. CASE Blanked(c.cpf)
    BY <2>2 DEF Blanked, WithCpf, Torn
  <2>3. CASE ~ Blanked(c.cpf)
    <3>1. /\ FirstWith(c.cpf) \in DOMAIN users /\ FirstWith(c.cpf) <= u
          /\ users[FirstWith(c.cpf)].cpf \in {c.cpf, NoCpf}
      BY <2>1, FirstIsLeast
    <3>2. FirstWith(c.cpf) # Nobody
      BY <3>1, UsersTyped
    <3>3. users[FirstWith(c.cpf)].pwd # c.pwd
      BY <1>2, <2>1, <2>3, <3>2 DEF LoginAs, LoginUser
    <3>4. FirstWith(c.cpf) < u
      BY <3>1, <3>3, UsersTyped
    <3>5. users[FirstWith(c.cpf)].cpf = c.cpf \/ Torn
      BY <3>1, TailsTyped DEF Torn
    <3> QED BY <3>1, <3>4, <3>5 DEF Twin
  <2> QED BY <2>2, <2>3
<1> QED BY <1>1, <1>2

-----------------------------------------------------------------------------
(* Every action keeps the invariant.                                       *)

LEMMA SessionInvInit == Init => SessionInv
BY DEF Init, SessionInv, SessionTypes, TokenIsOwn, PageIsOwn, OwnCredentialsWork, Tokens, NoCookie, Nobody

LEMMA RegisterKeepsInv ==
  ASSUME SessionInv, NEW b \in Browsers, Register(b)
  PROVE  SessionInv'
<1> USE DEF Register
<1>1. SessionTypes /\ TokenIsOwn /\ PageIsOwn /\ OwnCredentialsWork
  BY DEF SessionInv
<1>2. PICK row \in UserRows, tail \in {<<>>, <<UserTail>>} : users' = Append(users, row) \o tail
  BY DEF Credentials, UserRows
<1>3. UserTail \in UserRows
  BY DEF UserRows
<1>4. /\ users' \in Seq(UserRows) /\ DOMAIN users \subseteq DOMAIN users'
      /\ \A u \in DOMAIN users : users'[u] = users[u]
  <2> HIDE DEF Register
  <2>1. users \in Seq(UserRows)
    BY <1>1 DEF SessionTypes
  <2>2. CASE tail = <<>>
    <3>1. Append(users, row) \in Seq(UserRows)
      BY <2>1
    <3>2. users' = Append(users, row)
      BY <1>2, <2>2, <3>1
    <3> QED BY <2>1, <3>2
  <2>3. CASE tail = <<UserTail>>
    <3>1. users' = Append(users, row) \o <<UserTail>>
      BY <1>2, <2>3
    <3> QED BY <1>3, <2>1, <3>1
  <2> QED BY <2>2, <2>3
<1>5. SessionTypes'
  BY <1>1, <1>4 DEF SessionTypes
<1>6. \A d \in Browsers : \A u \in LoggedInAs(d) : u \in LoggedInAs(d)' /\ users'[u] = users[u]
  BY <1>4 DEF LoggedInAs
<1>7. TokenIsOwn'
  BY <1>1, <1>6 DEF TokenIsOwn
<1>8. PageIsOwn'
  <2> SUFFICES ASSUME NEW d \in Browsers, shown'[d] # Nobody PROVE PageOf(d, shown[d])'
    BY DEF PageIsOwn
  <2>1. shown'[d] = shown[d]
    BY <1>1 DEF SessionTypes
  <2>2. PageOf(d, shown[d])
    BY <1>1, <2>1 DEF PageIsOwn
  <2> QED BY <1>6, <2>1, <2>2 DEF PageOf, Says
<1>9. OwnCredentialsWork'
  <2> SUFFICES ASSUME NEW u \in refused PROVE Twin(u)' \/ users'[u].pwd.length > 6
    BY DEF OwnCredentialsWork
  <2>1. u \in DOMAIN users
    BY <1>1 DEF SessionTypes
  <2>2. Twin(u) \/ users[u].pwd.length > 6
    BY <1>1 DEF OwnCredentialsWork
  <2> QED BY <1>4, <2>1, <2>2 DEF Twin
<1> QED BY <1>5, <1>7, <1>8, <1>9 DEF SessionInv

(* A step that leaves the users, credentials and who is refused alone, and *)
(* shows the pages it showed or none.                                      *)
LEMMA QuietStepKeepsInv ==
  ASSUME SessionInv, UNCHANGED <<users, used, refused>>, clock' \in Nat,
         at' \in [Browsers -> {"page", "/login", "/accounts"}],
         cookie' \in [Browsers -> Tokens],
         \A d \in Browsers : cookie'[d] \in {cookie[d], NoCookie},
         shown' = [d \in Browsers |-> shown'[d]],
         \A d \in Browsers : shown'[d] \in {shown[d], Nobody} \/ PageOf(d, shown'[d])
  PROVE  SessionInv'
<1>1. SessionTypes /\ TokenIsOwn /\ PageIsOwn /\ OwnCredentialsWork
  BY DEF SessionInv
<1>2. SessionTypes'
  BY <1>1 DEF SessionTypes
<1>3. TokenIsOwn'
  BY <1>1 DEF TokenIsOwn, LoggedInAs
<1>4. PageIsOwn'
  <2> SUFFICES ASSUME NEW d \in Browsers, shown'[d] # Nobody PROVE PageOf(d, shown[d])'
    BY DEF PageIsOwn
  <2>1. PageOf(d, shown'[d])
    BY <1>1 DEF PageIsOwn
  <2> QED BY <2>1 DEF PageOf, LoggedInAs, Says
<1>5. OwnCredentialsWork'
  BY <1>1 DEF OwnCredentialsWork, Twin, Torn
<1> QED BY <1>2, <1>3, <1>4, <1>5 DEF SessionInv

LEMMA LoginKeepsInv ==
  ASSUME SessionInv, NEW b \in Browsers, Login(b)
  PROVE  SessionInv'
<1> USE DEF Login
<1>1. SessionTypes /\ TokenIsOwn /\ PageIsOwn /\ OwnCredentialsWork
  BY DEF SessionInv
<1>2. PICK c \in Credentials :
        IF LoginAs(c) # Nobody
        THEN /\ cookie' = [cookie EXCEPT ![b] = TokenFor(LoginAs(c))]
             /\ used' = [used EXCEPT ![b] = c]
             /\ at' = [at EXCEPT ![b] = "/accounts"]
             /\ UNCHANGED refused
        ELSE /\ refused' = refused \cup
                  {u \in DOMAIN users : users[u].cpf = c.cpf /\ users[u].pwd = c.pwd}
             /\ UNCHANGED <<cookie, used, at>>
  OBVIOUS
<1>3. /\ shown' = [d \in Browsers |-> shown'[d]] /\ shown'[b] = Nobody
      /\ \A d \in Browsers \ {b} : shown'[d] = shown[d]
  BY <1>1 DEF SessionTypes
<1>4. CASE LoginAs(c) # Nobody
  <2> DEFINE u == LoginAs(c)
  <2>1. u \in DOMAIN users /\ users[u].cpf = c.cpf /\ users[u].pwd = c.pwd
    BY <1>1, <1>4, LoginFindsOwner
  <2>2. TokenFor(u) \in Tokens /\ TokenFor(u).sub = u /\ TokenFor(u).name = users[u].name
    <3>1. users[u].name \in Seq(Pieces)
      BY <1>1, <2>1, NamesTyped
    <3>2. u \in Nat /\ clock \in Nat /\ JwtExp \in Nat /\ CookieAge \in Nat
      BY <1>1, <2>1, UsersTyped, SessionAssumption DEF SessionTypes
    <3> QED BY <3>1, <3>2 DEF TokenFor, Tokens
  <2> HIDE DEF u
  <2>3. /\ cookie' = [cookie EXCEPT ![b] = TokenFor(u)]
        /\ used' = [used EXCEPT ![b] = c] /\ at' = [at EXCEPT ![b] = "/accounts"]
        /\ UNCHANGED <<users, clock, refused>>
    BY <1>2, <1>4 DEF u
  <2>4. SessionTypes'
    BY <1>1, <1>3, <2>2, <2>3 DEF SessionTypes
  <2>5. TokenIsOwn'
    BY <1>1, <2>1, <2>2, <2>3 DEF TokenIsOwn, LoggedInAs, SessionTypes
  <2>6. PageIsOwn'
    <3> SUFFICES ASSUME NEW d \in Browsers, shown'[d] # Nobody PROVE PageOf(d, shown[d])'
      BY DEF PageIsOwn
    <3>1. d # b /\ shown'[d] = shown[d] /\ PageOf(d, shown[d])
      BY <1>1, <1>3 DEF PageIsOwn
    <3>2. used'[d] = used[d]
      BY <1>1, <2>3, <3>1 DEF SessionTypes
    <3> QED BY <2>3, <3>1, <3>2 DEF PageOf, LoggedInAs, Says
  <2>7. OwnCredentialsWork'
    BY <1>1, <2>3 DEF OwnCredentialsWork, Twin, Torn
  <2> QED BY <2>4, <2>5, <2>6, <2>7 DEF SessionInv
<1>5. CASE LoginAs(c) = Nobody
  <2>1. SessionTypes'
    BY <1>1, <1>2, <1>3, <1>5 DEF SessionTypes
  <2>2. TokenIsOwn'
    BY <1>1, <1>2, <1>5 DEF TokenIsOwn, LoggedInAs
  <2>3. PageIsOwn'
    <3> SUFFICES ASSUME NEW d \in Browsers, shown'[d] # Nobody PROVE PageOf(d, shown[d])'
      BY DEF PageIsOwn
    <3>1. shown'[d] = shown[d] /\ PageOf(d, shown[d])
      BY <1>1, <1>3 DEF PageIsOwn
    <3> QED BY <1>2, <1>5, <3>1 DEF PageOf, LoggedInAs, Says
  <2>4. OwnCredentialsWork'
    BY <1>1, <1>2, <1>5, RefusalHasReason DEF OwnCredentialsWork, Twin, Torn
  <2> QED BY <2>1, <2>2, <2>3, <2>4 DEF SessionInv
<1> QED BY <1>4, <1>5

(* /accounts shows the page of the token's user, or what the name says.    *)
LEMMA AccountsPage ==
  ASSUME SessionInv, NEW b \in Browsers, Auth(cookie[b])
  PROVE  PageOf(b, Parsed(cookie[b], "sub"))
<1>1. SessionTypes /\ TokenIsOwn
  BY DEF SessionInv
<1>2. cookie[b] \in Tokens /\ cookie[b] # NoCookie
  BY <1>1 DEF SessionTypes, Auth, JwtValidate
<1>3. cookie[b].sub \in LoggedInAs(b) /\ users[cookie[b].sub].name = cookie[b].name
  BY <1>1, <1>2 DEF TokenIsOwn
<1>4. Says(cookie[b].name, "sub") \/ Parsed(cookie[b], "sub") = cookie[b].sub
  BY <1>2, SubIsOwn
<1> QED BY <1>3, <1>4 DEF PageOf

(* Refusals, visits, redirects and the clock change neither users nor      *)
(* credentials.                                                            *)
LEMMA BrowsingKeepsInv ==
  ASSUME SessionInv, NEW b \in Browsers,
         RegisterRefused(b) \/ Visit(b) \/ GetLogin(b) \/ GetAccounts(b)
  PROVE  SessionInv'
<1> USE DEF RegisterRefused, Visit, GetLogin, GetAccounts
<1>1. SessionTypes
  BY DEF SessionInv
<1>2. UNCHANGED <<users, clock, cookie, used, refused>>
  OBVIOUS
<1>3. at' \in [Browsers -> {"page", "/login", "/accounts"}]
  BY <1>1 DEF SessionTypes
<1>4. shown' = [d \in Browsers |-> shown'[d]]
  BY <1>1 DEF SessionTypes
<1>5. \A d \in Browsers : shown'[d] \in {shown[d], Nobody} \/ PageOf(d, shown'[d])
  BY <1>1, AccountsPage DEF SessionTypes
<1>6. clock' \in Nat /\ cookie' \in [Browsers -> Tokens]
  BY <1>1, <1>2 DEF SessionTypes
<1> QED BY <1>2, <1>3, <1>4, <1>5, <1>6, QuietStepKeepsInv

LEMMA TickKeepsInv ==
  ASSUME SessionInv, Tick
  PROVE  SessionInv'
<1> USE DEF Tick
<1>1. SessionTypes
  BY DEF SessionInv
<1>2. NoCookie \in Tokens
  BY DEF NoCookie, Tokens, Nobody
<1>3. cookie' \in [Browsers -> Tokens] /\ \A d \in Browsers : cookie'[d] \in {cookie[d], NoCookie}
  BY <1>1, <1>2 DEF SessionTypes
<1>4. clock' \in Nat /\ at' = at /\ shown' = shown /\ UNCHANGED <<users, used, refused>>
  BY <1>1 DEF SessionTypes
<1>5. /\ at' \in [Browsers -> {"page", "/login", "/accounts"}]
      /\ shown' = [d \in Browsers |-> shown'[d]]
      /\ \A d \in Browsers : shown'[d] \in {shown[d], Nobody} \/ PageOf(d, shown'[d])
  BY <1>1, <1>4 DEF SessionTypes
<1> QED BY <1>3, <1>4, <1>5, QuietStepKeepsInv

LEMMA SessionInvNext == SessionInv /\ [Next]_vars => SessionInv'
<1> SUFFICES ASSUME SessionInv, [Next]_vars PROVE SessionInv'
  OBVIOUS
<1>1. CASE UNCHANGED vars
  BY <1>1, QuietStepKeepsInv DEF vars, SessionInv, SessionTypes
<1> QED BY <1>1, RegisterKeepsInv, LoginKeepsInv, BrowsingKeepsInv, TickKeepsInv DEF Next

LEMMA SessionInvariant == Spec => []SessionInv
<1> QED BY SessionInvInit, SessionInvNext, PTL DEF Spec

-----------------------------------------------------------------------------
(* The theorems.                                                           *)

(* GET /accounts shows a browser only the accounts of a user whose cpf and *)
(* password it last logged in with, whoever registered or logged in since, *)
(* unless the name of such a user reads as a sub.                          *)
THEOREM PagesAreOwn == Spec => []ShowsOwn
<1>1. SessionInv => ShowsOwn
  BY DEF SessionInv, PageIsOwn, PageOf, ShowsOwn
<1> QED BY <1>1, SessionInvariant, PTL

(* login() refuses a user's own credentials only when somebody registered  *)
(* the same cpf before, for a password longer than six characters, or      *)
(* because a row of the table is torn.                                     *)
THEOREM FirstOfACpfCanLogIn == Spec => []OwnCredentialsWork
<1>1. SessionInv => OwnCredentialsWork
  BY DEF SessionInv
<1> QED BY <1>1, SessionInvariant, PTL

(* A token whose exp is past shows no accounts, although the browser may   *)
(* still hold the cookie, unless its name reads as another exp.            *)
THEOREM ExpiredTokensAreRefused == Spec => ExpiredTokenShowsNothing
<1>1. ASSUME SessionInv, Next, NEW b \in Browsers, shown'[b] # shown[b], shown'[b] # Nobody
      PROVE  clock <= cookie[b].exp \/ Says(cookie[b].name, "exp")
  <2>1. SessionTypes
    BY <1>1 DEF SessionInv
  <2>2. PICK d \in Browsers : GetAccounts(d)
    BY <1>1, <2>1 DEF Next, Register, RegisterRefused, Login, Visit, GetLogin, Tick, SessionTypes
  <2>3. d = b /\ Auth(cookie[b])
    BY <1>1, <2>1, <2>2 DEF GetAccounts, SessionTypes
  <2>4. cookie[b] \in Tokens /\ cookie[b].exp \in Nat /\ clock \in Nat
    BY <2>1 DEF SessionTypes, Tokens
  <2>5. FirstExp(cookie[b]) >= clock
    BY <2>3 DEF Auth, JwtValidate
  <2> QED BY <2>4, <2>5, ExpIsOwn
<1>2. SessionInv /\ [Next]_vars =>
        [\A b \in Browsers :
           shown'[b] # shown[b] /\ shown'[b] # Nobody =>
             clock <= cookie[b].exp \/ Says(cookie[b].name, "exp")]_vars
  BY <1>1
<1> QED BY <1>2, SessionInvariant, PTL DEF Spec, ExpiredTokenShowsNothing

=============================================================================
