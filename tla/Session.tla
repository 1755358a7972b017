------------------------------- MODULE Session ------------------------------
(***************************************************************************)
(* Logging in, from the browser's side: the registration and login forms,  *)
(* the token cookie, and the redirects between /login and /accounts until  *)
(* a page is shown. One action is one request, handled whole. The user     *)
(* table is in the order of registration, and a user's id is its position  *)
(* (Registration shows that ids are unique unless a counter was damaged).  *)
(*                                                                         *)
(* A name is written into the payload of the token as it is (jwt.c:63), so *)
(* it is given by what the two readers of the payload find in it: claims   *)
(* and braces. A plain name is the empty sequence.                         *)
(***************************************************************************)
EXTENDS Integers, Sequences, FiniteSets

CONSTANTS
  Browsers,
  Cpfs,          \* the cpf field, as cut to CPF_DIGITS - 1 characters
  Passwords,     \* passwords: records of an identity and a length
  NoCpf,         \* "this line has no cpf column"
  Names,         \* names: sequences of the claims and braces they hold
  JwtExp,        \* JWT_EXP: how long a token lasts
  CookieAge,     \* Max-Age of the token cookie
  MaxUsers,      \* bound: how many users register
  MaxClock       \* bound: how long time runs

Pieces == [key : {"sub", "exp", "brace"}, value : Nat]

ASSUME SessionAssumption ==
  /\ NoCpf \notin Cpfs
  /\ Passwords \subseteq [word : {"p", "q"}, length : Nat]
  /\ Names \subseteq Seq(Pieces)
  /\ JwtExp \in Nat /\ CookieAge \in Nat
  /\ MaxUsers \in Nat /\ MaxClock \in Nat

VARIABLES
  users,    \* rows of the user table, oldest first
  clock,    \* time(NULL)
  at,       \* "page", or the path the browser is about to GET
  cookie,   \* the token cookie of each browser, or NoCookie
  shown,    \* the user whose accounts page the browser shows, or Nobody
  used,     \* the credentials each browser last logged in with
  refused   \* users that were refused with their own cpf and password

vars == <<users, clock, at, cookie, shown, used, refused>>

Nobody   == 0
NoCookie == [sub |-> Nobody, name |-> <<>>, exp |-> 0, gone |-> -1]
Credentials == [cpf : Cpfs, pwd : Passwords]
NoCredentials == [cpf |-> "none", pwd |-> "none"]

(* A torn row (Registration) leaves a tail, a line with none of these      *)
(* columns, and a condition on a column a line lacks holds.                *)
UserTail == [cpf |-> NoCpf, pwd |-> [word |-> "", length |-> 0], name |-> <<>>]
Torn  == \E u \in DOMAIN users : users[u] = UserTail

(* select ... where cpf = value.                                           *)
WithCpf(cpf) == {u \in DOMAIN users : users[u].cpf \in {cpf, NoCpf}}
FirstWith(cpf) == CHOOSE u \in WithCpf(cpf) : \A v \in WithCpf(cpf) : u <= v

(* The last match is a tail: the column count is its own, and what is left *)
(* of the first match makes a blank user in mount_user_from_line_buf.      *)
Blanked(cpf) ==
  \E t \in WithCpf(cpf) : users[t] = UserTail /\ \A v \in WithCpf(cpf) : v <= t

(* Mutant: a six-character password is too long already.                   *)
LoginSchemaStrict(pwd) == pwd.length < 6

(* validate_login_schema; registration has no such check.                  *)
LoginSchemaValid(pwd) == pwd.length <= 6

(* The payload of a token: {"sub":"...","name":"...","exp":...}.           *)
Claim(key, value) == [key |-> key, value |-> value]
Brace == Claim("brace", 0)
Payload(token) ==
  <<Claim("sub", token.sub)>> \o token.name \o <<Claim("exp", token.exp), Brace>>

Places(payload, key) == {i \in DOMAIN payload : payload[i].key = key}

(* What strstr finds: the first exp of the payload.                        *)
FirstExp(token) ==
  LET payload == Payload(token)
      exps    == Places(payload, "exp")
  IN  payload[CHOOSE i \in exps : \A j \in exps : i <= j].value

(* parse_jwt_payload: claims before the first brace; the last one counts.  *)
Parsed(token, key) ==
  LET payload == Payload(token)
      read    == {i \in Places(payload, key) : \A j \in 1 .. i : payload[j] # Brace}
  IN  IF read = {} THEN 0
      ELSE payload[CHOOSE i \in read : \A j \in read : j <= i].value

(* Mutant: exp >= now is refused only a second late.                       *)
JwtValidateLate(token) == token # NoCookie /\ FirstExp(token) >= clock - 1

(* jwt_validate: the signature is right, since the server made the token,  *)
(* and exp is not before now.                                              *)
JwtValidate(token) == token # NoCookie /\ FirstExp(token) >= clock

(* auth_middleware.                                                        *)
Auth(token) == JwtValidate(token) /\ Parsed(token, "exp") # 0

-----------------------------------------------------------------------------
Init ==
  /\ users = <<>> /\ clock = 1
  /\ at = [b \in Browsers |-> "page"]
  /\ cookie = [b \in Browsers |-> NoCookie]
  /\ shown = [b \in Browsers |-> Nobody]
  /\ used = [b \in Browsers |-> NoCredentials]
  /\ refused = {}

(* POST /register, accepted: a row, or a torn one, and a redirect to       *)
(* /accounts. Nothing checks that the cpf is new.                          *)
Register(b) ==
  /\ at[b] = "page" /\ Len(users) < MaxUsers /\ ~Torn
  /\ \E c \in Credentials, n \in Names, tail \in {<<>>, <<UserTail>>} :
       users' = Append(users, [cpf |-> c.cpf, pwd |-> c.pwd, name |-> n]) \o tail
  /\ at' = [at EXCEPT ![b] = "/accounts"]
  /\ shown' = [shown EXCEPT ![b] = Nobody]
  /\ UNCHANGED <<clock, cookie, used, refused>>

(* POST /register of an e-mail that has a row: 400 on the same page. A tail*)
(* has every e-mail.                                                       *)
RegisterRefused(b) ==
  /\ at[b] = "page" /\ users # <<>>
  /\ shown' = [shown EXCEPT ![b] = Nobody]
  /\ UNCHANGED <<users, clock, at, cookie, used, refused>>

TokenFor(u) ==
  [sub |-> u, name |-> users[u].name, exp |-> clock + JwtExp, gone |-> clock + CookieAge]

(* Mutant: any row with the cpf will do, its password is not compared.     *)
LoginUserAnyPassword(c) ==
  IF WithCpf(c.cpf) # {} /\ ~Blanked(c.cpf) THEN FirstWith(c.cpf) ELSE Nobody

(* login(): the first row with the cpf, if its password hash is the same.  *)
(* No hash is the empty password of a blank user.                          *)
LoginUser(c) ==
  IF WithCpf(c.cpf) # {} /\ ~Blanked(c.cpf) /\ users[FirstWith(c.cpf)].pwd = c.pwd
  THEN FirstWith(c.cpf) ELSE Nobody

LoginAs(c) == IF LoginSchemaValid(c.pwd) THEN LoginUser(c) ELSE Nobody

(* POST /login: a token and a redirect, or 400 or 401 on the same page.    *)
Login(b) ==
  /\ at[b] = "page"
  /\ shown' = [shown EXCEPT ![b] = Nobody]
  /\ \E c \in Credentials :
       IF LoginAs(c) # Nobody
       THEN /\ cookie' = [cookie EXCEPT ![b] = TokenFor(LoginAs(c))]
            /\ used' = [used EXCEPT ![b] = c]
            /\ at' = [at EXCEPT ![b] = "/accounts"]
            /\ UNCHANGED refused
       ELSE /\ refused' = refused \cup
                 {u \in DOMAIN users : users[u].cpf = c.cpf /\ users[u].pwd = c.pwd}
            /\ UNCHANGED <<cookie, used, at>>
  /\ UNCHANGED <<users, clock>>

(* The customer opens one of the two pages.                                *)
Visit(b) ==
  /\ at[b] = "page"
  /\ \E path \in {"/login", "/accounts"} : at' = [at EXCEPT ![b] = path]
  /\ shown' = [shown EXCEPT ![b] = Nobody]
  /\ UNCHANGED <<users, clock, cookie, used, refused>>

(* Mutant: without a valid token /login redirects to itself.               *)
GetLoginRedirects(b) ==
  /\ at[b] = "/login"
  /\ at' = [at EXCEPT ![b] = IF JwtValidate(cookie[b]) THEN "/accounts" ELSE "/login"]
  /\ UNCHANGED <<users, clock, cookie, shown, used, refused>>

(* GET /login: with a valid token, off to the accounts.                    *)
GetLogin(b) ==
  /\ at[b] = "/login"
  /\ at' = [at EXCEPT ![b] = IF JwtValidate(cookie[b]) THEN "/accounts" ELSE "page"]
  /\ UNCHANGED <<users, clock, cookie, shown, used, refused>>

(* GET /accounts: the page of the payload's sub, or off to the login.      *)
GetAccounts(b) ==
  /\ at[b] = "/accounts"
  /\ IF Auth(cookie[b])
     THEN /\ at' = [at EXCEPT ![b] = "page"]
          /\ shown' = [shown EXCEPT ![b] = Parsed(cookie[b], "sub")]
     ELSE /\ at' = [at EXCEPT ![b] = "/login"]
          /\ UNCHANGED shown
  /\ UNCHANGED <<users, clock, cookie, used, refused>>

(* Time passes; browsers drop the cookies whose age is over.               *)
Tick ==
  /\ clock < MaxClock
  /\ clock' = clock + 1
  /\ cookie' = [b \in Browsers |->
                  IF cookie[b].gone < clock' THEN NoCookie ELSE cookie[b]]
  /\ UNCHANGED <<users, at, shown, used, refused>>

Next ==
  \/ \E b \in Browsers :
       \/ Register(b) \/ RegisterRefused(b) \/ Login(b)
       \/ Visit(b) \/ GetLogin(b) \/ GetAccounts(b)
  \/ Tick

Spec == Init /\ [][Next]_vars

(* A browser follows redirects by itself.                                  *)
FairSpec == Spec /\ \A b \in Browsers : WF_vars(GetLogin(b) \/ GetAccounts(b))

-----------------------------------------------------------------------------
(* Properties.                                                             *)

(* The users whose cpf and password a browser last logged in with.         *)
LoggedInAs(b) ==
  {u \in DOMAIN users : users[u].cpf = used[b].cpf /\ users[u].pwd = used[b].pwd}

Says(name, key) == Places(name, key) # {}

(* A browser shows the accounts page of a user only after it logged in     *)
(* with that user's cpf and password, whoever registered, logged in or ran *)
(* out of time since. The page is another one only for a customer whose    *)
(* own name reads as a sub, since the last sub of the payload counts.      *)
ShowsOwn ==
  \A b \in Browsers : shown[b] # Nobody =>
    \E u \in LoggedInAs(b) : shown[b] = u \/ Says(users[u].name, "sub")

(* Nobody is shown an accounts page by an expired token, however long the  *)
(* cookie outlives it, unless the customer's own name reads as an exp,     *)
(* which jwt_validate finds before the token's.                            *)
ExpiredTokenShowsNothing ==
  [][\A b \in Browsers :
       shown'[b] # shown[b] /\ shown'[b] # Nobody =>
         clock <= cookie[b].exp \/ Says(cookie[b].name, "exp")]_vars

(* Somebody registered the same cpf before.                                *)
Twin(u) == \E v \in DOMAIN users : v < u /\ users[v].cpf = users[u].cpf

(* Whoever registered a cpf first can log in with what they registered     *)
(* with, provided the password is short enough for the login form and no   *)
(* row of the table is torn: login finds the older of two rows with one    *)
(* cpf, and nobody's once a tail is the last line it finds.                *)
OwnCredentialsWork ==
  \A u \in refused : Twin(u) \/ users[u].pwd.length > 6 \/ Torn

(* register.html:351 asks for at least 8 characters: whoever does as it    *)
(* says, with a cpf of their own, can log in while no row is torn.         *)
AdvisedPasswordWorks ==
  \A u \in refused : users[u].pwd.length >= 8 => Twin(u) \/ Torn

(* Following redirects a browser reaches a page, unless its token is one   *)
(* that /login takes and /accounts does not.                               *)
Looping(b) == JwtValidate(cookie[b]) /\ ~Auth(cookie[b])

Settles == \A b \in Browsers : at[b] # "page" ~> (at[b] = "page" \/ Looping(b))

=============================================================================
