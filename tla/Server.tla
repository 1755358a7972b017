------------------------------- MODULE Server -------------------------------
(***************************************************************************)
(* The accept loop of server.c: one thread that takes a connection, reads  *)
(* once from it, routes the request, runs the middlewares and the handler, *)
(* and closes. Clients connect, send and hang up at any moment. Open file  *)
(* descriptors are modelled by number, because the loop closes client_fd   *)
(* twice on one path and every page leaves its template open. Of the       *)
(* tables only the lines of account_db are here, by kind: list_accounts    *)
(* does not survive all of them. Calls on the tables that fail although a  *)
(* descriptor is free, and what a full disk does to the identities, are in *)
(* Registration.                                                           *)
(***************************************************************************)
EXTENDS Integers, Sequences

CONSTANTS
  Clients,     \* connections; a closed one may be made again
  NoClient,    \* before the first connection
  Requests,    \* the requests clients send
  FdMax,       \* bound: descriptors the process may open beside its stores
  Backlog,     \* bound: cfg.queue_s, connections the kernel holds for accept
  RS_MAX_ROWS, \* rows a result set has room for
  MaxLines,    \* bound: lines of the account table
  Segmented,   \* may the one read return only part of a request?
  Hangups      \* may a client leave before it is answered?

Paths == {"/", "/accounts", "/api/accounts", "/login", "/register",
          "/transfer", "/extract", "/cards", "/payments"}

RequestType ==
  [path   : Paths \cup {"/other"},
   method : {"GET", "get", "POST", "post", "PUT"},
   token  : {"none", "bad", "good"},   \* the token cookie, as jwt_validate finds it
   form   : BOOLEAN,                   \* the body holds a key=value pair
   ctype  : BOOLEAN]                   \* there is a Content-Type header

Blank(path) ==
  [path |-> path, method |-> "GET", token |-> "none", form |-> FALSE, ctype |-> FALSE]

NoRequest == Blank("(nothing)")
BadLine   == Blank("(bad request line)")

ASSUME ServerAssumption ==
  /\ NoClient \notin Clients /\ Clients \cap {"free", "template"} = {}
  /\ Requests \subseteq RequestType \cup {BadLine}
  /\ FdMax \in Nat \ {0} /\ Backlog \in Nat \ {0}
  /\ RS_MAX_ROWS \in Nat /\ MaxLines \in Nat
  /\ Segmented \in BOOLEAN /\ Hangups \in BOOLEAN

VARIABLES
  pc,        \* where start() is, or "dead"
  backlog,   \* connections accept has not taken yet
  fds,       \* what each descriptor number is open on
  fd,        \* client_fd
  cur,       \* the connection accept returned
  req,       \* the request as parsed from what read returned
  params,    \* body_query_params_list: "none", "held" or "freed"
  conn,      \* each connection: "none", "queued", "open", "closed"
  sent,      \* the request each client sent
  gone,      \* clients that closed their end
  answers,   \* status lines each client received
  accounts   \* lines of account_db: "row", or "tail" of a torn row

server  == <<pc, backlog, fds, fd, cur, req, params, accounts>>
clients == <<conn, sent, gone, answers>>
vars    == <<server, clients>>

-----------------------------------------------------------------------------
(* Routes and descriptors.                                                 *)

Protected == {"/accounts", "/api/accounts", "/transfer", "/extract", "/cards", "/payments"}

Allowed(path) == IF path \in {"/", "/accounts"} THEN {"GET"} ELSE {"GET", "POST"}

(* get_route compares with strcasecmp, the handlers with strcmp.           *)
AnyCase(methods) ==
  methods \cup (IF "GET" \in methods THEN {"get"} ELSE {})
          \cup (IF "POST" \in methods THEN {"post"} ELSE {})

Free == {n \in 1 .. FdMax : fds[n] = "free"}
Lowest == CHOOSE n \in Free : \A m \in Free : n <= m

(* What the single read can return: all of the request; all but its body;  *)
(* a request line whose headers have no end, which are dropped; less.      *)
Delivered(r) ==
  IF Segmented /\ r # BadLine
  THEN {r, BadLine,
        [r EXCEPT !.form = FALSE],
        [r EXCEPT !.form = FALSE, !.ctype = FALSE, !.token = "none"]}
  ELSE {r}

Init ==
  /\ pc = "accept" /\ backlog = <<>>
  /\ fds = [n \in 1 .. FdMax |-> "free"]
  /\ fd = 0 /\ cur = NoClient /\ req = NoRequest /\ params = "none"
  /\ conn = [c \in Clients |-> "none"]
  /\ sent = [c \in Clients |-> NoRequest]
  /\ gone = {}
  /\ answers = [c \in Clients |-> <<>>]
  /\ accounts = <<>>

-----------------------------------------------------------------------------
(* Clients.                                                                *)

Connect(c) ==
  /\ conn[c] \in {"none", "closed"} /\ pc # "dead" /\ Len(backlog) < Backlog
  /\ backlog' = Append(backlog, c)
  /\ conn' = [conn EXCEPT ![c] = "queued"]
  /\ sent' = [sent EXCEPT ![c] = NoRequest]
  /\ gone' = gone \ {c}
  /\ answers' = [answers EXCEPT ![c] = <<>>]
  /\ UNCHANGED <<pc, fds, fd, cur, req, params, accounts>>

Send(c, r) ==
  /\ conn[c] \in {"queued", "open"} /\ c \notin gone /\ sent[c] = NoRequest
  /\ sent' = [sent EXCEPT ![c] = r]
  /\ UNCHANGED <<server, conn, gone, answers>>

Leave(c) ==
  /\ conn[c] \in {"queued", "open"} /\ c \notin gone
  /\ Hangups \/ sent[c] = NoRequest
  /\ gone' = gone \cup {c}
  /\ UNCHANGED <<server, conn, sent, answers>>

-----------------------------------------------------------------------------
(* The loop.                                                               *)

Accept ==
  /\ pc = "accept" /\ backlog # <<>> /\ Free # {}
  /\ pc' = "read"
  /\ cur' = Head(backlog) /\ backlog' = Tail(backlog)
  /\ fd' = Lowest /\ fds' = [fds EXCEPT ![Lowest] = cur']
  /\ conn' = [conn EXCEPT ![cur'] = "open"]
  /\ UNCHANGED <<req, params, sent, gone, answers, accounts>>

(* Mutant: the result of accept is not checked.                            *)
AcceptUnchecked ==
  /\ pc = "accept" /\ backlog # <<>> /\ Head(backlog) \in gone
  /\ pc' = "read" /\ fd' = -1
  /\ backlog' = Tail(backlog)
  /\ conn' = [conn EXCEPT ![Head(backlog)] = "closed"]
  /\ UNCHANGED <<fds, cur, req, params, sent, gone, answers, accounts>>

(* ECONNABORTED: the client hung up in the queue and accept fails; the     *)
(* loop goes round. (EMFILE cannot happen: see NoSocketLeft.)              *)
AcceptFails ==
  /\ pc = "accept" /\ backlog # <<>> /\ Head(backlog) \in gone
  /\ fd' = -1
  /\ backlog' = Tail(backlog)
  /\ conn' = [conn EXCEPT ![Head(backlog)] = "closed"]
  /\ UNCHANGED <<pc, fds, cur, req, params, sent, gone, answers, accounts>>

(* close(client_fd), whatever the number is open on by now.                *)
Close ==
  /\ fds' = [fds EXCEPT ![fd] = "free"]
  /\ conn' = IF fds[fd] \in Clients THEN [conn EXCEPT ![fds[fd]] = "closed"] ELSE conn

(* Mutants: the early continue forgets the close; a read that returns      *)
(* nothing is tried again.                                                 *)
ReadEofKeepsOpen ==
  /\ pc = "read" /\ sent[cur] = NoRequest /\ cur \in gone
  /\ pc' = "accept"
  /\ UNCHANGED <<backlog, fds, fd, cur, req, params, clients, accounts>>

ReadEofRetries ==
  /\ pc = "read" /\ sent[cur] = NoRequest /\ cur \in gone
  /\ UNCHANGED vars

ReadEof ==
  /\ pc = "read" /\ sent[cur] = NoRequest /\ cur \in gone
  /\ pc' = "accept"
  /\ Close
  /\ UNCHANGED <<backlog, fd, cur, req, params, sent, gone, answers, accounts>>

(* Mutant: struct HttpRequest is not zeroed for the next request.          *)
ReadRequestStale ==
  /\ pc = "read" /\ sent[cur] # NoRequest
  /\ req' \in Delivered(sent[cur])
  /\ pc' = "route"
  /\ UNCHANGED <<params, backlog, fds, fd, cur, clients, accounts>>

ReadRequest ==
  /\ pc = "read" /\ sent[cur] # NoRequest
  /\ req' \in Delivered(sent[cur])
  /\ params' = "none"
  /\ pc' = "route"
  /\ UNCHANGED <<backlog, fds, fd, cur, clients, accounts>>

(* A response is one or two writes: the second raises SIGPIPE when the     *)
(* client has closed its end, and nothing catches it.                      *)
Respond(status, next) ==
  /\ answers' = IF fds[fd] = cur /\ cur \notin gone
                THEN [answers EXCEPT ![cur] = Append(@, status)] ELSE answers
  /\ \/ pc' = next
     \/ cur \in gone /\ pc' = "dead"
  /\ UNCHANGED <<backlog, fd, cur, req, conn, sent, gone>>

(* Mutant: a method that is not allowed is closed without a response.      *)
UnroutableNo405 ==
  /\ pc = "route"
  /\ \/ req = BadLine /\ Respond(400, "end")
     \/ /\ req # BadLine /\ req.path \notin Paths
        /\ Respond(404, "end")
     \/ /\ req # BadLine /\ req.path \in Paths
        /\ req.method \notin AnyCase(Allowed(req.path))
        /\ pc' = "end"
        /\ UNCHANGED <<backlog, fd, cur, req, clients>>
  /\ UNCHANGED <<fds, params, accounts>>

Unroutable ==
  /\ pc = "route"
  /\ \/ req = BadLine /\ Respond(400, "end")
     \/ /\ req # BadLine /\ req.path \notin Paths
        /\ Respond(404, "end")
     \/ /\ req # BadLine /\ req.path \in Paths
        /\ req.method \notin AnyCase(Allowed(req.path))
        /\ Respond(405, "end")
  /\ UNCHANGED <<fds, params, accounts>>

(* get_route finds the route; decode_url_middleware keeps the parameters.  *)
Route ==
  /\ pc = "route" /\ req # BadLine
  /\ req.path \in Paths /\ req.method \in AnyCase(Allowed(req.path))
  /\ params' = IF req.form THEN "held" ELSE "none"
  /\ pc' = IF req.path \in Protected THEN "auth" ELSE "handler"
  /\ UNCHANGED <<backlog, fds, fd, cur, req, clients, accounts>>

Authorized ==
  /\ pc = "auth" /\ req.token = "good"
  /\ pc' = "handler"
  /\ UNCHANGED <<backlog, fds, fd, cur, req, params, clients, accounts>>

(* Mutant: the handler runs after the redirect.                            *)
UnauthorizedGoesOn ==
  /\ pc = "auth" /\ req.token # "good"
  /\ Respond(302, "handler")
  /\ UNCHANGED <<fds, params, accounts>>

Unauthorized ==
  /\ pc = "auth" /\ req.token # "good"
  /\ Respond(302, "close")
  /\ UNCHANGED <<fds, params, accounts>>

-----------------------------------------------------------------------------
(* Handlers.                                                               *)

IsForm == req.path \in {"/login", "/register"} /\ req.method = "POST"

LoggedIn == req.path = "/login" /\ req.method = "GET" /\ req.token = "good"

IsPage ==
  \/ req.path \in {"/", "/accounts", "/cards", "/payments"}
  \/ req.path \in {"/login", "/register"} /\ req.method = "GET" /\ ~LoggedIn

(* transfer.html and extract.html are not in the templates directory.      *)
IsMissing == req.path \in {"/transfer", "/extract"}

IsSilent == req.path \in {"/login", "/register"} /\ req.method \in {"get", "post"}

ReadsFile == IsPage \/ IsForm \/ (req.path = "/api/accounts" /\ req.method = "GET")

(* list_accounts, for the API and again for the page that shows no list.   *)
(* It takes strlen of a column a line lacks when a tail stands before the  *)
(* last line, whose column count is used for all; rows past RS_MAX_ROWS    *)
(* are written behind result_data, and what that does nobody knows.        *)
ListsAccounts == req.path = "/accounts" \/ (req.path = "/api/accounts" /\ req.method = "GET")
LineTooShort ==
  \E i, j \in DOMAIN accounts : accounts[i] = "tail" /\ j = Len(accounts) /\ accounts[j] = "row"
Overflows == Len(accounts) > RS_MAX_ROWS

(* load_template_to_string never closes the template.                      *)
Page ==
  /\ pc = "handler" /\ IsPage /\ Free # {}
  /\ ~ (ListsAccounts /\ LineTooShort)
  /\ fds' = [fds EXCEPT ![Lowest] = "template"]
  /\ Respond(200, "end")
  /\ UNCHANGED <<params, accounts>>

(* What make_new_user leaves in the account table: a row, a torn one, or   *)
(* nothing when the insert failed.                                         *)
Registered ==
  /\ accounts' \in {accounts, Append(accounts, "row"), accounts \o <<"row", "tail">>}
  /\ Len(accounts') <= MaxLines

(* login or make_new_user: 302 on success. The answer 400 may come from    *)
(* the check of the fields, before any file is opened.                     *)
Form ==
  /\ pc = "handler" /\ IsForm /\ req.ctype
  /\ \/ Respond(400, "end") /\ UNCHANGED accounts
     \/ /\ req.path = "/login" /\ Free # {}
        /\ \E status \in {302, 401} : Respond(status, "end")
        /\ UNCHANGED accounts
     \/ /\ req.path = "/register" /\ Free # {}
        /\ Respond(302, "end") /\ Registered
  /\ UNCHANGED <<fds, params>>

RedirectLoggedIn ==
  /\ pc = "handler" /\ LoggedIn
  /\ Respond(302, "end")
  /\ UNCHANGED <<fds, params, accounts>>

(* A method in lower case leaves the status line of zeros.                 *)
Api ==
  /\ pc = "handler" /\ req.path = "/api/accounts"
  /\ \/ req.method = "GET" /\ Free # {} /\ ~ LineTooShort /\ Respond(200, "end")
     \/ req.method = "POST" /\ Respond(204, "end")
     \/ req.method \in {"get", "post"} /\ Respond(0, "end")
  /\ UNCHANGED <<fds, params, accounts>>

Silent ==
  /\ pc = "handler" /\ IsSilent
  /\ pc' = "end"
  /\ UNCHANGED <<backlog, fds, fd, cur, req, params, clients, accounts>>

(* A NULL template, Content-Type, FILE or column is used.                  *)
HandlerFaults ==
  /\ pc = "handler"
  /\ \/ IsMissing \/ (IsForm /\ ~req.ctype) \/ (ReadsFile /\ Free = {})
     \/ ListsAccounts /\ (LineTooShort \/ Overflows)
  /\ pc' = "dead"
  /\ UNCHANGED <<backlog, fds, fd, cur, req, params, clients, accounts>>

-----------------------------------------------------------------------------
(* end_client_conn: free the parameters, without clearing their count, and *)
(* close. A request stopped by a middleware comes here twice (server.c:89  *)
(* and 99); freeing twice aborts the process.                              *)

Release ==
  /\ params # "freed"
  /\ params' = IF params = "held" THEN "freed" ELSE params
  /\ Close
  /\ UNCHANGED <<backlog, fd, cur, req, sent, gone, answers, accounts>>

(* Mutant: the else of server.c:90 is dropped, so the handler runs between *)
(* the two closes.                                                         *)
EndStoppedThenHandler ==
  /\ pc = "close"
  /\ pc' = "handler"
  /\ Release

EndStopped ==
  /\ pc = "close"
  /\ pc' = "end"
  /\ Release

End ==
  /\ pc = "end"
  /\ pc' = "accept"
  /\ Release

DoubleFree ==
  /\ pc = "end" /\ params = "freed"
  /\ pc' = "dead"
  /\ UNCHANGED <<backlog, fds, fd, cur, req, params, clients, accounts>>

(* Somebody starts the program again; the kernel has closed everything.    *)
Restart ==
  /\ pc = "dead"
  /\ pc' = "accept" /\ backlog' = <<>>
  /\ fds' = [n \in 1 .. FdMax |-> "free"]
  /\ fd' = 0 /\ cur' = NoClient /\ req' = NoRequest /\ params' = "none"
  /\ conn' = [c \in Clients |-> IF conn[c] = "none" THEN "none" ELSE "closed"]
  /\ UNCHANGED <<sent, gone, answers, accounts>>

Loop ==
  \/ Accept \/ AcceptFails \/ ReadEof \/ ReadRequest \/ Unroutable \/ Route
  \/ Authorized \/ Unauthorized
  \/ Page \/ Form \/ RedirectLoggedIn \/ Api \/ Silent \/ HandlerFaults
  \/ EndStopped \/ End \/ DoubleFree

Next ==
  \/ \E c \in Clients : Connect(c) \/ Leave(c) \/ \E r \in Requests : Send(c, r)
  \/ Loop \/ Restart

Spec == Init /\ [][Next]_vars

(* The thread runs. The code has no timeout, so that a connected client    *)
(* sends something or leaves is an assumption about clients.               *)
PatientClients ==
  \A c \in Clients : WF_vars(Leave(c) \/ \E r \in Requests : Send(c, r))

FairSpec == Spec /\ WF_vars(Loop) /\ PatientClients

-----------------------------------------------------------------------------
(* Properties.                                                             *)

TypeOK ==
  /\ pc \in {"accept", "read", "route", "auth", "handler", "close", "end", "dead"}
  /\ backlog \in Seq(Clients) /\ Len(backlog) <= Backlog
  /\ fds \in [1 .. FdMax -> Clients \cup {"free", "template"}]
  /\ fd \in -1 .. FdMax
  /\ pc \notin {"accept", "dead"} => fd \in 1 .. FdMax
  /\ cur \in Clients \cup {NoClient}
  /\ req \in RequestType \cup {BadLine, NoRequest}
  /\ params \in {"none", "held", "freed"}
  /\ conn \in [Clients -> {"none", "queued", "open", "closed"}]
  /\ sent \in [Clients -> Requests \cup {NoRequest}]
  /\ gone \subseteq Clients
  /\ answers \in [Clients -> Seq({0, 200, 204, 302, 400, 401, 404, 405})]
  /\ accounts \in Seq({"row", "tail"}) /\ Len(accounts) <= MaxLines

(* Without a good token a protected route answers with a redirect or an    *)
(* error, whatever part of the request arrived and whoever came before.    *)
AuthGate ==
  \A c \in Clients :
    /\ sent[c] \notin {NoRequest, BadLine}
    /\ sent[c].path \in Protected /\ sent[c].token # "good"
    => \A i \in DOMAIN answers[c] : answers[c][i] \in {302, 400, 405}

(* A live server does not close the connection of a waiting client without *)
(* a response, except for a method in lower case on /login and /register.  *)
AnsweredBeforeClose ==
  [][\A c \in Clients :
       /\ conn[c] = "open" /\ conn'[c] = "closed" /\ pc # "dead"
       /\ sent[c] # NoRequest /\ c \notin gone
       => \/ answers[c] # <<>>
          \/ /\ sent[c].path \in {"/login", "/register"}
             /\ sent[c].method \in {"get", "post"}]_vars

(* Back at accept no descriptor is left on a client: whatever stopped the  *)
(* request, its socket was closed. Only templates pile up, and the page    *)
(* that takes the last descriptor but one is the last page, so that accept *)
(* always has one and does not fail for ever with a queue nobody serves.   *)
NoSocketLeft ==
  pc = "accept" => Free # {} /\ \A n \in DOMAIN fds : fds[n] \notin Clients

(* The second close of a stopped request finds the number still free: no   *)
(* connection or file was given it since the first.                        *)
ClosesOwn == pc \in {"close", "end"} => fds[fd] \in {cur, "free"}

(* A connection in the queue is served and closed, unless the process      *)
(* dies; a client that sends nothing delays it only until it leaves.       *)
QueueServed ==
  \A c \in Clients : conn[c] = "queued" ~> (conn[c] = "closed" \/ pc = "dead")

(* The requests that end the process whoever sends them: a missing         *)
(* template, a form without a Content-Type, and a form for a protected     *)
(* page from somebody not logged in, whose parameters are freed twice.     *)
Lethal(r) ==
  \/ r.path \in {"/transfer", "/extract"} /\ r.token = "good"
  \/ r.path \in {"/login", "/register"} /\ r.method = "POST" /\ ~ r.ctype
  \/ r.path \in Protected /\ r.form /\ r.token # "good"

(* Clients that send whole requests, none of them lethal, and wait.        *)
GoodClients == ~ Segmented /\ ~ Hangups /\ \A r \in Requests : ~ Lethal(r)

(* Good clients do not kill the server as long as a descriptor is free for *)
(* the handler and the account table can be listed: it has no more rows    *)
(* than a result set, and no row after a torn one.                         *)
StaysAlive == pc = "dead" => Free = {} \/ LineTooShort \/ Overflows

=============================================================================
