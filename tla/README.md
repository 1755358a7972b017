# A verification project for cbank_system

cbank_system is a small bank in C: an HTTP server of one thread that serves
pages, registers customers, logs them in with a signed token, and keeps users,
accounts and id counters in text files. This directory holds TLA+ models of it,
the TLC configurations that check them, and proofs checked by TLAPS. Paths below
are relative to the repository's own `src/`.

## 1. The system

| Component | State it keeps | Operations | What makes it correct |
|---|---|---|---|
| data stores (`data/store.c`) | four open streams; the files `user_db`, `account_db`, `transaction_db`, `id_tracker_db`; the temporary `id_tracker_tmp.db` | `setup_stores`, `get_next_identity`, `updt_next_identity` | a counter is handed out once and never goes back; the open stream and the path name the same file |
| id tracker (`data/id_tracker_store.c`) | a line per table in `id_tracker_db` | `initialize_id_tracker_if_needed` | a counter is created once and never reset |
| queries (`orm/`) | none between calls | `select_executor`, `apply_select_where`, `insert_query_executor` | a row is written whole; a condition selects the rows that satisfy it |
| mapping (`data/user_store.c`, `data/acc_store.c`) | none | look-up by field, mounting a row | the row found is the one meant |
| users and accounts (`core/user.c`, `core/acc.c`) | none; the files are the state | `make_new_user`, `make_new_account`, `list_accounts` | one user per e-mail, one account per user, what is acknowledged is stored |
| login (`core/auth.c`, `api/schemas/`) | none | `login`, `validate_login_schema` | whoever registered can log in, nobody else can |
| tokens (`jwt/`) | none; the token is in the browser | `create_jwt_for_user`, `jwt_validate`, `parse_jwt_payload`, base64url | a token comes back as it was made and is refused after its time |
| accept loop (`server/server.c`) | the listening socket, one `client_fd`, one request and response | `start`, `end_client_conn` | every connection is answered at most once and closed; descriptors are not lost or confused |
| parser (`server/http_parser.c`) | headers, cookies and parameters of one request | `parse_req_*`, `urldecode`, `free_*` | nothing of one request reaches the next |
| router (`server/router.c`, `server/routes.h`) | the route registry | `register_route`, `get_route`, `send_http_response` | a protected route is reached only through `auth_middleware` |
| handlers and middlewares (`api/`) | none | one per route | the method and the token decide the answer |
| template engine (`render/engine.c`) | descriptors it does not close | `load_template_to_string`, `render_template` | what it opens it closes (it does not) |
| JSON builder (`core/json_builder.c`) | one buffer, `offset`, `is_first` | `json_start_*`, `json_add_*`, `json_end_*` | commas where they belong, nothing printed outside of the buffer |
| secrets (`secret/manager.c`), `read_line` | the environment table | `load_env`, `get_env` | the first definition counts; buffers grow in time |
| start-up (`main.c`) | none | `main` | whatever could not be loaded or registered, the server comes up and keeps the gate |
| logger, other utilities | none | formatting | |

Interaction is by call, in one thread: `main` sets up the stores and the routes
and enters `start`, which accepts a connection, reads from it once, routes the
request, runs the middlewares and the handler, and closes. The handlers for
`/register`, `/login`, `/accounts` and `/api/accounts` reach the files. State is
shared through files, through the global `stores`, and through the token that a
browser brings back.

What is hard here is not parallelism inside the process but what surrounds it:

- **crashes and restarts** between the system calls of one registration
  (`watch.sh` kills and restarts the server on every edit; several requests make
  it fault, after which it stays down until somebody starts it or edits a file);
- **calls that fail** and whose result nobody looks at;
- **state read twice by two ways**: the tracker through its path and through an
  open stream, the new user's id through the disk;
- **rows that are not rows**: `get_fmt_now` returns a buffer that is dead, so
  what follows `created_at=` is whatever is there (the second row of the
  repository's own `stores/user_db` stops in the middle of a time), and a newline
  in it splits the row;
- **clients** that send late, partly, or nothing, or hang up;
- **descriptors**: one is leaked per page, one is closed twice per refused
  request;
- **time**: token, cookie and redirects;
- **texts written as they are**: a customer's name goes unescaped into the payload
  of the token, whose two readers look for claims in different ways;
- **a second process** started beside the first, which initialises the same files
  before its `bind` fails;
- **sizes**: lines, forms, cookies, pages and documents at, before and behind the
  end of the array they are copied to, and memory that is refused while one grows.

The hazards are listed one by one, with their lines, in `PROJECT.json`.

## 2. The modules

| Module | Models | Composes / refines |
|---|---|---|
| `Bank` | what registration promises, with no file | |
| `Registration` | `setup_stores`, `make_new_user`, `make_new_account`, `updt_next_identity`, by system call, with crashes and failures | refines `Bank` |
| `RegistrationProofs` | theorems about `Registration`, and that it implements `Bank` | extends it |
| `IdTracker` | the tracker's lines, inodes and streams for several processes | the file under `Registration`'s counters |
| `TrackerProofs` | theorems about `IdTracker` | extends it |
| `Server` | the accept loop, its clients and the descriptor table | |
| `ServerProofs` | theorems about `Server` | extends it |
| `Session` | registration, login, tokens, cookies and redirects of several browsers | takes unique ids from `Registration` |
| `SessionProofs` | theorems about `Session` | extends it |
| `Secrets` | `load_env`, `read_line`, `get_env` | |
| `RouteRegistry` | `register_route`, `get_route` | |
| `StartUp` | `main` | composes `Secrets` and `RouteRegistry` |
| `StartUpProofs` | theorems about `Secrets`, `RouteRegistry` and `StartUp` | extends the last |
| `SelectQuery` | `SELECT` over lines, result sets, `list_accounts` | |
| `JsonBuilder` | the builder's operations, as operators | |
| `Listing` | `GET /api/accounts` | composes `SelectQuery` and `JsonBuilder` |
| `ListingProofs` | theorems about `SelectQuery` and the builder as `Listing` uses them | extends `Listing` |
| `Places` | `Ordered`, the numbers of a set in their order: where `strtok_r` finds the parts of a text | used by `RequestLine` and `Form` |
| `RequestLine` | `parse_req_line` over a stale buffer | |
| `Request` | headers, cookies and the body, and their look-up | |
| `Form` | the registration form from the browser to the user read back | |
| `Base64` | both directions of the coding of a token's parts | |
| `Template` | `render_template` and `add_body` | |
| `MCExchange` | the instance of `RequestLine`, `Request`, `Form`, `Base64` and `Template`, stage by stage | one exchange |
| `ExchangeProofs` | theorems about the same five | extends the five |
| `Ranks` | lemmas on the least of a set of numbers, on how many were passed, and on sequences put together of others | used by `ExchangeProofs` and `ListingProofs` |
| `MCRegistration`, `MCIdTracker`, `MCServer`, `MCSession`, `MCStartUp`, `MCListing` | instances for TLC | |

### Registration

`users` and `accounts` are the lines of the two tables, each with only the columns
the properties need. `tracker`, `tmp` and `stream` are the counters in the file
that the path `id_tracker_db` names, in the temporary file, and in the file that
the open stream reads. After `rename` the stream still reads the deleted file,
so `stream` and `tracker` differ until `Reopen`.

`pc` names the next call that matters to a file. The path of one registration is

    Submit, Accept, GetNextIdentity, Insert, WriteTmp, Remove, Rename, Reopen,
    Reselect, GetNextIdentity, Insert, WriteTmp, Remove, Rename, Reopen, Reply

the first half for the user table and the second for the account table. Code
between two such calls touches only locals, so it is folded into the step before
it. Faults are actions of their own: `Crash` at any point, `InsertFails` (the
table cannot be opened), `WriteTmpFails` (the temporary file cannot be opened),
`WriteTmpFull` (it is opened, but the disk is full: `fclose` fails, and an empty
file is renamed to the tracker) and `InsertTorn` (the dead date buffer holds a
newline). `harmed` records which kind of damage has happened, so that a property
can say "unless a counter was lost"; it is never read by an action.

Undefined behaviour is a choice: the torn row is one outcome of the dead buffer,
the whole row the other. `get_row_col_value` without a row falls off its end: what
it leaves behind is printed as an id that is no number (`NoId`), or kills the
process (`NoIdentity`). `IdentityDefined` shows that this takes a full disk.

A fault sets `harmed` at the step where it does damage. A crash does none before
the insert or after the rename; between the insert and the removal it leaves an
id that is in a row and not consumed ("stale"); between removal and rename it
leaves no tracker ("lost"). A full disk leaves an empty one ("empty"), of which the
open stream learns at `Reopen`.

`Start` is somebody starting the process again; nothing promises that it
happens, since `entr -r` waits for the next edit.

What the accounts page shows is `AccountShown`: `full_line` prints the first match
with the column count of the last, and `mount_acc_from_line_buf` wants every column, so
a number is shown only when both lines are whole. After a torn account row the last
match is its tail, and nobody is shown a number any more.

### Server

One action per call of the loop or per handler. `fds` says what each descriptor number
is open on; `Close` closes the number in `client_fd`, whatever it is by now. The kernel
gives the lowest free number. `Delivered` is what the single `read` can return of a
request: all of it, all but the body, a request line whose header block has no end (then
`parse_req_headers` asks `malloc` for a size near `SIZE_MAX`, gets nothing, and the
headers are dropped), or not even that. `Respond` is one or two writes; when the client
has gone the second may kill the process. A request stopped by a middleware passes
`end_client_conn` twice: `EndStopped`, then `End` or `DoubleFree`. `accounts` is the
account table, of whose lines only the kind counts: a row, or the tail of a torn one; a
registration that is accepted (`Registered`) leaves a row, a torn one, or nothing. A
form may be answered 400 with no descriptor free, since its fields are checked before a
file is opened. `HandlerFaults` is the use of a NULL pointer: a template that is not in
the repository (`transfer.html`, `extract.html`), a form without Content-Type, any file
when no descriptor is left, or a listing of the accounts when a tail stands before the
last line (`LineTooShort`, whose `strlen` gets NULL) or when there are more rows than a
result set holds (`Overflows`: they are written behind it, and the process may die of
that or not). That of the descriptors ends the process before `accept` itself could run
out of descriptors (the first half of `NoSocketLeft`), so the only failure of `accept`
is that of a client that hung up in the queue (`AcceptFails`). `Restart` is a new
process, which nobody is bound to start.

### Session

One action per request. The user table is ordered by registration. A password is
a word and a length. A name goes into the payload of the token as it is, between
`sub` and `exp`; so it is given by what the readers of the payload find in it, a
sequence of claims and braces, and most names are the empty one. The two readers
differ: `jwt_validate` takes the first `"exp":` there is (`FirstExp`), whereas
`parse_jwt_payload` splits at commas up to the first `}` and lets the last value of
a key count (`Parsed`). Hence a name that reads as a `sub` shows its owner another
customer's accounts, one that reads as an `exp` outlives the token, and one with a brace
hides the token's own `exp`. A claim of a name in the model is one that both readers
take for one.

A registration may leave a torn row (`UserTail`). It matches every cpf, so that login
finds a blank user as long as it is the last line (`Blanked`), which it stays, since it
matches every e-mail too and no registration is accepted after it (`RegisterRefused`).

`at` is where the browser is being redirected to. The signature is assumed to fit
exactly the tokens that the server made. `jwt_validate` reads the payload from a
block it has freed; the allocator overwrites only the first bytes of such a block
and the payload starts 37 bytes in, so the model reads it intact.

### IdTracker

`Registration` has one number per table and one process. `IdTracker` has what is under
that: `files` maps inode numbers to lines, `path` is the inode that the name
`id_tracker_db` means, `stream` the one each process has open. A second process may
start at any moment: it opens (and, with `a+`, creates) the file, looks for a line of
each table (`HasLine`, `LacksLine`) and appends one (`Initialize`), each a step of its
own, and only then tries `Bind`. Whoever holds the port serves. Both processes may
append a line for one table, since the check and the append are two steps;
`updt_next_identity` rewrites every line of the table, which is why the duplicates never
differ (`IdentityReadable`). `WriteTmpFull` is the `fclose` that fails on a full disk:
the temporary file is empty and is renamed all the same. `harmed` has the named kinds of
damage: "stale" (a row whose id was not consumed), "lost" (no tracker), "empty" (the
full disk), "late" (a process that opened the file, waited, and got the port after its
predecessor had replaced the file).

### Secrets, RouteRegistry, StartUp

`Secrets` reads the environment file a character at a time, since the question is
whether the terminator has its place when `len` has just reached `size`. A line is
a name, a value and a width. `Valid` is false for lines without a name or a
value, which `load_env` skips. `OpenFails`, `LineFails`, `CopyFails`, `GrowFails` and
`HideFails` are the refusals of memory and of the file: a line without memory looks like
the end of the file to `load_env`; a refused `realloc` forgets everything that was loaded;
a refused `strdup` leaves a secret without a name or without a value, which nobody
checks. `Hide` prints the secrets as stars: `strlen` of a missing value kills the
process ("dead"), and so does a missing buffer for the stars. A missing name is harmless until
`get_env` passes it (`Killed`).

`RouteRegistry` takes the nine entries of `server/routes.h` as they are, with the
arrays of two methods and two middlewares that `register_route` counts up to the
first `NULL`. `RegisterFails` is a refused `realloc`, which `main` does not notice:
that route is missing and the rest is registered. `get_route` ignores the case
of the method, and the first route with the path decides.

`StartUp` is `main` over both: load, register, serve. `unregistered` and `refused`
are history variables that only the properties read.

### SelectQuery, JsonBuilder, Listing

A line is the sequence of its column=value pairs, so that a torn row is two shorter
lines. `Where` is `apply_select_where`: a line fails only by a pair that contradicts a
condition, so a line without the column passes. `Kept` is what the two loops keep of the
lines and of a line's pairs, in their order. `Execute` has what the code has: rows of
values, one list of names from the first row that matched, one count from the last.
`FullLine`, `LineCrashes` and `GetRowColValue` read it back as the code does; a NULL
name or value is "(null)" to `printf` and a crash to `strlen`. More matching rows than
`RS_MAX_ROWS` are written behind the result set (`Overflows`), and nothing is said of
one. The account table and the queries of `acc_store.c` and `acc.c` stand for all
callers.

`JsonBuilder` has a function from builder to builder per operation of the code.
A document is a sequence of tokens with widths; `kept` is how much of it the
buffer holds and `stray` whether a call printed outside, which happens when
`offset`, the sum of what was wanted, has passed the end and the remaining size is
negative, a huge `size_t`.

`Listing` is the request: select, mount, print, answer. After a stray print, which
lands on `offset` itself, nothing more is said. Its properties compare the
document with the one the table means.

### The exchange: RequestLine, Request, Form, Base64, Template

`RequestLine`: `_tmp_line_buf` keeps its bytes from call to call as far as no other
frame wrote over them (`Left`), and `strncpy` puts no terminator behind the line.
Nothing else puts one there either: `strtok_r` reads on behind the buffer to the first
byte of the stack that is 0, which the constant `STACK` places. `safe_strncpy` cuts the
parts to their fields (8, 256 and 16 bytes in the code). Letters are the number of the
request they came with, so a part that is made of two requests shows. A line of two
parts may be accepted with a third that the stack held, instead of being refused as
malformed; nobody reads the third part.

`Request`: one turn of a parser's loop per action. The Cookie header is split in
place by `strtok_r`, so only its first name stays readable. A name or a value that is longer
than its field is cut (`StoredKey`, `Fitted`): a value of several items may end behind an item,
within its value or within its name, so that cookies at the end of a long Cookie header
are lost. `Disturbed` is the
`realloc` that is given a number of bytes: 40 bytes are two cookies and a half,
and the second time the list keeps the pointer that was freed; what is behind, and
what is stored there later, may be written over or survive. In the instance two
headers of up to three are stored, and the array has three places, of which one
survives.

`Form`: the one module in bytes, since its question is about bytes. `Encoded` is
the browser; `Decoded` splits at `&` and `;`, then at the first `=`, then decodes.
`Parsed` is `snprintf` into the schema, the last value of a name staying.
`user_dto_from_register_acc_schema` is four `strcpy` in the order of the code over
one array of bytes with the fields at their offsets and foreign bytes behind,
so a name that is too long runs over the e-mail, which is then copied over
it. `mount_user_from_line_buf` is the same for `BankUser`, of texts read into buffers of their
own (`ReadSize`); an empty value stores nothing, and what the stack had left in the buffer
(`Leftovers`) is copied instead. The page marks its fields as required, the server
does not ask. The sizes are constants,
which the instance sets to those of the code; `FormAssumption` says how they lie to each
other there.

`Base64`: characters are numbers of the code's table. `ToUrl` and `FromUrl` keep
and add no padding, because both functions compute `strlen` at the terminator. The
behaviours enumerate inputs; the properties compare functions of them.

`Template`: each output character is the place it came from, so that a lost,
doubled or misplaced one shows. The buffer has `Slack` (1024 in the code) more
than the template; the values of the variables must fit in that. When plain text
fills the buffer the loop turns for ever (`CopyChar` has a guard and no
alternative); when a value does not fit it breaks off. `AddBody` copies
the page and some of what `malloc` left behind it, and cuts.

`MCExchange` follows one stage per behaviour. What a stage gets from the one
before is every input of its instance; the stages do not share state.

## 3. What is checked

| Run | Instance | States | Shows |
|---|---|---|---|
| `registration` | 3 customers, all five kinds of fault, at most 2 | 171,585 | `EmailsUnique`, `TailIsLast` and `HandleCurrent` hold whatever fails; `IdentityDefined` unless a full disk emptied the tracker; `IdsUnique` and `OneAccountEach` unless a counter was lost, emptied or left behind; `AckDurable` unless an insert failed or was torn; a counter goes back only when the process died between removal and rename, or when it removes the tracker after a full disk; the whole implements `Bank`; a process comes to its loop unless it dies |
| `registration_ack` | 2 customers, one failed insert | | **violated**: "User created" is said of a user that was not stored |
| `tracker` | 2 processes, 3 ids, 1 crash or full disk | 1,275,536 | no id in two rows, duplicates agree and a counter is readable, unless damaged in a named way; a process that starts changes no counter |
| `server` | 2 connections, 3 descriptors, requests of every kind, partial reads, hang-ups, an account table of one line | 584,588 | authorization, an answer before the close, no socket left open, the second close harmless, always a descriptor for `accept` |
| `server_browser` | 2 connections, 3 descriptors, the pages' own requests, whole and waited for, up to 3 lines of accounts of which a result set holds 2 | 450,417 | the process dies only of leaked descriptors, or of an account table that cannot be listed; a queued connection is served until then |
| `session` | 2 browsers, 2 cpfs, passwords of 6 and 8 characters, names that are plain, read as a `sub` or an `exp`, or hold a brace, torn rows, 2 users, 3 ticks | 276,867 | who is shown whose accounts; who can log in; expiry; redirects end, except with a token that `/login` takes and `/accounts` does not |
| `session_advised` | passwords of 8 characters | | **violated**: a password as long as the page advises never logs in |
| `startup` | files of up to 3 lines, buffers of 2, 9 routes in an array of 8, refusals at any turn | 471,521 | everything written has its place; the first definition and the table's first route count; the server comes to serve unless a secret's value or its stars got no memory |
| `listing` | 3 rows, one torn; 3 rows in a result set; a buffer of 24 | 163,107 | `SELECT` means what SQL says on whole lines and mixes no lines otherwise; an account shown is the customer's own; the listing is whole |
| `exchange` | see below | 758,570 | method and path, headers and token, body, form, page and token coding each arrive as they were sent |
| `base64_padding` | strings to 3 bytes | | **violated**: padding is not removed |
| `form_cpf` | cpfs as the page shows them | | **violated**: the last digits of a masked cpf are lost |

Why these bounds. In `Registration` a damaged property needs one registration to leave a
trace, one more to meet it and a third to tell an accident of order from a rule; two
faults are a crash during the recovery from another, or a torn row beside a damaged
counter, at every pair of calls of three registrations. In `IdTracker` two processes are
the one that serves and the one that starts, in either order; three ids are more than
one account and its user, and one fault suffices for each kind of `harmed`, also for a
process that comes late after one that died between removal and rename. In `Server` two
connections are the one being served and the one behind it, and the loop keeps nothing
of a third; three descriptors are one socket, one leaked page and one more to lose.
Three lines of accounts are a tear before the last line (a row, its tail, a row), and
with room for two also too many; `server`, whose properties are not about the table, has
one. In `Session` two users with two cpfs are the smallest twin, and one of them can be
the other customer that a name speaks of; three ticks pass the expiry of the token and
of the cookie. A second row of a user may be torn as well as the first, so that a tail
stands behind a row of the same cpf and of another.

In `StartUp` a buffer of two characters and lines of up to four make it grow never, once
and twice; a table of two secrets grows with the second; nine routes in eight places are
the repository's own. In `Listing` three rows fit the result set, and with one of them
torn there are four lines, one too many; 24 characters hold every document of one
account, and of those of two some with room to spare, some exactly, and others not. In
`exchange`, `Form` has the code's own sizes, texts of one character less, as many and
more, and a list with room for just the form's four parameters (50 in the code); the
request line fits with up to six characters, which is `a b c` and one more anywhere, and
is too long with seven, parts of two letters are cut to the one that method and path
have room for, and one byte of the stack lies between the buffer and the terminator
behind it; blocks have three lines of which two are stored; a cookie header has up to
six cookies for an array of three, which is reallocated twice, and one of seven is
longer than the field, with the token in what is cut; texts of the form are also empty,
with nothing and with a text longer than the user's fields left on the stack; tokens
have up to five bytes, a whole group and each remainder, of values that set or clear
each boundary bit, and received texts eight characters, two groups with padding wherever
it can be misplaced; pages have up to two holes, and values of up to nine characters for
a slack of three.

Fairness. `Registration`: a process that is not blocked runs (`Initialize`, `Serve`).
Submitting a form and faults are not fair, and neither is `Start`: `watch.sh` is `entr
-r`, which starts the server after an edit and not after its death, so nothing is said
of a process that is down. `Server`: the loop runs, and nobody has to restart it; that a
connected client eventually sends or leaves (`PatientClients`) is an assumption about
clients, and it is needed because `read` has no timeout. With a silent client
`QueueServed` is false, and that is how the code is. `Session`: a browser follows a
redirect. `StartUp`: `main` runs on (`LoadEnv`, `RegisterRoutes`); refusals are not
fair, and a process that died is not started again. `MCExchange`: the rendering loop
runs.

Deadlock is checked except in `startup` (the process may die), `listing` (after a stray
print nothing more is said), `exchange` and `form_cpf` (a stage comes to its end) and
`base64_padding` (the input has its full length).

Each property of a passing run has a mutant, a change of one definition of the
kind a programmer might make, under which TLC finds the property violated.

## 4. What is proved

| Theorem | Module | States |
|---|---|---|
| `TypeCorrect` | `RegistrationProofs` | `Spec => []TypeOK` |
| `EmailsStayUnique` | `RegistrationProofs` | `Spec => []EmailsUnique` |
| `TornTableIsClosed` | `RegistrationProofs` | `Spec => []TailIsLast` |
| `IdentityAlwaysDefined` | `RegistrationProofs` | `Spec => []IdentityDefined` |
| `HandleStaysCurrent` | `RegistrationProofs` | `Spec => []HandleCurrent` |
| `IdsStayUnique` | `RegistrationProofs` | `Spec => []IdsUnique` |
| `OneAccountStays` | `RegistrationProofs` | `Spec => []OneAccountEach` |
| `TablesOnlyGrow` | `RegistrationProofs` | `Spec => AppendOnly` |
| `CountersOnlyAdvance` | `RegistrationProofs` | `Spec => CountersAdvance` |
| `AcknowledgedIsDurable` | `RegistrationProofs` | `Spec => []AckDurable` |
| `FilesImplementBank` | `RegistrationProofs` | `Spec => ImplementsBank`, which is `Bank!Spec` |
| `FilesAreHeld` | `TrackerProofs` | `Spec => []FilesInv`: types, who holds the port and which inodes are in use |
| `OnlyTheServerCounts` | `TrackerProofs` | `Spec => OnlyServerCounts` |
| `IdsAreUnique` | `TrackerProofs` | `Spec => []NoIdTwice` |
| `IdentityIsReadable` | `TrackerProofs` | `Spec => []IdentityReadable` |
| `ServerTypes` | `ServerProofs` | `Spec => []TypeOK` |
| `ProtectedRoutesAreGated` | `ServerProofs` | `Spec => []AuthGate` |
| `SocketsNeverLeak` | `ServerProofs` | `Spec => []NoSocketLeft` |
| `SecondCloseIsHarmless` | `ServerProofs` | `Spec => []ClosesOwn` |
| `WaitingClientsAreAnswered` | `ServerProofs` | `Spec => AnsweredBeforeClose` |
| `GoodClientsKeepItAlive` | `ServerProofs` | with `GoodClients`: `Spec => []StaysAlive` |
| `PagesAreOwn` | `SessionProofs` | `Spec => []ShowsOwn` |
| `FirstOfACpfCanLogIn` | `SessionProofs` | `Spec => []OwnCredentialsWork` |
| `ExpiredTokensAreRefused` | `SessionProofs` | `Spec => ExpiredTokenShowsNothing` |
| `TemplateTypes` | `ExchangeProofs` | `Spec => []TypeOK` |
| `OutputFits` | `ExchangeProofs` | `Spec => []OutFits` |
| `OutputIsPage` | `ExchangeProofs` | `Spec => []RendersPrefix` |
| `CodingIsUndone` | `ExchangeProofs` | `TokenSpec => []RoundTrip` |
| `DecodingFits` | `ExchangeProofs` | `TokenSpec => []DecodeFits` |
| `MethodAndPathArrive` | `ExchangeProofs` | `LineSpec => []MethodAndPath` |
| `FormIsKept` | `ExchangeProofs` | `FormSpec => []FormKept` |
| `HeadersAreFound` | `ExchangeProofs` | `RequestSpec => []HeadersFound` |
| `BodiesAreWhole` | `ExchangeProofs` | `RequestSpec => []BodyWhole` |
| `QueriesSelectRelation` | `ListingProofs` | `Spec => []SelectsRelation` |
| `CustomersFindOwn` | `ListingProofs` | `Spec => []FindsOwn` |
| `ListingIsWhole` | `ListingProofs` | `Spec => []ListingWhole` |
| `StartUpTypes` | `StartUpProofs` | `Spec => []TypeOK` |
| `StartUpAlwaysFits` | `StartUpProofs` | `Spec => []StartUpFits` |
| `FirstCounts` | `StartUpProofs` | `Spec => []FirstDefinition` |
| `TableIsAlwaysServed` | `StartUpProofs` | `Spec => []TableServed` |

**Registration**, for any set of e-mails, any kinds of fault and any number of them.
The only assumption is `FaultAssumption`: `NoEmail` is not an e-mail, the kinds
of fault are among the five, and their bound is a number.

The first five theorems and `TablesOnlyGrow` follow from the inductive invariant
`EmailInv`, with a lemma per action (`AcceptKeepsEmailInv` and so on). Uniqueness alone
is not inductive: an insert keeps it only because the check passed and nothing was
inserted since. `Vetted` says that: from the check to the insert, no line satisfies the
condition on this e-mail. For that no tail may be in the table at that time, so
`TailIsLast` belongs to the invariant, and with it `OnlyTailsLackId` (a line without an
id column is a tail). `Tracked` says where the counters are at each call: unless a
full disk emptied it (`Emptied`), the tracker has a number for every table except
between the removal and the rename, when the temporary file has; and the stream equals
the tracker except from the removal to the reopening. `FormHeld` says that an e-mail is
held while a registration runs. `NatHasLeast` and `IndexHasGreatest` give the first and
last matching lines, for `Reselected`.

`IdsStayUnique`, `OneAccountStays` and `CountersOnlyAdvance` follow from `NumberInv`,
which adds to `EmailInv` what holds of the numbers while no counter was damaged.
`IdsUnique` alone is not inductive: an insert keeps it only if the number it takes is
new. `BelowUsed` says so: every id of a table is below `Used`, which is the table's
counter, or the one after it between the insert and the removal, or the counter of the
temporary file while the tracker is gone. `NextIsCounter` says that the number in hand
is still the counter when it is inserted. `OneAccountEach` needs that the owner has no
account when the account is inserted: `OwnersBelow` says that, while the user's half of
a registration runs, every foreign key is below the new id, and `OwnerWaits` that, once
the user was reselected, its row exists and no account names it. `UserFirst` is the
order of the two halves. All of it holds while `NumbersIntact`, that is while no counter
was left behind, lost or emptied. `IntactBefore` (damage is never repaired) lets a
step's proof use these parts of the state before it, and `SameRows` covers every action
that inserts nothing. `CountersOnlyAdvance` needs `UserFirst` too.

The refinement of `Bank` and `AckDurable` follow from `DurableInv`, which is
`NumberInv` and two facts that hold while every insert wrote a whole line. `InHand`
says what a registration has reached: from the insert of the user to its
reselection its row has the id in hand (while nothing is harmed no row has
an id that is no number, which is `Numbered`); up to the insert of the account it has
the id that was reselected; from then to the answer the customer is `Stored`, so
that the answer acknowledges what is there. `NoTails` keeps `Reselected` from
finding a tail. Acknowledged customers stay stored because tables only grow
(`RowsStay`). Under the mapping the insert of a user is `Admit`, that of an account
`Open`, every step once something is harmed `Degraded`, and the others, crashes
included, stutters. `Bank` has two numbers per client: `account`, that of the row that names the
client first, which never changes, and `shown`, the one the accounts page shows. While nothing
is harmed they are the same (`WholeRows`, `AllShown`); when something is, the page may show
nothing, but never another number (`ShownWhole`, `ShownWholeNext`): the row that a
number is taken from is the client's first, however many columns the last match has.

**IdTracker**, for any finite set of processes, any bound on ids and any number of
faults. (Processes are finite because an unused inode must exist; `AlwaysAFreeFile`
counts them.) The invariant has four layers, each of which uses those before it.
`FilesInv`: who is in the calls of a registration holds the port, who is off has no
stream, and an inode that nobody names is empty; this alone gives `OnlyServerCounts`.
`LinesAgree`: all lines of a table in one file, and in the temporary one, have one
number; it needs `NewLines`, that whoever is about to append a line of 0 finds no other
number there, because the file it looked into cannot be counted under it. `WholeInv`:
which files have a line for every table. A process that has passed a table in
`setup_stores` finds it in its own stream (`SetUp`), the one that serves replaces the
file by a complete one (`Updating`), and a stream that is not the path's file was left
behind by a complete one (`OldStream`), which is what makes a process that binds late
harmless unless the tracker was lost as well. `Fresh`, while nothing is harmed: the
numbers a file shows are past every id issued (`Ahead`), except between the row and the
update, when they show the last one (`Level`), and the number in hand is the counter of
the file (`Counting`). `NoIdTwice` is in `Fresh`, `IdentityReadable` is `LinesAgree`
with `ServerReads`. TLC checked each layer on the instance of `tracker` with two faults
before it was proved.

**Server**, for any clients, any requests, any number of descriptors and places in the
queue (`ServerAssumption`: a client is none of the other things a descriptor is open on,
and the numbers are not zero). `NoSocketLeft` is not inductive: `OneSocket` says that
the only descriptor on a client is `client_fd` on the connection accepted last,
`SocketHeld` that it is open until the first close, and open or free before the second,
which is `ClosesOwn`. `QueuedOnce` keeps a connection from being accepted twice.
`OwnRequest` says that what is routed is a part of what this client sent, that a handler
has one of the nine paths, and that the handler of a protected one has a good token; the
answers given so far are in `AuthGate` itself. `AnswersFollow` says that whoever is
about to be closed was answered, has gone, or sent a method in lower case.
`GoodClientsKeepItAlive` assumes `GoodClients` of the constants; the run
`server_browser` evaluates `BrowserAssumption`, that none of its requests is lethal, and
its configuration sets the other two constants. `StaysAlive` allows a death only with no
descriptor free, or with an account table that has a row after a tail or more lines than
`RS_MAX_ROWS`. The invariant `AliveInv` adds that nobody who asked has left and that a
request stopped by the gate holds no parameters, so that nothing is freed twice.

**Session**, for any browsers, customers, passwords, times and names of any claims and
braces. `SessionInv` says that a token names the user of the login that made it and
carries this user's name (`TokenIsOwn`), and that the page shown is this user's, or
another's when the name reads as a `sub`, although its token may have been dropped since
(`PageIsOwn`). `PayloadPlaces` says where the claims of a payload stand; from it
`SubIsOwn` and `ExpIsOwn`: what the last `sub` and the first `exp` say is what the token
was made with, unless the name has one. `FirstIsLeast` is the look-up by cpf: it finds
the oldest row, which is why only a twin is refused, and nobody else while no row is
torn (`RefusalHasReason`). What makes a token unforgeable is assumed in the model (a
cookie is only ever what the server made), not proved.

**Template**, for any templates, values, slack and body size (`TemplateAssumption`:
a hole lies in its template, is at least four characters long, which are its
braces, and ends before the next begins, since the engine looks for the nearest
closing braces and goes on behind them). `OutFits` is inductive with `TypeOK`: a
character is only copied while one more is free, and a value only when it fits.
`CutFits` says of `strncpy` and the terminator after it that they leave a text
shorter than the body.

`OutputIsPage` relates the loop, which goes forward over a template whose end it does
not know, to `Rendering`, which looks back from every position. `PageInv` adds
to the two above `Outside`, that the pointer is never within a hole; `TurnLooksBack`
is why: the hole that `Rendering` finds behind the next position is the one that
the loop just replaced, and no other, since holes do not overlap. `RenderingTurns`
says that one turn of `Rendering` is one turn of the loop. That the recursive function exists
at all has to be shown first: `RenderingExists` takes the shortest
length for which it would not (`NatHasLeast`) and extends the function for one less.

**RequestLine**, for lines of any shape, any number of requests and any size of the
buffer and of the three fields (`LineAssumption` gives types and says that the stack is
no shorter than the buffer). The invariant `LineInv` asks of the buffer and what lies
behind it only that it holds bytes: what earlier lines left there does not matter,
because there is a byte 0 at the end of `STACK`, so that the text `strtok_r` sees exists
and begins with the whole line (`ReadsLineFirst`). `PartsProlonged` is the core: the
beginnings of a line's parts are the first ones of any text that begins with it, and
each part but the last ends where it did, since the blank behind it is there. Only the
last may go on, and of a line of three parts that is the version. Method and path arrive
as `safe_strncpy` cuts them, and a cut keeps what is the beginning of the other the
beginning of it (`CutsAreOrdered`), which `MethodAndPath` says of the version.

**Form**, for any texts of any bytes but the terminator, and for any sizes that lie to
each other as those of the code do (`FormAssumption`: the longest name the schema lets
through ends within the DTO's e-mail; the schema's cpf and password fit the DTO's fields
and these the user's and the buffers a row is read into; login has registration's sizes;
a hash fits; four parameters are kept; what is left on the stack is a text). `FormInv`
says stage by stage that what is there is what the functions of the code make of what
was typed: `FormBody`, then the four parameters of `Given`, then `Room` of each field,
then the two copies. TLC checked it on the form's stage of `exchange` (4,116 states)
before it was proved. Three steps carry it. `EncodedIsDecoded`: the code of a byte has
no byte that separates, and `urldecode`, standing at its beginning, takes that byte and
goes on behind it (`TurnTakesByte`); so it comes to the end with the text that was
typed, percent signs and escapes typed as such included. `FormTokens`: the body has
separators at three places and nowhere else, so `strtok_r` takes it apart into the four
tokens it was made of, and the first sign of equality of each is the one behind its name
(`TokenComesApart`). `DtoBuilt` and `UserBuilt`: `Holds` says that memory has a text and
its terminator at a place; a copy makes it hold what was copied (`StrcpyHolds`), and one
that ends before a text or begins behind its terminator leaves it held
(`StrcpyElsewhere`). `DtoRoom` and `UserRoom` compare the places: a name that is too
long writes over the e-mail, never over the cpf, and the e-mail is written last, as the
cpf of the user is written after the name. `HeldIsRead` reads them back. `ReadsBack`
takes the text of a field through the buffer it is read into, which holds it whole if it
is not empty; if it is, `FormKept` says of this field nothing, and of the others what it
says otherwise, since the password is copied last.

**Request**, for header blocks of any number of lines, any numbers of headers stored and
of cookies, and any size of the body (`RequestAssumption` gives types only). Nothing is
said of a block of one line, whose value loses its last character. `HeadersInv` says
that the headers stored are the first ones of the block, each as it was sent if it fits
its field and at its `Rank`, the number of lines with a colon up to it (`CopiedIsRow`:
however it is cut, it is a header); that ranks grow (`UptoGrows`) makes the first stored
header of a name the first one sent (`FirstIsFirst`, `HeaderPlace`). It has to say also
that the split of Cookie touches no other header. `CookiesInv` does the same for the
cookies of a header that fits (`CrumbsFit`) with their `Place`, and says which of them
the growing of the array cannot have reached: all while it was never grown, the first
`CookiesLeft` while it was grown once. A place that was written over has no name that
anybody looks up. `BodiesAreWhole` needs that Content-Length is found as it was sent,
which is `HeaderIsSent`.

**Base64**, for strings and texts of any length, whatever the bounds. `CodingIsUndone`
uses that bytes are at most 255 (`TokenAssumption`);
`DecodingFits` assumes nothing, not even that a received character is known to the
code. No step of a behaviour matters here: both say what two functions compute for every
argument, which `TypesHold` bounds to sequences. `GroupsAreJoined` takes `Groups` apart
into a row of strings, each one group longer. `EncodedCharacter` and
`SextetsAreSmall` say what character is at a place; `GroupIsBytes`, that each group decodes
to the bytes it was made of, also the last one with one or two of them and
padding for the rest; `UrlAndBack`, that the two exchanges of characters undo each
other. For the buffer, `GroupLength` says that only
padding in the last two places of a group makes it give less than three bytes, so
that a group before the last that is padded, which no encoder makes, can only shorten
the output, while `OutLen` counts the padding of the last group.

**SelectQuery**, for tables of any length, result sets of any size and any reading of
texts as numbers (`ListingAssumption` gives types only). Nothing is said of a result set
that has more rows than it has room for. The invariant, `SelectInv`, is short: every line is
a row, the first four pairs of one or its fifth, and a result set that is
alive is still `Execute` of its query on the table. The work is in the operators.
`KeptAt` says that `Kept` has an element at a place exactly under the `Upto`, or rank, of
that place, and `ExecuteShape` and `PickedShape` say so of rows and of their values. A row's
columns come in one order, so every row is picked at the same places and the names
of the first fit all (`ValueUnderColumn`); on a row, a condition that is not contradicted holds
(`WhereSatisfies`). With torn rows neither is so. What remains is `FirstRowIsALine`: names
and values of the first row are one line's, and only the number of columns is
another's, which can take columns away or make them NULL. `CustomersFindOwn`
follows: `mount_acc_from_line_buf` wants all five columns, only a whole row has them,
and on that row the condition on `user_id_fk` was compared.

**Listing**, for tables and result sets of any length, a buffer of any size and texts of
any width. `ListInv` says, of a table without torn rows that fits the result set, that
as long as accounts are printed the document is its beginning and the members of the
rows that were taken, one after the other (`Listed`), and that it is the whole
`Document` when the answer is built; TLC checked it on the instance of `listing`. It
rests on the builder: `Sound` says that `offset` is the length of what was said and that
a document which leaves room for the terminator is in the buffer whole, and `Wrote`,
which each operation of the builder keeps (`AddWritten`, `ObjectWritten` and the
others), which words an operation adds. Where a comma comes is in `is_first`, which
every object but the first finds cleared. The document is a flattened sequence:
`FlattenLonger` and `FlattenAppend` of `Ranks` say what one member more does to it,
`LengthGrows` to its length.

**StartUp**, for any file, any table, any first sizes and any refusals
(`SecretsAssumption`, `RegistryAssumption`: the file is a sequence of lines and the
first sizes are not zero). The invariant is `SecretsInv` for the one part and
`RegistryInv` for the other, and each part's step leaves the other's state alone.
`FirstDefinition` is about the end of the loading and not inductive. `SecretsInv`
adds what holds on the way: `Origin`, the first entry of the table under a name, if no
nameless one stands before it, is a copy (`CopyOf`: with its value or with none) of the first
definition of it in the file; `Named`, every definition that was passed has an entry
under its name, unless the table was forgotten or an entry has no name; `Missing`, what is
missing was refused; `ReadOut`, the loading
ends before the end of the file only after a refusal. `KeepKept` is the step that all copies
share. `FirstIsFound` takes the parts together at the end: the value of the first definition,
or after a refusal none, or a process killed by asking.

`TableServed` follows from `RegistryInv`: the array holds routes of the table
(`Registered`), in its order, and all those that were not refused (`InOrder`), and
a request is only answered after all were registered (`ThenAsked`). `Served` is
what `get_route` found for it. `FirstAnswers` is the search for the first route with
the path, and `CountsPlaces` the two loops that count an array up to its first
NULL. They count every entry only if no NULL comes before one: `RegistryAssumption`
says so of the table (`Packed`), as an initializer in `routes.h` that leaves out the rest does,
and that an asked method has a name.

Model-checked only, and why:

- All liveness (`QueueServed`, `Settles`, `ReadyAgain`, `Starts`, `RenderEnds`):
  fairness and `ENABLED` are out of the prover's reach.

Every other property of the passing runs, the safety invariants and the action
properties, is the statement of one of the theorems above.

Where a proof needs an induction over the length of something, it takes the least
counterexample of one fixed property in the well-founded order of the
naturals, which needs no operator as a parameter (`NatHasLeast`, `CountsPlaces`, `RenderingExists`,
`JoinedExists`, `FlattenedExists`, `FromPlaceExists`).

## 5. Findings

1. `core/user.c:60`: the result of the insert is ignored, and the customer is told
   "User created" (`registration_ack`).
2. `api/schemas/login_validation_schema.c:46`: login refuses passwords of more
   than 6 characters, the registration page asks for at least 8
   (`session_advised`).
3. `jwt/base64.c:69`: the comment says padding is removed; it is not
   (`base64_padding`). Decoding makes the opposite mistake, so tokens still
   validate, which is what `RoundTrip` shows.
4. `api/schemas/register_account_validation_schema.c:44`: the page asks for a cpf
   of 14 characters with dots and a dash, the schema has room for 11, so the last
   digits are lost (`form_cpf`). Login cuts in the same place, so its owner still
   logs in (`FormKept`); whoever shares the first nine digits is a twin.

Also visible in the models without contradicting a statement of the repository: a
customer whose cpf is taken is registered and never gets a session (`Twin` in
`OwnCredentialsWork`); a `}` in a name sends the browser round between two pages
(`Looping` in `Settles`); a name that reads as a `sub` shows its owner another
customer's accounts, and one that reads as an `exp` keeps a token valid (`Says` in
`ShowsOwn` and `ExpiredTokenShowsNothing`); a torn user row closes registration for
everybody (`TailIsLast` with `EmailAlreadyRegistered`), and nobody logs in any more
(`Torn` in `OwnCredentialsWork`); a torn account row shows every customer a blank
account as long as it is the last (`AccountShown`), and with a row behind it kills the
process at the next listing, as do more than `RS_MAX_ROWS` accounts at worst
(`StaysAlive`); of more than nineteen cookies the token may be lost, of more than
thirty-nine even the first (`TokenFound`); a full disk during an update of the tracker
empties it, so that a later registration gets an id that is no number or kills the
process (`"empty"` in `IdentityDefined` and `IdentityReadable`); a refused `strdup` of a
secret's value, or `malloc` of its stars, kills the process at start-up (`Starts`); a
cookie behind the end of a long header is lost (`HeaderFits` in `HeadersFound`); more
than a hundred accounts, or some sixty with their texts, are more than a listing holds
(`ListingWhole`).

## 6. What is not modelled

- The logger, the pages' layout and the build.
- HMAC and `crypt`, taken as injective.
- The JSON bodies of `/login` and `/register` (`parse_json_field`): no page sends them.
- The tables of names of `server/http_utils.c` and the header list of a response.
- MAX_COOKIES, which no header that fits its field can reach.
- A text in a user's row that itself looks like a column (`=` or `;` in a name); of what a
  name can do, `Session` has what it does to a token.
- `get_route_render_template`, the page of a route that does not exist: it is an answer like any other
  to `Server` (`Unroutable`).
- `terminate_stores`, `free_route_registry` and `free_secrets`, which come after a
  loop that never ends; in `decode_url_middleware` the parameters of the URL,
  which are never reached, because `get_route` finds no route for a path with
  a `?`.
- Two faults of memory that leave no state these models tell apart: the payload
  read from a freed block (`jwt.c:128`) and the terminator one byte past the message (`jwt.c:33`).

## 7. Plan

Done: the modules of section 2 with their proofs; every safety and action property
of the passing runs has its theorem. Left, in this order:

1. `Registration` over `IdTracker`: the refinement that takes the lines of the
   tracker to the counters, for the process that serves.
2. `Session` over `Registration` and `Server`: one composition in which a restart
   forgets nothing a token relies on.
3. The header list of a response.
