----------------------------- MODULE MCExchange -----------------------------
(***************************************************************************)
(* One exchange, stage by stage: the request line, the headers and the     *)
(* body, the form in it, the text of a token, the page in the response. A  *)
(* stage gets from the one before what its own behaviours start from, in   *)
(* every form it may have, so each behaviour here follows one stage and    *)
(* the others stand still.                                                 *)
(***************************************************************************)
EXTENDS RequestLine, Request, Form, Base64, Template, TLC

CONSTANT Stages   \* the stages that are followed

VARIABLE stage

-----------------------------------------------------------------------------
(* The request line: every arrangement of letters and blanks up to a line  *)
(* that is too long.                                                       *)
SmallShapes == UNION {[1 .. n -> BOOLEAN] : n \in 1 .. LINE_BUF}

(* Headers: blocks of up to three lines, with more headers than the two    *)
(* that are stored, headers sent twice, a name and values that are too     *)
(* long, with a token in what is cut, and cookies that fill an array of    *)
(* three once and twice, of which realloc leaves one; bodies that fit and  *)
(* a body that does not.                                                   *)
Line(key, items) == [key |-> key, value |-> items]
Plain(n) == Item("no equals", n)
Token(n) == Item("token", n)
Lang(n)  == Item("lang", n)

HeaderLines ==
  { Line("Host", <<Plain(1)>>), Line("Host", [i \in 1 .. FieldItems + 1 |-> Plain(i)]),
    Line("no colon", <<Plain(1)>>), Line("X-Long", <<Plain(1)>>),
    Line("Content-Length", <<Plain(5)>>),
    Line("Content-Length", <<Plain(REQ_BODY_LEN - 1)>>),
    Line("Content-Length", <<Plain(REQ_BODY_LEN)>>),
    Line("Cookie", <<Token(1), Token(2)>>),
    Line("Cookie", <<Lang(1), Plain(1), Token(1), Token(2)>>),
    Line("Cookie", <<Token(1), Lang(1), Lang(2), Lang(1)>>),
    Line("Cookie", <<Token(1), Lang(2), Lang(1), Lang(2), Token(2), Lang(1)>>),
    Line("Cookie", <<Lang(1), Plain(1), Plain(1), Plain(1), Plain(1), Token(1), Token(2)>>) }

SmallBlocks == UNION {[1 .. n -> HeaderLines] : n \in 0 .. 3}

(* The form: the sizes of the code, and texts at, before and behind them.  *)
TheSchemaSize == [name |-> 100, email |-> 100, cpf |-> 12, password |-> 35]
TheLoginSize  == [cpf |-> 12, password |-> 35]
TheDtoSize    == [name |-> 50, email |-> 50, cpf |-> 12, password |-> 35]
TheUserSize   == [id |-> 20, name |-> 50, cpf |-> 12, email |-> 50, password |-> 35]
TheReadSize   == [name |-> 256, cpf |-> 20]

(* A text of n bytes, the last of which differ from the first.             *)
Text(n, byte) == [i \in 1 .. n |-> IF i > 48 THEN byte + 1 ELSE byte]

(* A%2+ &;=, a letter with an accent, and an escape typed as such.         *)
Odd == <<65, 37, 50, 43, 32, 38, 59, 61, 195, 163, 37, 52, 49>>

PlainCpf  == Text(11, 49)
MaskedCpf == <<49, 49, 49, 46, 50, 50, 50, 46, 51, 51, 51, 45, 52, 52>>

SomeTyped ==
  [name     : {Text(n, 97) : n \in {0, 1, 49, 50, 99, 160}} \cup {Odd},
   email    : {Text(n, 105) : n \in {0, 1, 49, 50, 96, 97, 110}} \cup {Odd},
   cpf      : {<<>>, PlainCpf, MaskedCpf},
   password : {Text(n, 80) : n \in {1, 34, 40}} \cup {Odd}]

(* On the stack: nothing, and a text longer than the user from its name on.*)
SomeLeftovers == {<<>>, Text(160, 120)}

MaskedTyped == {t \in SomeTyped : t.cpf = MaskedCpf /\ Len(t.name) = 1 /\ Len(t.password) = 1}

(* Tokens: strings of up to five bytes from the corners of a group, and    *)
(* texts of up to eight characters with padding anywhere.                  *)
MixedBytes == {0, 1, 63, 128, 251, 255}

(* Pages: templates with no hole, with holes at both ends and side by      *)
(* side, with an unknown key, and plain text behind a hole.                *)
Hole(key, next)   == [key |-> key, next |-> next]
OneHole(pos, key, next) == pos :> Hole(key, next)

SmallTemplates ==
  { [len |-> 0, holes |-> <<>>],
    [len |-> 4, holes |-> <<>>],
    [len |-> 5, holes |-> OneHole(1, "username", 6)],
    [len |-> 7, holes |-> OneHole(2, "total_balance", 7)],
    [len |-> 9, holes |-> OneHole(3, "main_account", 8)],
    [len |-> 12, holes |-> OneHole(1, "username", 6) @@ OneHole(6, "total_balance", 11)],
    [len |-> 13, holes |-> OneHole(2, "username", 7) @@ OneHole(9, "username", 14)] }

SmallValues == [{"username", "total_balance"} -> 0 .. 9] \cup {<<>>}

-----------------------------------------------------------------------------
(* A stage that is not followed stands still.                              *)

LineIdle    == number = 0 /\ buffer = <<>> /\ line = <<>> /\ parsed = <<>>
RequestIdle == /\ lines = <<>> /\ sent = 0 /\ at = 1 /\ headers = <<>> /\ rest = <<>>
               /\ cookies = <<>> /\ req_body = 0 /\ phase = "headers"
FormIdle    == /\ typed = [f \in DOMAIN SchemaSize |-> <<>>] /\ form_body = <<>>
               /\ params = <<>> /\ schema = typed /\ dto = Zeroed
               /\ user = <<>> /\ form_phase = "typed"
TokenIdle   == data = <<>> /\ text = <<>>
PageIdle    == /\ template = [len |-> 0, holes |-> <<>>] /\ value = <<>>
               /\ p = 1 /\ out = <<>> /\ state = "sent" /\ body = <<>>

ExchangeInit ==
  /\ stage \in Stages
  /\ IF stage = "line"    THEN LineInit ELSE LineIdle
  /\ IF stage = "request" THEN RequestInit ELSE RequestIdle
  /\ IF stage = "form"    THEN FormInit ELSE FormIdle
  /\ IF stage = "token"   THEN TokenInit ELSE TokenIdle
  /\ IF stage = "page"    THEN Init   ELSE PageIdle

ParseLine ==
  /\ stage = "line" /\ LineNext
  /\ UNCHANGED <<stage, request_vars, form_vars, token_vars, vars>>

ParseRequest ==
  /\ stage = "request" /\ RequestNext
  /\ UNCHANGED <<stage, line_vars, form_vars, token_vars, vars>>

ReadForm ==
  /\ stage = "form" /\ FormNext
  /\ UNCHANGED <<stage, line_vars, request_vars, token_vars, vars>>

CodeToken ==
  /\ stage = "token" /\ TokenNext
  /\ UNCHANGED <<stage, line_vars, request_vars, form_vars, vars>>

RenderPage ==
  /\ stage = "page" /\ Next
  /\ UNCHANGED <<stage, line_vars, request_vars, form_vars, token_vars>>

exchange_vars == <<stage, line_vars, request_vars, form_vars, token_vars, vars>>

ExchangeSpec ==
  /\ ExchangeInit
  /\ [][ParseLine \/ ParseRequest \/ ReadForm \/ CodeToken \/ RenderPage]_exchange_vars
  /\ WF_exchange_vars(RenderPage)

=============================================================================
