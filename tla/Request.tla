------------------------------ MODULE Request ------------------------------
(***************************************************************************)
(* From the header block of a request to what the middlewares and handlers *)
(* look up: one turn of a parser's loop per action. The value of a header  *)
(* is the sequence of its items: the cookies of Cookie, and for the other  *)
(* headers one item, or as many as a long value is to have. An item that   *)
(* is not whole has lost its last characters.                              *)
(***************************************************************************)
EXTENDS Integers, Sequences, SequencesExt, FiniteSetsExt

CONSTANTS
  Blocks,        \* header blocks: sequences of lines [key, value]
  BodyLengths,   \* lengths of the bodies behind them
  LongKeys,      \* names of headers that MAX_KEY_LEN - 1 characters do not hold
  FieldItems,    \* items that MAX_VALUE_LEN - 1 characters hold
  MAX_HEADERS,   \* headers that are stored
  CookieAlloc,   \* cookies the array has room for: 20, and 20 more
  CookiesLeft,   \* cookies in what the first realloc leaves of it: 40 bytes
  REQ_BODY_LEN   \* size of req->body: BODY_LEN of the code

VARIABLES
  lines,    \* the header block as it was sent
  sent,     \* length of the body that arrived with it
  at,       \* the next line
  headers,  \* req->headers up to header_count
  rest,     \* what strtok_r has still to split of the Cookie header
  cookies,  \* req->cookies_list.cookies up to cookies_count
  req_body, \* how much of the body is in req->body
  phase     \* "headers", "cookies", "body" or "parsed"

request_vars == <<lines, sent, at, headers, rest, cookies, req_body, phase>>

(* An item of a value, and a line of the block: its key and its items.     *)
Items == [name : STRING, value : Nat, whole : BOOLEAN]
Lines == [key : STRING, value : Seq(Items)]

ASSUME RequestAssumption ==
  /\ Blocks \subseteq Seq(Lines) /\ BodyLengths \subseteq Nat
  /\ {MAX_HEADERS, CookieAlloc, CookiesLeft} \subseteq Nat
  /\ FieldItems \in Nat \ {0} /\ {"Cookie", "Content-Length"} \cap LongKeys = {}

-----------------------------------------------------------------------------
NoKey  == "no colon"     \* of a line
CutKey == "cut short"    \* of a header whose name was too long
NoName == "no equals"    \* of an item

Item(name, value) == [name |-> name, value |-> value, whole |-> TRUE]
CutItem(item) == [name |-> item.name, value |-> item.value, whole |-> FALSE]
CutLast(value)  == [value EXCEPT ![Len(value)] = CutItem(@)]

Nameless == [name |-> NoName, value |-> 0, whole |-> FALSE]

(* What strtok_r leaves readable of a Cookie header: its first name.       *)
Split == <<Nameless>>

(* An entry of the cookie array that the allocator has written over.       *)
Garbage == [name |-> "garbage", value |-> 0, whole |-> FALSE]

Named(seq, name) == {i \in DOMAIN seq : seq[i].name = name}
Keyed(seq, key)  == {i \in DOMAIN seq : seq[i].key = key}

(* Mutant: the search goes on to the last header of that name.             *)
get_headerLast(key) ==
  IF Keyed(headers, key) = {} THEN <<>>
  ELSE headers[Max(Keyed(headers, key))].value

(* get_header, which ignores the case of the name: its first value.        *)
get_header(key) ==
  IF Keyed(headers, key) = {} THEN <<>>
  ELSE headers[Min(Keyed(headers, key))].value

get_req_cookie(name) ==
  IF Named(cookies, name) = {} THEN <<>> ELSE <<cookies[Min(Named(cookies, name))]>>

(* atoi of a value; without its last digit it is a tenth.                  *)
Number(item) == IF item.whole THEN item.value ELSE item.value \div 10

RequestInit ==
  /\ lines \in Blocks /\ sent \in BodyLengths
  /\ at = 1 /\ headers = <<>> /\ rest = <<>> /\ cookies = <<>> /\ req_body = 0
  /\ phase = "headers"

(* A value that is too long for its field ends behind an item, in its      *)
(* value, or before its sign of equality.                                  *)
Fitted(value) ==
  LET kept == SubSeq(value, 1, FieldItems)
  IN IF Len(value) <= FieldItems THEN {value}
     ELSE {kept, CutLast(kept), [kept EXCEPT ![FieldItems] = Nameless]}

StoredKey(key) == IF key \in LongKeys THEN CutKey ELSE key

(* A line as long as the block, which is the only one, is cut by one.      *)
Copied(line) ==
  [key   : {StoredKey(line.key)},
   value : Fitted(IF Len(lines) = 1 THEN CutLast(line.value) ELSE line.value)]

ParseHeader ==
  /\ phase = "headers" /\ at <= Len(lines)
  /\ IF lines[at].key # NoKey /\ Len(headers) < MAX_HEADERS
     THEN \E header \in Copied(lines[at]) : headers' = Append(headers, header)
     ELSE headers' = headers
  /\ at' = at + 1
  /\ UNCHANGED <<lines, sent, rest, cookies, req_body, phase>>

(* strtok_r splits the header where it is stored.                          *)
EndOfHeaders ==
  /\ phase = "headers" /\ at > Len(lines)
  /\ rest' = get_header("Cookie") /\ phase' = "cookies"
  /\ headers' = IF rest' = <<>> THEN headers
                ELSE [headers EXCEPT ![Min(Keyed(headers, "Cookie"))].value = Split]
  /\ UNCHANGED <<lines, sent, at, cookies, req_body>>

(* The block realloc is asked for has that many bytes, not cookies, and    *)
(* the second time it moves while the list keeps the old one: what is      *)
(* behind, and what is stored there later, may be written over or survive. *)
Disturbed(stored) ==
  LET left == IF Len(stored) < CookieAlloc THEN Len(stored)
              ELSE IF Len(stored) < 2 * CookieAlloc THEN CookiesLeft ELSE 0
  IN {[i \in DOMAIN stored |-> IF i \in lost THEN Garbage ELSE stored[i]] :
        lost \in SUBSET (left + 1 .. Len(stored))}

ParseCookie ==
  /\ phase = "cookies" /\ rest # <<>> /\ Head(rest).name # NoName
  /\ cookies' \in Disturbed(Append(cookies, Head(rest)))
  /\ rest' = Tail(rest)
  /\ UNCHANGED <<lines, sent, at, headers, req_body, phase>>

SkipCookie ==
  /\ phase = "cookies" /\ rest # <<>> /\ Head(rest).name = NoName
  /\ rest' = Tail(rest)
  /\ UNCHANGED <<lines, sent, at, headers, cookies, req_body, phase>>

EndOfCookies ==
  /\ phase = "cookies" /\ rest = <<>>
  /\ phase' = "body"
  /\ UNCHANGED <<lines, sent, at, headers, rest, cookies, req_body>>

(* Mutant: the terminator is counted twice.                                *)
LengthFitsTight(length) == length > 0 /\ length + 1 < REQ_BODY_LEN

LengthFits(length) == length > 0 /\ length < REQ_BODY_LEN

(* memcpy takes the announced length; what did not arrive is zeros.        *)
ParseBody ==
  /\ phase = "body"
  /\ LET announced == get_header("Content-Length")
     IN req_body' = IF announced # <<>> /\ LengthFits(Number(Head(announced)))
                THEN Min({Number(Head(announced)), sent}) ELSE 0
  /\ phase' = "parsed"
  /\ UNCHANGED <<lines, sent, at, headers, rest, cookies>>

RequestNext ==
  \/ ParseHeader \/ EndOfHeaders
  \/ ParseCookie \/ SkipCookie \/ EndOfCookies
  \/ ParseBody

RequestSpec == RequestInit /\ [][RequestNext]_request_vars

-----------------------------------------------------------------------------
(* Properties.                                                             *)

(* The value a client sent under a key, as HTTP reads the block: that of   *)
(* the first such line; nothing when it comes too late to be stored.       *)
Sent(key) ==
  LET stored == {i \in Keyed(lines, key) :
                   Cardinality({j \in 1 .. i : lines[j].key # NoKey}) <= MAX_HEADERS}
  IN IF stored = {} THEN <<>> ELSE lines[Min(stored)].value

HeaderFits(key) == Len(Sent(key)) <= FieldItems

(* The token auth_middleware looks up is the first one the browser sent,   *)
(* wherever it stands among the other cookies, as long as they are fewer   *)
(* than fill the array, or the token is among the first and they are fewer *)
(* than fill it twice.                                                     *)
TokenFound ==
  LET items  == Sent("Cookie")
      named  == {i \in DOMAIN items : items[i].name # NoName}
      tokens == Named(items, "token")
      place  == Cardinality({i \in named : i <= Min(tokens)})
  IN IF tokens = {} THEN get_req_cookie("token") = <<>>
     ELSE (\/ Cardinality(named) < CookieAlloc
           \/ Cardinality(named) < 2 * CookieAlloc /\ place <= CookiesLeft)
            => get_req_cookie("token") = <<items[Min(tokens)]>>

(* Unless it stands alone, a header that came early enough, and whose name *)
(* and value fit their fields, is found under its name with the value that *)
(* was sent, first come first served, however long the headers beside it   *)
(* are, and nothing is found that was not sent; of the cookies, so is the  *)
(* token.                                                                  *)
HeadersFound ==
  phase = "parsed" /\ Len(lines) # 1 =>
    /\ \A key \in {lines[i].key : i \in DOMAIN lines}
                   \ ({NoKey, CutKey, "Cookie"} \cup LongKeys) :
         HeaderFits(key) => get_header(key) = Sent(key)
    /\ HeaderFits("Cookie") => TokenFound

(* A body that arrived whole, was announced early enough and fits is the   *)
(* body the handler reads.                                                 *)
BodyWhole ==
  phase = "parsed" /\ Len(lines) # 1 /\ sent < REQ_BODY_LEN
    /\ Sent("Content-Length") # <<>> /\ HeaderFits("Content-Length")
    /\ Number(Head(Sent("Content-Length"))) = sent
      => req_body = sent

=============================================================================
