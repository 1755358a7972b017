---------------------------- MODULE RequestLine ----------------------------
(***************************************************************************)
(* parse_req_line, one request after another. The line is copied without a *)
(* terminator into a buffer on the stack, so it is followed by what the    *)
(* previous call left there, as far as no other frame wrote over it. The   *)
(* letters of a line are the number of its request.                        *)
(***************************************************************************)
EXTENDS Places, Integers, Sequences, SequencesExt, FiniteSetsExt

CONSTANTS
  Shapes,       \* lines that clients send: TRUE is a letter, FALSE a blank
  MaxRequests,  \* bound: how many requests
  LINE_BUF,     \* size of _tmp_line_buf
  STACK,        \* bytes of the stack from the buffer on, up to a byte 0
  METHOD_SIZE, PATH_SIZE, VERSION_SIZE   \* of the request's fields

VARIABLES
  number,   \* requests so far
  buffer,   \* _tmp_line_buf and what lies behind it
  line,     \* the line of the last request
  parsed    \* method, path and version as they were read, or Refused

line_vars == <<number, buffer, line, parsed>>

ASSUME LineAssumption ==
  /\ Shapes \subseteq Seq(BOOLEAN) /\ MaxRequests \in Nat
  /\ LINE_BUF \in Nat \ {0} /\ STACK \in Nat /\ LINE_BUF <= STACK
  /\ {METHOD_SIZE, PATH_SIZE, VERSION_SIZE} \subseteq Nat \ {0}

-----------------------------------------------------------------------------
Nul == -1
Blank == 0
OtherLetter == MaxRequests + 1   \* a letter of another frame
Refused == <<>>

(* Where the parts of a text begin and end.                                *)
Firsts(text) == {i \in DOMAIN text : text[i] # Blank /\ (i = 1 \/ text[i - 1] = Blank)}
Lasts(text)  == {i \in DOMAIN text : text[i] # Blank /\ (i = Len(text) \/ text[i + 1] = Blank)}
EndOf(text, i) == Min({j \in Lasts(text) : i <= j})

(* strtok_r: from where a part begins to the next blank.                   *)
Parts(text) ==
  LET first == Ordered(Firsts(text))
  IN [k \in DOMAIN first |-> SubSeq(text, first[k], EndOf(text, first[k]))]

UpToNul(bytes) == SubSeq(bytes, 1, Min({i \in DOMAIN bytes : bytes[i] = Nul}) - 1)

(* Mutant: strncpy is given one byte less.                                 *)
strncpyShort(text, old) ==
  SubSeq(text, 1, Len(text) - 1) \o SubSeq(old, Len(text), Len(old))

(* strncpy writes line_len bytes; the bytes behind them stay.              *)
strncpy(text, old) == text \o SubSeq(old, Len(text) + 1, Len(old))

(* The loop takes a fourth part and drops it, and each part it takes is    *)
(* terminated where its blank was, be it behind the buffer.                *)
AfterStrtok(bytes) ==
  LET last == Ordered(Lasts(UpToNul(bytes)))
      ends == {last[k] + 1 : k \in DOMAIN last \cap 1 .. 4}
  IN [i \in DOMAIN bytes |-> IF i \in ends THEN Nul ELSE bytes[i]]

(* The field's last byte is its terminator.                                *)
safe_strncpy(part, field) == SubSeq(part, 1, Min({Len(part), field - 1}))

Accepted(parts) ==
  IF Len(parts) < 3 THEN Refused
  ELSE <<safe_strncpy(parts[1], METHOD_SIZE), safe_strncpy(parts[2], PATH_SIZE),
         safe_strncpy(parts[3], VERSION_SIZE)>>

LineInit ==
  /\ number = 0 /\ line = <<>> /\ parsed = Refused
  /\ buffer = [i \in 1 .. STACK |-> Nul]

(* Between two calls other frames may write over the end of the buffer.    *)
(* Nothing ends it; the addresses behind it have bytes that are 0.         *)
Left ==
  {[i \in DOMAIN buffer |-> IF i = STACK THEN Nul ELSE IF i > n THEN byte ELSE buffer[i]] :
     n \in 0 .. LINE_BUF, byte \in {Nul, Blank, OtherLetter}}

Written(shape) == [i \in DOMAIN shape |-> IF shape[i] THEN number + 1 ELSE Blank]

ParseReqLine(shape) ==
  /\ number < MaxRequests /\ Len(shape) < LINE_BUF
  /\ number' = number + 1 /\ line' = Written(shape)
  /\ \E old \in Left :
       LET bytes == strncpy(Written(shape), old)
       IN parsed' = Accepted(Parts(UpToNul(bytes))) /\ buffer' = AfterStrtok(bytes)

LineTooLong(shape) ==
  /\ number < MaxRequests /\ Len(shape) >= LINE_BUF
  /\ number' = number + 1 /\ line' = Written(shape)
  /\ parsed' = Refused
  /\ UNCHANGED buffer

LineNext == \E shape \in Shapes : ParseReqLine(shape) \/ LineTooLong(shape)

LineSpec == LineInit /\ [][LineNext]_line_vars

-----------------------------------------------------------------------------
(* Properties.                                                             *)

(* A line of three parts that fits the buffer is accepted with the         *)
(* client's method and path, each as far as its field holds it, whatever   *)
(* earlier requests and other frames left behind the line; all they can do *)
(* is to prolong the version, which nobody reads.                          *)
MethodAndPath ==
  Len(Parts(line)) >= 3 /\ Len(line) < LINE_BUF =>
    /\ parsed # Refused
    /\ parsed[1] = safe_strncpy(Parts(line)[1], METHOD_SIZE)
    /\ parsed[2] = safe_strncpy(Parts(line)[2], PATH_SIZE)
    /\ IsPrefix(safe_strncpy(Parts(line)[3], VERSION_SIZE), parsed[3])

=============================================================================
