------------------------------- MODULE Base64 -------------------------------
(***************************************************************************)
(* The base64 coding of the three parts of a token (base64.c). A character *)
(* is its number in b64_table, so 62 and 63 stand for "+" and "/"; the     *)
(* characters outside the table that the code knows have numbers of their  *)
(* own. The behaviours enumerate what is coded: bytes, or received text.   *)
(***************************************************************************)
EXTENDS Integers, Sequences

CONSTANTS
  Bytes,       \* the byte values to encode
  Chars,       \* the characters of received texts
  MaxBytes,    \* bound: how many bytes are encoded
  MaxChars     \* bound: how long a received text is

Pad   == 64    \* "="
Minus == 65    \* "-"
Under == 66    \* "_"
Other == 67    \* any character that is none of these

ASSUME TokenAssumption == Bytes \subseteq 0 .. 255

VARIABLES
  data,   \* bytes handed to base64url_encode
  text    \* characters handed to base64url_decode

token_vars == <<data, text>>

-----------------------------------------------------------------------------
(* Encoding.                                                               *)

Octet(s, i) == IF i <= Len(s) THEN s[i] ELSE 0

Triple(s, g) ==
  65536 * Octet(s, 3 * g + 1) + 256 * Octet(s, 3 * g + 2) + Octet(s, 3 * g + 3)

Sextets(triple) ==
  <<triple \div 262144, (triple \div 4096) % 64, (triple \div 64) % 64, triple % 64>>

(* Mutant: as many padding characters as bytes are left over.              *)
PaddingOfRest(n) == n % 3

Padding(n) == IF n % 3 = 0 THEN 0 ELSE 3 - (n % 3)

Base64Encode(s) ==
  LET size == 4 * ((Len(s) + 2) \div 3)
  IN  [k \in 1 .. size |->
         IF k > size - Padding(Len(s)) THEN Pad
         ELSE Sextets(Triple(s, (k - 1) \div 4))[((k - 1) % 4) + 1]]

(* base64_to_base64url: the loop leaves its pointer on the terminator, so  *)
(* the length taken next is 0 and no padding is removed.                   *)
ToUrl(t) ==
  [k \in DOMAIN t |-> CASE t[k] = 62 -> Minus [] t[k] = 63 -> Under [] OTHER -> t[k]]

Base64UrlEncode(s) == ToUrl(Base64Encode(s))

-----------------------------------------------------------------------------
(* Decoding.                                                               *)

(* base64url_to_b64: for the same reason no padding is added.              *)
FromUrl(t) ==
  [k \in DOMAIN t |-> CASE t[k] = Minus -> 62 [] t[k] = Under -> 63 [] OTHER -> t[k]]

Invalid == <<-1>>   \* NULL

Value(c) == IF c = Pad THEN 0 ELSE c
InTable(c) == c \in 0 .. Pad

(* Mutant: the third byte is written for a padded group too.               *)
GroupAlwaysThird(t, g) ==
  LET q == [k \in 1 .. 4 |-> Value(t[4 * g + k])]
  IN  <<(4 * q[1] + q[2] \div 16) % 256>>
      \o (IF t[4 * g + 3] = Pad THEN <<>> ELSE <<(16 * q[2] + q[3] \div 4) % 256>>)
      \o <<(64 * q[3] + q[4]) % 256>>

(* The bytes of one group of four characters.                              *)
Group(t, g) ==
  LET q == [k \in 1 .. 4 |-> Value(t[4 * g + k])]
  IN  <<(4 * q[1] + q[2] \div 16) % 256>>
      \o (IF t[4 * g + 3] = Pad THEN <<>> ELSE <<(16 * q[2] + q[3] \div 4) % 256>>)
      \o (IF t[4 * g + 4] = Pad THEN <<>> ELSE <<(64 * q[3] + q[4]) % 256>>)

Groups(t) ==
  LET upto[g \in 0 .. Len(t) \div 4] ==
        IF g = 0 THEN <<>> ELSE upto[g - 1] \o Group(t, g - 1)
  IN  upto[Len(t) \div 4]

(* What malloc gets: three bytes a group less one for each of the last two *)
(* characters that is padding.                                             *)
OutLen(t) ==
  3 * (Len(t) \div 4) - (IF t[Len(t)] = Pad THEN 1 ELSE 0)
                      - (IF t[Len(t) - 1] = Pad THEN 1 ELSE 0)

Base64Decode(t) ==
  IF Len(t) % 4 # 0 \/ \E k \in DOMAIN t : ~InTable(t[k]) THEN Invalid ELSE Groups(t)

Base64UrlDecode(t) == Base64Decode(FromUrl(t))

-----------------------------------------------------------------------------
TokenInit == data = <<>> /\ text = <<>>

Encode ==
  /\ text = <<>> /\ Len(data) < MaxBytes
  /\ \E b \in Bytes : data' = Append(data, b)
  /\ UNCHANGED text

Receive ==
  /\ data = <<>> /\ Len(text) < MaxChars
  /\ \E c \in Chars : text' = Append(text, c)
  /\ UNCHANGED data

TokenNext == Encode \/ Receive

TokenSpec == TokenInit /\ [][TokenNext]_token_vars

-----------------------------------------------------------------------------
(* Properties.                                                             *)

(* jwt_validate decodes what generate_jwt encoded. Neither function treats *)
(* padding as it means to, and the two mistakes must cancel.               *)
RoundTrip == Base64UrlDecode(Base64UrlEncode(data)) = data

(* base64decode never writes past its buffer, on any received text: the    *)
(* size is computed from the last two characters, the writes are decided   *)
(* group by group.                                                         *)
DecodeFits ==
  LET bytes == Base64UrlDecode(text)
  IN  text # <<>> /\ bytes # Invalid => Len(bytes) <= OutLen(text)

(* base64.c:69: "removes '=' padding".                                     *)
PaddingRemoved == \A k \in DOMAIN Base64UrlEncode(data) : Base64UrlEncode(data)[k] # Pad

=============================================================================
