-------------------------------- MODULE Form --------------------------------
(***************************************************************************)
(* The registration form on its way from the browser to the user that      *)
(* login reads back: url-encoded, split and decoded by the middleware,     *)
(* copied with a cut into the schema and without one into the fields of    *)
(* the DTO and, from the stored row, into those of the user. Texts are     *)
(* sequences of bytes; a field's name is a single byte.                    *)
(***************************************************************************)
EXTENDS Places, Integers, Sequences, SequencesExt, FiniteSetsExt

CONSTANTS
  Typed,       \* what customers may type: a text for each field
  SchemaSize,  \* sizes of the fields of RegisterAccountSchema
  LoginSize,   \* sizes of the fields of LoginSchema
  DtoSize,     \* sizes of the fields of CreateUserDTO
  UserSize,    \* sizes of the first fields of BankUser
  ReadSize,    \* sizes of the buffers a row's values are read into
  Leftovers,   \* what such a buffer may hold that nothing was read into
  MAX_PARAMS   \* parameters that are kept

VARIABLES
  typed,      \* what the customer typed
  form_body,  \* the body of the request
  params,     \* req->body_query_params_list
  schema,     \* the fields of the schema, each up to its terminator
  dto,        \* the bytes of the DTO and of what lies behind it
  user,       \* the bytes of the user, up to its password
  form_phase  \* "typed", "sent", "decoded", "parsed", "copied" or "mounted"

form_vars == <<typed, form_body, params, schema, dto, user, form_phase>>

(* How the sizes of the code lie to each other: the longest name of the    *)
(* schema ends inside of the DTO's e-mail, its cpf and password fit.       *)
ASSUME FormAssumption ==
  /\ Typed \subseteq [{"name", "email", "cpf", "password"} -> Seq(1 .. 255)]
  /\ SchemaSize \in [{"name", "email", "cpf", "password"} -> Nat \ {0}]
  /\ DtoSize \in [{"name", "email", "cpf", "password"} -> Nat \ {0}]
  /\ UserSize \in [{"id", "name", "cpf", "email", "password"} -> Nat \ {0}]
  /\ LoginSize = [f \in {"cpf", "password"} |-> SchemaSize[f]]
  /\ DtoSize.name <= SchemaSize.name /\ SchemaSize.name <= DtoSize.name + DtoSize.email
  /\ DtoSize.email <= SchemaSize.email
  /\ SchemaSize.cpf <= DtoSize.cpf /\ SchemaSize.password <= DtoSize.password
  /\ DtoSize.name <= UserSize.name /\ DtoSize.cpf <= UserSize.cpf
  /\ UserSize.password > 13
  /\ ReadSize \in [{"name", "cpf"} -> Nat \ {0}]
  /\ DtoSize.name <= ReadSize.name /\ SchemaSize.cpf <= ReadSize.cpf
  /\ Leftovers \subseteq Seq(1 .. 255)
  /\ MAX_PARAMS \in Nat /\ MAX_PARAMS >= 4

-----------------------------------------------------------------------------
Fields == <<"name", "email", "cpf", "password">>
Key    == [name |-> 110, email |-> 101, cpf |-> 99, password |-> 112]

(* The bytes that mean something.                                          *)
Terminator == 0
Space == 32
Percent == 37
Plus == 43
Eq == 61
Separators == {38, 59}

(* The browser's side: letters and digits stay, a space is a plus, and any *)
(* other byte is a percent sign and two digits.                            *)
Digits == 48 .. 57
Letters == 65 .. 90 \cup 97 .. 122
HexDigit(n) == IF n < 10 THEN n + 48 ELSE n + 55

Encoded(text) ==
  FlattenSeq([i \in DOMAIN text |->
    CASE text[i] \in Digits \cup Letters -> <<text[i]>>
      [] text[i] = Space -> <<Plus>>
      [] OTHER -> <<Percent, HexDigit(text[i] \div 16), HexDigit(text[i] % 16)>>])

FormBody ==
  FlattenSeq([i \in DOMAIN Fields |->
    (IF i = 1 THEN <<>> ELSE <<38>>) \o <<Key[Fields[i]], Eq>> \o Encoded(typed[Fields[i]])])

-----------------------------------------------------------------------------
(* The middleware's side.                                                  *)

(* strtok_r: the runs of bytes between separators.                         *)
Tokens(s) ==
  LET inside == {i \in DOMAIN s : s[i] \notin Separators}
      first  == Ordered({i \in inside : i - 1 \notin inside})
      last   == Ordered({i \in inside : i + 1 \notin inside})
  IN [k \in DOMAIN first |-> SubSeq(s, first[k], last[k])]

(* The values of the digits isxdigit accepts.                              *)
Hex == [c \in Digits \cup 65 .. 70 \cup 97 .. 102 |->
          IF c \in Digits THEN c - 48 ELSE IF c >= 97 THEN c - 87 ELSE c - 55]

urldecode(src) ==
  LET at[i \in 1 .. Len(src) + 1] ==
        IF i > Len(src) THEN <<>>
        ELSE IF /\ src[i] = Percent /\ i + 2 <= Len(src)
                /\ src[i + 1] \in DOMAIN Hex /\ src[i + 2] \in DOMAIN Hex
             THEN <<16 * Hex[src[i + 1]] + Hex[src[i + 2]]>> \o at[i + 3]
             ELSE <<IF src[i] = Plus THEN Space ELSE src[i]>> \o at[i + 1]
  IN at[1]

(* A token without a sign of equality is dropped, as is the value that     *)
(* comes when the list is full.                                            *)
Decoded ==
  LET tokens == Tokens(form_body)
      pairs  == Ordered({k \in DOMAIN tokens : Eq \in ToSet(tokens[k])})
      Pair(t) == LET eq == Min({i \in DOMAIN t : t[i] = Eq})
                 IN [key   |-> SubSeq(t, 1, eq - 1),
                     value |-> urldecode(SubSeq(t, eq + 1, Len(t)))]
  IN [k \in 1 .. Min({Len(pairs), MAX_PARAMS}) |-> Pair(tokens[pairs[k]])]

-----------------------------------------------------------------------------
(* The schemas: snprintf cuts, and the last of several values stays.       *)

Shortened(text, size) == SubSeq(text, 1, Min({Len(text), size - 1}))

Parsed(sizes) ==
  [f \in DOMAIN sizes |->
    LET given == {i \in DOMAIN params : params[i].key = <<Key[f]>>}
    IN IF given = {} THEN <<>> ELSE Shortened(params[Max(given)].value, sizes[f])]

-----------------------------------------------------------------------------
(* The DTO: a field after the other, then what the stack has behind it.    *)
Offset ==
  [name |-> 0, email |-> DtoSize.name, cpf |-> DtoSize.name + DtoSize.email,
   password |-> DtoSize.name + DtoSize.email + DtoSize.cpf]
StructSize == Offset.password + DtoSize.password
Behind == StructSize .. StructSize + SchemaSize.email
Foreign == 255

Zeroed == [i \in 0 .. StructSize + SchemaSize.email |-> IF i \in Behind THEN Foreign ELSE Terminator]

strcpy(memory, at, text) ==
  [i \in DOMAIN memory |->
    LET j == i - at + 1
    IN IF j \in DOMAIN text THEN text[j] ELSE IF j = Len(text) + 1 THEN Terminator ELSE memory[i]]

StringFrom(memory, at) ==
  LET ends == {i \in DOMAIN memory : i >= at /\ memory[i] = Terminator} \cup {Max(DOMAIN memory) + 1}
  IN [i \in 1 .. Min(ends) - at |-> memory[at + i - 1]]

StringAt(field) == StringFrom(dto, Offset[field])

(* Mutant: in the order of the fields, from the last to the first.         *)
user_dto_from_schemaNameLast ==
  strcpy(strcpy(strcpy(strcpy(Zeroed,
    Offset.email, schema.email), Offset.password, schema.password), Offset.cpf, schema.cpf), Offset.name, schema.name)

user_dto_from_register_acc_schema ==
  strcpy(strcpy(strcpy(strcpy(Zeroed,
    Offset.cpf, schema.cpf), Offset.name, schema.name), Offset.password, schema.password), Offset.email, schema.email)

-----------------------------------------------------------------------------
(* The user that is mounted from the row. The e-mail's field is left alone *)
(* and what lies behind the password is written after it.                  *)
UserOffset ==
  [id |-> 0, name |-> UserSize.id, cpf |-> UserSize.id + UserSize.name,
   password |-> UserSize.id + UserSize.name + UserSize.cpf + UserSize.email]

ZeroedUser == [i \in 0 .. UserOffset.password + UserSize.password - 1 |-> Terminator]

(* Thirteen characters, whatever the password.                             *)
Hashed == [i \in 1 .. 13 |-> 72]

(* An empty value stores nothing: its buffer keeps what the stack held.    *)
ReadBack(field) ==
  IF StringAt(field) = <<>> THEN Leftovers ELSE {Shortened(StringAt(field), ReadSize[field])}

mount_user_from_line_buf(name, cpf) ==
  strcpy(strcpy(strcpy(ZeroedUser,
    UserOffset.name, name), UserOffset.cpf, cpf), UserOffset.password, Hashed)

(* Text that does not end a value or a line of the table early.            *)
Storable(text) == ToSet(text) \cap {10, 59, Eq} = {}

-----------------------------------------------------------------------------
Nothing == [f \in DOMAIN SchemaSize |-> <<>>]

FormInit ==
  /\ typed \in Typed
  /\ form_body = <<>> /\ params = <<>> /\ schema = Nothing
  /\ dto = Zeroed /\ user = ZeroedUser
  /\ form_phase = "typed"

Submit ==
  /\ form_phase = "typed" /\ form_phase' = "sent"
  /\ form_body' = FormBody
  /\ UNCHANGED <<typed, params, schema, dto, user>>

DecodeUrl ==
  /\ form_phase = "sent" /\ form_phase' = "decoded"
  /\ params' = Decoded
  /\ UNCHANGED <<typed, form_body, schema, dto, user>>

ParseSchema ==
  /\ form_phase = "decoded" /\ form_phase' = "parsed"
  /\ schema' = Parsed(SchemaSize)
  /\ UNCHANGED <<typed, form_body, params, dto, user>>

CopyToDto ==
  /\ form_phase = "parsed" /\ form_phase' = "copied"
  /\ dto' = user_dto_from_register_acc_schema
  /\ UNCHANGED <<typed, form_body, params, schema, user>>

(* The row is stored and read back, for texts that a row can hold.         *)
MountUser ==
  /\ form_phase = "copied" /\ form_phase' = "mounted"
  /\ \A f \in {"name", "email", "cpf"} : Storable(StringAt(f))
  /\ \E name \in ReadBack("name"), cpf \in ReadBack("cpf") : user' = mount_user_from_line_buf(name, cpf)
  /\ UNCHANGED <<typed, form_body, params, schema, dto>>

FormNext == Submit \/ DecodeUrl \/ ParseSchema \/ CopyToDto \/ MountUser

FormSpec == FormInit /\ [][FormNext]_form_vars

-----------------------------------------------------------------------------
(* Properties.                                                             *)

EmailFits == Len(typed.email) < DtoSize.email

(* What a field of the schema has room for.                                *)
Room(f) == SubSeq(typed[f], 1, Min({Len(typed[f]), SchemaSize[f] - 1}))

(* What is too long for the schema is cut before it can leave the DTO,     *)
(* unless an e-mail is longer than all of the DTO from its own field on.   *)
StaysInside ==
  Len(typed.email) < StructSize - Offset.email => \A i \in Behind : dto[i] = Foreign

(* A name too long for its field runs over the e-mail, and the e-mail is   *)
(* copied over it again. Login cuts the cpf and the password it compares   *)
(* as registration did.                                                    *)
Registered ==
  /\ StringAt("email") = typed.email
  /\ \A f \in DOMAIN LoginSize : StringAt(f) = Room(f) /\ Parsed(LoginSize)[f] = Room(f)
  /\ Len(typed.name) < DtoSize.name => StringAt("name") = typed.name

(* A name of any length that comes back from the row runs over the cpf and *)
(* the e-mail of the user, and the cpf is copied over it again. The        *)
(* password is copied last, so that it stands whatever was left in the     *)
(* buffers of a name and a cpf that are empty.                             *)
Mounted ==
  /\ Room("cpf") # <<>> => StringFrom(user, UserOffset.cpf) = Room("cpf")
  /\ StringFrom(user, UserOffset.password) = Hashed
  /\ typed.name # <<>> /\ Len(typed.name) < DtoSize.name => StringFrom(user, UserOffset.name) = typed.name

(* From the browser to the user that login reads back: whatever bytes the  *)
(* customer types, separators, percent signs and bytes beyond ASCII among  *)
(* them, and however long the other fields are, whoever has an e-mail that *)
(* fits registers and logs in with that e-mail, cpf and password, the last *)
(* two cut to their sizes, and with the name if it fits too. Only of a     *)
(* name or a cpf that is empty, which the server takes though its page     *)
(* asks for them, the mounted user may hold anything.                      *)
FormKept ==
  /\ StaysInside
  /\ form_phase \in {"copied", "mounted"} /\ EmailFits => Registered
  /\ form_phase = "mounted" /\ EmailFits => Mounted

(* The page asks for a cpf as 000.000.000-00 and accepts its 14 characters *)
(* (templates/register.html): it is stored as it was typed.                *)
CpfKept ==
  form_phase \in {"copied", "mounted"} /\ EmailFits => StringAt("cpf") = typed.cpf

=============================================================================
