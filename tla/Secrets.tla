------------------------------ MODULE Secrets ------------------------------
(***************************************************************************)
(* The environment file: read_line's doubling buffer, character by         *)
(* character, and load_env's growing table, which memory may be refused    *)
(* to at every turn; the listing of what was loaded; then get_env.         *)
(***************************************************************************)
EXTENDS Integers, Sequences, FiniteSets

CONSTANTS
  Line,        \* lines: [name, value, width]
  Files,       \* contents of the file: sequences of lines
  NoName,      \* the name of a line without "=", or with only blanks before it
  NoValue,     \* the value of a line with only blanks behind "="
  LINE_SIZE,   \* characters read_line starts with: 128
  ALLOC_SIZE   \* secrets load_env starts with, and adds: 20

NULL   == "NULL"
Killed == "killed"   \* strcmp was given NULL

ASSUME SecretsAssumption ==
  /\ \A line \in Line : line.width \in Nat /\ NULL \notin {line.name, line.value}
  /\ Files \subseteq Seq(Line)
  /\ LINE_SIZE \in Nat \ {0} /\ ALLOC_SIZE \in Nat \ {0}

VARIABLES
  file,     \* the lines of .env
  at,       \* the line that is read next
  size,     \* of read_line's buffer
  len,      \* characters in it
  alloc,    \* secret_alloc_size
  secrets,  \* g_secrets up to secrets_count: [name, value]
  refused,  \* history: what a file or memory was refused for
  pc        \* "open", "line", "chars", "parse", "hide", "loaded" or "dead"

secrets_vars == <<file, at, size, len, alloc, secrets, refused, pc>>

-----------------------------------------------------------------------------
Valid(line) == line.name # NoName /\ line.value # NoValue

(* Mutant: the search does not stop at the first.                          *)
get_envLast(name) ==
  LET found == {i \in DOMAIN secrets : secrets[i].name = name}
  IN IF \E i \in DOMAIN secrets : secrets[i].name = NULL THEN Killed
     ELSE IF found = {} THEN NULL
     ELSE secrets[CHOOSE i \in found : \A j \in found : j <= i].value

(* An entry whose name was not copied is not passed alive.                 *)
get_env(name) ==
  LET found == {i \in DOMAIN secrets : secrets[i].name = name}
  IN IF \E i \in DOMAIN secrets : secrets[i].name = NULL /\ \A j \in found : i < j THEN Killed
     ELSE IF found = {} THEN NULL
     ELSE secrets[CHOOSE i \in found : \A j \in found : i <= j].value

SecretsInit ==
  /\ file \in Files
  /\ at = 1 /\ size = LINE_SIZE /\ len = 0
  /\ alloc = ALLOC_SIZE /\ secrets = <<>>
  /\ refused = {} /\ pc = "open"

OpenEnv ==
  /\ pc = "open" /\ pc' = "line"
  /\ UNCHANGED <<file, at, size, len, alloc, secrets, refused>>

(* fopen or calloc fails.                                                  *)
OpenFails ==
  /\ pc = "open" /\ pc' = "loaded" /\ refused' = {"file"}
  /\ UNCHANGED <<file, at, size, len, alloc, secrets>>

(* read_line.                                                              *)

StartLine ==
  /\ pc = "line" /\ at <= Len(file)
  /\ size' = LINE_SIZE /\ len' = 0 /\ pc' = "chars"
  /\ UNCHANGED <<file, at, alloc, secrets, refused>>

(* Mutant: the line ends where the buffer does.                            *)
ReadCharWaits ==
  /\ pc = "chars" /\ len < file[at].width /\ len + 1 < size
  /\ len' = len + 1
  /\ UNCHANGED <<file, at, size, alloc, secrets, refused, pc>>

ReadChar ==
  /\ pc = "chars" /\ len < file[at].width
  /\ len' = len + 1
  /\ size' = IF len' >= size THEN 2 * size ELSE size
  /\ UNCHANGED <<file, at, alloc, secrets, refused, pc>>

Terminate ==
  /\ pc = "chars" /\ len = file[at].width
  /\ pc' = "parse"
  /\ UNCHANGED <<file, at, size, len, alloc, secrets, refused>>

(* A refused buffer looks like the end of the file to load_env.            *)
LineFails ==
  /\ \/ pc = "line" /\ at <= Len(file)
     \/ pc = "chars" /\ len < file[at].width /\ len + 1 >= size
  /\ pc' = "hide" /\ refused' = refused \cup {"line"}
  /\ UNCHANGED <<file, at, size, len, alloc, secrets>>

EndOfFile ==
  /\ pc = "line" /\ at > Len(file)
  /\ pc' = "hide"
  /\ UNCHANGED <<file, at, size, len, alloc, secrets, refused>>

(* load_env.                                                               *)

Skip ==
  /\ pc = "parse" /\ ~Valid(file[at])
  /\ at' = at + 1 /\ pc' = "line"
  /\ UNCHANGED <<file, size, len, alloc, secrets, refused>>

Keep(name, value) ==
  /\ pc = "parse" /\ Valid(file[at])
  /\ alloc' = IF Len(secrets) = alloc - 1 THEN alloc + ALLOC_SIZE ELSE alloc
  /\ secrets' = Append(secrets, [name |-> name, value |-> value])
  /\ at' = at + 1 /\ pc' = "line"
  /\ UNCHANGED <<file, size, len>>

Store == Keep(file[at].name, file[at].value) /\ UNCHANGED refused

(* A strdup fails, and nobody looks: the secret has no name, or no value,  *)
(* which is no better when it has neither.                                 *)
CopyFails ==
  \/ refused' = refused \cup {"name"}  /\ Keep(NULL, file[at].value)
  \/ refused' = refused \cup {"value"} /\ Keep(file[at].name, NULL)

(* realloc fails: what was loaded is forgotten.                            *)
GrowFails ==
  /\ pc = "parse" /\ Valid(file[at]) /\ Len(secrets) = alloc - 1
  /\ alloc' = alloc + ALLOC_SIZE
  /\ secrets' = <<>>
  /\ refused' = refused \cup {"table"} /\ pc' = "loaded"
  /\ UNCHANGED <<file, at, size, len>>

(* Every secret is printed as stars, as many as its value has characters.  *)
Hide ==
  /\ pc = "hide"
  /\ pc' = IF \E i \in DOMAIN secrets : secrets[i].value = NULL THEN "dead" ELSE "loaded"
  /\ UNCHANGED <<file, at, size, len, alloc, secrets, refused>>

(* No memory for the stars, which are written all the same.                *)
HideFails ==
  /\ pc = "hide" /\ secrets # <<>>
  /\ refused' = refused \cup {"stars"} /\ pc' = "dead"
  /\ UNCHANGED <<file, at, size, len, alloc, secrets>>

Load ==
  \/ OpenEnv \/ StartLine \/ ReadChar \/ Terminate \/ EndOfFile
  \/ Skip \/ Store \/ Hide

Refuse == OpenFails \/ LineFails \/ CopyFails \/ GrowFails \/ HideFails

SecretsNext == Load \/ Refuse

-----------------------------------------------------------------------------
(* Properties.                                                             *)

Copies ==
  [name  : {line.name : line \in Line} \cup {NULL},
   value : {line.value : line \in Line} \cup {NULL}]

SecretsTypeOK ==
  /\ file \in Seq(Line) /\ at \in 1 .. Len(file) + 1
  /\ size \in Nat /\ len \in Nat /\ alloc \in Nat
  /\ secrets \in Seq(Copies)
  /\ refused \subseteq {"file", "line", "name", "value", "table", "stars"}
  /\ pc \in {"open", "line", "chars", "parse", "hide", "loaded", "dead"}
  /\ pc \in {"chars", "parse"} => at <= Len(file)

(* Whatever the file holds, the terminator of a line has its place in      *)
(* read_line's buffer, and every secret its place in the table.            *)
BuffersFit == len < size /\ Len(secrets) < alloc

(* The lines of the file that define a name.                               *)
Defining(name) == {i \in 1 .. Len(file) : Valid(file[i]) /\ file[i].name = name}

(* Of several definitions of a name the first counts. When memory was      *)
(* refused a name may have none, or asking for it kills, but it never has  *)
(* the value of a later definition.                                        *)
FirstDefinition ==
  pc = "loaded" =>
    \A name \in {line.name : line \in Line} :
      \/ refused # {} /\ get_env(name) \in {NULL, Killed}
      \/ Defining(name) = {} /\ get_env(name) = NULL
      \/ \E i \in Defining(name) :
           (\A j \in Defining(name) : i <= j) /\ get_env(name) = file[i].value

=============================================================================
