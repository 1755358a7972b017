--------------------------- MODULE StartUpProofs ---------------------------
(***************************************************************************)
(* Theorems about the start of the server, for every environment file,     *)
(* every table of routes, all sizes, and whatever memory is refused.       *)
(***************************************************************************)
EXTENDS StartUp, WellFoundedInduction, FiniteSetTheorems, SequenceTheorems, TLAPS

-----------------------------------------------------------------------------
(* The secrets: the inductive invariant, and what follows from it at the  *)
(* end of the loading.                                                     *)

(* A name was copied from that line, and its value too unless it is NULL.  *)
CopyOf(secret, line) == secret.name = line.name /\ secret.value \in {line.value, NULL}

FirstOfName(k) == Valid(file[k]) /\ \A l \in 1 .. k - 1 : Valid(file[l]) => file[l].name # file[k].name

(* What get_env comes to first under a name is the first definition of it. *)
Origin ==
  \A i \in DOMAIN secrets :
    secrets[i].name # NULL /\ (\A j \in 1 .. i - 1 : secrets[j].name \notin {secrets[i].name, NULL}) =>
      \E k \in 1 .. at - 1 : FirstOfName(k) /\ CopyOf(secrets[i], file[k])

(* Every definition that was passed has its name in the table, unless the  *)
(* table was forgotten or some name was not copied.                        *)
Named ==
  \/ "table" \in refused /\ secrets = <<>>
  \/ \E i \in DOMAIN secrets : secrets[i].name = NULL
  \/ \A k \in 1 .. at - 1 :
       Valid(file[k]) => \E i \in DOMAIN secrets : secrets[i].name = file[k].name

(* Names and values are missing only where memory for them was refused.    *)
Missing ==
  \A i \in DOMAIN secrets :
    /\ secrets[i].name = NULL => "name" \in refused
    /\ secrets[i].value = NULL => "value" \in refused

(* Loading ends before the end of the file only when something was refused. *)
ReadOut ==
  /\ pc = "open" => refused = {}
  /\ pc = "open" => secrets = <<>>
  /\ "table" \in refused => pc = "loaded"
  /\ pc \in {"hide", "loaded"} /\ refused = {} => at = Len(file) + 1

SecretsInv == SecretsTypeOK /\ BuffersFit /\ Origin /\ Named /\ Missing /\ ReadOut

(* A nonempty set of naturals has a least element.                         *)
LEMMA NatHasLeast ==
  ASSUME NEW S \in SUBSET Nat, S # {}
  PROVE  \E m \in S : \A k \in S : m <= k
<1> DEFINE R == {ss \in Nat \X Nat : ss[1] < ss[2]}
<1>1. IsWellFoundedOn(R, Nat)
  BY NatLessThanWellFounded DEF OpToRel
<1>2. \A x, y \in Nat : y < x => <<y, x>> \in R
  OBVIOUS
<1> HIDE DEF R
<1>3. PICK x \in S : \A y \in S : <<y, x>> \notin R
  BY <1>1, WFMin
<1>4. \A y \in S : x <= y
  <2>1. TAKE y \in S
  <2>2. x \in Nat /\ y \in Nat /\ ~(y < x)
    BY <1>2, <1>3
  <2> QED BY <2>2
<1> QED BY <1>4

-----------------------------------------------------------------------------
LEMMA InitKept == SecretsInit => SecretsInv
<1> SUFFICES ASSUME SecretsInit PROVE SecretsInv
  OBVIOUS
<1>1. file \in Seq(Line) /\ Len(file) \in Nat
  BY SecretsAssumption DEF SecretsInit
<1>2. LINE_SIZE \in Nat \ {0} /\ ALLOC_SIZE \in Nat \ {0}
  BY SecretsAssumption
<1>3. secrets \in Seq(Copies) /\ Len(secrets) = 0
  BY DEF SecretsInit
<1>4. SecretsTypeOK /\ BuffersFit
  <2>1. /\ at \in 1 .. Len(file) + 1 /\ size \in Nat /\ len \in Nat /\ alloc \in Nat
        /\ len < size /\ Len(secrets) < alloc
    BY <1>1, <1>2, <1>3, SMT DEF SecretsInit
  <2>2. refused = {} /\ pc = "open"
    BY DEF SecretsInit
  <2> QED BY <1>1, <1>3, <2>1, <2>2 DEF SecretsTypeOK, BuffersFit
<1>5. Origin /\ Named /\ Missing /\ ReadOut
  BY DEF SecretsInit, Origin, Named, Missing, ReadOut
<1> QED BY <1>4, <1>5 DEF SecretsInv

(* The steps that leave the table, and their place in the file, alone.     *)
LEMMA SameTable ==
  ASSUME SecretsInv, UNCHANGED <<file, at, secrets>>, refused \subseteq refused'
  PROVE  Origin' /\ Named' /\ Missing'
<1>1. Origin'
  BY DEF SecretsInv, Origin, FirstOfName, CopyOf, Valid
<1>2. Named'
  BY DEF SecretsInv, Named, Valid
<1>3. Missing'
  BY DEF SecretsInv, Missing
<1> QED BY <1>1, <1>2, <1>3

(* Reading a line keeps a place for its terminator.                        *)
LEMMA LineKept ==
  ASSUME SecretsInv, OpenEnv \/ StartLine \/ ReadChar \/ Terminate
  PROVE  SecretsInv'
<1>1. /\ \A line \in Line : line.width \in Nat
      /\ LINE_SIZE \in Nat \ {0}
      /\ file \in Seq(Line) /\ Len(file) \in Nat /\ at \in 1 .. Len(file) + 1
  BY SecretsAssumption DEF SecretsInv, SecretsTypeOK
<1>2. SecretsTypeOK' /\ BuffersFit'
  <2>1. CASE OpenEnv
    BY <2>1 DEF OpenEnv, SecretsInv, SecretsTypeOK, BuffersFit
  <2>2. CASE StartLine
    BY <1>1, <2>2 DEF StartLine, SecretsInv, SecretsTypeOK, BuffersFit
  <2>3. CASE ReadChar
    BY <1>1, <2>3 DEF ReadChar, SecretsInv, SecretsTypeOK, BuffersFit
  <2>4. CASE Terminate
    BY <1>1, <2>4 DEF Terminate, SecretsInv, SecretsTypeOK, BuffersFit
  <2> QED BY <2>1, <2>2, <2>3, <2>4
<1>3. UNCHANGED <<file, at, secrets, refused>> /\ pc # "loaded" /\ pc' \in {"line", "chars", "parse"}
  BY DEF OpenEnv, StartLine, ReadChar, Terminate
<1>4. Origin' /\ Named' /\ Missing'
  BY <1>3, SameTable
<1>5. ReadOut'
  BY <1>3 DEF SecretsInv, ReadOut
<1> QED BY <1>2, <1>4, <1>5 DEF SecretsInv

(* Loading ends, for want of lines or of memory.                           *)
LEMMA EndKept ==
  ASSUME SecretsInv, EndOfFile \/ OpenFails \/ LineFails \/ Hide \/ HideFails
  PROVE  SecretsInv'
<1>1. UNCHANGED <<file, at, size, len, alloc, secrets>>
  BY DEF EndOfFile, OpenFails, LineFails, Hide, HideFails
<1>2. refused \subseteq refused' /\ refused' \subseteq refused \cup {"file", "line", "stars"}
  BY DEF EndOfFile, OpenFails, LineFails, Hide, HideFails, SecretsInv, ReadOut
<1>3. pc' \in {"hide", "loaded", "dead"} /\ pc # "loaded"
  BY DEF EndOfFile, OpenFails, LineFails, Hide, HideFails
<1>4. SecretsTypeOK' /\ BuffersFit'
  BY <1>1, <1>2, <1>3 DEF SecretsInv, SecretsTypeOK, BuffersFit
<1>5. Origin' /\ Named' /\ Missing'
  BY <1>1, <1>2, SameTable
<1>6. ReadOut'
  <2>1. "table" \notin refused'
    BY <1>2, <1>3 DEF SecretsInv, ReadOut
  <2>2. refused' = {} => at = Len(file) + 1
    <3>1. CASE EndOfFile
      BY <3>1 DEF EndOfFile, SecretsInv, SecretsTypeOK
    <3>2. CASE OpenFails \/ LineFails \/ HideFails
      BY <3>2 DEF OpenFails, LineFails, HideFails
    <3>3. CASE Hide
      BY <3>3 DEF Hide, SecretsInv, ReadOut
    <3> QED BY <3>1, <3>2, <3>3
  <2> QED BY <1>1, <1>3, <2>1, <2>2 DEF ReadOut
<1> QED BY <1>4, <1>5, <1>6 DEF SecretsInv

(* No memory for a larger table: what was loaded is forgotten.             *)
LEMMA GrowFailsKept ==
  ASSUME SecretsInv, GrowFails
  PROVE  SecretsInv'
<1>1. SecretsTypeOK' /\ BuffersFit'
  <2>1. ALLOC_SIZE \in Nat \ {0} /\ alloc \in Nat
    BY SecretsAssumption DEF SecretsInv, SecretsTypeOK
  <2>2. secrets' \in Seq(Copies) /\ Len(secrets') = 0
    BY DEF GrowFails
  <2>3. alloc' \in Nat /\ Len(secrets') < alloc'
    BY <2>1, <2>2 DEF GrowFails
  <2> QED BY <2>2, <2>3 DEF GrowFails, SecretsInv, SecretsTypeOK, BuffersFit, Copies
<1>2. Origin' /\ Named' /\ Missing' /\ ReadOut'
  BY DEF GrowFails, Origin, Named, Missing, ReadOut
<1> QED BY <1>1, <1>2 DEF SecretsInv

(* A line without a definition is passed.                                  *)
LEMMA SkipKept ==
  ASSUME SecretsInv, Skip
  PROVE  SecretsInv'
<1>1. at \in 1 .. Len(file) /\ Len(file) \in Nat /\ "table" \notin refused
  BY DEF SecretsInv, SecretsTypeOK, ReadOut, Skip
<1>2. SecretsTypeOK' /\ BuffersFit' /\ Missing' /\ ReadOut'
  BY <1>1 DEF SecretsInv, SecretsTypeOK, BuffersFit, Missing, ReadOut, Skip, Copies
<1>3. Origin'
  BY <1>1 DEF SecretsInv, Origin, FirstOfName, CopyOf, Skip, Valid
<1>4. Named'
  BY <1>1 DEF SecretsInv, Named, Skip, Valid
<1> QED BY <1>2, <1>3, <1>4 DEF SecretsInv

(* A definition is appended, whole or not: its name is the first of its    *)
(* kind in the table exactly when it is the first in the file, or a name   *)
(* is missing before it.                                                   *)
LEMMA KeepKept ==
  ASSUME SecretsInv, NEW name, NEW value, Keep(name, value),
         name \in {file[at].name, NULL}, value \in {file[at].value, NULL},
         refused \subseteq refused', refused' \subseteq refused \cup {"name", "value"},
         name = NULL => "name" \in refused', value = NULL => "value" \in refused'
  PROVE  SecretsInv'
<1> DEFINE secret == [name |-> name, value |-> value]
<1>1. /\ at \in 1 .. Len(file) /\ Len(file) \in Nat /\ "table" \notin refused
      /\ file \in Seq(Line) /\ secrets \in Seq(Copies) /\ file[at] \in Line
      /\ ALLOC_SIZE \in Nat \ {0} /\ alloc \in Nat /\ Valid(file[at])
  BY SecretsAssumption DEF SecretsInv, SecretsTypeOK, ReadOut, Keep
<1>2. secret \in Copies /\ file[at].name # NULL
  BY <1>1, SecretsAssumption DEF Copies
<1>3. secret.name = name /\ secret.value = value
  OBVIOUS
<1> HIDE DEF secret
<1>4. /\ secrets' \in Seq(Copies) /\ Len(secrets') = Len(secrets) + 1 /\ Len(secrets) \in Nat
      /\ \A i \in DOMAIN secrets : secrets'[i] = secrets[i]
      /\ secrets'[Len(secrets) + 1] = secret
      /\ DOMAIN secrets' = 1 .. Len(secrets) + 1 /\ DOMAIN secrets = 1 .. Len(secrets)
  BY <1>1, <1>2, AppendProperties, LenProperties DEF Keep, secret
<1>5. /\ file' = file /\ at' = at + 1 /\ at \in Nat /\ pc' = "line" /\ "table" \notin refused'
      /\ UNCHANGED <<size, len>> /\ Len(secrets) < alloc
      /\ alloc' = IF Len(secrets) = alloc - 1 THEN alloc + ALLOC_SIZE ELSE alloc
  BY <1>1 DEF Keep, SecretsInv, BuffersFit
<1>6. SecretsTypeOK' /\ BuffersFit' /\ ReadOut'
  <2>1. alloc' \in Nat /\ Len(secrets') < alloc'
    BY <1>1, <1>4, <1>5
  <2>2. at' \in 1 .. Len(file') + 1
    BY <1>1, <1>5
  <2> QED BY <1>4, <1>5, <2>1, <2>2
          DEF SecretsInv, SecretsTypeOK, BuffersFit, ReadOut, Copies
<1>7. Missing'
  <2> SUFFICES ASSUME NEW i \in 1 .. Len(secrets) + 1
               PROVE  /\ secrets'[i].name = NULL => "name" \in refused'
                      /\ secrets'[i].value = NULL => "value" \in refused'
    BY <1>4 DEF Missing
  <2>1. i \in DOMAIN secrets \/ i = Len(secrets) + 1
    BY <1>4
  <2> QED BY <1>3, <1>4, <2>1 DEF SecretsInv, Missing
<1>8. Origin'
  <2> SUFFICES ASSUME NEW i \in 1 .. Len(secrets) + 1, secrets'[i].name # NULL,
                      \A j \in 1 .. i - 1 : secrets'[j].name \notin {secrets'[i].name, NULL}
               PROVE  \E k \in 1 .. at : FirstOfName(k) /\ CopyOf(secrets'[i], file[k])
    <3>1. at' - 1 = at
      BY <1>5
    <3>2. \A k : FirstOfName(k)' <=> FirstOfName(k)
      BY <1>5 DEF FirstOfName, Valid
    <3>3. \A i \in DOMAIN secrets' : \A k : CopyOf(secrets'[i], file'[k]) <=> CopyOf(secrets'[i], file[k])
      BY <1>5
    <3>4. Origin' <=> \A i \in DOMAIN secrets' :
            secrets'[i].name # NULL /\ (\A j \in 1 .. i - 1 : secrets'[j].name \notin {secrets'[i].name, NULL}) =>
              \E k \in 1 .. at' - 1 : FirstOfName(k)' /\ CopyOf(secrets'[i], file'[k])
      BY Zenon DEF Origin, CopyOf
    <3> HIDE DEF CopyOf
    <3> QED BY <1>4, <3>1, <3>2, <3>3, <3>4, Zenon
  <2>1. CASE i \in DOMAIN secrets
    <3>1. /\ secrets[i].name # NULL /\ secrets'[i] = secrets[i]
          /\ \A j \in 1 .. i - 1 : secrets[j].name \notin {secrets[i].name, NULL}
      BY <1>4, <2>1
    <3>2. PICK k \in 1 .. at - 1 : FirstOfName(k) /\ CopyOf(secrets[i], file[k])
      BY <2>1, <3>1 DEF SecretsInv, Origin
    <3>3. k \in 1 .. at
      BY <1>5
    <3> QED BY <3>1, <3>2, <3>3
  <2>2. CASE i = Len(secrets) + 1
    <3>1. secrets'[i] = secret /\ name = file[at].name
      BY <1>3, <1>4, <2>2
    <3>2. \A j \in DOMAIN secrets : secrets[j].name \notin {file[at].name, NULL}
      BY <1>3, <1>4, <2>2, <3>1
    <3>3. FirstOfName(at)
      <4>1. \A l \in 1 .. at - 1 : Valid(file[l]) => file[l].name # file[at].name
        BY <1>1, <3>2 DEF SecretsInv, Named
      <4> QED BY <1>1, <4>1 DEF FirstOfName
    <3>4. at \in 1 .. at /\ CopyOf(secrets'[i], file[at])
      BY <1>1, <1>3, <1>5, <3>1 DEF CopyOf
    <3> QED BY <3>3, <3>4
  <2> QED BY <1>4, <2>1, <2>2
<1>9. Named'
  <2>1. CASE \E i \in DOMAIN secrets : secrets[i].name = NULL
    <3>1. PICK i \in DOMAIN secrets : secrets[i].name = NULL
      BY <2>1
    <3>2. i \in DOMAIN secrets' /\ secrets'[i].name = NULL
      BY <1>4, <3>1
    <3> QED BY <3>2 DEF Named
  <2>2. CASE name = NULL
    <3>1. Len(secrets) + 1 \in DOMAIN secrets' /\ secrets'[Len(secrets) + 1].name = NULL
      BY <1>3, <1>4, <2>2
    <3> QED BY <3>1 DEF Named
  <2>3. CASE name = file[at].name /\ ~(\E i \in DOMAIN secrets : secrets[i].name = NULL)
    <3> SUFFICES ASSUME NEW k \in 1 .. at, Valid(file[k])
                 PROVE  \E i \in 1 .. Len(secrets) + 1 : secrets'[i].name = file[k].name
      <4>1. at' - 1 = at
        BY <1>5
      <4> QED BY <1>4, <1>5, <4>1 DEF Named, Valid
    <3>1. CASE k = at
      <4>1. Len(secrets) + 1 \in 1 .. Len(secrets) + 1
        BY <1>4
      <4> QED BY <1>3, <1>4, <2>3, <3>1, <4>1
    <3>2. CASE k # at
      <4>1. k \in 1 .. at - 1
        BY <1>5, <3>2
      <4>2. PICK i \in DOMAIN secrets : secrets[i].name = file[k].name
        BY <1>1, <2>3, <4>1 DEF SecretsInv, Named
      <4> QED BY <1>4, <4>2
    <3> QED BY <3>1, <3>2
  <2> QED BY <2>1, <2>2, <2>3
<1> QED BY <1>6, <1>7, <1>8, <1>9 DEF SecretsInv

LEMMA StoreKept ==
  ASSUME SecretsInv, Store \/ CopyFails
  PROVE  SecretsInv'
<1>1. at \in 1 .. Len(file) /\ file \in Seq(Line)
  BY DEF SecretsInv, SecretsTypeOK, Store, CopyFails, Keep
<1>2. file[at] \in Line
  BY <1>1
<1>3. file[at].name # NULL /\ file[at].value # NULL
  BY <1>2, SecretsAssumption
<1>4. CASE Store
  BY <1>3, <1>4, KeepKept DEF Store
<1>5. CASE refused' = refused \cup {"name"} /\ Keep(NULL, file[at].value)
  BY <1>3, <1>5, KeepKept
<1>6. CASE refused' = refused \cup {"value"} /\ Keep(file[at].name, NULL)
  BY <1>3, <1>6, KeepKept
<1> QED BY <1>4, <1>5, <1>6 DEF CopyFails

LEMMA NextKept ==
  ASSUME SecretsInv, [SecretsNext]_secrets_vars
  PROVE  SecretsInv'
<1>1. CASE UNCHANGED secrets_vars
  <2>1. UNCHANGED <<file, at, size, len, alloc, secrets, refused, pc>>
    BY <1>1 DEF secrets_vars
  <2>2. (SecretsTypeOK /\ BuffersFit /\ ReadOut)'
    BY <2>1 DEF SecretsInv, SecretsTypeOK, BuffersFit, ReadOut, Copies
  <2>3. Origin' /\ Named' /\ Missing'
    BY <2>1, SameTable
  <2> QED BY <2>2, <2>3 DEF SecretsInv
<1>2. CASE SecretsNext
  BY <1>2, LineKept, EndKept, GrowFailsKept, SkipKept, StoreKept DEF SecretsNext, Load, Refuse
<1> QED BY <1>1, <1>2

(* At the end the invariant says what get_env finds.                       *)
LEMMA FirstIsFound == SecretsInv => FirstDefinition
<1> SUFFICES ASSUME SecretsInv, pc = "loaded", NEW name \in {line.name : line \in Line}
             PROVE  \/ refused # {} /\ get_env(name) \in {NULL, Killed}
                    \/ Defining(name) = {} /\ get_env(name) = NULL
                    \/ \E i \in Defining(name) :
                         (\A j \in Defining(name) : i <= j) /\ get_env(name) = file[i].value
  BY DEF FirstDefinition
<1>1. /\ secrets \in Seq(Copies) /\ file \in Seq(Line) /\ Len(file) \in Nat
      /\ at \in 1 .. Len(file) + 1
  BY DEF SecretsInv, SecretsTypeOK
<1>2. name # NULL
  BY SecretsAssumption
<1> DEFINE named == {i \in DOMAIN secrets : secrets[i].name = name}
           stopped == \E i \in DOMAIN secrets :
                        secrets[i].name = NULL /\ \A j \in named : i < j
<1>3. CASE stopped
  <2>1. get_env(name) = Killed
    BY <1>3 DEF get_env
  <2>2. refused # {}
    BY <1>3 DEF SecretsInv, Missing
  <2> QED BY <2>1, <2>2
<1>4. CASE ~stopped /\ named = {}
  <2>1. get_env(name) = NULL
    BY <1>4 DEF get_env
  <2>2. CASE refused # {}
    BY <2>1, <2>2
  <2>3. CASE refused = {}
    <3>1. at - 1 = Len(file)
      BY <1>1, <2>3 DEF SecretsInv, ReadOut
    <3>2. \A i \in DOMAIN secrets : secrets[i].name # NULL
      BY <2>3 DEF SecretsInv, Missing
    <3>3. Defining(name) = {}
      BY <1>4, <2>3, <3>1, <3>2 DEF SecretsInv, Named, Defining
    <3> QED BY <2>1, <3>3
  <2> QED BY <2>2, <2>3
<1>5. CASE ~stopped /\ named # {}
  <2>1. named \in SUBSET Nat
    BY <1>1
  <2>2. \E m \in named : \A j \in named : m <= j
    BY <1>5, <2>1, NatHasLeast
  <2> DEFINE m == CHOOSE i \in named : \A j \in named : i <= j
  <2>3. m \in named /\ \A j \in named : m <= j
    BY <2>2
  <2>4. get_env(name) = secrets[m].value
    BY <1>5 DEF get_env
  <2> HIDE DEF m
  <2>5. \A j \in 1 .. m - 1 : secrets[j].name \notin {secrets[m].name, NULL}
    <3> SUFFICES ASSUME NEW j \in 1 .. m - 1 PROVE secrets[j].name \notin {name, NULL}
      BY <2>3
    <3>1. j \in DOMAIN secrets /\ j < m /\ j \in Nat /\ m \in Nat
      BY <1>1, <2>3
    <3>2. secrets[j].name # name
      BY <2>3, <3>1
    <3>3. secrets[j].name # NULL
      <4>1. \A i \in named : j < i
        BY <2>1, <2>3, <3>1
      <4> QED BY <1>5, <3>1, <4>1
    <3> QED BY <3>2, <3>3
  <2>6. PICK k \in 1 .. at - 1 : FirstOfName(k) /\ CopyOf(secrets[m], file[k])
    BY <1>2, <2>3, <2>5 DEF SecretsInv, Origin
  <2>7. file[k].name = name
    BY <2>3, <2>6 DEF CopyOf
  <2>8. k \in Defining(name) /\ \A j \in Defining(name) : k <= j
    BY <1>1, <2>6, <2>7 DEF Defining, FirstOfName
  <2>9. secrets[m].value = NULL => refused # {}
    BY <2>3 DEF SecretsInv, Missing
  <2> QED BY <2>4, <2>6, <2>8, <2>9 DEF CopyOf
<1> QED BY <1>3, <1>4, <1>5

-----------------------------------------------------------------------------
(* The registry: the inductive invariant, and what get_route finds.        *)

(* A place of the array holds a route of the table that was registered.    *)
Registered ==
  /\ unregistered \subseteq 1 .. next - 1
  /\ \A i \in DOMAIN routes : \E n \in 1 .. next - 1 :
       n \notin unregistered /\ routes[i] = Route(n)

(* They come in the order of the table, and all of them came.              *)
InOrder ==
  /\ \A i, j \in DOMAIN routes : i < j => routes[i].index < routes[j].index
  /\ \A n \in 1 .. next - 1 :
       n \in unregistered \/ \E i \in DOMAIN routes : routes[i].index = n

(* Nothing is registered after the first request.                          *)
ThenAsked == req # NoRequest => next = Len(Table) + 1 /\ req \in Requests

(* What get_route returns for a request when all has been registered.      *)
ServedWithout(lost, r, answer) ==
  LET kept == {i \in 1 .. Len(Table) : i \notin lost /\ Table[i].path = r.path}
      first == CHOOSE i \in kept : \A j \in kept : i <= j
      methods == {Table[first].allowed_methods[k] : k \in DOMAIN Table[first].allowed_methods}
  IN answer = IF kept = {} THEN NotFound
              ELSE IF Upper[r.method] \in methods THEN ValidRoute(first) ELSE NotAllowed

Served(r, answer) == ServedWithout(unregistered, r, answer)

RegistryInv ==
  /\ RegistryTypeOK /\ RoutesFit
  /\ routes \in Seq(Range(routes))
  /\ Registered /\ InOrder /\ ThenAsked
  /\ req # NoRequest => Served(req, found)

(* What counts the places of an array before the first empty one counts    *)
(* its places that are not empty.                                          *)
LEMMA CountsPlaces ==
  ASSUME NEW array, Packed(array)
  PROVE  /\ Counted(array) \in Nat
         /\ {k \in DOMAIN array : array[k] # NONE} = 1 .. Counted(array)
         /\ Counted(array) = Cardinality({k \in DOMAIN array : array[k] # NONE})
<1> DEFINE full == {k \in DOMAIN array : array[k] # NONE}
           rest == {k \in Nat \ {0} : k \notin full}
<1>1. Len(array) \in Nat /\ DOMAIN array = 1 .. Len(array)
  BY DEF Packed
<1>2. full = {n \in 1 .. Len(array) : \A i \in 1 .. n : array[i] # NONE}
  BY <1>1 DEF Packed
<1>3. Counted(array) = Cardinality(full)
  BY <1>2 DEF Counted
<1>4. rest \in SUBSET Nat /\ Len(array) + 1 \in rest
  BY <1>1
<1>5. PICK m \in rest : \A k \in rest : m <= k
  BY <1>4, NatHasLeast
<1>6. full = 1 .. m - 1
  <2>1. ASSUME NEW k \in full PROVE k \in 1 .. m - 1
    <3>1. k \in Nat \ {0} /\ m \in Nat \ {0}
      BY <1>1, <1>5
    <3>2. k < m
      <4> SUFFICES ASSUME m <= k PROVE FALSE
        BY <3>1
      <4>1. m \in 1 .. k /\ m \in DOMAIN array
        BY <1>1, <3>1
      <4>2. array[m] # NONE
        BY <4>1 DEF Packed
      <4> QED BY <1>5, <4>1, <4>2
    <3> QED BY <3>1, <3>2
  <2>2. ASSUME NEW k \in 1 .. m - 1 PROVE k \in full
    BY <1>5
  <2> QED BY <2>1, <2>2
<1>7. Cardinality(full) = m - 1
  <2>1. m \in Nat \ {0} /\ m - 1 \in Int /\ 1 \in Int
    BY <1>5
  <2>2. Cardinality(1 .. m - 1) = IF 1 > m - 1 THEN 0 ELSE m - 1 - 1 + 1
    BY <2>1, FS_Interval
  <2>3. Cardinality(1 .. m - 1) = m - 1
    BY <2>1, <2>2
  <2> QED BY <1>6, <2>3
<1> QED BY <1>3, <1>5, <1>6, <1>7

LEMMA RegistryInitKept == RegistryInit => RegistryInv
<1> SUFFICES ASSUME RegistryInit PROVE RegistryInv
  OBVIOUS
<1>1. routes = <<>> /\ Len(routes) = 0 /\ DOMAIN routes = {} /\ next = 1 /\ unregistered = {}
  BY DEF RegistryInit
<1>2. RegistryTypeOK /\ RoutesFit
  BY <1>1, RegistryAssumption DEF RegistryInit, RegistryTypeOK, RoutesFit
<1>3. Registered /\ InOrder
  BY <1>1 DEF Registered, InOrder
<1>4. routes \in Seq(Range(routes)) /\ req = NoRequest
  BY <1>1 DEF RegistryInit
<1> QED BY <1>2, <1>3, <1>4 DEF RegistryInv, ThenAsked

(* A route goes to the end of the array, or nowhere.                       *)
LEMMA RegisterKept ==
  ASSUME RegistryInv, RegisterRoute \/ RegisterFails
  PROVE  RegistryInv'
<1>0. /\ FIRST_CAPACITY \in Nat \ {0} /\ Len(Table) \in Nat /\ Len(routes) \in Nat
      /\ DOMAIN routes = 1 .. Len(routes) /\ next \in 1 .. Len(Table) /\ req = NoRequest
      /\ routes \in Seq(Range(routes))
  BY RegistryAssumption
     DEF RegistryInv, RegistryTypeOK, ThenAsked, RegisterRoute, RegisterFails
<1>1. req' = NoRequest /\ next' = next + 1
  BY <1>0 DEF RegisterRoute, RegisterFails
<1>2. CASE RegisterRoute
  <2> DEFINE both == Range(routes) \cup {Route(next)}
  <2>1. routes \in Seq(both) /\ Route(next) \in both
    BY <1>0
  <2> HIDE DEF both
  <2>2. /\ routes' \in Seq(both) /\ Len(routes') = Len(routes) + 1
        /\ \A i \in 1 .. Len(routes) : routes'[i] = routes[i]
        /\ routes'[Len(routes) + 1] = Route(next)
    BY <1>0, <1>2, <2>1, AppendProperties DEF RegisterRoute
  <2>3. DOMAIN routes' = 1 .. Len(routes) + 1
    BY <2>2
  <2>4. routes' \in Seq(Range(routes'))
    BY <2>2, <2>3 DEF Range
  <2>5. RegistryTypeOK' /\ RoutesFit'
    BY <1>0, <1>2, <2>2 DEF RegisterRoute, Grown, RegistryInv, RegistryTypeOK, RoutesFit
  <2>6. unregistered' = unregistered /\ next \notin unregistered
    BY <1>0, <1>2 DEF RegisterRoute, RegistryInv, Registered
  <2>7. Registered'
    <3>1. ASSUME NEW i \in 1 .. Len(routes) + 1
          PROVE  \E n \in 1 .. next : n \notin unregistered /\ routes'[i] = Route(n)
      BY <1>0, <2>2, <2>6 DEF RegistryInv, Registered
    <3>2. next' - 1 = next /\ unregistered \subseteq 1 .. next
      BY <1>0, <1>1 DEF RegistryInv, Registered
    <3> QED BY <2>3, <2>6, <3>1, <3>2 DEF Registered, Route
  <2>8. InOrder'
    <3>1. \A i \in 1 .. Len(routes) : routes[i].index \in 1 .. next - 1
      BY <1>0 DEF RegistryInv, Registered, Route
    <3>2. routes'[Len(routes) + 1].index = next
      BY <2>2 DEF Route
    <3>3. \A i, j \in 1 .. Len(routes) + 1 : i < j => routes'[i].index < routes'[j].index
      <4> SUFFICES ASSUME NEW i \in 1 .. Len(routes) + 1, NEW j \in 1 .. Len(routes) + 1, i < j
                   PROVE  routes'[i].index < routes'[j].index
        OBVIOUS
      <4>1. i \in 1 .. Len(routes) /\ routes'[i] = routes[i]
        BY <1>0, <2>2
      <4>2. CASE j = Len(routes) + 1
        <5>1. routes[i].index \in 1 .. next - 1
          BY <3>1, <4>1
        <5> QED BY <1>0, <3>2, <4>1, <4>2, <5>1
      <4>3. CASE j # Len(routes) + 1
        <5>1. j \in 1 .. Len(routes) /\ routes'[j] = routes[j]
          BY <1>0, <2>2, <4>3
        <5> QED BY <1>0, <4>1, <5>1 DEF RegistryInv, InOrder
      <4> QED BY <4>2, <4>3
    <3>4. \A n \in 1 .. next : n \in unregistered
              \/ \E i \in 1 .. Len(routes) + 1 : routes'[i].index = n
      BY <1>0, <2>2, <3>2 DEF RegistryInv, InOrder
    <3> QED BY <1>0, <1>1, <2>3, <2>6, <3>3, <3>4 DEF InOrder
  <2> QED BY <1>1, <2>4, <2>5, <2>7, <2>8 DEF RegistryInv, ThenAsked
<1>3. CASE RegisterFails
  <2>1. routes' = routes /\ unregistered' = unregistered \cup {next}
    BY <1>3 DEF RegisterFails
  <2>2. RegistryTypeOK' /\ RoutesFit'
    BY <1>0, <1>3 DEF RegisterFails, RegistryInv, RegistryTypeOK, RoutesFit
  <2>3. Registered'
    BY <1>0, <1>1, <2>1 DEF RegistryInv, Registered, Route
  <2>4. InOrder'
    BY <1>0, <1>1, <2>1 DEF RegistryInv, InOrder
  <2> QED BY <1>0, <1>1, <2>1, <2>2, <2>3, <2>4 DEF RegistryInv, ThenAsked
<1> QED BY <1>2, <1>3

(* The first place with the path holds the first registered route with it. *)
LEMMA FirstAnswers ==
  ASSUME RegistryInv, next = Len(Table) + 1, NEW r \in Requests
  PROVE  Served(r, get_route(r.path, r.method))
<1> DEFINE same == {i \in DOMAIN routes : routes[i].path = r.path}
           kept == {n \in 1 .. Len(Table) : n \notin unregistered /\ Table[n].path = r.path}
<1>0. /\ Len(Table) \in Nat /\ Len(routes) \in Nat /\ DOMAIN routes = 1 .. Len(routes)
      /\ next - 1 = Len(Table)
  BY RegistryAssumption DEF RegistryInv, RegistryTypeOK
<1>1. \A i \in DOMAIN routes : /\ routes[i].index \in 1 .. Len(Table) \ unregistered
                               /\ routes[i] = Route(routes[i].index)
                               /\ routes[i].path = Table[routes[i].index].path
  BY <1>0 DEF RegistryInv, Registered, Route
<1>2. \A i \in same : routes[i].index \in kept
  BY <1>1
<1>3. \A n \in kept : \E i \in same : routes[i].index = n
  BY <1>0, <1>1 DEF RegistryInv, InOrder
<1>4. CASE same = {}
  <2>1. kept = {}
    BY <1>3, <1>4
  <2> QED BY <1>4, <2>1 DEF Served, ServedWithout, get_route
<1>5. CASE same # {}
  <2>0. kept # {} /\ same \in SUBSET Nat /\ kept \in SUBSET Nat
    BY <1>0, <1>2, <1>5
  <2> DEFINE i == CHOOSE i \in same : \A j \in same : i <= j
             first == CHOOSE n \in kept : \A m \in kept : n <= m
  <2>1. i \in same /\ \A j \in same : i <= j
    <3>1. \E n \in same : \A m \in same : n <= m
      BY <1>5, <2>0, NatHasLeast
    <3> QED BY <3>1
  <2>2. first \in kept /\ \A m \in kept : first <= m
    <3>1. \E n \in kept : \A m \in kept : n <= m
      BY <2>0, NatHasLeast
    <3> QED BY <3>1
  <2>3. Served(r, get_route(r.path, r.method)) <=>
          (IF \E k \in DOMAIN routes[i].methods : routes[i].methods[k] = Upper[r.method]
           THEN ValidRoute(routes[i].index) ELSE NotAllowed)
          = (IF Upper[r.method] \in {Table[first].allowed_methods[k] :
                                       k \in DOMAIN Table[first].allowed_methods}
             THEN ValidRoute(first) ELSE NotAllowed)
    <3>1. get_route(r.path, r.method) =
            IF \E k \in DOMAIN routes[i].methods : routes[i].methods[k] = Upper[r.method]
            THEN ValidRoute(routes[i].index) ELSE NotAllowed
      BY <1>5 DEF get_route
    <3>2. ASSUME NEW answer
          PROVE  Served(r, answer) <=>
                   answer = IF Upper[r.method] \in {Table[first].allowed_methods[k] :
                                                      k \in DOMAIN Table[first].allowed_methods}
                            THEN ValidRoute(first) ELSE NotAllowed
      BY <2>0 DEF Served, ServedWithout
    <3> HIDE DEF i, first
    <3> QED BY <3>1, <3>2
  <2> HIDE DEF i, first
  <2>4. routes[i].index = first
    <3>1. PICK j \in same : routes[j].index = first
      BY <1>3, <2>2
    <3>2. i <= j /\ i \in Nat /\ j \in Nat /\ routes[i].index \in Nat /\ first \in Nat
      BY <1>0, <1>1, <2>1, <2>2
    <3>3. first <= routes[i].index
      BY <1>2, <2>1, <2>2
    <3>4. i < j => routes[i].index < routes[j].index
      BY <2>1 DEF RegistryInv, InOrder
    <3> QED BY <3>1, <3>2, <3>3, <3>4
  <2> DEFINE given == Table[first].allowed_methods
             n == Counted(given)
  <2>5. routes[i].methods = SubSeq(given, 1, n)
    BY <1>1, <2>1, <2>4 DEF Route
  <2>6. first \in 1 .. Len(Table) /\ Packed(given)
    BY <2>2, RegistryAssumption
  <2>7. n \in Nat /\ {k \in DOMAIN given : given[k] # NONE} = 1 .. n
    BY <2>6, CountsPlaces
  <2> HIDE DEF n, given
  <2>8. /\ DOMAIN routes[i].methods = 1 .. n
        /\ \A k \in 1 .. n : routes[i].methods[k] = given[k]
    <3>1. \A k \in 1 .. n : given[k] \in {given[l] : l \in 1 .. n}
      OBVIOUS
    <3>2. /\ SubSeq(given, 1, n) \in Seq({given[l] : l \in 1 .. n})
          /\ Len(SubSeq(given, 1, n)) = n
          /\ \A k \in 1 .. n : SubSeq(given, 1, n)[k] = given[k]
      <4>1. 1 \in Int /\ n \in Int /\ n - 1 + 1 = n /\ (1 <= n \/ n = 0)
        BY <2>7
      <4>2. /\ SubSeq(given, 1, n) \in Seq({given[l] : l \in 1 .. n})
            /\ Len(SubSeq(given, 1, n)) = IF 1 <= n THEN n - 1 + 1 ELSE 0
            /\ \A k \in 1 .. n - 1 + 1 : SubSeq(given, 1, n)[k] = given[1 + k - 1]
        BY <3>1, <4>1, SubSeqProperties
      <4>3. \A k \in 1 .. n : 1 + k - 1 = k
        OBVIOUS
      <4> QED BY <4>1, <4>2, <4>3
    <3> QED BY <2>5, <2>7, <3>2
  <2>9. Upper[r.method] # NONE
    BY RegistryAssumption
  <2>10. (\E k \in DOMAIN routes[i].methods : routes[i].methods[k] = Upper[r.method])
           <=> Upper[r.method] \in {given[k] : k \in DOMAIN given}
    BY <2>7, <2>8, <2>9
  <2> QED BY <2>3, <2>4, <2>10 DEF given
<1> QED BY <1>4, <1>5

LEMMA RegistryNextKept ==
  ASSUME RegistryInv, [RegistryNext]_registry_vars
  PROVE  RegistryInv'
<1>1. CASE RegisterRoute \/ RegisterFails
  BY <1>1, RegisterKept
<1>2. ASSUME NEW r \in Requests, GetRoute(r) PROVE RegistryInv'
  <2>1. /\ next \in 1 .. Len(Table) + 1 /\ Len(Table) \in Nat /\ next > Len(Table)
        /\ UNCHANGED <<routes, capacity, next, unregistered>> /\ req' = r
        /\ found' = get_route(r.path, r.method)
    BY <1>2, RegistryAssumption DEF GetRoute, RegistryInv, RegistryTypeOK
  <2>2. next = Len(Table) + 1
    BY <2>1
  <2>3. Served(r, found')
    BY <2>1, <2>2, FirstAnswers
  <2>4. Served(req, found)'
    BY <2>1, <2>3 DEF Served
  <2>5. (RegistryTypeOK /\ RoutesFit /\ routes \in Seq(Range(routes)) /\ Registered /\ InOrder)'
    BY <2>1 DEF RegistryInv, RegistryTypeOK, RoutesFit, Registered, InOrder, Range
  <2> QED BY <2>1, <2>2, <2>4, <2>5 DEF RegistryInv, ThenAsked
<1>3. CASE UNCHANGED registry_vars
  <2>1. UNCHANGED <<routes, capacity, next, unregistered, req, found>>
    BY <1>3 DEF registry_vars
  <2>2. (RegistryTypeOK /\ RoutesFit /\ routes \in Seq(Range(routes)) /\ Registered /\ InOrder
          /\ ThenAsked)'
    BY <2>1 DEF RegistryInv, RegistryTypeOK, RoutesFit, Registered, InOrder, ThenAsked, Range,
                Route
  <2>3. req' # NoRequest => Served(req, found)'
    <3>1. req # NoRequest => Served(req, found)
      BY DEF RegistryInv
    <3>2. Served(req, found) => Served(req, found)'
      BY <2>1 DEF Served
    <3> QED BY <2>1, <3>1, <3>2
  <2> QED BY <2>2, <2>3 DEF RegistryInv, NoRequest
<1> QED BY <1>1, <1>2, <1>3 DEF RegistryNext

LEMMA TableIsServed == RegistryInv => TableServed
<1> SUFFICES ASSUME RegistryInv PROVE TableServed
  OBVIOUS
<1>1. ASSUME NEW i \in DOMAIN routes
      PROVE  routes[i].middleware_count
               = Cardinality({k \in DOMAIN Table[routes[i].index].middlewares :
                                Table[routes[i].index].middlewares[k] # NONE})
  <2>1. PICK n \in 1 .. next - 1 : routes[i] = Route(n)
    BY DEF RegistryInv, Registered
  <2>2. n \in 1 .. Len(Table)
    BY RegistryAssumption DEF RegistryInv, RegistryTypeOK
  <2>3. Packed(Table[n].middlewares)
    BY <2>2, RegistryAssumption
  <2>4. routes[i].middleware_count = Counted(Table[n].middlewares) /\ routes[i].index = n
    BY <2>1 DEF Route
  <2> QED BY <2>3, <2>4, CountsPlaces
<1> QED BY <1>1, Zenon DEF RegistryInv, Served, ServedWithout, TableServed

-----------------------------------------------------------------------------
(* The whole of main: neither part touches the other's state.              *)

StartUpInv == SecretsInv /\ RegistryInv

LEMMA StartUpInitKept == Init => StartUpInv
BY InitKept, RegistryInitKept DEF Init, StartUpInv

LEMMA StartUpNextKept ==
  ASSUME StartUpInv, [Next]_vars
  PROVE  StartUpInv'
<1>1. [SecretsNext]_secrets_vars
  BY DEF Next, LoadEnv, LoadEnvFails, RegisterRoutes, Serve, vars, SecretsNext
<1>2. [RegistryNext]_registry_vars
  BY DEF Next, LoadEnv, LoadEnvFails, RegisterRoutes, Serve, vars, RegistryNext
<1>3. SecretsInv'
  BY <1>1, NextKept DEF StartUpInv
<1>4. RegistryInv'
  BY <1>2, RegistryNextKept DEF StartUpInv
<1> QED BY <1>3, <1>4 DEF StartUpInv

THEOREM StartUpInvariant == Spec => []StartUpInv
<1>1. StartUpInv /\ [Next]_vars => StartUpInv'
  BY StartUpNextKept
<1> QED BY <1>1, StartUpInitKept, PTL DEF Spec

(* Every variable keeps its type.                                          *)
THEOREM StartUpTypes == Spec => []TypeOK
<1>1. StartUpInv => TypeOK
  BY DEF StartUpInv, SecretsInv, RegistryInv, TypeOK
<1> QED BY <1>1, StartUpInvariant, PTL

(* read_line always has room for the terminator, load_env for the next     *)
(* secret and register_route for the route it writes, however long the     *)
(* lines and however many the secrets and the routes are.                  *)
THEOREM StartUpAlwaysFits == Spec => []StartUpFits
<1>1. StartUpInv => StartUpFits
  BY DEF StartUpInv, SecretsInv, RegistryInv, StartUpFits
<1> QED BY <1>1, StartUpInvariant, PTL

(* get_env gives the value of the first definition in the file; when       *)
(* something was refused it may give none, or kill the process at a name   *)
(* that was not copied, but it never gives the value of a later one.       *)
THEOREM FirstCounts == Spec => []FirstDefinition
<1>1. StartUpInv => FirstDefinition
  BY FirstIsFound DEF StartUpInv
<1> QED BY <1>1, StartUpInvariant, PTL

(* Whatever routes could not be registered, a request gets the first one   *)
(* of the table with its path that was, for its methods and no other, with *)
(* all of its middlewares: main may ignore what register_route returns.    *)
THEOREM TableIsAlwaysServed == Spec => []TableServed
<1>1. StartUpInv => TableServed
  BY TableIsServed DEF StartUpInv
<1> QED BY <1>1, StartUpInvariant, PTL

=============================================================================
