--------------------------- MODULE TrackerProofs ---------------------------
(***************************************************************************)
(* Theorems about the id tracker, for any number of processes, ids and     *)
(* faults. The invariant comes in four layers, each of which needs those   *)
(* before it: who holds which file, what the lines of a file say of each   *)
(* other, which files have a line for every table, and how the lines stand *)
(* to the ids that went into rows.                                         *)
(***************************************************************************)
EXTENDS IdTracker, FiniteSetTheorems, SequenceTheorems, WellFoundedInduction, TLAPS

-----------------------------------------------------------------------------
(* Files and who holds them.                                               *)

Lines == [store : Tables, cur_id : Nat]
Calls == {"off", "has", "init", "bind", "idle", "insert", "tmp", "remove", "rename",
          "reopen", "dying"}
ServingCalls == Calls \ {"off", "has", "init", "bind"}

TrackerTypes ==
  /\ pc \in [Processes -> Calls] /\ table \in [Processes -> Tables]
  /\ id \in [Processes -> Nat \cup {NoId}]
  /\ stream \in [Processes -> Files \cup {None}] /\ path \in Files \cup {None}
  /\ files \in [Files -> Seq(Lines)] /\ tmp \in Seq(Lines)
  /\ port \in Processes \cup {NoOne}
  /\ issued \in [Tables -> Seq(Nat \cup {NoId})]
  /\ harmed \subseteq {"stale", "lost", "empty", "late"} /\ faults \in Nat

InUse(f) == f = path \/ \E p \in Processes : f = stream[p]

(* One process serves, one that runs has a stream, and a file that nothing *)
(* keeps is gone.                                                          *)
Held ==
  /\ \A p \in Processes : pc[p] \in ServingCalls <=> port = p
  /\ \A p \in Processes : pc[p] = "off" <=> stream[p] = None
  /\ \A f \in Files : ~ InUse(f) => files[f] = <<>>

FilesInv == TrackerTypes /\ Held

(* There are more inode numbers than names and streams.                    *)
LEMMA AlwaysAFreeFile ==
  ASSUME TrackerTypes
  PROVE  FreeFile \in Files /\ FreeFile # path /\ \A p \in Processes : FreeFile # stream[p]
<1> DEFINE n == Cardinality(Processes)
           open == {stream[p] : p \in Processes}
           used == open \cup {path}
<1>1. IsFiniteSet(Processes)
  BY TrackerAssumption
<1>2. n \in Nat
  BY <1>1, FS_CardinalityType
<1>3. stream \in Surjection(Processes, open)
  BY DEF Surjection, TrackerTypes
<1>4. IsFiniteSet(open) /\ Cardinality(open) <= n
  BY <1>1, <1>3, FS_Surjection
<1>5. Cardinality(open) \in Nat
  BY <1>4, FS_CardinalityType
<1>6. IsFiniteSet(used) /\ Cardinality(used) <= n + 1
  <2>1. /\ IsFiniteSet(used)
        /\ Cardinality(used) = IF path \in open THEN Cardinality(open) ELSE Cardinality(open) + 1
    BY <1>4, FS_AddElement
  <2> QED BY <1>2, <1>4, <1>5, <2>1
<1>7. \E f \in Files : f \notin used
  <2> SUFFICES ASSUME Files \in SUBSET used PROVE FALSE
    OBVIOUS
  <2>1. Cardinality(Files) <= Cardinality(used)
    BY <1>6, FS_Subset
  <2>2. Cardinality(Files) = n + 2
    <3>1. Files = 1 .. n + 2
      BY DEF Files
    <3>2. Cardinality(1 .. n + 2) = IF 1 > n + 2 THEN 0 ELSE n + 2 - 1 + 1
      BY <1>2, FS_Interval
    <3> QED BY <1>2, <3>1, <3>2
  <2>3. Cardinality(used) \in Nat
    BY <1>6, FS_CardinalityType
  <2> QED BY <1>2, <1>6, <2>1, <2>2, <2>3
<1>8. \E f \in Files : f # path /\ \A p \in Processes : f # stream[p]
  BY <1>7
<1> QED BY <1>8 DEF FreeFile

(* A nonempty set of naturals has a least element.                         *)
LEMMA NatHasLeast ==
  ASSUME NEW S \in SUBSET Nat, S # {}
  PROVE  \E m \in S : \A k \in S : m <= k
<1> DEFINE R == {ss \in Nat \X Nat : ss[1] < ss[2]}
<1>1. IsWellFoundedOn(R, Nat)
  BY NatLessThanWellFounded DEF OpToRel
<1>2. \A x, y \in Nat : y < x => <<y, x>> \in R
  OBVIOUS
<1> HIDE DEF R
<1>3. PICK x \in S : \A y \in S : <<y, x>> \notin R
  BY <1>1, WFMin
<1>4. \A y \in S : x <= y
  <2>1. TAKE y \in S
  <2>2. x \in Nat /\ y \in Nat /\ ~(y < x)
    BY <1>2, <1>3
  <2> QED BY <2>2
<1> QED BY <1>4

LEMMA NoneIsNoFile == None \notin Files
BY DEF None, Files

(* What is kept is what is in use.                                         *)
LEMMA KeptFiles ==
  ASSUME NEW all \in [Files -> Seq(Lines)], files' = Kept(all)
  PROVE  /\ files' \in [Files -> Seq(Lines)]
         /\ \A f \in Files : files'[f] = IF InUse(f)' THEN all[f] ELSE <<>>
BY DEF Kept, InUse

(* fopen "a+" finds the file of the path, or makes an empty one.           *)
LEMMA OpenedFile ==
  ASSUME FilesInv, NEW p \in Processes, Opened(p)
  PROVE  /\ path' \in Files /\ files' \in [Files -> Seq(Lines)]
         /\ stream' = [stream EXCEPT ![p] = path'] /\ stream'[p] = path'
         /\ stream' \in [Processes -> Files \cup {None}]
         /\ path # None => path' = path
         /\ path = None => files[path'] = <<>>
         /\ \A f \in Files : files'[f] = IF InUse(f)' THEN files[f] ELSE <<>>
<1>1. path' = IF path = None THEN FreeFile ELSE path
  BY DEF Opened
<1>2. FreeFile \in Files /\ ~ InUse(FreeFile)
  BY AlwaysAFreeFile DEF FilesInv, InUse
<1>3. path' \in Files /\ (path = None => files[path'] = <<>>)
  BY <1>1, <1>2 DEF FilesInv, Held, TrackerTypes
<1>4. files \in [Files -> Seq(Lines)] /\ files' = Kept(files)
  BY DEF FilesInv, TrackerTypes, Opened
<1>5. stream' = [stream EXCEPT ![p] = path'] /\ stream \in [Processes -> Files \cup {None}]
  BY DEF FilesInv, TrackerTypes, Opened
<1> QED BY <1>1, <1>3, <1>4, <1>5, KeptFiles

(* A line is appended.                                                     *)
Longer(lines, t) == Append(lines, [store |-> t, cur_id |-> 0])

LEMMA LongerLines ==
  ASSUME NEW lines \in Seq(Lines), NEW t \in Tables
  PROVE  /\ Longer(lines, t) \in Seq(Lines)
         /\ DOMAIN lines \subseteq DOMAIN Longer(lines, t)
         /\ \A i \in DOMAIN lines : Longer(lines, t)[i] = lines[i]
         /\ \A i \in DOMAIN Longer(lines, t) : i \notin DOMAIN lines =>
              Longer(lines, t)[i].store = t /\ Longer(lines, t)[i].cur_id = 0
         /\ HasStore(Longer(lines, t), t)
         /\ \A u \in Tables : HasStore(lines, u) => HasStore(Longer(lines, t), u)
<1> DEFINE new == Longer(lines, t)
<1>1. [store |-> t, cur_id |-> 0] \in Lines
  BY DEF Lines
<1>2. /\ new \in Seq(Lines) /\ Len(new) = Len(lines) + 1 /\ Len(lines) \in Nat
      /\ DOMAIN lines = 1 .. Len(lines)
      /\ \A i \in 1 .. Len(lines) : new[i] = lines[i]
      /\ new[Len(lines) + 1] = [store |-> t, cur_id |-> 0]
  BY <1>1, AppendProperties DEF Longer
<1>3. DOMAIN new = 1 .. Len(lines) + 1
  BY <1>2
<1> HIDE DEF new
<1>4. \A i \in DOMAIN new : i \notin DOMAIN lines => new[i].store = t /\ new[i].cur_id = 0
  <2>1. [store |-> t, cur_id |-> 0].store = t /\ [store |-> t, cur_id |-> 0].cur_id = 0
    OBVIOUS
  <2>2. \A i \in DOMAIN new : i \notin DOMAIN lines => i = Len(lines) + 1
    BY <1>2, <1>3
  <2> QED BY <1>2, <2>1, <2>2
<1>5. HasStore(new, t)
  <2>1. Len(lines) + 1 \in DOMAIN new /\ Len(lines) + 1 \notin DOMAIN lines
    BY <1>2, <1>3
  <2> QED BY <1>4, <2>1 DEF HasStore
<1>6. \A u \in Tables : HasStore(lines, u) => HasStore(new, u)
  BY <1>2, <1>3 DEF HasStore
<1> QED BY <1>2, <1>3, <1>4, <1>5, <1>6 DEF new

(* Every line of one table is incremented.                                 *)
LEMMA IncrementedLines ==
  ASSUME NEW lines \in Seq(Lines), NEW t \in Tables
  PROVE  /\ Incremented(lines, t) \in Seq(Lines)
         /\ DOMAIN Incremented(lines, t) = DOMAIN lines
         /\ \A i \in DOMAIN lines :
              /\ Incremented(lines, t)[i].store = lines[i].store
              /\ lines[i].store = t =>
                   Incremented(lines, t)[i].cur_id = lines[i].cur_id + 1
              /\ lines[i].store # t => Incremented(lines, t)[i].cur_id = lines[i].cur_id
         /\ \A u \in Tables : HasStore(Incremented(lines, t), u) <=> HasStore(lines, u)
<1> DEFINE new == Incremented(lines, t)
<1>1. \A i \in DOMAIN lines : lines[i] \in Lines
  OBVIOUS
<1>2. /\ DOMAIN new = DOMAIN lines /\ DOMAIN lines = 1 .. Len(lines) /\ Len(lines) \in Nat
      /\ \A i \in DOMAIN lines :
           new[i] = IF lines[i].store = t
                    THEN [lines[i] EXCEPT !.cur_id = lines[i].cur_id + 1] ELSE lines[i]
  BY DEF Incremented
<1> HIDE DEF new
<1>3. \A i \in DOMAIN lines : new[i] \in Lines /\ new[i].store = lines[i].store
  BY <1>1, <1>2 DEF Lines
<1>4. new \in [1 .. Len(lines) -> Lines]
  <2>1. new = [i \in 1 .. Len(lines) |-> new[i]]
    BY DEF new, Incremented
  <2> QED BY <1>2, <1>3, <2>1
<1>5. \A i \in DOMAIN lines :
        /\ lines[i].store = t => new[i].cur_id = lines[i].cur_id + 1
        /\ lines[i].store # t => new[i].cur_id = lines[i].cur_id
  BY <1>1, <1>2 DEF Lines
<1>6. \A u \in Tables : HasStore(new, u) <=> HasStore(lines, u)
  BY <1>2, <1>3 DEF HasStore
<1>7. new \in Seq(Lines)
  BY <1>2, <1>4
<1> QED BY <1>2, <1>3, <1>5, <1>6, <1>7 DEF new

(* The first line of a table that get_next_identity finds.                 *)
LEMMA FirstLine ==
  ASSUME NEW lines \in Seq(Lines), NEW t \in Tables, HasStore(lines, t)
  PROVE  \E i \in DOMAIN lines :
           /\ lines[i].store = t /\ \A j \in 1 .. i - 1 : lines[j].store # t
           /\ FirstId(lines, t) = lines[i].cur_id /\ lines[i].cur_id \in Nat
<1> DEFINE found == {i \in DOMAIN lines : lines[i].store = t}
<1>1. Len(lines) \in Nat /\ DOMAIN lines = 1 .. Len(lines)
  OBVIOUS
<1>2. found \in SUBSET Nat /\ found # {}
  BY <1>1 DEF HasStore
<1>3. PICK m \in found : \A j \in found : m <= j
  BY <1>2, NatHasLeast
<1>4. m \in DOMAIN lines /\ lines[m].store = t /\ \A j \in 1 .. m - 1 : lines[j].store # t
  BY <1>1, <1>3
<1> DEFINE i == CHOOSE i \in DOMAIN lines :
                  lines[i].store = t /\ \A j \in 1 .. i - 1 : lines[j].store # t
<1>5. i \in DOMAIN lines /\ lines[i].store = t /\ \A j \in 1 .. i - 1 : lines[j].store # t
  BY <1>4
<1>6. FirstId(lines, t) = lines[i].cur_id
  BY DEF FirstId
<1>7. lines[i].cur_id \in Nat
  <2>1. lines[i] \in Lines
    BY <1>5
  <2> QED BY <2>1 DEF Lines
<1> QED BY <1>5, <1>6, <1>7

(* A line more does not change which is the first.                         *)
LEMMA SameFirst ==
  ASSUME NEW lines \in Seq(Lines), NEW t \in Tables, NEW u \in Tables, HasStore(lines, u)
  PROVE  /\ HasStore(Longer(lines, t), u)
         /\ FirstId(Longer(lines, t), u) = FirstId(lines, u)
<1> DEFINE new == Longer(lines, t)
<1>1. /\ new \in Seq(Lines) /\ HasStore(new, u) /\ DOMAIN lines \subseteq DOMAIN new
      /\ \A i \in DOMAIN lines : new[i] = lines[i]
  BY LongerLines
<1> HIDE DEF new
<1>2. PICK i \in DOMAIN lines :
        /\ lines[i].store = u /\ \A j \in 1 .. i - 1 : lines[j].store # u
        /\ FirstId(lines, u) = lines[i].cur_id
  BY FirstLine
<1>3. PICK k \in DOMAIN new :
        /\ new[k].store = u /\ \A j \in 1 .. k - 1 : new[j].store # u
        /\ FirstId(new, u) = new[k].cur_id
  BY <1>1, FirstLine
<1>4. i \in Nat \ {0} /\ k \in Nat \ {0} /\ DOMAIN lines = 1 .. Len(lines) /\ Len(lines) \in Nat
  BY <1>1
<1>5. ~ i < k
  BY <1>1, <1>2, <1>3, <1>4
<1>6. ~ k < i
  <2> SUFFICES ASSUME k < i PROVE FALSE
    OBVIOUS
  <2>1. k \in DOMAIN lines /\ k \in 1 .. i - 1
    BY <1>4
  <2> QED BY <1>1, <1>2, <1>3, <2>1
<1>7. i = k
  BY <1>4, <1>5, <1>6
<1> QED BY <1>1, <1>2, <1>3, <1>7 DEF new

-----------------------------------------------------------------------------
(* The first layer is kept.                                                *)

LEMMA FilesInit == Init => FilesInv
<1> SUFFICES ASSUME Init PROVE FilesInv
  OBVIOUS
<1>1. <<>> \in Seq(Lines) /\ <<>> \in Seq(Nat \cup {NoId})
  OBVIOUS
<1>2. TrackerTypes
  BY <1>1 DEF Init, TrackerTypes, Calls, Tables, None, NoOne
<1>3. Held
  BY TrackerAssumption DEF Init, Held, ServingCalls, Calls
<1> QED BY <1>2, <1>3 DEF FilesInv

(* Steps that leave the disk and the streams alone.                        *)
LEMMA QuietFiles ==
  ASSUME FilesInv, UNCHANGED <<files, path, stream>>, TrackerTypes',
         \A p \in Processes : pc'[p] \in ServingCalls <=> port' = p,
         \A p \in Processes : pc'[p] = "off" <=> pc[p] = "off"
  PROVE  FilesInv'
BY DEF FilesInv, Held, InUse

(* A call of setup_stores leads to another of a start-up.                  *)
LEMMA StepTyped ==
  ASSUME NEW p \in Processes, pc \in [Processes -> Calls], table \in [Processes -> Tables],
         \E call \in {"has", "init", "bind"} : pc' = [pc EXCEPT ![p] = call],
         table' = table \/ \E t \in Tables : table' = [table EXCEPT ![p] = t]
  PROVE  pc' \in [Processes -> Calls] /\ table' \in [Processes -> Tables]
<1>1. pc' \in [Processes -> Calls]
  BY DEF Calls
<1>2. table' \in [Processes -> Tables]
  OBVIOUS
<1> QED BY <1>1, <1>2

LEMMA SetUpFiles ==
  ASSUME FilesInv, NEW p \in Processes,
         Start(p) \/ HasLine(p) \/ LacksLine(p) \/ Initialize(p) \/ Bind(p)
  PROVE  FilesInv'
<1>0. TrackerTypes /\ Held
  BY DEF FilesInv
<1>1. CASE Start(p)
  <2>1. pc[p] = "off" /\ Opened(p) /\ UNCHANGED <<id, tmp, port, issued, harmed, faults>>
        /\ pc' = [pc EXCEPT ![p] = "has"] /\ table' = [table EXCEPT ![p] = "user"]
    BY <1>1 DEF Start, To
  <2>2. TrackerTypes'
    BY <1>0, <2>1, OpenedFile DEF TrackerTypes, Calls, Tables
  <2>3. Held'
    <3>1. \A q \in Processes : pc'[q] \in ServingCalls <=> port' = q
      BY <1>0, <2>1 DEF TrackerTypes, Held, ServingCalls, Calls
    <3>2. \A q \in Processes : pc'[q] = "off" <=> stream'[q] = None
      BY <1>0, <2>1, OpenedFile, NoneIsNoFile DEF TrackerTypes, Held
    <3>3. \A f \in Files : ~ InUse(f)' => files'[f] = <<>>
      BY <2>1, OpenedFile
    <3> QED BY <3>1, <3>2, <3>3 DEF Held
  <2> QED BY <2>2, <2>3 DEF FilesInv
<1>2. CASE HasLine(p) \/ LacksLine(p)
  <2>1. /\ pc[p] = "has" /\ UNCHANGED <<id, stream, files, path, tmp, port, issued, harmed, faults>>
        /\ \E call \in {"has", "init", "bind"} : pc' = [pc EXCEPT ![p] = call]
        /\ table' = table \/ \E t \in Tables : table' = [table EXCEPT ![p] = t]
    BY <1>0, <1>2 DEF HasLine, LacksLine, NextTable, To, disk, AfterSetupOf, Tables, TrackerTypes
  <2>2. TrackerTypes'
    <3>1. pc' \in [Processes -> Calls] /\ table' \in [Processes -> Tables]
      BY <1>0, <2>1, StepTyped DEF TrackerTypes
    <3> QED BY <1>0, <2>1, <3>1 DEF TrackerTypes
  <2>3. /\ \A q \in Processes : pc'[q] \in ServingCalls <=> port' = q
        /\ \A q \in Processes : pc'[q] = "off" <=> pc[q] = "off"
    BY <1>0, <2>1 DEF TrackerTypes, Held, ServingCalls, Calls
  <2> QED BY <2>1, <2>2, <2>3, QuietFiles
<1>3. CASE Initialize(p)
  <2>1. /\ pc[p] = "init" /\ UNCHANGED <<id, stream, path, tmp, port, issued, harmed, faults>>
        /\ \E call \in {"has", "bind"} : pc' = [pc EXCEPT ![p] = call]
        /\ table' = table \/ \E t \in Tables : table' = [table EXCEPT ![p] = t]
        /\ files' = [files EXCEPT ![stream[p]] = Longer(files[stream[p]], table[p])]
    BY <1>0, <1>3 DEF Longer, Initialize, NextTable, To, AfterSetupOf, Tables, TrackerTypes
  <2>2. stream[p] \in Files /\ table[p] \in Tables /\ files[stream[p]] \in Seq(Lines)
    BY <1>0, <2>1 DEF TrackerTypes, Held
  <2>3. Longer(files[stream[p]], table[p]) \in Seq(Lines)
    BY <2>2, LongerLines
  <2>4. files' \in [Files -> Seq(Lines)]
    BY <1>0, <2>1, <2>3 DEF TrackerTypes
  <2>5. TrackerTypes'
    <3>1. pc' \in [Processes -> Calls] /\ table' \in [Processes -> Tables]
      BY <1>0, <2>1, StepTyped DEF TrackerTypes
    <3> QED BY <1>0, <2>1, <2>4, <3>1 DEF TrackerTypes
  <2>6. /\ \A q \in Processes : pc'[q] \in ServingCalls <=> port' = q
        /\ \A q \in Processes : pc'[q] = "off" <=> stream'[q] = None
    BY <1>0, <2>1 DEF TrackerTypes, Held, ServingCalls, Calls
  <2>7. ASSUME NEW f \in Files, ~ InUse(f)' PROVE files'[f] = <<>>
    <3>1. ~ InUse(f) /\ f # stream[p]
      BY <2>1, <2>7 DEF InUse
    <3> QED BY <1>0, <2>1, <3>1 DEF Held, TrackerTypes
  <2> QED BY <2>5, <2>6, <2>7 DEF FilesInv, Held
<1>4. CASE Bind(p)
  <2>1. /\ pc[p] = "bind" /\ UNCHANGED <<table, id, path, tmp, issued, faults>>
        /\ files' = Kept(files) /\ harmed' \subseteq harmed \cup {"late"}
        /\ \/ /\ port = NoOne /\ port' = p /\ pc' = [pc EXCEPT ![p] = "idle"] /\ stream' = stream
           \/ /\ port # NoOne /\ port' = port /\ pc' = [pc EXCEPT ![p] = "off"]
              /\ stream' = [stream EXCEPT ![p] = None]
    BY <1>4 DEF Bind, To
  <2>2. files' \in [Files -> Seq(Lines)] /\ \A f \in Files : ~ InUse(f)' => files'[f] = <<>>
    BY <1>0, <2>1, KeptFiles DEF TrackerTypes
  <2>3. TrackerTypes'
    BY <1>0, <2>1, <2>2 DEF TrackerTypes, Calls
  <2>4. /\ \A q \in Processes : pc'[q] \in ServingCalls <=> port' = q
        /\ \A q \in Processes : pc'[q] = "off" <=> stream'[q] = None
    <3>1. \A q \in Processes \ {p} : pc'[q] = pc[q] /\ stream'[q] = stream[q]
      BY <1>0, <2>1 DEF TrackerTypes
    <3>2. /\ \A q \in Processes : pc[q] \in ServingCalls <=> port = q
          /\ \A q \in Processes : pc[q] = "off" <=> stream[q] = None
      BY <1>0 DEF Held
    <3>3. CASE port = NoOne
      <4>1. port' = p /\ pc'[p] = "idle" /\ stream' = stream
        BY <1>0, <2>1, <3>3, TrackerAssumption DEF TrackerTypes
      <4>2. pc[p] \notin ServingCalls /\ pc[p] # "off" /\ pc'[p] \in ServingCalls /\ pc'[p] # "off"
        BY <2>1, <4>1 DEF ServingCalls, Calls
      <4>3. \A q \in Processes : pc[q] \notin ServingCalls
        BY <3>2, <3>3, TrackerAssumption
      <4> QED BY <3>1, <3>2, <4>1, <4>2, <4>3
    <3>4. CASE port # NoOne
      <4>1. port' = port /\ pc'[p] = "off" /\ stream'[p] = None /\ port # p
        BY <1>0, <2>1, <3>2, <3>4 DEF TrackerTypes, ServingCalls
      <4> QED BY <3>1, <3>2, <4>1 DEF ServingCalls
    <3> QED BY <3>3, <3>4
  <2> QED BY <2>2, <2>3, <2>4 DEF FilesInv, Held
<1> QED BY <1>1, <1>2, <1>3, <1>4

LEMMA ServingFiles ==
  ASSUME FilesInv, NEW p \in Processes,
         \/ Take(p) \/ Insert(p) \/ WriteTmp(p) \/ WriteTmpFull(p) \/ WriteTmpFails(p)
         \/ Remove(p) \/ Rename(p) \/ Reopen(p)
  PROVE  FilesInv'
<1>0. TrackerTypes /\ Held
  BY DEF FilesInv
<1>1. CASE Take(p)
  <2>1. /\ pc[p] = "idle" /\ UNCHANGED <<stream, files, path, tmp, port, issued, harmed, faults>>
        /\ \E t \in Tables : table' = [table EXCEPT ![p] = t]
        /\ \E call \in {"insert", "dying"} : pc' = [pc EXCEPT ![p] = call]
        /\ id' = id \/ \E n \in Nat \cup {NoId} : id' = [id EXCEPT ![p] = n]
    <3>1. PICK t \in {"user", "account"} :
            /\ table' = [table EXCEPT ![p] = t]
            /\ \/ /\ Readable(t)
                  /\ id' = [id EXCEPT ![p] = FirstId(files[path], t)] /\ To(p, "insert")
               \/ id' = [id EXCEPT ![p] = NoId] /\ To(p, "insert")
               \/ To(p, "dying") /\ UNCHANGED id
      BY <1>1 DEF Take
    <3>2. t \in Tables
      BY DEF Tables
    <3>3. Readable(t) => FirstId(files[path], t) \in Nat
      BY <1>0, <3>2, FirstLine DEF Readable, TrackerTypes
    <3>4. pc[p] = "idle" /\ UNCHANGED <<stream, files, path, tmp, port, issued, harmed, faults>>
      BY <1>1 DEF Take, disk
    <3>5. id' = id \/ \E n \in Nat \cup {NoId} : id' = [id EXCEPT ![p] = n]
      BY <3>1, <3>3
    <3>6. \E call \in {"insert", "dying"} : pc' = [pc EXCEPT ![p] = call]
      BY <3>1 DEF To
    <3> QED BY <3>1, <3>2, <3>4, <3>5, <3>6
  <2>2. TrackerTypes'
    <3>1. pc' \in [Processes -> Calls]
      BY <1>0, <2>1 DEF TrackerTypes, Calls
    <3>2. table' \in [Processes -> Tables]
      BY <1>0, <2>1 DEF TrackerTypes
    <3>3. id' \in [Processes -> Nat \cup {NoId}]
      BY <1>0, <2>1 DEF TrackerTypes
    <3> QED BY <1>0, <2>1, <3>1, <3>2, <3>3 DEF TrackerTypes
  <2>3. /\ \A q \in Processes : pc'[q] \in ServingCalls <=> port' = q
        /\ \A q \in Processes : pc'[q] = "off" <=> pc[q] = "off"
    BY <1>0, <2>1 DEF TrackerTypes, Held, ServingCalls, Calls
  <2> QED BY <2>1, <2>2, <2>3, QuietFiles
<1>2. CASE Insert(p) \/ WriteTmp(p) \/ WriteTmpFull(p) \/ WriteTmpFails(p)
  <2>1. /\ pc[p] \in {"insert", "tmp"} /\ UNCHANGED <<table, id, stream, files, path, port>>
        /\ \E call \in {"tmp", "remove", "idle"} : pc' = [pc EXCEPT ![p] = call]
    BY <1>2 DEF Insert, WriteTmp, WriteTmpFull, WriteTmpFails, To, disk
  <2>2. tmp' \in Seq(Lines)
    <3>1. stream[p] \in Files /\ table[p] \in Tables
      BY <1>0, <2>1 DEF TrackerTypes, Held
    <3>2. files[stream[p]] \in Seq(Lines)
      BY <1>0, <3>1 DEF TrackerTypes
    <3>3. Incremented(files[stream[p]], table[p]) \in Seq(Lines)
      BY <3>1, <3>2, IncrementedLines
    <3>4. <<>> \in Seq(Lines) /\ tmp \in Seq(Lines)
      BY <1>0 DEF TrackerTypes
    <3> QED BY <1>2, <3>3, <3>4 DEF Insert, WriteTmp, WriteTmpFull, WriteTmpFails, disk
  <2>3. issued' \in [Tables -> Seq(Nat \cup {NoId})]
    <3>1. /\ issued \in [Tables -> Seq(Nat \cup {NoId})] /\ table[p] \in Tables
          /\ id[p] \in Nat \cup {NoId} /\ issued[table[p]] \in Seq(Nat \cup {NoId})
      BY <1>0 DEF TrackerTypes
    <3>2. Append(issued[table[p]], id[p]) \in Seq(Nat \cup {NoId})
      BY <3>1, AppendProperties
    <3> QED BY <1>2, <3>1, <3>2 DEF Insert, WriteTmp, WriteTmpFull, WriteTmpFails
  <2>4. harmed' \subseteq {"stale", "lost", "empty", "late"} /\ faults' \in Nat
    <3>1. harmed' \in {harmed, harmed \cup {"empty"}, harmed \cup {"stale"}}
      BY <1>2, Zenon DEF Insert, WriteTmp, WriteTmpFull, WriteTmpFails
    <3>2. faults' \in {faults, faults + 1}
      BY <1>2, Zenon DEF Insert, WriteTmp, WriteTmpFull, WriteTmpFails
    <3> QED BY <1>0, <3>1, <3>2 DEF TrackerTypes
  <2>5. TrackerTypes'
    BY <1>0, <2>1, <2>2, <2>3, <2>4 DEF TrackerTypes, Calls
  <2>6. /\ \A q \in Processes : pc'[q] \in ServingCalls <=> port' = q
        /\ \A q \in Processes : pc'[q] = "off" <=> pc[q] = "off"
    BY <1>0, <2>1 DEF TrackerTypes, Held, ServingCalls, Calls
  <2> QED BY <2>1, <2>5, <2>6, QuietFiles
<1>3. CASE Remove(p) \/ Rename(p)
  <2>1. /\ pc[p] \in {"remove", "rename"} /\ UNCHANGED <<table, id, stream, port, issued, harmed, faults>>
        /\ \E call \in {"rename", "reopen"} : pc' = [pc EXCEPT ![p] = call]
        /\ path' \in {None, FreeFile} /\ tmp' \in {tmp, <<>>}
        /\ files' = Kept(files) \/ files' = Kept([files EXCEPT ![path'] = tmp])
    BY <1>3 DEF Remove, Rename, To
  <2>2. path' \in Files \cup {None} /\ tmp' \in Seq(Lines)
    <3>1. <<>> \in Seq(Lines) /\ tmp \in Seq(Lines)
      BY <1>0 DEF TrackerTypes
    <3>2. FreeFile \in Files
      BY <1>0, AlwaysAFreeFile
    <3> QED BY <2>1, <3>1, <3>2
  <2>3. files \in [Files -> Seq(Lines)] /\ [files EXCEPT ![path'] = tmp] \in [Files -> Seq(Lines)]
    BY <1>0 DEF TrackerTypes
  <2>4. files' \in [Files -> Seq(Lines)] /\ \A f \in Files : ~ InUse(f)' => files'[f] = <<>>
    BY <2>1, <2>3, KeptFiles
  <2>5. TrackerTypes'
    BY <1>0, <2>1, <2>2, <2>4 DEF TrackerTypes, Calls
  <2>6. /\ \A q \in Processes : pc'[q] \in ServingCalls <=> port' = q
        /\ \A q \in Processes : pc'[q] = "off" <=> stream'[q] = None
    BY <1>0, <2>1 DEF TrackerTypes, Held, ServingCalls, Calls
  <2> QED BY <2>4, <2>5, <2>6 DEF FilesInv, Held
<1>4. CASE Reopen(p)
  <2>1. /\ pc[p] = "reopen" /\ Opened(p) /\ UNCHANGED <<table, id, tmp, port, issued, harmed, faults>>
        /\ pc' = [pc EXCEPT ![p] = "idle"]
    BY <1>4 DEF Reopen, To
  <2>2. TrackerTypes'
    BY <1>0, <2>1, OpenedFile DEF TrackerTypes, Calls
  <2>3. /\ \A q \in Processes : pc'[q] \in ServingCalls <=> port' = q
        /\ \A q \in Processes : pc'[q] = "off" <=> stream'[q] = None
        /\ \A f \in Files : ~ InUse(f)' => files'[f] = <<>>
    BY <1>0, <2>1, OpenedFile, NoneIsNoFile DEF TrackerTypes, Held, ServingCalls, Calls
  <2> QED BY <2>2, <2>3 DEF FilesInv, Held
<1> QED BY <1>1, <1>2, <1>3, <1>4

LEMMA DeathFiles ==
  ASSUME FilesInv, NEW p \in Processes, Crash(p) \/ Faulted(p)
  PROVE  FilesInv'
<1>0. TrackerTypes /\ Held
  BY DEF FilesInv
<1>1. /\ pc' = [pc EXCEPT ![p] = "off"] /\ stream' = [stream EXCEPT ![p] = None]
      /\ id' = [id EXCEPT ![p] = NoId] /\ port' = IF port = p THEN NoOne ELSE port
      /\ UNCHANGED <<table, path, tmp, issued>> /\ files' = Kept(files)
  BY DEF Crash, Faulted, Died, To
<1>2. harmed' \subseteq {"stale", "lost", "empty", "late"} /\ faults' \in Nat
  <2>1. HarmOfCrash(p) \subseteq {"stale", "lost", "empty", "late"}
    <3>1. HarmOfCrash(p) \in {{"stale"}, {"lost"}, {}}
      BY Zenon DEF HarmOfCrash
    <3> QED BY <3>1
  <2>2. harmed' \subseteq harmed \cup HarmOfCrash(p) /\ (faults' = faults + 1 \/ faults' = faults)
    BY DEF Crash, Faulted
  <2>3. harmed \subseteq {"stale", "lost", "empty", "late"} /\ faults \in Nat
    BY <1>0 DEF TrackerTypes
  <2> QED BY <2>1, <2>2, <2>3
<1>3. files' \in [Files -> Seq(Lines)] /\ \A f \in Files : ~ InUse(f)' => files'[f] = <<>>
  BY <1>0, <1>1, KeptFiles DEF TrackerTypes
<1>4. TrackerTypes'
  BY <1>0, <1>1, <1>2, <1>3 DEF TrackerTypes, Calls
<1>5. /\ \A q \in Processes : pc'[q] \in ServingCalls <=> port' = q
      /\ \A q \in Processes : pc'[q] = "off" <=> stream'[q] = None
  BY <1>0, <1>1, TrackerAssumption DEF TrackerTypes, Held, ServingCalls, Calls
<1> QED BY <1>3, <1>4, <1>5 DEF FilesInv, Held

LEMMA FilesKept ==
  ASSUME FilesInv, [Next]_vars
  PROVE  FilesInv'
<1>1. CASE UNCHANGED vars
  BY <1>1 DEF vars, local, disk, FilesInv, TrackerTypes, Held, InUse
<1>2. CASE Next
  BY <1>2, SetUpFiles, ServingFiles, DeathFiles DEF Next, Step
<1> QED BY <1>1, <1>2

(* What a step does to the other processes: nothing.                       *)
LEMMA OthersStay ==
  ASSUME FilesInv, NEW p \in Processes, Step(p), NEW q \in Processes, q # p
  PROVE  pc'[q] = pc[q] /\ table'[q] = table[q] /\ id'[q] = id[q] /\ stream'[q] = stream[q]
<1>1. /\ pc \in [Processes -> Calls] /\ table \in [Processes -> Tables]
      /\ id \in [Processes -> Nat \cup {NoId}] /\ stream \in [Processes -> Files \cup {None}]
  BY DEF FilesInv, TrackerTypes
<1>2. CASE Start(p) \/ Reopen(p)
  BY <1>1, <1>2 DEF Start, Reopen, Opened, To
<1>3. CASE HasLine(p) \/ LacksLine(p) \/ Initialize(p) \/ Bind(p)
  BY <1>1, <1>3 DEF HasLine, LacksLine, Initialize, Bind, NextTable, To
<1>4. CASE Take(p)
  BY <1>1, <1>4 DEF Take, To
<1>5. CASE Insert(p) \/ WriteTmp(p) \/ WriteTmpFull(p) \/ WriteTmpFails(p) \/ Remove(p) \/ Rename(p)
  BY <1>1, <1>5 DEF Insert, WriteTmp, WriteTmpFull, WriteTmpFails, Remove, Rename, To
<1>6. CASE Crash(p) \/ Faulted(p)
  BY <1>1, <1>6 DEF Crash, Faulted, Died, To
<1> QED BY <1>2, <1>3, <1>4, <1>5, <1>6 DEF Step

(* And to its own stream: only fopen and the end of the process change it. *)
LEMMA OwnStream ==
  ASSUME FilesInv, NEW p \in Processes, Step(p), ~ Start(p), ~ Reopen(p)
  PROVE  stream'[p] = stream[p] \/ (stream'[p] = None /\ pc'[p] = "off")
<1>1. pc \in [Processes -> Calls] /\ stream \in [Processes -> Files \cup {None}]
  BY DEF FilesInv, TrackerTypes
<1>2. CASE HasLine(p) \/ LacksLine(p) \/ Initialize(p)
  BY <1>2 DEF HasLine, LacksLine, Initialize
<1>3. CASE Bind(p)
  BY <1>1, <1>3 DEF Bind, To
<1>4. CASE Take(p) \/ Insert(p) \/ WriteTmp(p) \/ WriteTmpFull(p) \/ WriteTmpFails(p)
           \/ Remove(p) \/ Rename(p)
  BY <1>4 DEF Take, Insert, WriteTmp, WriteTmpFull, WriteTmpFails, Remove, Rename
<1>5. CASE Crash(p) \/ Faulted(p)
  BY <1>1, <1>5 DEF Crash, Faulted, Died, To
<1> QED BY <1>2, <1>3, <1>4, <1>5 DEF Step

(* The path: only remove, rename and the making of a file change it.       *)
LEMMA SamePath ==
  ASSUME FilesInv, NEW p \in Processes, Step(p), ~ Remove(p), ~ Rename(p),
         path # None \/ ~ (Start(p) \/ Reopen(p))
  PROVE  path' = path
<1>1. CASE Start(p) \/ Reopen(p)
  BY <1>1 DEF Start, Reopen, Opened
<1>2. CASE HasLine(p) \/ LacksLine(p) \/ Initialize(p) \/ Bind(p)
  BY <1>2 DEF HasLine, LacksLine, Initialize, Bind, disk
<1>3. CASE Take(p) \/ Insert(p) \/ WriteTmp(p) \/ WriteTmpFull(p) \/ WriteTmpFails(p)
  BY <1>3 DEF Take, Insert, WriteTmp, WriteTmpFull, WriteTmpFails, disk
<1>4. CASE Crash(p) \/ Faulted(p)
  BY <1>4 DEF Crash, Faulted, Died
<1> QED BY <1>1, <1>2, <1>3, <1>4 DEF Step

(* A file that stays in use keeps its lines, and may get one more.         *)
LEMMA FileStays ==
  ASSUME FilesInv, NEW p \in Processes, Step(p), NEW f \in Files, InUse(f), InUse(f)'
  PROVE  \/ files'[f] = files[f]
         \/ Initialize(p) /\ stream[p] = f /\ files'[f] = Longer(files[f], table[p])
<1>0. files \in [Files -> Seq(Lines)]
  BY DEF FilesInv, TrackerTypes
<1>1. CASE Start(p) \/ Reopen(p)
  BY <1>1, OpenedFile DEF Start, Reopen
<1>2. CASE Initialize(p)
  <2>1. files' = [files EXCEPT ![stream[p]] = Longer(files[stream[p]], table[p])]
    BY <1>2 DEF Initialize, Longer
  <2> QED BY <1>0, <1>2, <2>1
<1>3. CASE HasLine(p) \/ LacksLine(p) \/ Take(p) \/ Insert(p) \/ WriteTmp(p) \/ WriteTmpFull(p)
           \/ WriteTmpFails(p)
  BY <1>3 DEF HasLine, LacksLine, Take, Insert, WriteTmp, WriteTmpFull, WriteTmpFails, disk
<1>4. CASE Bind(p) \/ Remove(p) \/ Crash(p) \/ Faulted(p)
  <2>1. files' = Kept(files)
    BY <1>4 DEF Bind, Remove, Crash, Faulted, Died
  <2> QED BY <1>0, <2>1, KeptFiles
<1>5. CASE Rename(p)
  <2>1. path' = FreeFile /\ files' = Kept([files EXCEPT ![path'] = tmp])
    BY <1>5 DEF Rename
  <2>2. ~ InUse(FreeFile) /\ tmp \in Seq(Lines)
    BY AlwaysAFreeFile DEF FilesInv, InUse, TrackerTypes
  <2>3. f # path' /\ [files EXCEPT ![path'] = tmp] \in [Files -> Seq(Lines)]
    BY <1>0, <2>1, <2>2
  <2>4. files'[f] = [files EXCEPT ![path'] = tmp][f]
    BY <2>1, <2>3, KeptFiles
  <2> QED BY <1>0, <2>3, <2>4
<1> QED BY <1>1, <1>2, <1>3, <1>4, <1>5 DEF Step

(* A file that comes into use is empty, or what the server wrote.          *)
LEMMA FileComes ==
  ASSUME FilesInv, NEW p \in Processes, Step(p), NEW f \in Files, ~ InUse(f), InUse(f)'
  PROVE  /\ f = path'
         /\ \/ Rename(p) /\ files'[f] = tmp
            \/ (Start(p) \/ Reopen(p)) /\ path = None /\ files'[f] = <<>>
<1>0. files \in [Files -> Seq(Lines)] /\ stream \in [Processes -> Files \cup {None}]
  BY DEF FilesInv, TrackerTypes
<1>1. CASE Start(p) \/ Reopen(p)
  <2>1. Opened(p)
    BY <1>1 DEF Start, Reopen
  <2>2. \A q \in Processes : stream'[q] = stream[q] \/ stream'[q] = path'
    BY <1>0, <2>1, OpenedFile
  <2>3. f = path' /\ path = None
    BY <2>1, <2>2, OpenedFile DEF InUse
  <2> QED BY <1>1, <2>1, <2>3, OpenedFile
<1>2. CASE ~ Start(p) /\ ~ Reopen(p)
  <2>1. \A q \in Processes : stream'[q] \in {stream[q], None}
    BY <1>2, OthersStay, OwnStream
  <2>2. f = path'
    BY <2>1, NoneIsNoFile DEF InUse
  <2>3. Rename(p)
    <3>1. path' # path /\ path' # None
      BY <2>2, NoneIsNoFile DEF InUse
    <3>2. ~ Remove(p)
      BY <3>1 DEF Remove
    <3> QED BY <1>2, <3>1, <3>2, SamePath
  <2>4. files' = Kept([files EXCEPT ![f] = tmp]) /\ tmp \in Seq(Lines)
    BY <2>2, <2>3 DEF Rename, FilesInv, TrackerTypes
  <2>5. [files EXCEPT ![f] = tmp] \in [Files -> Seq(Lines)] /\ [files EXCEPT ![f] = tmp][f] = tmp
    BY <1>0, <2>4
  <2>6. files'[f] = tmp
    BY <2>4, <2>5, KeptFiles
  <2> QED BY <2>2, <2>3, <2>6
<1> QED BY <1>1, <1>2

-----------------------------------------------------------------------------
(* What a process that starts does to the counters: nothing.               *)

LEMMA ServerCounts ==
  ASSUME FilesInv, NEW p \in Processes, Step(p), NEW t \in Tables,
         Shown(t) # NoId, Shown(t)' # Shown(t)
  PROVE  port # NoOne /\ pc[port] \in {"remove", "rename"}
<1>1. CASE Remove(p) \/ Rename(p)
  <2>1. pc[p] \in {"remove", "rename"}
    BY <1>1 DEF Remove, Rename
  <2>2. port = p
    BY <2>1 DEF FilesInv, Held, ServingCalls, Calls
  <2> QED BY <2>1, <2>2, TrackerAssumption
<1>2. CASE ~ Remove(p) /\ ~ Rename(p)
  <2>1. Readable(t) /\ Shown(t) = FirstId(files[path], t)
    BY DEF Shown
  <2>2. path \in Files /\ path # None /\ HasStore(files[path], t)
    BY <2>1 DEF Readable, FilesInv, TrackerTypes
  <2>3. path' = path
    BY <1>2, <2>2, SamePath
  <2>4. PICK f \in Files : f = path
    BY <2>2
  <2>5. InUse(f) /\ InUse(f)'
    BY <2>3, <2>4 DEF InUse
  <2>6. files[f] \in Seq(Lines) /\ (Initialize(p) => table[p] \in Tables)
    BY DEF FilesInv, TrackerTypes
  <2>7. files'[f] = files[f] \/ (files'[f] = Longer(files[f], table[p]) /\ table[p] \in Tables)
    BY <2>5, <2>6, FileStays
  <2>8. HasStore(files'[f], t) /\ FirstId(files'[f], t) = FirstId(files[f], t)
    BY <2>2, <2>4, <2>6, <2>7, SameFirst
  <2>9. Readable(t)' /\ Shown(t)' = FirstId(files'[f], t)
    BY <2>2, <2>3, <2>4, <2>8 DEF Readable, Shown
  <2> QED BY <2>1, <2>4, <2>8, <2>9
<1> QED BY <1>1, <1>2

(* Every variable keeps its type, and one process serves at a time: it     *)
(* holds the port, every process that runs holds a stream, and a file      *)
(* without a name and without a stream is gone.                            *)
THEOREM FilesAreHeld == Spec => []FilesInv
<1>1. FilesInv /\ [Next]_vars => FilesInv'
  BY FilesKept
<1> QED BY <1>1, FilesInit, PTL DEF Spec

(* Only the process that holds the port changes a number that the path     *)
(* shows, and only by remove and rename, however many processes run        *)
(* setup_stores on the same file meanwhile.                                *)
THEOREM OnlyTheServerCounts == Spec => OnlyServerCounts
<1>1. FilesInv /\ [Next]_vars =>
        [\A t \in Tables : Shown(t) # NoId /\ Shown(t)' # Shown(t) =>
           port # NoOne /\ pc[port] \in {"remove", "rename"}]_vars
  <2> SUFFICES ASSUME FilesInv, Next, NEW t \in Tables, Shown(t) # NoId, Shown(t)' # Shown(t)
               PROVE  port # NoOne /\ pc[port] \in {"remove", "rename"}
    OBVIOUS
  <2> QED BY ServerCounts DEF Next
<1> QED BY <1>1, FilesAreHeld, PTL DEF Spec, OnlyServerCounts

-----------------------------------------------------------------------------
(* The lines of a file.                                                    *)

Agree(lines) ==
  \A i, j \in DOMAIN lines : lines[i].store = lines[j].store => lines[i].cur_id = lines[j].cur_id

(* Who is about to append a line finds no other number than its own.       *)
NewLines ==
  \A p \in Processes : pc[p] = "init" =>
    \A i \in DOMAIN files[stream[p]] :
      files[stream[p]][i].store = table[p] => files[stream[p]][i].cur_id = 0

LinesAgree ==
  /\ \A f \in Files : Agree(files[f])
  /\ Agree(tmp)
  /\ NewLines

LEMMA IncrementedAgree ==
  ASSUME NEW lines \in Seq(Lines), NEW t \in Tables, Agree(lines)
  PROVE  Agree(Incremented(lines, t))
<1> DEFINE new == Incremented(lines, t)
<1>1. /\ DOMAIN new = DOMAIN lines
      /\ \A i \in DOMAIN lines :
           /\ new[i].store = lines[i].store
           /\ lines[i].store = t => new[i].cur_id = lines[i].cur_id + 1
           /\ lines[i].store # t => new[i].cur_id = lines[i].cur_id
  BY IncrementedLines
<1> HIDE DEF new
<1>2. \A i, j \in DOMAIN new : new[i].store = new[j].store => new[i].cur_id = new[j].cur_id
  BY <1>1 DEF Agree
<1> QED BY <1>2 DEF new, Agree

LEMMA LongerAgree ==
  ASSUME NEW lines \in Seq(Lines), NEW t \in Tables, Agree(lines),
         \A i \in DOMAIN lines : lines[i].store = t => lines[i].cur_id = 0
  PROVE  Agree(Longer(lines, t))
<1> DEFINE new == Longer(lines, t)
<1>1. /\ \A i \in DOMAIN lines : new[i] = lines[i]
      /\ \A i \in DOMAIN new : i \notin DOMAIN lines => new[i].store = t /\ new[i].cur_id = 0
  BY LongerLines
<1> HIDE DEF new
<1>2. \A i, j \in DOMAIN new : new[i].store = new[j].store => new[i].cur_id = new[j].cur_id
  BY <1>1 DEF Agree
<1> QED BY <1>2 DEF new, Agree

(* Which call comes after which.                                           *)
LEMMA CallBefore ==
  ASSUME FilesInv, NEW p \in Processes, Step(p)
  PROVE  /\ pc'[p] = "off" => Bind(p) \/ Crash(p) \/ Faulted(p)
         /\ pc'[p] = "has" => Start(p) \/ HasLine(p) \/ Initialize(p)
         /\ pc'[p] = "init" => LacksLine(p)
         /\ pc'[p] = "bind" => HasLine(p) \/ Initialize(p)
         /\ pc'[p] = "idle" => Bind(p) \/ WriteTmpFails(p) \/ Reopen(p)
         /\ pc'[p] \in {"insert", "dying"} => Take(p)
         /\ pc'[p] = "tmp" => Insert(p)
         /\ pc'[p] = "remove" => WriteTmp(p) \/ WriteTmpFull(p)
         /\ pc'[p] = "rename" => Remove(p)
         /\ pc'[p] = "reopen" => Rename(p)
<1>0. pc \in [Processes -> Calls]
  BY DEF FilesInv, TrackerTypes
<1>1. /\ Start(p) => pc'[p] = "has"
      /\ HasLine(p) => pc'[p] \in {"has", "bind"}
      /\ LacksLine(p) => pc'[p] = "init"
      /\ Initialize(p) => pc'[p] \in {"has", "bind"}
      /\ Bind(p) => pc'[p] \in {"idle", "off"}
  BY <1>0 DEF Start, HasLine, LacksLine, Initialize, Bind, NextTable, To
<1>2. /\ Take(p) => pc'[p] \in {"insert", "dying"}
      /\ Insert(p) => pc'[p] = "tmp"
      /\ WriteTmp(p) => pc'[p] = "remove"
      /\ WriteTmpFull(p) => pc'[p] = "remove"
      /\ WriteTmpFails(p) => pc'[p] = "idle"
      /\ Remove(p) => pc'[p] = "rename"
      /\ Rename(p) => pc'[p] = "reopen"
      /\ Reopen(p) => pc'[p] = "idle"
      /\ Crash(p) => pc'[p] = "off"
      /\ Faulted(p) => pc'[p] = "off"
  BY <1>0 DEF Take, Insert, WriteTmp, WriteTmpFull, WriteTmpFails, Remove, Rename, Reopen,
              Crash, Faulted, Died, To
<1> QED BY <1>1, <1>2 DEF Step

(* Who writes the temporary file, and what.                                *)
LEMMA TmpWritten ==
  ASSUME FilesInv, NEW p \in Processes, Step(p)
  PROVE  \/ tmp' = tmp
         \/ Rename(p) /\ tmp' = <<>>
         \/ WriteTmpFull(p) /\ tmp' = <<>>
         \/ WriteTmp(p) /\ tmp' = Incremented(files[stream[p]], table[p])
<1>1. CASE Start(p) \/ HasLine(p) \/ LacksLine(p) \/ Initialize(p) \/ Bind(p)
  BY <1>1 DEF Start, HasLine, LacksLine, Initialize, Bind, disk
<1>2. CASE Take(p) \/ Insert(p) \/ WriteTmpFails(p) \/ Remove(p) \/ Reopen(p)
  BY <1>2 DEF Take, Insert, WriteTmpFails, Remove, Reopen, disk
<1>3. CASE WriteTmp(p) \/ WriteTmpFull(p) \/ Rename(p)
  BY <1>3 DEF WriteTmp, WriteTmpFull, Rename
<1>4. CASE Crash(p) \/ Faulted(p)
  BY <1>4 DEF Crash, Faulted, Died
<1> QED BY <1>1, <1>2, <1>3, <1>4 DEF Step

LEMMA LinesInit == Init => LinesAgree
BY DEF Init, LinesAgree, NewLines, Agree, Files

LEMMA LinesStep ==
  ASSUME FilesInv, FilesInv', LinesAgree, NEW p \in Processes, Step(p)
  PROVE  LinesAgree'
<1>0. \A q \in Processes : pc[q] # "off" => stream[q] \in Files /\ table[q] \in Tables
  BY DEF FilesInv, TrackerTypes, Held
<1>1. ASSUME NEW f \in Files PROVE Agree(files'[f])
  <2>1. CASE ~ InUse(f)'
    BY <2>1 DEF FilesInv, Held, Agree
  <2>2. CASE ~ InUse(f) /\ InUse(f)'
    <3>1. files'[f] = tmp \/ files'[f] = <<>>
      BY <2>2, FileComes
    <3> QED BY <3>1 DEF LinesAgree, Agree
  <2>3. CASE InUse(f) /\ InUse(f)'
    <3>1. files[f] \in Seq(Lines) /\ Agree(files[f])
      BY DEF FilesInv, TrackerTypes, LinesAgree
    <3>2. CASE files'[f] = files[f]
      BY <3>1, <3>2
    <3>3. CASE Initialize(p) /\ stream[p] = f /\ files'[f] = Longer(files[f], table[p])
      <4>1. pc[p] = "init" /\ table[p] \in Tables
        BY <1>0, <3>3 DEF Initialize
      <4>2. \A i \in DOMAIN files[f] : files[f][i].store = table[p] => files[f][i].cur_id = 0
        BY <3>3, <4>1 DEF LinesAgree, NewLines
      <4> QED BY <3>1, <3>3, <4>1, <4>2, LongerAgree
    <3> QED BY <2>3, <3>2, <3>3, FileStays
  <2> QED BY <2>1, <2>2, <2>3
<1>2. Agree(tmp')
  <2>1. CASE tmp' = tmp \/ tmp' = <<>>
    BY <2>1 DEF LinesAgree, Agree
  <2>2. CASE WriteTmp(p) /\ tmp' = Incremented(files[stream[p]], table[p])
    <3>1. stream[p] \in Files /\ table[p] \in Tables
      BY <1>0, <2>2 DEF WriteTmp
    <3>2. files[stream[p]] \in Seq(Lines) /\ Agree(files[stream[p]])
      BY <3>1 DEF FilesInv, TrackerTypes, LinesAgree
    <3> QED BY <2>2, <3>1, <3>2, IncrementedAgree
  <2> QED BY <2>1, <2>2, TmpWritten
<1>3. ASSUME NEW q \in Processes, pc'[q] = "init",
             NEW i \in DOMAIN files'[stream'[q]], files'[stream'[q]][i].store = table'[q]
      PROVE  files'[stream'[q]][i].cur_id = 0
  <2>1. CASE q # p
    <3>1. pc[q] = "init" /\ stream'[q] = stream[q] /\ table'[q] = table[q]
      BY <1>3, <2>1, OthersStay
    <3>2. PICK f \in Files : f = stream[q]
      BY <1>0, <3>1
    <3>3. InUse(f) /\ InUse(f)' /\ files[f] \in Seq(Lines)
      BY <3>1, <3>2 DEF InUse, FilesInv, TrackerTypes
    <3>4. \A j \in DOMAIN files[f] : files[f][j].store = table[q] => files[f][j].cur_id = 0
      BY <3>1, <3>2 DEF LinesAgree, NewLines
    <3>5. CASE files'[f] = files[f]
      BY <1>3, <3>1, <3>2, <3>4, <3>5
    <3>6. CASE Initialize(p) /\ files'[f] = Longer(files[f], table[p])
      <4>1. table[p] \in Tables
        BY DEF FilesInv, TrackerTypes
      <4>2. i \in DOMAIN files'[f] /\ files'[f][i].store = table[q]
        BY <1>3, <3>1, <3>2
      <4>3. \/ i \in DOMAIN files[f] /\ files'[f][i] = files[f][i]
            \/ files'[f][i].cur_id = 0
        BY <3>3, <3>6, <4>1, <4>2, LongerLines
      <4> QED BY <3>1, <3>2, <3>4, <4>2, <4>3
    <3> QED BY <3>3, <3>5, <3>6, FileStays
  <2>2. CASE q = p
    <3>1. LacksLine(p)
      BY <1>3, <2>2, CallBefore
    <3>2. /\ files' = files /\ stream' = stream /\ table' = table
          /\ ~ HasStore(files[stream[p]], table[p])
      BY <3>1 DEF LacksLine, disk
    <3> QED BY <1>3, <2>2, <3>2 DEF HasStore
  <2> QED BY <2>1, <2>2
<1> QED BY <1>1, <1>2, <1>3 DEF LinesAgree, NewLines

-----------------------------------------------------------------------------
(* Which files have a line for every table.                                *)

Before == [user |-> {}, transaction |-> {"user"}, account |-> {"user", "transaction"}]
Complete(lines) == \A t \in Tables : HasStore(lines, t)
Named == path # None /\ Complete(files[path])

(* Who has passed a table in setup_stores finds its line.                  *)
SetUp ==
  \A p \in Processes :
    /\ pc[p] \in {"has", "init"} =>
         \A t \in Before[table[p]] : HasStore(files[stream[p]], t)
    /\ pc[p] = "bind" => Complete(files[stream[p]])

(* Who serves has a complete stream, and replaces the file by a complete   *)
(* one, unless a disk was full.                                            *)
Updating ==
  "empty" \notin harmed =>
    \A p \in Processes :
      /\ pc[p] \in ServingCalls => Complete(files[stream[p]])
      /\ pc[p] \in {"remove", "rename"} => Complete(tmp)
      /\ pc[p] = "reopen" => Named

Renaming == \E p \in Processes : pc[p] = "rename"

ServerReads ==
  \/ "empty" \in harmed \/ {"lost", "late"} \subseteq harmed
  \/ port = NoOne \/ Renaming \/ Named

(* A stream other than the path's file is older than a completed update.   *)
OldStream ==
  \/ {"empty", "lost"} \cap harmed # {} \/ Renaming
  \/ \A p \in Processes : stream[p] \in {None, path}
  \/ Named

WholeInv == SetUp /\ Updating /\ ServerReads /\ OldStream

LEMMA LineStays ==
  ASSUME FilesInv, NEW p \in Processes, Step(p), NEW f \in Files, InUse(f), InUse(f)',
         NEW t \in Tables, HasStore(files[f], t)
  PROVE  HasStore(files'[f], t)
<1>1. files[f] \in Seq(Lines) /\ table[p] \in Tables
  BY DEF FilesInv, TrackerTypes
<1>2. HasStore(Longer(files[f], table[p]), t)
  BY <1>1, LongerLines
<1>3. files'[f] = files[f] \/ files'[f] = Longer(files[f], table[p])
  BY FileStays
<1> QED BY <1>2, <1>3

(* The lines of a stream that stays open stay.                             *)
LEMMA StreamLineStays ==
  ASSUME FilesInv, NEW p \in Processes, Step(p), NEW q \in Processes, pc[q] # "off",
         stream'[q] = stream[q], NEW t \in Tables, HasStore(files[stream[q]], t)
  PROVE  HasStore(files'[stream'[q]], t)
<1>1. PICK f \in Files : f = stream[q]
  BY DEF FilesInv, TrackerTypes, Held
<1>2. InUse(f) /\ InUse(f)'
  BY <1>1 DEF InUse
<1> QED BY <1>1, <1>2, LineStays

LEMMA NamedStays ==
  ASSUME FilesInv, NEW p \in Processes, Step(p), ~ Remove(p), ~ Rename(p), Named
  PROVE  Named'
<1>1. PICK f \in Files : f = path
  BY DEF Named, FilesInv, TrackerTypes
<1>2. path' = f
  BY <1>1, SamePath DEF Named
<1>3. InUse(f) /\ InUse(f)'
  BY <1>1, <1>2 DEF InUse
<1>4. \A t \in Tables : HasStore(files'[f], t)
  BY <1>1, <1>3, LineStays DEF Named, Complete
<1> QED BY <1>1, <1>2, <1>4 DEF Named, Complete

LEMMA RenamedFile ==
  ASSUME FilesInv, NEW p \in Processes, Rename(p)
  PROVE  path' \in Files /\ files'[path'] = tmp
<1>1. path' = FreeFile /\ files' = Kept([files EXCEPT ![path'] = tmp])
  BY DEF Rename
<1>2. PICK f \in Files : f = path'
  BY <1>1, AlwaysAFreeFile DEF FilesInv
<1>3. /\ [files EXCEPT ![path'] = tmp] \in [Files -> Seq(Lines)]
      /\ [files EXCEPT ![path'] = tmp][f] = tmp
  BY <1>2 DEF FilesInv, TrackerTypes
<1>4. InUse(f)'
  BY <1>2 DEF InUse
<1>5. files'[f] = [files EXCEPT ![path'] = tmp][f]
  BY <1>1, <1>3, <1>4, KeptFiles
<1> QED BY <1>2, <1>3, <1>5

LEMMA HarmStays ==
  ASSUME FilesInv, NEW p \in Processes, Step(p)
  PROVE  harmed \subseteq harmed'
<1>1. CASE Bind(p)
  BY <1>1 DEF Bind
<1>2. CASE Start(p) \/ HasLine(p) \/ LacksLine(p) \/ Initialize(p)
  BY <1>2 DEF Start, HasLine, LacksLine, Initialize
<1>3. CASE Take(p) \/ Insert(p) \/ WriteTmp(p) \/ WriteTmpFull(p) \/ WriteTmpFails(p)
           \/ Remove(p) \/ Rename(p) \/ Reopen(p)
  BY <1>3 DEF Take, Insert, WriteTmp, WriteTmpFull, WriteTmpFails, Remove, Rename, Reopen
<1>4. CASE Crash(p) \/ Faulted(p)
  BY <1>4 DEF Crash, Faulted
<1> QED BY <1>1, <1>2, <1>3, <1>4 DEF Step

(* Only the process that serves is between remove and rename.              *)
LEMMA ServerRenames ==
  ASSUME FilesInv
  PROVE  /\ \A p \in Processes : pc[p] \in ServingCalls => port = p
         /\ Renaming => port \in Processes /\ pc[port] = "rename"
BY DEF FilesInv, Held, Renaming, ServingCalls, Calls

LEMMA WholeInit == Init => WholeInv
<1> SUFFICES ASSUME Init PROVE WholeInv
  OBVIOUS
<1>1. \A p \in Processes : pc[p] = "off" /\ stream[p] = None
  BY DEF Init
<1>2. port = NoOne
  BY DEF Init
<1> QED BY <1>1, <1>2 DEF WholeInv, SetUp, Updating, ServerReads, OldStream, ServingCalls, Calls

LEMMA SetUpStep ==
  ASSUME FilesInv, SetUp, NEW p \in Processes, Step(p)
  PROVE  SetUp'
<1> SUFFICES ASSUME NEW q \in Processes
             PROVE  /\ pc'[q] \in {"has", "init"} =>
                         \A t \in Before[table'[q]] : HasStore(files'[stream'[q]], t)
                    /\ pc'[q] = "bind" => Complete(files'[stream'[q]])
  BY DEF SetUp, Complete, HasStore
<1>0. \A t \in Tables : Before[t] \subseteq Tables
  BY DEF Before, Tables
<1>1. CASE q # p
  <2>1. pc'[q] = pc[q] /\ table'[q] = table[q] /\ stream'[q] = stream[q] /\ table[q] \in Tables
    BY <1>1, OthersStay DEF FilesInv, TrackerTypes
  <2>2. \A t \in Tables : pc[q] # "off" /\ HasStore(files[stream[q]], t)
                            => HasStore(files'[stream'[q]], t)
    BY <2>1, StreamLineStays
  <2> QED BY <1>0, <2>1, <2>2 DEF SetUp, Complete
<1>2. CASE q = p /\ Start(p)
  <2>1. pc'[p] = "has" /\ table'[p] = "user"
    BY <1>2 DEF Start, To, FilesInv, TrackerTypes
  <2> QED BY <1>2, <2>1 DEF Before
<1>3. CASE q = p /\ LacksLine(p)
  <2>1. pc[p] = "has" /\ pc'[p] = "init" /\ UNCHANGED <<table, stream, files>>
    BY <1>3 DEF LacksLine, To, disk, FilesInv, TrackerTypes
  <2> QED BY <1>3, <2>1 DEF SetUp
<1>4. CASE q = p /\ (HasLine(p) \/ Initialize(p))
  <2>1. pc[p] \in {"has", "init"} /\ stream' = stream /\ table[p] \in Tables
    BY <1>4 DEF HasLine, Initialize, FilesInv, TrackerTypes
  <2>2. \A t \in Before[table[p]] : HasStore(files'[stream'[p]], t)
    BY <1>0, <2>1, StreamLineStays DEF SetUp
  <2>3. HasStore(files'[stream'[p]], table[p])
    <3>1. CASE HasLine(p)
      BY <2>1, <3>1, StreamLineStays DEF HasLine
    <3>2. CASE Initialize(p)
      <4>1. /\ files' = [files EXCEPT ![stream[p]] = Longer(files[stream[p]], table[p])]
            /\ stream[p] \in Files /\ files \in [Files -> Seq(Lines)]
        BY <2>1, <3>2 DEF Initialize, Longer, FilesInv, TrackerTypes, Held
      <4>2. files'[stream[p]] = Longer(files[stream[p]], table[p]) /\ files[stream[p]] \in Seq(Lines)
        BY <4>1
      <4> QED BY <2>1, <4>2, LongerLines
    <3> QED BY <1>4, <3>1, <3>2
  <2>4. \/ table[p] = "account" /\ pc'[p] = "bind"
        \/ table[p] # "account" /\ pc'[p] = "has" /\ table'[p] = AfterSetupOf[table[p]]
    BY <1>4 DEF HasLine, Initialize, NextTable, To, FilesInv, TrackerTypes
  <2>5. CASE table[p] = "account"
    BY <1>4, <2>2, <2>3, <2>4, <2>5 DEF Before, Complete, Tables
  <2>6. CASE table[p] = "user" \/ table[p] = "transaction"
    BY <1>4, <2>2, <2>3, <2>4, <2>6 DEF Before, AfterSetupOf
  <2> QED BY <2>1, <2>5, <2>6 DEF Tables
<1> QED BY <1>1, <1>2, <1>3, <1>4, CallBefore

LEMMA UpdatingStep ==
  ASSUME FilesInv, FilesInv', SetUp, Updating, NEW p \in Processes, Step(p)
  PROVE  Updating'
<1> SUFFICES ASSUME "empty" \notin harmed', NEW q \in Processes
             PROVE  /\ pc'[q] \in ServingCalls => Complete(files'[stream'[q]])
                    /\ pc'[q] \in {"remove", "rename"} => Complete(tmp')
                    /\ pc'[q] = "reopen" => Named'
  BY DEF Updating, Complete, HasStore
<1>0. "empty" \notin harmed
  BY HarmStays
<1>1. ASSUME pc[q] \in ServingCalls \cup {"bind"}, stream'[q] = stream[q]
      PROVE  Complete(files'[stream'[q]])
  <2>1. pc[q] # "off" /\ Complete(files[stream[q]])
    BY <1>0, <1>1 DEF Updating, SetUp, ServingCalls
  <2> QED BY <1>1, <2>1, StreamLineStays DEF Complete
<1>2. CASE q # p
  <2>1. pc'[q] = pc[q] /\ stream'[q] = stream[q]
    BY <1>2, OthersStay
  <2>2. pc[q] \in ServingCalls => pc[p] \notin ServingCalls
    BY <1>2, ServerRenames
  <2>3. pc[q] \in ServingCalls => ~ (Remove(p) \/ Rename(p) \/ WriteTmp(p) \/ WriteTmpFull(p))
    BY <2>2 DEF Remove, Rename, WriteTmp, WriteTmpFull, ServingCalls, Calls
  <2>4. pc'[q] \in ServingCalls => Complete(files'[stream'[q]])
    BY <1>1, <2>1
  <2>5. pc'[q] \in {"remove", "rename"} => Complete(tmp')
    BY <1>0, <2>1, <2>3, TmpWritten DEF Updating, ServingCalls, Calls
  <2>6. pc'[q] = "reopen" => Named'
    BY <1>0, <2>1, <2>3, NamedStays DEF Updating, ServingCalls, Calls
  <2> QED BY <2>4, <2>5, <2>6
<1>3. CASE q = p
  <2>1. CASE Bind(p) /\ pc'[p] \in ServingCalls
    <3>1. pc[p] = "bind" /\ pc'[p] = "idle" /\ stream'[p] = stream[p]
      BY <2>1 DEF Bind, To, ServingCalls, FilesInv, TrackerTypes
    <3> QED BY <1>1, <1>3, <3>1
  <2>2. CASE Reopen(p)
    <3>1. pc[p] = "reopen" /\ pc'[p] = "idle" /\ Opened(p)
      BY <2>2 DEF Reopen, To, FilesInv, TrackerTypes
    <3>2. Named'
      <4>1. ~ Remove(p) /\ ~ Rename(p)
        BY <3>1 DEF Remove, Rename
      <4> QED BY <1>0, <3>1, <4>1, NamedStays DEF Updating
    <3>3. stream'[p] = path'
      BY <3>1, OpenedFile
    <3> QED BY <1>3, <3>1, <3>2, <3>3 DEF Named
  <2>3. CASE Take(p) \/ Insert(p) \/ WriteTmpFails(p)
    <3>1. pc[p] \in ServingCalls /\ stream'[p] = stream[p]
      BY <2>3 DEF Take, Insert, WriteTmpFails, ServingCalls, Calls
    <3>2. pc'[p] \notin {"remove", "rename", "reopen"}
      BY <2>3 DEF Take, Insert, WriteTmpFails, To, FilesInv, TrackerTypes
    <3> QED BY <1>1, <1>3, <3>1, <3>2
  <2>4. CASE WriteTmp(p)
    <3>1. /\ pc[p] = "tmp" /\ pc'[p] = "remove" /\ stream'[p] = stream[p]
          /\ tmp' = Incremented(files[stream[p]], table[p])
      BY <2>4 DEF WriteTmp, To, FilesInv, TrackerTypes
    <3>2. pc[p] \in ServingCalls
      BY <3>1 DEF ServingCalls, Calls
    <3>3. stream[p] \in Files /\ table[p] \in Tables /\ Complete(files[stream[p]])
      BY <1>0, <3>1, <3>2 DEF FilesInv, TrackerTypes, Held, Updating
    <3>4. files[stream[p]] \in Seq(Lines)
      BY <3>3 DEF FilesInv, TrackerTypes
    <3>5. Complete(tmp')
      BY <3>1, <3>3, <3>4, IncrementedLines DEF Complete
    <3> QED BY <1>1, <1>3, <3>1, <3>2, <3>5
  <2>5. CASE WriteTmpFull(p)
    BY <2>5 DEF WriteTmpFull
  <2>6. CASE Remove(p)
    <3>1. pc[p] = "remove" /\ pc'[p] = "rename" /\ stream'[p] = stream[p] /\ tmp' = tmp
      BY <2>6 DEF Remove, To, FilesInv, TrackerTypes
    <3>2. pc[p] \in ServingCalls /\ Complete(tmp)
      BY <1>0, <3>1 DEF Updating, ServingCalls, Calls
    <3> QED BY <1>1, <1>3, <3>1, <3>2
  <2>7. CASE Rename(p)
    <3>1. pc[p] = "rename" /\ pc'[p] = "reopen" /\ stream'[p] = stream[p]
      BY <2>7 DEF Rename, To, FilesInv, TrackerTypes
    <3>2. pc[p] \in ServingCalls /\ Complete(tmp)
      BY <1>0, <3>1 DEF Updating, ServingCalls, Calls
    <3>3. Named'
      BY <2>7, <3>2, RenamedFile, NoneIsNoFile DEF Named
    <3> QED BY <1>1, <1>3, <3>1, <3>2, <3>3
  <2>8. pc'[p] \in ServingCalls =>
          \/ Bind(p) \/ Reopen(p) \/ Take(p) \/ Insert(p) \/ WriteTmpFails(p)
          \/ WriteTmp(p) \/ WriteTmpFull(p) \/ Remove(p) \/ Rename(p)
    BY CallBefore DEF ServingCalls, Calls
  <2>9. {"remove", "rename", "reopen"} \subseteq ServingCalls
    BY DEF ServingCalls, Calls
  <2> QED BY <1>3, <2>1, <2>2, <2>3, <2>4, <2>5, <2>6, <2>7, <2>8, <2>9
<1> QED BY <1>2, <1>3

LEMMA ReadsStep ==
  ASSUME FilesInv, FilesInv', WholeInv, NEW p \in Processes, Step(p)
  PROVE  ServerReads' /\ OldStream'
<1>0. SetUp /\ Updating /\ ServerReads /\ OldStream /\ harmed \subseteq harmed'
  BY HarmStays DEF WholeInv
<1>1. Remove(p) => Renaming'
  <2>1. Remove(p) => pc'[p] = "rename"
    BY DEF Remove, To, FilesInv, TrackerTypes
  <2> QED BY <2>1 DEF Renaming
<1>2. Rename(p) => pc[p] = "rename" /\ Renaming
  BY DEF Rename, Renaming
<1>3. ASSUME Renaming, ~ Renaming', "empty" \notin harmed
      PROVE  Named' \/ ("lost" \in harmed' /\ port' = NoOne)
  <2>1. PICK s \in Processes : pc[s] = "rename"
    BY <1>3 DEF Renaming
  <2>2. s = p
    BY <1>3, <2>1, OthersStay DEF Renaming
  <2>3. Rename(p) \/ Crash(p)
    BY <2>1, <2>2
       DEF Step, Start, HasLine, LacksLine, Initialize, Bind, Take, Insert, WriteTmp,
           WriteTmpFull, WriteTmpFails, Remove, Reopen, Faulted
  <2>4. CASE Rename(p)
    <3>1. Complete(tmp)
      BY <1>0, <1>3, <2>1, <2>2 DEF Updating
    <3> QED BY <2>4, <3>1, RenamedFile, NoneIsNoFile DEF Named
  <2>5. CASE Crash(p)
    <3>1. port = p
      BY <2>1, <2>2, ServerRenames DEF ServingCalls, Calls
    <3>2. HarmOfCrash(p) = {"lost"}
      BY <2>1, <2>2 DEF HarmOfCrash
    <3> QED BY <2>5, <3>1, <3>2 DEF Crash, Died
  <2> QED BY <2>3, <2>4, <2>5
<1>4. ServerReads'
  <2> SUFFICES ASSUME "empty" \notin harmed', ~ ({"lost", "late"} \subseteq harmed'),
                      port' # NoOne, ~ Renaming'
               PROVE  Named'
    BY DEF ServerReads
  <2>0. "empty" \notin harmed /\ ~ ({"lost", "late"} \subseteq harmed)
    BY <1>0
  <2>1. CASE Renaming
    BY <1>3, <2>0, <2>1
  <2>2. CASE ~ Renaming /\ port # NoOne
    BY <1>0, <1>1, <1>2, <2>0, <2>2, NamedStays DEF ServerReads
  <2>3. CASE ~ Renaming /\ port = NoOne
    <3>1. Bind(p)
      <4>1. \A q \in Processes : pc[q] \notin ServingCalls
        BY <2>3, TrackerAssumption DEF FilesInv, Held
      <4>2. PICK q \in Processes : port' = q
        BY DEF FilesInv, TrackerTypes
      <4>3. pc'[q] \in ServingCalls
        BY <4>2 DEF FilesInv, Held
      <4>4. q = p
        BY <4>1, <4>3, OthersStay
      <4>5. pc[p] \notin {"idle", "insert", "tmp", "remove", "rename", "reopen"}
        BY <4>1 DEF ServingCalls, Calls
      <4>6. ~ (Take(p) \/ Insert(p) \/ WriteTmp(p) \/ WriteTmpFull(p) \/ WriteTmpFails(p)
                 \/ Remove(p) \/ Rename(p) \/ Reopen(p))
        BY <4>5 DEF Take, Insert, WriteTmp, WriteTmpFull, WriteTmpFails, Remove, Rename, Reopen
      <4> QED BY <4>3, <4>4, <4>6, CallBefore DEF ServingCalls, Calls
    <3>2. /\ pc[p] = "bind" /\ stream' = stream
          /\ harmed' = IF stream[p] # path THEN harmed \cup {"late"} ELSE harmed
      BY <2>3, <3>1 DEF Bind
    <3>3. Named
      <4>1. CASE stream[p] = path
        BY <1>0, <3>2, <4>1 DEF SetUp, Named, FilesInv, Held
      <4>2. CASE stream[p] # path
        <5>1. "lost" \notin harmed /\ stream[p] # None
          BY <1>0, <3>2, <4>2 DEF FilesInv, Held
        <5> QED BY <1>0, <2>0, <2>3, <4>2, <5>1 DEF OldStream
      <4> QED BY <4>1, <4>2
    <3> QED BY <1>1, <1>2, <2>3, <3>3, NamedStays
  <2> QED BY <2>1, <2>2, <2>3
<1>5. OldStream'
  <2> SUFFICES ASSUME "empty" \notin harmed', "lost" \notin harmed', ~ Renaming',
                      NEW q \in Processes, stream'[q] \notin {None, path'}
               PROVE  Named'
    BY DEF OldStream
  <2>0. "empty" \notin harmed /\ "lost" \notin harmed
    BY <1>0
  <2>1. CASE Renaming
    BY <1>3, <2>0, <2>1
  <2>2. CASE ~ Renaming
    <3>1. ~ Remove(p) /\ ~ Rename(p)
      BY <1>1, <1>2, <2>2
    <3>2. CASE Named
      BY <3>1, <3>2, NamedStays
    <3>3. CASE \A r \in Processes : stream[r] \in {None, path}
      <4>1. stream'[q] = stream[q]
        <5>1. Start(p) \/ Reopen(p) => stream'[p] = path'
          BY OpenedFile DEF Start, Reopen
        <5> QED BY <5>1, OthersStay, OwnStream
      <4>2. stream[q] = path /\ path # None
        BY <3>3, <4>1
      <4>3. path' = path
        BY <3>1, <4>2, SamePath
      <4> QED BY <4>1, <4>2, <4>3
    <3> QED BY <1>0, <2>0, <2>2, <3>2, <3>3 DEF OldStream
  <2> QED BY <2>1, <2>2
<1> QED BY <1>4, <1>5

LEMMA WholeStep ==
  ASSUME FilesInv, FilesInv', WholeInv, NEW p \in Processes, Step(p)
  PROVE  WholeInv'
<1>1. SetUp' /\ Updating'
  BY SetUpStep, UpdatingStep DEF WholeInv
<1> QED BY <1>1, ReadsStep DEF WholeInv

-----------------------------------------------------------------------------
(* The lines and the ids that went into rows.                              *)

(* The lines of a table are past every id of it.                           *)
Ahead(lines, t) ==
  /\ issued[t] # <<>> => HasStore(lines, t)
  /\ \A i \in DOMAIN lines : lines[i].store = t =>
       \A k \in DOMAIN issued[t] : issued[t][k] < lines[i].cur_id

(* They show the last one, between the row and the update.                 *)
Level(lines, t) ==
  /\ HasStore(lines, t)
  /\ \A i \in DOMAIN lines : lines[i].store = t =>
       \A k \in DOMAIN issued[t] : issued[t][k] <= lines[i].cur_id

Shows(t) == IF path = None THEN issued[t] = <<>> ELSE Ahead(files[path], t)

(* How far the process that serves has come with an id.                    *)
Counting(p) ==
  /\ pc[p] \in {"idle", "insert", "tmp"} => stream[p] = path
  /\ pc[p] = "reopen" => path # None
  /\ pc[p] = "insert" =>
       /\ id[p] \in Nat
       /\ \A i \in DOMAIN files[path] :
            files[path][i].store = table[p] => files[path][i].cur_id = id[p]
  /\ pc[p] = "tmp" => Level(files[path], table[p])
  /\ pc[p] \in {"remove", "rename"} => \A t \in Tables : Ahead(tmp, t)
  /\ pc[p] \in ServingCalls \ {"remove", "rename"} =>
       \A t \in Tables : (pc[p] = "tmp" /\ t = table[p]) \/ Shows(t)

Distinct ==
  \A t \in Tables :
    /\ \A i \in DOMAIN issued[t] : issued[t][i] \in Nat
    /\ \A i, j \in DOMAIN issued[t] : issued[t][i] = issued[t][j] => i = j

Fresh ==
  harmed = {} =>
    /\ Distinct
    /\ \A p \in Processes : Counting(p)
    /\ port = NoOne => \A t \in Tables : Shows(t)

IdsInv == FilesInv /\ LinesAgree /\ WholeInv

(* When a file grows by a line, nothing of that table has been issued.     *)
LEMMA AheadStays ==
  ASSUME IdsInv, Distinct, NEW p \in Processes, Step(p), issued' = issued,
         NEW f \in Files, InUse(f), InUse(f)', NEW t \in Tables
  PROVE  /\ Ahead(files[f], t) => Ahead(files'[f], t)
         /\ Level(files[f], t) => Level(files'[f], t)
<1>1. files[f] \in Seq(Lines) /\ issued[t] \in Seq(Nat \cup {NoId}) /\ table[p] \in Tables
  BY DEF IdsInv, FilesInv, TrackerTypes
<1>2. CASE files'[f] = files[f]
  BY <1>2 DEF Ahead, Level, HasStore
<1>3. CASE Initialize(p) /\ stream[p] = f /\ files'[f] = Longer(files[f], table[p])
  <2> DEFINE new == Longer(files[f], table[p])
  <2>1. /\ \A i \in DOMAIN files[f] : new[i] = files[f][i]
        /\ \A i \in DOMAIN new :
             i \notin DOMAIN files[f] => new[i].store = table[p] /\ new[i].cur_id = 0
        /\ HasStore(files[f], t) => HasStore(new, t)
    BY <1>1, LongerLines
  <2>2. \A i \in DOMAIN files[f] : files[f][i].store = table[p] => files[f][i].cur_id = 0
    BY <1>3 DEF Initialize, IdsInv, LinesAgree, NewLines
  <2> HIDE DEF new
  <2>3. ASSUME Ahead(files[f], t) PROVE Ahead(new, t)
    <3>1. t = table[p] => issued[t] = <<>>
      <4> SUFFICES ASSUME t = table[p], issued[t] # <<>> PROVE FALSE
        OBVIOUS
      <4>1. PICK i \in DOMAIN files[f] : files[f][i].store = t
        BY <2>3 DEF Ahead, HasStore
      <4>2. files[f][i].cur_id = 0
        BY <2>2, <4>1
      <4>3. 1 \in DOMAIN issued[t]
        BY <1>1
      <4>4. issued[t][1] < 0 /\ issued[t][1] \in Nat
        BY <2>3, <4>1, <4>2, <4>3 DEF Ahead, Distinct
      <4> QED BY <4>4
    <3>2. ASSUME NEW i \in DOMAIN new, new[i].store = t, NEW k \in DOMAIN issued[t]
          PROVE  issued[t][k] < new[i].cur_id
      <4>1. i \in DOMAIN files[f]
        BY <2>1, <3>1, <3>2
      <4> QED BY <2>1, <2>3, <3>2, <4>1 DEF Ahead
    <3> QED BY <2>1, <2>3, <3>2 DEF Ahead
  <2>4. ASSUME Level(files[f], t) PROVE Level(new, t)
    <3>1. ASSUME NEW i \in DOMAIN new, new[i].store = t, NEW k \in DOMAIN issued[t]
          PROVE  issued[t][k] <= new[i].cur_id
      <4>1. CASE i \in DOMAIN files[f]
        BY <2>1, <2>4, <3>1, <4>1 DEF Level
      <4>2. CASE i \notin DOMAIN files[f]
        <5>1. t = table[p] /\ new[i].cur_id = 0
          BY <2>1, <3>1, <4>2
        <5>2. PICK j \in DOMAIN files[f] : files[f][j].store = t
          BY <2>4 DEF Level, HasStore
        <5>3. files[f][j].cur_id = 0
          BY <2>2, <5>1, <5>2
        <5> QED BY <2>4, <3>1, <5>1, <5>2, <5>3 DEF Level
      <4> QED BY <4>1, <4>2
    <3> QED BY <2>1, <2>4, <3>1 DEF Level
  <2>5. files'[f] = new
    BY <1>3 DEF new
  <2>6. /\ Ahead(new, t) => Ahead(files'[f], t)
        /\ Level(new, t) => Level(files'[f], t)
    BY <2>5 DEF Ahead, Level, HasStore
  <2> QED BY <2>3, <2>4, <2>6
<1> QED BY <1>2, <1>3, FileStays DEF IdsInv

(* What the path shows stays ahead of the rows while no row comes.         *)
LEMMA ShowsStays ==
  ASSUME IdsInv, Distinct, NEW p \in Processes, Step(p), issued' = issued,
         ~ Remove(p), ~ Rename(p), NEW t \in Tables, Shows(t)
  PROVE  Shows(t)'
<1>1. CASE path = None
  <2>1. issued'[t] = <<>> /\ DOMAIN issued'[t] = {}
    BY <1>1 DEF Shows
  <2> QED BY <2>1 DEF Shows, Ahead
<1>2. CASE path # None
  <2>1. PICK f \in Files : f = path
    BY <1>2 DEF IdsInv, FilesInv, TrackerTypes
  <2>2. path' = f /\ InUse(f) /\ InUse(f)' /\ f # None
    BY <1>2, <2>1, SamePath DEF InUse, IdsInv
  <2>3. Ahead(files'[f], t)
    BY <1>2, <2>1, <2>2, AheadStays DEF Shows
  <2>4. Shows(t)' <=> Ahead(files'[f], t)
    BY <2>2 DEF Shows, Ahead, HasStore
  <2> QED BY <2>3, <2>4
<1> QED BY <1>1, <1>2

(* Without harm the server has a name and lines for what it counts.        *)
LEMMA ServerNamed ==
  ASSUME IdsInv, harmed = {}, NEW p \in Processes, pc[p] \in ServingCalls \ {"rename"}
  PROVE  Named
<1>1. port = p /\ port # NoOne /\ ~ Renaming
  BY ServerRenames, TrackerAssumption DEF IdsInv, ServingCalls
<1> QED BY <1>1 DEF IdsInv, WholeInv, ServerReads

LEMMA FreshInit == Init => Fresh
BY DEF Init, Fresh, Distinct, Counting, Shows, ServingCalls

(* The steps of processes that do not serve.                               *)
LEMMA OthersFresh ==
  ASSUME IdsInv, IdsInv', Fresh, harmed = {}, harmed' = {}, NEW p \in Processes, Step(p),
         issued' = issued, pc[p] \notin ServingCalls, pc'[p] \notin ServingCalls
  PROVE  Fresh'
<1>0. Distinct /\ (\A q \in Processes : Counting(q)) /\ FilesInv /\ FilesInv'
  BY DEF Fresh, IdsInv
<1>1. ~ (Remove(p) \/ Rename(p) \/ WriteTmp(p) \/ WriteTmpFull(p))
  BY DEF Remove, Rename, WriteTmp, WriteTmpFull, ServingCalls, Calls
<1>2. \A t \in Tables : Shows(t) => Shows(t)'
  BY <1>0, <1>1, ShowsStays
<1>3. tmp' = tmp
  BY <1>0, <1>1, TmpWritten
<1>4. Distinct'
  BY <1>0 DEF Distinct
<1>5. port' = NoOne => port = NoOne
  <2> SUFFICES ASSUME port # NoOne, port' = NoOne PROVE FALSE
    OBVIOUS
  <2>1. PICK s \in Processes : port = s
    BY <1>0 DEF FilesInv, TrackerTypes
  <2>2. pc[s] \in ServingCalls /\ s # p
    BY <1>0, <2>1 DEF FilesInv, Held
  <2>3. pc'[s] \in ServingCalls
    BY <1>0, <2>2, OthersStay
  <2>4. port' = s
    BY <1>0, <2>3 DEF FilesInv, Held
  <2> QED BY <2>4, TrackerAssumption
<1>6. ASSUME NEW q \in Processes PROVE Counting(q)'
  <2>1. CASE q = p
    BY <2>1 DEF Counting, ServingCalls, Calls
  <2>2. CASE q # p /\ pc[q] \notin ServingCalls
    <3>1. pc'[q] \notin ServingCalls
      BY <1>0, <2>2, OthersStay
    <3> QED BY <3>1 DEF Counting, ServingCalls, Calls
  <2>3. CASE q # p /\ pc[q] \in ServingCalls
    <3>1. /\ pc'[q] = pc[q] /\ table'[q] = table[q] /\ id'[q] = id[q] /\ stream'[q] = stream[q]
          /\ table[q] \in Tables
      BY <1>0, <2>3, OthersStay DEF FilesInv, TrackerTypes
    <3>2. pc[q] \in {"remove", "rename"} => \A t \in Tables : Ahead(tmp, t)'
      BY <1>0, <1>3 DEF Counting, Ahead, HasStore
    <3>3. CASE pc[q] \in {"remove", "rename"}
      BY <3>1, <3>2, <3>3 DEF Counting
    <3>4. CASE pc[q] \notin {"remove", "rename"}
      <4>1. Named
        BY <2>3, <3>4, ServerNamed
      <4>2. PICK f \in Files : f = path
        BY <4>1, <1>0 DEF Named, FilesInv, TrackerTypes
      <4>3. path' = f /\ path # None /\ InUse(f) /\ InUse(f)'
        BY <1>0, <1>1, <4>1, <4>2, SamePath DEF Named, InUse
      <4>4. pc[q] = "insert" =>
              \A i \in DOMAIN files'[f] :
                files'[f][i].store = table[q] => files'[f][i].cur_id = id[q]
        <5> SUFFICES ASSUME pc[q] = "insert", NEW i \in DOMAIN files'[f],
                            files'[f][i].store = table[q]
                     PROVE  files'[f][i].cur_id = id[q]
          OBVIOUS
        <5>1. \A j \in DOMAIN files[f] : files[f][j].store = table[q] => files[f][j].cur_id = id[q]
          BY <1>0, <4>2 DEF Counting
        <5>2. files[f] \in Seq(Lines) /\ table[p] \in Tables
          BY <1>0 DEF FilesInv, TrackerTypes
        <5>3. CASE files'[f] = files[f]
          BY <5>1, <5>3
        <5>4. CASE Initialize(p) /\ stream[p] = f /\ files'[f] = Longer(files[f], table[p])
          <6>1. CASE i \in DOMAIN files[f]
            BY <5>1, <5>2, <5>4, <6>1, LongerLines
          <6>2. CASE i \notin DOMAIN files[f]
            <7>1. files'[f][i].cur_id = 0 /\ table[q] = table[p]
              BY <5>2, <5>4, <6>2, LongerLines
            <7>2. PICK j \in DOMAIN files[f] : files[f][j].store = table[q]
              BY <3>1, <4>1, <4>2 DEF Named, Complete, HasStore
            <7>3. files[f][j].cur_id = 0
              BY <5>4, <7>1, <7>2 DEF Initialize, IdsInv, LinesAgree, NewLines
            <7> QED BY <5>1, <7>1, <7>2, <7>3
          <6> QED BY <6>1, <6>2
        <5> QED BY <1>0, <4>3, <5>3, <5>4, FileStays
      <4>5. pc[q] = "tmp" => Level(files'[f], table[q])
        BY <1>0, <3>1, <4>2, <4>3, AheadStays DEF Counting
      <4>6. \A t \in Tables : (pc[q] = "tmp" /\ t = table[q]) \/ Shows(t)'
        BY <1>0, <1>2, <2>3, <3>4 DEF Counting
      <4>7. /\ pc'[q] \in {"idle", "insert", "tmp"} => stream'[q] = path'
            /\ pc'[q] = "reopen" => path' # None
            /\ pc'[q] = "insert" =>
                 /\ id'[q] \in Nat
                 /\ \A i \in DOMAIN files'[path'] :
                      files'[path'][i].store = table'[q] => files'[path'][i].cur_id = id'[q]
        BY <1>0, <3>1, <4>2, <4>3, <4>4 DEF Counting
      <4>8. pc'[q] = "tmp" => Level(files[path], table[q])'
        BY <3>1, <4>3, <4>5, issued' = issued DEF Level, HasStore
      <4>9. pc'[q] \in ServingCalls \ {"remove", "rename"} =>
              \A t \in Tables : (pc'[q] = "tmp" /\ t = table'[q]) \/ Shows(t)'
        BY <3>1, <4>6
      <4> QED BY <3>1, <3>4, <4>7, <4>8, <4>9 DEF Counting
    <3> QED BY <3>3, <3>4
  <2> QED BY <2>1, <2>2, <2>3
<1> QED BY <1>0, <1>2, <1>4, <1>5, <1>6 DEF Fresh

(* It is enough to look at the process that serves, or served.             *)
LEMMA OneCounts ==
  ASSUME FilesInv', NEW p \in Processes, port' \in {p, NoOne}, Distinct', Counting(p)',
         port' = NoOne => \A t \in Tables : Shows(t)'
  PROVE  Fresh'
<1>1. ASSUME NEW q \in Processes, q # p PROVE Counting(q)'
  <2>1. pc'[q] \notin ServingCalls
    BY <1>1, TrackerAssumption DEF FilesInv, Held
  <2> QED BY <2>1 DEF Counting, ServingCalls, Calls
<1> QED BY <1>1 DEF Fresh

(* The port is got with a stream on the file that the path names.          *)
LEMMA BindFresh ==
  ASSUME IdsInv, IdsInv', Fresh, harmed = {}, harmed' = {}, NEW p \in Processes, Bind(p),
         pc'[p] \in ServingCalls
  PROVE  Fresh'
<1>1. /\ port = NoOne /\ port' = p /\ pc'[p] = "idle" /\ stream' = stream /\ stream[p] = path
      /\ path' = path /\ issued' = issued /\ Step(p)
  BY DEF Bind, Step, To, ServingCalls, IdsInv, FilesInv, TrackerTypes
<1>2. ~ (Remove(p) \/ Rename(p))
  BY DEF Bind, Remove, Rename
<1>3. Distinct /\ \A t \in Tables : Shows(t)
  BY <1>1 DEF Fresh
<1>4. \A t \in Tables : Shows(t)'
  BY <1>1, <1>2, <1>3, ShowsStays
<1>5. Counting(p)'
  BY <1>1, <1>4 DEF Counting
<1>6. Distinct'
  BY <1>1, <1>3 DEF Distinct
<1> QED BY <1>1, <1>4, <1>5, <1>6, OneCounts DEF IdsInv

(* What get_next_identity returns is what all lines of the table say.      *)
LEMMA TakeFresh ==
  ASSUME IdsInv, IdsInv', Fresh, harmed = {}, NEW p \in Processes, Take(p)
  PROVE  Fresh'
<1>1. /\ pc[p] = "idle" /\ pc[p] \in ServingCalls \ {"rename"} /\ port = p
      /\ UNCHANGED <<stream, files, path, tmp, port, issued>>
  BY ServerRenames DEF Take, disk, ServingCalls, Calls, IdsInv
<1>2. Named
  BY <1>1, ServerNamed
<1>3. PICK t \in {"user", "account"} :
        /\ table' = [table EXCEPT ![p] = t]
        /\ \/ /\ Readable(t)
              /\ id' = [id EXCEPT ![p] = FirstId(files[path], t)] /\ To(p, "insert")
           \/ ~ Readable(t)
  BY DEF Take
<1>4. t \in Tables
  BY DEF Tables
<1>5. Readable(t)
  BY <1>2, <1>4 DEF Named, Complete, Readable
<1>6. path \in Files /\ files[path] \in Seq(Lines) /\ HasStore(files[path], t)
  BY <1>2, <1>5 DEF Named, Readable, IdsInv, FilesInv, TrackerTypes
<1>7. pc'[p] = "insert" /\ table'[p] = t /\ id'[p] = FirstId(files[path], t)
  BY <1>3, <1>5 DEF To, IdsInv, FilesInv, TrackerTypes
<1>8. PICK i \in DOMAIN files[path] :
        files[path][i].store = t /\ id'[p] = files[path][i].cur_id /\ files[path][i].cur_id \in Nat
  BY <1>4, <1>6, <1>7, FirstLine
<1>9. \A j \in DOMAIN files[path] : files[path][j].store = t => files[path][j].cur_id = id'[p]
  BY <1>6, <1>8 DEF IdsInv, LinesAgree, Agree
<1>10. Distinct /\ stream[p] = path /\ \A u \in Tables : Shows(u)
  BY <1>1 DEF Fresh, Counting, ServingCalls
<1>11. Distinct' /\ \A u \in Tables : Shows(u)'
  BY <1>1, <1>10 DEF Distinct, Shows, Ahead, HasStore
<1>12. Counting(p)'
  BY <1>1, <1>7, <1>8, <1>9, <1>10, <1>11 DEF Counting
<1> QED BY <1>1, <1>11, <1>12, OneCounts, TrackerAssumption DEF IdsInv

(* The id goes into a row: it is past every other, and the lines are on it.*)
LEMMA InsertFresh ==
  ASSUME IdsInv, IdsInv', Fresh, harmed = {}, NEW p \in Processes, Insert(p)
  PROVE  Fresh'
<1> DEFINE t == table[p]
<1>1. /\ pc[p] = "insert" /\ pc[p] \in ServingCalls \ {"rename"} /\ port = p /\ pc'[p] = "tmp"
      /\ UNCHANGED <<table, id, stream, files, path, tmp, port>>
      /\ issued' = [issued EXCEPT ![t] = Append(issued[t], id[p])] /\ t \in Tables
  BY ServerRenames DEF Insert, disk, To, ServingCalls, Calls, IdsInv, FilesInv, TrackerTypes
<1>2. Named
  BY <1>1, ServerNamed
<1>3. /\ Distinct /\ stream[p] = path /\ id[p] \in Nat /\ \A u \in Tables : Shows(u)
      /\ \A i \in DOMAIN files[path] : files[path][i].store = t => files[path][i].cur_id = id[p]
  BY <1>1 DEF Fresh, Counting, ServingCalls
<1> DEFINE old == issued[t]
           new == issued'[t]
<1>4. /\ old \in Seq(Nat \cup {NoId}) /\ new = Append(old, id[p])
      /\ \A u \in Tables : u # t => issued'[u] = issued[u]
  BY <1>1 DEF IdsInv, FilesInv, TrackerTypes
<1>5. PICK line \in DOMAIN files[path] : files[path][line].store = t
  BY <1>1, <1>2 DEF Named, Complete, HasStore
<1>6. files[path][line].cur_id = id[p]
  BY <1>3, <1>5
<1>7. \A k \in DOMAIN old : old[k] < id[p] /\ old[k] \in Nat
  BY <1>1, <1>2, <1>3, <1>5, <1>6 DEF Shows, Ahead, Named, Distinct
<1>8. \A i, j \in DOMAIN old : old[i] = old[j] => i = j
  BY <1>1, <1>3 DEF Distinct
<1>9. /\ DOMAIN old = 1 .. Len(old) /\ Len(old) \in Nat /\ DOMAIN new = 1 .. Len(old) + 1
      /\ \A k \in DOMAIN old : new[k] = old[k]
      /\ new[Len(old) + 1] = id[p]
  <2>1. id[p] \in Nat \cup {NoId}
    BY <1>3
  <2>2. /\ new \in Seq(Nat \cup {NoId}) /\ Len(new) = Len(old) + 1
        /\ \A k \in 1 .. Len(old) : new[k] = old[k]
        /\ new[Len(old) + 1] = id[p]
    BY <1>4, <2>1, AppendProperties
  <2>3. DOMAIN old = 1 .. Len(old) /\ Len(old) \in Nat /\ DOMAIN new = 1 .. Len(new)
    BY <1>4, <2>2
  <2> QED BY <2>2, <2>3
<1> HIDE DEF old, new
<1>10. \A k \in DOMAIN new : new[k] \in Nat /\ new[k] <= id[p]
  BY <1>3, <1>7, <1>9
<1>11. ASSUME NEW i \in DOMAIN new, NEW j \in DOMAIN new, new[i] = new[j] PROVE i = j
  <2>1. CASE i \in DOMAIN old /\ j \in DOMAIN old
    BY <1>8, <1>9, <1>11, <2>1
  <2>2. CASE i \in DOMAIN old /\ j \notin DOMAIN old
    BY <1>3, <1>7, <1>9, <1>11, <2>2
  <2>3. CASE i \notin DOMAIN old /\ j \in DOMAIN old
    BY <1>3, <1>7, <1>9, <1>11, <2>3
  <2>4. CASE i \notin DOMAIN old /\ j \notin DOMAIN old
    BY <1>9, <2>4
  <2> QED BY <2>1, <2>2, <2>3, <2>4
<1>12. Distinct'
  <2>1. ASSUME NEW u \in Tables
        PROVE  /\ \A i \in DOMAIN issued'[u] : issued'[u][i] \in Nat
               /\ \A i, j \in DOMAIN issued'[u] : issued'[u][i] = issued'[u][j] => i = j
    <3>1. CASE u = t
      BY <1>10, <1>11, <3>1 DEF new
    <3>2. CASE u # t
      BY <1>3, <1>4, <3>2 DEF Distinct
    <3> QED BY <3>1, <3>2
  <2> QED BY <2>1 DEF Distinct
<1>13. Level(files[path], table[p])'
  <2>1. \A k \in DOMAIN issued'[t] : issued'[t][k] <= id[p]
    BY <1>10 DEF new
  <2>2. HasStore(files[path], t)
    BY <1>5 DEF HasStore
  <2> QED BY <1>1, <1>3, <2>1, <2>2 DEF Level, HasStore
<1>14. \A u \in Tables : u = t \/ Shows(u)'
  BY <1>1, <1>3, <1>4 DEF Shows, Ahead, HasStore
<1>15. Counting(p)'
  BY <1>1, <1>3, <1>13, <1>14 DEF Counting
<1> QED BY <1>1, <1>12, <1>15, OneCounts, TrackerAssumption DEF IdsInv

(* The new file is past the row as well.                                   *)
LEMMA WriteFresh ==
  ASSUME IdsInv, IdsInv', Fresh, harmed = {}, NEW p \in Processes, WriteTmp(p)
  PROVE  Fresh'
<1> DEFINE t == table[p]
           lines == files[path]
           new == Incremented(files[path], t)
<1>1. /\ pc[p] = "tmp" /\ pc[p] \in ServingCalls \ {"rename"} /\ port = p /\ pc'[p] = "remove"
      /\ UNCHANGED <<files, path, port, issued>> /\ t \in Tables
      /\ tmp' = Incremented(files[stream[p]], t)
  BY ServerRenames DEF WriteTmp, To, ServingCalls, Calls, IdsInv, FilesInv, TrackerTypes
<1>2. Named
  BY <1>1, ServerNamed
<1>3. /\ Distinct /\ stream[p] = path /\ Level(lines, t)
      /\ \A u \in Tables : u = t \/ Shows(u)
  BY <1>1 DEF Fresh, Counting, ServingCalls
<1>4. lines \in Seq(Lines) /\ tmp' = new
  BY <1>1, <1>2, <1>3 DEF Named, IdsInv, FilesInv, TrackerTypes
<1>5. /\ DOMAIN new = DOMAIN lines
      /\ \A i \in DOMAIN lines :
           /\ new[i].store = lines[i].store
           /\ lines[i].store = t => new[i].cur_id = lines[i].cur_id + 1
           /\ lines[i].store # t => new[i].cur_id = lines[i].cur_id
      /\ \A u \in Tables : HasStore(new, u) <=> HasStore(lines, u)
  BY <1>1, <1>4, IncrementedLines
<1>6. \A i \in DOMAIN lines : lines[i].cur_id \in Nat
  <2>1. \A i \in DOMAIN lines : lines[i] \in Lines
    BY <1>4
  <2> QED BY <2>1 DEF Lines
<1> HIDE DEF new, lines
<1>7. Ahead(new, t)
  <2>1. ASSUME NEW i \in DOMAIN new, new[i].store = t, NEW k \in DOMAIN issued[t]
        PROVE  issued[t][k] < new[i].cur_id
    <3>1. issued[t][k] <= lines[i].cur_id /\ issued[t][k] \in Nat
      BY <1>1, <1>3, <1>5, <2>1 DEF Level, Distinct
    <3> QED BY <1>5, <1>6, <2>1, <3>1
  <2> QED BY <1>1, <1>3, <1>5, <2>1 DEF Ahead, Level
<1>8. ASSUME NEW u \in Tables, u # t PROVE Ahead(new, u)
  <2>1. Ahead(lines, u)
    BY <1>2, <1>3, <1>8 DEF Shows, Named, lines
  <2> QED BY <1>5, <1>8, <2>1 DEF Ahead
<1>9. \A u \in Tables : Ahead(tmp, u)'
  BY <1>1, <1>4, <1>7, <1>8 DEF Ahead, HasStore
<1>10. Distinct' /\ Counting(p)'
  BY <1>1, <1>3, <1>9 DEF Distinct, Counting
<1> QED BY <1>1, <1>10, OneCounts, TrackerAssumption DEF IdsInv

(* remove, rename and fopen bring it to the path and to the stream.        *)
LEMMA ReplaceFresh ==
  ASSUME IdsInv, IdsInv', Fresh, harmed = {}, NEW p \in Processes,
         Remove(p) \/ Rename(p) \/ Reopen(p)
  PROVE  Fresh'
<1>0. Distinct /\ Counting(p) /\ FilesInv /\ FilesInv'
  BY DEF Fresh, IdsInv
<1>1. pc[p] \in ServingCalls /\ port = p /\ UNCHANGED <<port, issued>>
  BY <1>0, ServerRenames DEF Remove, Rename, Reopen, ServingCalls, Calls
<1>2. Distinct'
  BY <1>0, <1>1 DEF Distinct
<1>3. CASE Remove(p)
  <2>1. pc[p] = "remove" /\ pc'[p] = "rename" /\ tmp' = tmp
    BY <1>0, <1>3 DEF Remove, To, FilesInv, TrackerTypes
  <2>2. \A t \in Tables : Ahead(tmp, t)'
    BY <1>0, <1>1, <2>1 DEF Counting, Ahead, HasStore
  <2> QED BY <1>0, <1>1, <1>2, <2>1, <2>2, OneCounts, TrackerAssumption DEF Counting
<1>4. CASE Rename(p)
  <2>1. pc[p] = "rename" /\ pc'[p] = "reopen"
    BY <1>0, <1>4 DEF Rename, To, FilesInv, TrackerTypes
  <2>2. path' # None /\ files'[path'] = tmp
    BY <1>0, <1>4, RenamedFile, NoneIsNoFile
  <2>3. \A t \in Tables : Shows(t)'
    BY <1>0, <1>1, <2>1, <2>2 DEF Counting, Shows, Ahead, HasStore
  <2> QED BY <1>0, <1>1, <1>2, <2>1, <2>2, <2>3, OneCounts, TrackerAssumption DEF Counting
<1>5. CASE Reopen(p)
  <2>1. pc[p] = "reopen" /\ pc'[p] = "idle" /\ Opened(p) /\ Step(p)
    BY <1>0, <1>5 DEF Reopen, Step, To, FilesInv, TrackerTypes
  <2>2. stream'[p] = path'
    BY <1>0, <2>1, OpenedFile
  <2>3. \A t \in Tables : Shows(t)
    BY <1>0, <1>1, <2>1 DEF Counting
  <2>4. ~ (Remove(p) \/ Rename(p))
    BY <2>1 DEF Remove, Rename
  <2>5. \A t \in Tables : Shows(t)'
    BY <1>0, <1>1, <2>1, <2>3, <2>4, ShowsStays
  <2> QED BY <1>0, <1>1, <1>2, <2>1, <2>2, <2>5, OneCounts, TrackerAssumption DEF Counting
<1> QED BY <1>3, <1>4, <1>5

(* A server that dies between two registrations leaves the file in order.  *)
LEMMA DeathFresh ==
  ASSUME IdsInv, IdsInv', Fresh, harmed = {}, harmed' = {}, NEW p \in Processes,
         Crash(p) \/ Faulted(p), pc[p] \in ServingCalls
  PROVE  Fresh'
<1>0. Distinct /\ Counting(p) /\ FilesInv /\ FilesInv'
  BY DEF Fresh, IdsInv
<1>1. port = p /\ port' = NoOne /\ issued' = issued /\ pc'[p] = "off" /\ Step(p)
  BY <1>0, ServerRenames DEF Crash, Faulted, Died, To, Step, FilesInv, TrackerTypes
<1>2. pc[p] \notin {"tmp", "remove", "rename"}
  <2>1. CASE Crash(p)
    <3>1. HarmOfCrash(p) = {}
      BY <2>1 DEF Crash
    <3>2. pc[p] \in {"tmp", "remove"} => HarmOfCrash(p) = {"stale"}
      BY DEF HarmOfCrash
    <3>3. pc[p] = "rename" => HarmOfCrash(p) = {"lost"}
      BY DEF HarmOfCrash
    <3> QED BY <3>1, <3>2, <3>3
  <2>2. CASE Faulted(p)
    BY <2>2 DEF Faulted
  <2> QED BY <2>1, <2>2
<1>3. \A t \in Tables : Shows(t)
  BY <1>0, <1>2 DEF Counting
<1>4. ~ (Remove(p) \/ Rename(p))
  BY <1>2 DEF Remove, Rename
<1>5. \A t \in Tables : Shows(t)'
  BY <1>0, <1>1, <1>3, <1>4, ShowsStays
<1>6. Distinct' /\ Counting(p)'
  BY <1>0, <1>1 DEF Distinct, Counting, ServingCalls
<1> QED BY <1>0, <1>1, <1>5, <1>6, OneCounts

LEMMA FreshStep ==
  ASSUME IdsInv, IdsInv', Fresh, NEW p \in Processes, Step(p)
  PROVE  Fresh'
<1> SUFFICES ASSUME harmed' = {} PROVE Fresh'
  BY DEF Fresh
<1>0. harmed = {} /\ FilesInv
  BY HarmStays DEF IdsInv
<1>1. CASE pc[p] \notin ServingCalls /\ pc'[p] \notin ServingCalls
  <2>1. ~ Insert(p)
    BY <1>1 DEF Insert, ServingCalls, Calls
  <2>2. issued' = issued
    BY <2>1 DEF Step, Start, HasLine, LacksLine, Initialize, Bind, Take, WriteTmp, Remove,
                Rename, Reopen, WriteTmpFull, WriteTmpFails, Crash, Faulted, Died
  <2> QED BY <1>0, <1>1, <2>2, OthersFresh
<1>2. CASE pc[p] \notin ServingCalls /\ pc'[p] \in ServingCalls
  <2>1. Bind(p)
    <3>1. ~ (Take(p) \/ Insert(p) \/ WriteTmp(p) \/ WriteTmpFull(p) \/ WriteTmpFails(p)
               \/ Remove(p) \/ Rename(p) \/ Reopen(p))
      BY <1>2 DEF Take, Insert, WriteTmp, WriteTmpFull, WriteTmpFails, Remove, Rename, Reopen,
                  ServingCalls, Calls
    <3> QED BY <1>0, <1>2, <3>1, CallBefore DEF ServingCalls, Calls
  <2> QED BY <1>0, <1>2, <2>1, BindFresh
<1>3. CASE pc[p] \in ServingCalls
  <2>1. ~ (Start(p) \/ HasLine(p) \/ LacksLine(p) \/ Initialize(p) \/ Bind(p))
    BY <1>3 DEF Start, HasLine, LacksLine, Initialize, Bind, ServingCalls
  <2>2. ~ (WriteTmpFull(p) \/ WriteTmpFails(p))
    BY DEF WriteTmpFull, WriteTmpFails
  <2> QED BY <1>0, <1>3, <2>1, <2>2, TakeFresh, InsertFresh, WriteFresh, ReplaceFresh, DeathFresh
          DEF Step
<1> QED BY <1>1, <1>2, <1>3

-----------------------------------------------------------------------------
(* What the layers say together.                                           *)

TrackerInv == IdsInv /\ Fresh

LEMMA TrackerKept ==
  ASSUME TrackerInv, [Next]_vars
  PROVE  TrackerInv'
<1>1. CASE UNCHANGED vars
  <2>1. UNCHANGED <<pc, table, id, stream, files, path, tmp, port, issued, harmed, faults>>
    BY <1>1 DEF vars, local, disk
  <2>2. FilesInv' /\ LinesAgree'
    BY <2>1 DEF TrackerInv, IdsInv, FilesInv, TrackerTypes, Held, InUse, LinesAgree, Agree, NewLines
  <2>3. WholeInv'
    BY <2>1 DEF TrackerInv, IdsInv, WholeInv, SetUp, Updating, ServerReads, OldStream, Named,
                Complete, HasStore, Renaming
  <2>4. Fresh'
    BY <2>1 DEF TrackerInv, Fresh, Distinct, Counting, Shows, Ahead, Level, HasStore
  <2> QED BY <2>2, <2>3, <2>4 DEF TrackerInv, IdsInv
<1>2. CASE Next
  <2>1. PICK p \in Processes : Step(p)
    BY <1>2 DEF Next
  <2>2. FilesInv'
    BY <1>2, FilesKept DEF TrackerInv, IdsInv
  <2>3. LinesAgree' /\ WholeInv'
    BY <2>1, <2>2, LinesStep, WholeStep DEF TrackerInv, IdsInv
  <2>4. IdsInv'
    BY <2>2, <2>3 DEF IdsInv
  <2> QED BY <2>1, <2>4, FreshStep DEF TrackerInv
<1> QED BY <1>1, <1>2

LEMMA TrackerHolds == Spec => []TrackerInv
<1>1. Init => TrackerInv
  BY FilesInit, LinesInit, WholeInit, FreshInit DEF TrackerInv, IdsInv
<1>2. TrackerInv /\ [Next]_vars => TrackerInv'
  BY TrackerKept
<1> QED BY <1>1, <1>2, PTL DEF Spec

(* No id goes into two rows of a table, however many processes start       *)
(* beside the one that serves and whenever they die, unless an update was  *)
(* cut short or a process serves with a stream older than the file.        *)
THEOREM IdsAreUnique == Spec => []NoIdTwice
<1>1. TrackerInv => NoIdTwice
  BY DEF TrackerInv, Fresh, Distinct, NoIdTwice
<1> QED BY <1>1, TrackerHolds, PTL

(* The lines of a table never disagree, whatever crashes or fills up, and  *)
(* the row that get_next_identity indexes without a look is there for the  *)
(* process that serves, unless a full disk emptied the file or the process *)
(* serves with an old stream after one that died before rename.            *)
THEOREM IdentityIsReadable == Spec => []IdentityReadable
<1>1. TrackerInv => IdentityReadable
  <2> SUFFICES ASSUME TrackerInv PROVE IdentityReadable
    OBVIOUS
  <2>1. path # None => Agree(files[path])
    BY DEF TrackerInv, IdsInv, LinesAgree, FilesInv, TrackerTypes
  <2>2. ASSUME "empty" \notin harmed, ~ ({"lost", "late"} \subseteq harmed),
               NEW p \in Processes, pc[p] = "idle", NEW t \in Tables
        PROVE  Readable(t)
    <3>1. port = p /\ port # NoOne /\ ~ Renaming
      BY <2>2, ServerRenames, TrackerAssumption
         DEF TrackerInv, IdsInv, ServingCalls, Calls
    <3>2. Named
      BY <2>2, <3>1 DEF TrackerInv, IdsInv, WholeInv, ServerReads
    <3> QED BY <3>2 DEF Named, Complete, Readable
  <2> QED BY <2>1, <2>2 DEF IdentityReadable, Agree
<1> QED BY <1>1, TrackerHolds, PTL

=============================================================================
