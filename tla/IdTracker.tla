----------------------------- MODULE IdTracker -----------------------------
(***************************************************************************)
(* The id tracker at the level of its file: lines, the path that names     *)
(* them, and the streams that keep a removed file alive. A second process  *)
(* may be started beside the first: it runs setup_stores on the same files *)
(* and learns only afterwards, at bind, that the port is taken.            *)
(* Registration has one process and a counter per table; this module shows *)
(* when a counter per table is what the lines amount to.                   *)
(***************************************************************************)
EXTENDS Integers, Sequences, FiniteSets

CONSTANTS
  Processes,   \* processes that may be started
  MaxIssued,   \* bound: how many ids are handed out
  MaxFaults    \* bound: how many crashes and full disks

NoOne == "no process"

ASSUME TrackerAssumption ==
  /\ MaxIssued \in Nat /\ MaxFaults \in Nat
  /\ IsFiniteSet(Processes) /\ NoOne \notin Processes

VARIABLES
  pc,       \* per process: its next call on the tracker
  table,    \* per process: the table of that call
  id,       \* per process: next_id
  stream,   \* per process: the file stores.id_tracker_store is open on
  files,    \* the lines of each file that has a name or an open stream
  path,     \* the file that DB_ID_TRACKER_SECTION names
  tmp,      \* lines of id_tracker_tmp.db
  port,     \* the process that listens
  issued,   \* per table: the ids that went into a row, in order
  harmed,   \* what went wrong: "stale", "lost", "empty", "late"
  faults    \* number of faults so far

local == <<pc, table, id, stream>>
disk  == <<files, path, tmp>>
vars  == <<local, disk, port, issued, harmed, faults>>

-----------------------------------------------------------------------------
None   == 0                                     \* no file, no stream
Files  == 1 .. Cardinality(Processes) + 2       \* inode numbers
NoId   == -1                                    \* the text "(null)"
Tables == {"user", "transaction", "account"}

AfterSetupOf == [user |-> "transaction", transaction |-> "account"]

(* id_tracker_has_store: a line of the open file names the table.          *)
HasStore(lines, t) == \E i \in DOMAIN lines : lines[i].store = t

(* get_next_identity: the first line the path shows for the table.         *)
FirstId(lines, t) ==
  lines[CHOOSE i \in DOMAIN lines :
          lines[i].store = t /\ \A j \in 1 .. i - 1 : lines[j].store # t].cur_id

(* Mutant: the lines of the other tables are not copied.                   *)
IncrementedOnly(lines, t) ==
  SelectSeq([i \in DOMAIN lines |-> [lines[i] EXCEPT !.cur_id = @ + 1]],
            LAMBDA line : line.store = t)

(* updt_next_identity: every line of the table is incremented.             *)
Incremented(lines, t) ==
  [i \in DOMAIN lines |-> IF lines[i].store = t
                          THEN [lines[i] EXCEPT !.cur_id = @ + 1] ELSE lines[i]]

(* The inode a new file gets: no name and no stream keeps it.              *)
FreeFile == CHOOSE f \in Files : f # path /\ \A p \in Processes : f # stream[p]

(* A file that no name and no stream keeps is gone.                        *)
Kept(all) ==
  [f \in Files |-> IF f = path' \/ \E p \in Processes : f = stream'[p]
                  THEN all[f] ELSE <<>>]

To(p, call) == pc' = [pc EXCEPT ![p] = call]

Init ==
  /\ pc = [p \in Processes |-> "off"] /\ table = [p \in Processes |-> "user"]
  /\ id = [p \in Processes |-> NoId] /\ stream = [p \in Processes |-> None]
  /\ files = [f \in Files |-> <<>>] /\ path = None /\ tmp = <<>>
  /\ port = NoOne /\ issued = [t \in Tables |-> <<>>]
  /\ harmed = {} /\ faults = 0

-----------------------------------------------------------------------------
(* setup_stores and bind.                                                  *)

(* Mutant: the file is opened with "w+".                                   *)
OpenedTruncates(p) ==
  /\ path' = IF path = None THEN FreeFile ELSE path
  /\ stream' = [stream EXCEPT ![p] = path']
  /\ files' = Kept([files EXCEPT ![path'] = <<>>])

(* fopen "a+" opens the file the path names, or makes an empty one.        *)
Opened(p) ==
  /\ path' = IF path = None THEN FreeFile ELSE path
  /\ stream' = [stream EXCEPT ![p] = path']
  /\ files' = Kept(files)

Start(p) ==
  /\ pc[p] = "off"
  /\ Opened(p)
  /\ To(p, "has") /\ table' = [table EXCEPT ![p] = "user"]
  /\ UNCHANGED <<id, tmp, port, issued, harmed, faults>>

NextTable(p) ==
  IF table[p] = "account"
  THEN To(p, "bind") /\ UNCHANGED table
  ELSE To(p, "has") /\ table' = [table EXCEPT ![p] = AfterSetupOf[@]]

HasLine(p) ==
  /\ pc[p] = "has" /\ HasStore(files[stream[p]], table[p])
  /\ NextTable(p)
  /\ UNCHANGED <<id, stream, disk, port, issued, harmed, faults>>

LacksLine(p) ==
  /\ pc[p] = "has" /\ ~HasStore(files[stream[p]], table[p])
  /\ To(p, "init")
  /\ UNCHANGED <<table, id, stream, disk, port, issued, harmed, faults>>

(* The line is appended to whatever file the stream is on by now.          *)
Initialize(p) ==
  /\ pc[p] = "init"
  /\ files' = [files EXCEPT ![stream[p]] = Append(@, [store |-> table[p], cur_id |-> 0])]
  /\ NextTable(p)
  /\ UNCHANGED <<id, stream, path, tmp, port, issued, harmed, faults>>

(* Only one process gets the port; the others exit. "late": the one that   *)
(* gets it opened its stream before its predecessor's last update.         *)
Bind(p) ==
  /\ pc[p] = "bind"
  /\ IF port = NoOne
     THEN /\ port' = p /\ To(p, "idle") /\ UNCHANGED stream
          /\ harmed' = IF stream[p] # path THEN harmed \cup {"late"} ELSE harmed
     ELSE /\ To(p, "off") /\ stream' = [stream EXCEPT ![p] = None]
          /\ UNCHANGED <<port, harmed>>
  /\ UNCHANGED <<table, id, path, tmp, issued, faults>>
  /\ files' = Kept(files)

-----------------------------------------------------------------------------
(* What make_new_user and make_new_account do with the tracker.            *)

Readable(t) == path # None /\ HasStore(files[path], t)

TotalIssued == Len(issued["user"]) + Len(issued["account"])

(* Without a file fseek is given no stream. Without a line there is no row *)
(* for get_row_col_value: what it returns is printed, or kills.            *)
Take(p) ==
  /\ pc[p] = "idle" /\ TotalIssued < MaxIssued
  /\ \E t \in {"user", "account"} :
       /\ table' = [table EXCEPT ![p] = t]
       /\ \/ /\ Readable(t)
             /\ id' = [id EXCEPT ![p] = FirstId(files[path], t)] /\ To(p, "insert")
          \/ /\ path # None /\ ~Readable(t)
             /\ id' = [id EXCEPT ![p] = NoId] /\ To(p, "insert")
          \/ /\ ~Readable(t)
             /\ To(p, "dying") /\ UNCHANGED id
  /\ UNCHANGED <<stream, disk, port, issued, harmed, faults>>

Insert(p) ==
  /\ pc[p] = "insert"
  /\ issued' = [issued EXCEPT ![table[p]] = Append(@, id[p])]
  /\ To(p, "tmp")
  /\ UNCHANGED <<table, id, stream, disk, port, harmed, faults>>

WriteTmp(p) ==
  /\ pc[p] = "tmp"
  /\ tmp' = Incremented(files[stream[p]], table[p])
  /\ To(p, "remove")
  /\ UNCHANGED <<table, id, stream, files, path, port, issued, harmed, faults>>

(* The disk is full: the few lines are one write, so none of them arrives, *)
(* and the result of fclose is not looked at.                              *)
WriteTmpFull(p) ==
  /\ pc[p] = "tmp" /\ faults < MaxFaults
  /\ tmp' = <<>>
  /\ To(p, "remove")
  /\ harmed' = harmed \cup {"empty"} /\ faults' = faults + 1
  /\ UNCHANGED <<table, id, stream, files, path, port, issued>>

(* The temporary file cannot be opened: the id stays as it was.            *)
WriteTmpFails(p) ==
  /\ pc[p] = "tmp" /\ faults < MaxFaults
  /\ To(p, "idle")
  /\ harmed' = harmed \cup {"stale"} /\ faults' = faults + 1
  /\ UNCHANGED <<table, id, stream, disk, port, issued>>

Remove(p) ==
  /\ pc[p] = "remove"
  /\ path' = None
  /\ To(p, "rename")
  /\ UNCHANGED <<table, id, stream, tmp, port, issued, harmed, faults>>
  /\ files' = Kept(files)

(* Also replaces the file that a starting process made meanwhile.          *)
Rename(p) ==
  /\ pc[p] = "rename"
  /\ path' = FreeFile /\ tmp' = <<>>
  /\ To(p, "reopen")
  /\ UNCHANGED <<table, id, stream, port, issued, harmed, faults>>
  /\ files' = Kept([files EXCEPT ![path'] = tmp])

(* Mutant: the "very IMPORTANT" line is dropped.                           *)
ReopenNot(p) ==
  /\ pc[p] = "reopen"
  /\ To(p, "idle")
  /\ UNCHANGED <<table, id, stream, disk, port, issued, harmed, faults>>

Reopen(p) ==
  /\ pc[p] = "reopen"
  /\ Opened(p)
  /\ To(p, "idle")
  /\ UNCHANGED <<table, id, tmp, port, issued, harmed, faults>>

-----------------------------------------------------------------------------
(* A process dies: killed, or of the row that was not there.               *)

HarmOfCrash(p) ==
  CASE pc[p] \in {"tmp", "remove"} -> {"stale"}
    [] pc[p] = "rename"            -> {"lost"}
    [] OTHER                       -> {}

Died(p) ==
  /\ To(p, "off")
  /\ stream' = [stream EXCEPT ![p] = None]
  /\ id' = [id EXCEPT ![p] = NoId]
  /\ port' = IF port = p THEN NoOne ELSE port
  /\ UNCHANGED <<table, path, tmp, issued>>
  /\ files' = Kept(files)

Crash(p) ==
  /\ pc[p] \notin {"off", "dying"} /\ faults < MaxFaults
  /\ Died(p)
  /\ harmed' = harmed \cup HarmOfCrash(p) /\ faults' = faults + 1

Faulted(p) == pc[p] = "dying" /\ Died(p) /\ UNCHANGED <<harmed, faults>>

-----------------------------------------------------------------------------
Step(p) ==
  \/ Start(p) \/ HasLine(p) \/ LacksLine(p) \/ Initialize(p) \/ Bind(p)
  \/ Take(p) \/ Insert(p) \/ WriteTmp(p) \/ Remove(p) \/ Rename(p) \/ Reopen(p)
  \/ WriteTmpFull(p) \/ WriteTmpFails(p) \/ Crash(p) \/ Faulted(p)

Next == \E p \in Processes : Step(p)

Spec == Init /\ [][Next]_vars

-----------------------------------------------------------------------------
(* Properties.                                                             *)

(* No id goes into two rows of a table, however many processes start       *)
(* beside the one that serves, as long as no update was cut short and no   *)
(* process serves with a stream older than the file.                       *)
NoIdTwice ==
  harmed = {} => \A t \in Tables : \A i, j \in DOMAIN issued[t] :
    issued[t][i] = issued[t][j] => i = j

(* Two processes that start at once may both initialise a table: its lines *)
(* then always carry the same number, whatever crashes or fills up, so the *)
(* first one, which get_next_identity takes, is as good as any. And that   *)
(* row, which get_next_identity indexes without a look, is there for the   *)
(* one process that serves, also when others come and go while it has      *)
(* removed the file, unless a full disk emptied it, or the process serves  *)
(* with an old stream after one that died between remove and rename.       *)
IdentityReadable ==
  /\ path # None => \A i, j \in DOMAIN files[path] :
       files[path][i].store = files[path][j].store =>
         files[path][i].cur_id = files[path][j].cur_id
  /\ "empty" \in harmed \/ {"lost", "late"} \subseteq harmed
       \/ \A p \in Processes : pc[p] = "idle" => \A t \in Tables : Readable(t)

(* A process that starts never changes what the serving one will hand out: *)
(* the counters shown by the path are touched by the owner of the port.    *)
Shown(t) ==
  IF Readable(t) THEN FirstId(files[path], t) ELSE NoId

OnlyServerCounts ==
  [][\A t \in Tables : Shown(t) # NoId /\ Shown(t)' # Shown(t) =>
       port # NoOne /\ pc[port] \in {"remove", "rename"}]_vars

=============================================================================
