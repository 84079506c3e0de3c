--------------------------- MODULE AuditedSettings ---------------------------
(***************************************************************************)
(* The audit log (audit/log.py) and the settings whose changes it records  *)
(* from worker threads: the autonomy levels (autonomy/config.py) and the   *)
(* emergency stop (autonomy/emergency_stop.py), set by the endpoints of    *)
(* routers/autonomy.py.                                                    *)
(*                                                                         *)
(* Those endpoints are `def' handlers, so several run at once. Each loads  *)
(* and rewrites a JSON file with no lock, then reads the hash of the last  *)
(* record and appends its own. The `async def' handlers of the other       *)
(* routers append to the same log, one at a time. A file is rewritten by   *)
(* write_text, which truncates it when it opens it. A record is appended   *)
(* in one write, which may end in the middle of its line.                  *)
(***************************************************************************)
EXTENDS Integers, Sequences, RewrittenFile

CONSTANTS
  Keys,     \* the pairs of product and business function
  Levels,   \* the autonomy levels
  Default,  \* DEFAULT_LEVEL
  Threads,  \* the worker threads
  Stop,     \* the emergency stop, as the subject of a request
  None      \* nothing

ASSUME DefaultAssumption == Default \in Levels
ASSUME StopAssumption == Stop \notin Keys /\ None \notin Keys \union {Stop}
ASSUME TornAssumption == Torn \notin BOOLEAN

Subjects == Keys \union {Stop}

VARIABLES
  config,  \* the entries of the autonomy file, in order
  stopped, \* the flag in the emergency-stop file
  log,     \* the audit records; prev is the position of the record prev_hash names
  cut,     \* behind them stands a piece of a record, on which read_records raises
  thread,  \* the request each thread serves
  loop,    \* the position an event-loop handler has read and not yet appended to
  doubt    \* (history) subjects two requests fought over, or changed with no record

vars == <<config, stopped, log, cut, thread, loop, doubt>>
files == <<config, stopped>>
auditLog == <<log, cut>>

ValuesOf(s) == IF s = Stop THEN BOOLEAN ELSE Levels
Entry == [key : Keys, level : Levels]
Record == [subject : Subjects \union {None}, value : Levels \union BOOLEAN \union {None}, prev : Nat]
NoRequest == [at |-> "idle", subject |-> None, value |-> None, copy |-> <<>>, prev |-> 0]

Init ==
  /\ config = <<>>
  /\ stopped = FALSE
  /\ log = <<>>
  /\ cut = FALSE
  /\ thread = [t \in Threads |-> NoRequest]
  /\ loop = None
  /\ doubt = {}

-----------------------------------------------------------------------------
(* Lists of entries and the end of the log.                                *)

\* The position of the first entry of a key.
First(entries, key) ==
  CHOOSE i \in DOMAIN entries :
    entries[i].key = key /\ \A j \in 1..(i - 1) : entries[j].key # key

Has(entries, key) == \E i \in DOMAIN entries : entries[i].key = key

\* get_level: the first entry of the key, or the default.
Level(entries, key) ==
  IF Has(entries, key) THEN entries[First(entries, key)].level ELSE Default

\* set_level: the first entry of the key is replaced, or one is appended.
WithLevel(entries, key, level) ==
  IF Has(entries, key) THEN [entries EXCEPT ![First(entries, key)].level = level]
  ELSE Append(entries, [key |-> key, level |-> level])

\* latest_hash, as the position of the last record; 0 stands for null.
LatestHash == Len(log)

\* append_record: what comes behind a piece of a record is on its line, and lost with it.
Appended(record) ==
  /\ log' = IF cut THEN log ELSE Append(log, record)
  /\ UNCHANGED cut

-----------------------------------------------------------------------------
(* PUT /autonomy/{product}/{function} and POST /autonomy/emergency-stop[/release]. *)

\* The request of t has come to at, with this copy and this end of the log.
Steps(t, at, copy, prev) ==
  thread' = [thread EXCEPT ![t] =
    [at |-> at, subject |-> thread[t].subject, value |-> thread[t].value,
     copy |-> copy, prev |-> prev]]

Active(s) == {t \in Threads : thread[t].subject = s}

\* A request on a key begins with _load, which an unreadable file ends with an error.
Request(t, s, value) ==
  /\ thread[t] = NoRequest
  /\ s \in Keys => config # Torn
  /\ thread' = [thread EXCEPT ![t] =
       [at |-> "open", subject |-> s, value |-> value,
        copy |-> IF s = Stop THEN <<>> ELSE config, prev |-> 0]]
  /\ doubt' = IF Active(s) = {} THEN doubt ELSE doubt \union {s}
  /\ UNCHANGED <<files, auditLog, loop>>

(* write_text, first half: the file is truncated. *)
Open(t) ==
  /\ thread[t].at = "open"
  /\ Steps(t, "write", thread[t].copy, 0)
  /\ IF thread[t].subject = Stop
     THEN stopped' = Torn /\ UNCHANGED config
     ELSE config' = Torn /\ UNCHANGED stopped
  /\ UNCHANGED <<auditLog, loop, doubt>>

\* The other threads that will overwrite what is written now with what they loaded.
Overwriters(t) ==
  {u \in Threads \ {t} : thread[u].subject \in Keys /\ thread[u].at \in {"open", "write"}}

(* write_text, second half: the flag, or the loaded list with one entry set. *)
Write(t) ==
  /\ thread[t].at = "write"
  /\ Steps(t, "link", <<>>, 0)
  /\ IF thread[t].subject = Stop
     THEN /\ stopped' \in Written(stopped, thread[t].value)
          /\ UNCHANGED <<config, doubt>>
     ELSE /\ config' \in Written(config,
                           WithLevel(thread[t].copy, thread[t].subject, thread[t].value))
          /\ doubt' = IF Overwriters(t) = {} THEN doubt ELSE doubt \union {thread[t].subject}
          /\ UNCHANGED stopped
  /\ UNCHANGED <<auditLog, loop>>

(* The argument prev_hash of AuditRecord.create; nothing goes on behind a log that cannot
   be read. *)
Link(t) ==
  /\ thread[t].at = "link"
  /\ ~cut
  /\ Steps(t, "append", <<>>, LatestHash)
  /\ UNCHANGED <<files, auditLog, loop, doubt>>

\* Mutant: the record of a request does not carry the value that was set.
AppendDefault(t) ==
  /\ thread[t].at = "append"
  /\ Appended([subject |-> thread[t].subject, value |-> Default, prev |-> thread[t].prev])
  /\ thread' = [thread EXCEPT ![t] = NoRequest]
  /\ doubt' = IF cut THEN doubt \union {thread[t].subject} ELSE doubt
  /\ UNCHANGED <<files, loop>>

(* append_record; the request is answered. *)
AppendRecord(t) ==
  /\ thread[t].at = "append"
  /\ Appended([subject |-> thread[t].subject, value |-> thread[t].value, prev |-> thread[t].prev])
  /\ thread' = [thread EXCEPT ![t] = NoRequest]
  /\ doubt' = IF cut THEN doubt \union {thread[t].subject} ELSE doubt
  /\ UNCHANGED <<files, loop>>

\* A failure leaves the log as it is, or the piece of a record that was being appended.
CutAt(appending) == cut' \in IF appending THEN {cut, TRUE} ELSE {cut}

(* The request ends with an error, and what it did stays. *)
Fail(t) ==
  /\ thread[t] # NoRequest
  /\ thread' = [thread EXCEPT ![t] = NoRequest]
  /\ doubt' = IF thread[t].at \in {"link", "append"} THEN doubt \union {thread[t].subject} ELSE doubt
  /\ CutAt(thread[t].at = "append")
  /\ UNCHANGED <<files, log, loop>>

-----------------------------------------------------------------------------
(* An event-loop handler: PMDF writes, decisions and bundle imports.        *)

LoopLink ==
  /\ loop = None
  /\ ~cut
  /\ loop' = LatestHash
  /\ UNCHANGED <<files, auditLog, thread, doubt>>

(* The handler ends with an error before its record is appended. *)
LoopFail ==
  /\ loop # None
  /\ loop' = None
  /\ CutAt(TRUE)
  /\ UNCHANGED <<files, log, thread, doubt>>

LoopAppend ==
  /\ loop # None
  /\ Appended([subject |-> None, value |-> None, prev |-> loop])
  /\ loop' = None
  /\ UNCHANGED <<files, thread, doubt>>

-----------------------------------------------------------------------------
ThreadNext(t) ==
  \/ \E s \in Subjects : \E value \in ValuesOf(s) : Request(t, s, value)
  \/ Open(t)
  \/ Write(t)
  \/ Link(t)
  \/ AppendRecord(t)
  \/ Fail(t)

Next ==
  \/ \E t \in Threads : ThreadNext(t)
  \/ LoopLink
  \/ LoopAppend
  \/ LoopFail

Spec == Init /\ [][Next]_vars
-----------------------------------------------------------------------------
(* Properties.                                                             *)

(* The types of all variables. *)
TypeOK ==
  /\ config = Torn \/ config \in Seq(Entry)
  /\ stopped \in BOOLEAN \union {Torn}
  /\ log \in Seq(Record)
  /\ cut \in BOOLEAN
  /\ thread \in [Threads ->
       [at : {"open", "write", "link", "append"}, subject : Subjects,
        value : Levels \union BOOLEAN, copy : Seq(Entry), prev : Nat] \union {NoRequest}]
  /\ loop \in Nat \union {None}
  /\ doubt \subseteq Subjects

\* No key has two entries.
Distinct(entries) == \A i, j \in DOMAIN entries : entries[i].key = entries[j].key => i = j

(* However the requests race, the file never holds two entries of one key, of
   which get_level would see the first only (autonomy/config.py, set_level). *)
OneEntryPerKey == config # Torn => Distinct(config)

\* What the records say of a subject: the value in the last one about it.
RecordsOf(s) == {i \in DOMAIN log : log[i].subject = s}
LastOf(positions) == CHOOSE i \in positions : \A j \in positions : j =< i
Last(s) ==
  IF RecordsOf(s) # {} THEN log[LastOf(RecordsOf(s))].value
  ELSE IF s = Stop THEN FALSE ELSE Default

Settled(s) == \A t \in Active(s) : thread[t].at \notin {"write", "link", "append"}

(* A setting is what its last audit record says, unless two requests on it
   overlapped, a request that had loaded the file before wrote it after, or a
   request failed before its record (routers/autonomy.py: set, then record),
   as all of them do once the log holds a piece of a record. *)
AuditAgrees ==
  \A s \in Subjects \ doubt : Settled(s) =>
    /\ s = Stop /\ stopped # Torn => stopped = Last(s)
    /\ s \in Keys /\ config # Torn => Level(config, s) = Last(s)

(* audit/log.py says that each record has the hash of the record before it as
   its prev_hash, which is what verify_chain goes by.  It does not hold. *)
ChainIntact == \A i \in DOMAIN log : log[i].prev = i - 1
=============================================================================
