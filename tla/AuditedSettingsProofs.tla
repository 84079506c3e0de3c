------------------------ MODULE AuditedSettingsProofs ------------------------
(***************************************************************************)
(* Proofs about AuditedSettings, for any keys, levels and threads: its     *)
(* types, that a race of requests may lose a change of the autonomy levels *)
(* but never doubles an entry, and that the settings agree with the log.   *)
(* The invariant behind the last (AuditInv) is about every place where a   *)
(* setting is kept, the lists that are still to be written among them.     *)
(*                                                                         *)
(* Proofs about UserStore, for any addresses, scopes and threads, with an  *)
(* invariant of the same kind (Faithful).                                  *)
(***************************************************************************)
EXTENDS AuditedSettings, UserStore, SequenceTheorems, NaturalsInduction, WellFoundedInduction, TLAPS

\* What a thread holds is no worse than what a file may hold.
Sound(r) ==
  /\ Distinct(r.copy)
  /\ r.at # "idle" => r.value \in ValuesOf(r.subject)

IInv ==
  /\ TypeOK
  /\ OneEntryPerKey
  /\ \A t \in Threads : Sound(thread[t])

ThreadState ==
  [at : {"open", "write", "link", "append"}, subject : Subjects,
   value : Levels \union BOOLEAN, copy : Seq(Entry), prev : Nat] \union {NoRequest}

(* In a list with one entry per key, the first entry of a key is the only one. *)
LEMMA FirstIs ==
  ASSUME NEW entries \in Seq(Entry), Distinct(entries), NEW i \in DOMAIN entries
  PROVE  First(entries, entries[i].key) = i
<1> DEFINE IsFirst(k) == /\ entries[k].key = entries[i].key
                         /\ \A j \in 1..(k - 1) : entries[j].key # entries[i].key
<1>1. \A j \in 1..(i - 1) : entries[j].key # entries[i].key
  <2> SUFFICES ASSUME NEW j \in 1..(i - 1), entries[j].key = entries[i].key PROVE FALSE
    OBVIOUS
  <2>1. i \in 1..Len(entries) /\ j \in DOMAIN entries /\ j < i
    OBVIOUS
  <2> QED BY <2>1 DEF Distinct
<1>2. \A k \in DOMAIN entries : IsFirst(k) => k = i
  BY DEF Distinct
<1>3. IsFirst(i)
  BY <1>1
<1> HIDE DEF IsFirst
<1>4. (CHOOSE k \in DOMAIN entries : IsFirst(k)) = i
  BY <1>2, <1>3
<1> QED BY <1>4 DEF First, IsFirst

(* WithLevel keeps a list of entries with one of each key such a list, and yields
   one of each key: the heart of set_level (autonomy/config.py). *)
LEMMA WithLevelKeeps ==
  ASSUME NEW entries \in Seq(Entry), Distinct(entries), NEW key \in Keys, NEW level \in Levels
  PROVE  /\ WithLevel(entries, key, level) \in Seq(Entry)
         /\ Distinct(WithLevel(entries, key, level))
<1> DEFINE k == First(entries, key)
<1> DEFINE new == [key |-> key, level |-> level]
<1>1. CASE Has(entries, key)
  <2>1. PICK i \in DOMAIN entries : entries[i].key = key
    BY <1>1 DEF Has
  <2>4. k = i
    BY <2>1, FirstIs
  <2> HIDE DEF k
  <2>5. k \in DOMAIN entries /\ entries[k].key = key
    BY <2>1, <2>4
  <2>6. entries[k] \in Entry
    BY <2>5
  <2>7. [entries[k] EXCEPT !.level = level] \in Entry
    BY <2>6 DEF Entry
  <2>8. [entries[k] EXCEPT !.level = level].key = key
    BY <2>5, <2>6 DEF Entry
  <2>9. WithLevel(entries, key, level) = [entries EXCEPT ![k].level = level]
    BY <1>1 DEF WithLevel, k
  <2>10. [entries EXCEPT ![k].level = level] \in Seq(Entry)
    BY <2>5, <2>7, ExceptSeq
  <2>11. \A j \in DOMAIN entries : [entries EXCEPT ![k].level = level][j].key = entries[j].key
    BY <2>5, <2>8
  <2>12. DOMAIN [entries EXCEPT ![k].level = level] = DOMAIN entries
    OBVIOUS
  <2> QED BY <2>9, <2>10, <2>11, <2>12 DEF Distinct
<1>2. CASE ~ Has(entries, key)
  <2> USE DEF Has
  <2>1. WithLevel(entries, key, level) = Append(entries, new)
    BY <1>2 DEF WithLevel
  <2>2. new \in Entry
    BY DEF Entry
  <2>3. Append(entries, new) \in Seq(Entry)
    BY <2>2
  <2>4. ASSUME NEW i \in DOMAIN Append(entries, new), NEW j \in DOMAIN Append(entries, new),
               Append(entries, new)[i].key = Append(entries, new)[j].key
        PROVE  i = j
    <3>1. i \in 1..(Len(entries) + 1) /\ j \in 1..(Len(entries) + 1)
      BY <2>4, <2>2
    <3>2. \A x \in 1..Len(entries) : Append(entries, new)[x] = entries[x] /\ x \in DOMAIN entries
      BY <2>2
    <3>3. Append(entries, new)[Len(entries) + 1] = new
      BY <2>2
    <3>4. CASE i = Len(entries) + 1 /\ j # Len(entries) + 1
      BY <1>2, <2>4, <3>1, <3>2, <3>3, <3>4
    <3>5. CASE i # Len(entries) + 1 /\ j = Len(entries) + 1
      BY <1>2, <2>4, <3>1, <3>2, <3>3, <3>5
    <3>6. CASE i # Len(entries) + 1 /\ j # Len(entries) + 1
      BY <2>4, <3>1, <3>2, <3>6 DEF Distinct
    <3> QED BY <3>4, <3>5, <3>6
  <2> QED BY <2>1, <2>3, <2>4 DEF Distinct
<1> QED BY <1>1, <1>2

LEMMA InitIInv == Init => IInv
<1> SUFFICES ASSUME Init PROVE IInv
  OBVIOUS
<1>1. TypeOK
  <2>1. config \in Seq(Entry) /\ log \in Seq(Record)
    BY DEF Init
  <2>2. thread \in [Threads -> ThreadState]
    BY DEF Init, ThreadState
  <2> QED BY <2>1, <2>2 DEF Init, TypeOK, ThreadState
<1>2. OneEntryPerKey
  BY DEF Init, OneEntryPerKey, Distinct
<1>3. \A t \in Threads : Sound(thread[t])
  BY DEF Init, NoRequest, Distinct, Sound
<1> QED BY <1>1, <1>2, <1>3 DEF IInv

(* What a step of a thread leaves: one thread has a new state. *)
LEMMA ThreadStep ==
  ASSUME IInv, NEW t \in Threads, NEW r \in ThreadState, Sound(r),
         thread' = [thread EXCEPT ![t] = r]
  PROVE  /\ thread' \in [Threads -> ThreadState]
         /\ \A u \in Threads : Sound(thread'[u])
<1>1. thread \in [Threads -> ThreadState]
  BY DEF IInv, TypeOK, ThreadState
<1>2. \A u \in Threads : thread'[u] = IF u = t THEN r ELSE thread[u]
  BY <1>1
<1> QED BY <1>1, <1>2 DEF IInv

(* A thread that serves a request has one of these records. *)
LEMMA Serving ==
  ASSUME IInv, NEW t \in Threads, thread[t].at # "idle"
  PROVE  thread[t] \in [at : {"open", "write", "link", "append"}, subject : Subjects,
                         value : Levels \union BOOLEAN, copy : Seq(Entry), prev : Nat]
BY DEF IInv, TypeOK, NoRequest

LEMMA Idle == NoRequest \in ThreadState /\ Sound(NoRequest)
BY DEF ThreadState, NoRequest, Distinct, Sound

(* Steps(t, ...) on a thread that serves a request. *)
LEMMA StepsState ==
  ASSUME IInv, NEW t \in Threads, thread[t].at # "idle",
         NEW at \in {"open", "write", "link", "append"}, NEW copy \in Seq(Entry), Distinct(copy),
         NEW prev \in Nat, Steps(t, at, copy, prev)
  PROVE  /\ thread' \in [Threads -> ThreadState]
         /\ \A u \in Threads : Sound(thread'[u])
<1> DEFINE r == [at |-> at, subject |-> thread[t].subject, value |-> thread[t].value,
                copy |-> copy, prev |-> prev]
<1>1. r \in ThreadState
  BY Serving DEF ThreadState
<1>2. thread' = [thread EXCEPT ![t] = r]
  BY DEF Steps
<1> HIDE DEF r
<1>3. Sound(r)
  BY DEF r, IInv, Sound
<1> QED BY <1>1, <1>2, <1>3, ThreadStep

(* The empty list is one a thread may hold. *)
LEMMA NoCopy == <<>> \in Seq(Entry) /\ Distinct(<<>>)
BY DEF Distinct

LEMMA RequestKeeps ==
  ASSUME IInv, NEW t \in Threads, NEW s \in Subjects, NEW value \in ValuesOf(s),
         Request(t, s, value)
  PROVE  IInv'
<1> DEFINE r == [at |-> "open", subject |-> s, value |-> value,
                copy |-> IF s = Stop THEN <<>> ELSE config, prev |-> 0]
<1>1. value \in Levels \union BOOLEAN
  BY DEF ValuesOf
<1>2. r.copy \in Seq(Entry) /\ Distinct(r.copy)
  <2>1. CASE s = Stop
    BY <2>1, NoCopy
  <2>2. CASE s # Stop
    <3>1. s \in Keys /\ config # Torn
      BY <2>2 DEF Request, Subjects
    <3> QED BY <2>2, <3>1 DEF IInv, TypeOK, OneEntryPerKey
  <2> QED BY <2>1, <2>2
<1>3. r \in ThreadState
  <2>1. (IF s = Stop THEN <<>> ELSE config) \in Seq(Entry)
    BY <1>2
  <2> QED BY <1>1, <2>1 DEF ThreadState
<1>4. thread' = [thread EXCEPT ![t] = r]
  BY DEF Request
<1>7. Sound(r)
  BY <1>2 DEF Sound
<1> HIDE DEF r
<1>5. /\ thread' \in [Threads -> ThreadState]
      /\ \A u \in Threads : Sound(thread'[u])
  BY <1>3, <1>4, <1>7, ThreadStep
<1>6. doubt' \subseteq Subjects
  BY DEF IInv, TypeOK, Request
<1> QED BY <1>5, <1>6 DEF IInv, TypeOK, OneEntryPerKey, Request, ThreadState, files, auditLog

LEMMA OpenKeeps == ASSUME IInv, NEW t \in Threads, Open(t) PROVE IInv'
<1>1. thread[t].at # "idle" /\ thread[t].copy \in Seq(Entry) /\ Distinct(thread[t].copy)
  <2>1. thread[t].at # "idle"
    BY DEF Open
  <2> QED BY <2>1, Serving DEF IInv, Sound
<1>2. /\ thread' \in [Threads -> ThreadState]
      /\ \A u \in Threads : Sound(thread'[u])
  BY <1>1, StepsState DEF Open
<1>3. (config' = Torn \/ config' = config) /\ stopped' \in BOOLEAN \union {Torn}
  BY DEF Open, IInv, TypeOK
<1> QED BY <1>2, <1>3 DEF IInv, TypeOK, OneEntryPerKey, Open, ThreadState, auditLog

LEMMA WriteKeeps == ASSUME IInv, NEW t \in Threads, Write(t) PROVE IInv'
<1>1. thread[t].at # "idle"
  BY DEF Write
<1>2. /\ thread' \in [Threads -> ThreadState]
      /\ \A u \in Threads : Sound(thread'[u])
  BY <1>1, StepsState, NoCopy DEF Write
<1>3. thread[t].subject \in Subjects /\ thread[t].copy \in Seq(Entry) /\ Distinct(thread[t].copy)
  BY <1>1, Serving DEF IInv, Sound
<1>4. CASE thread[t].subject = Stop
  <2>1. UNCHANGED <<config, doubt, log, cut, loop>>
    BY <1>4 DEF Write, auditLog
  <2>2. stopped' \in BOOLEAN \union {Torn}
    <3>1. stopped' \in {thread[t].value, Torn}
      BY <1>4 DEF Write, Written
    <3>2. thread[t].value \in BOOLEAN
      BY <1>1, <1>4 DEF IInv, Sound, ValuesOf
    <3> QED BY <3>1, <3>2
  <2> QED BY <1>2, <2>1, <2>2 DEF IInv, TypeOK, OneEntryPerKey, ThreadState
<1>5. CASE thread[t].subject # Stop
  <2> DEFINE new == WithLevel(thread[t].copy, thread[t].subject, thread[t].value)
  <2>1. thread[t].subject \in Keys
    BY <1>3, <1>5 DEF Subjects
  <2>2. thread[t].value \in Levels
    BY <1>1, <1>5 DEF IInv, Sound, ValuesOf
  <2>3. new \in Seq(Entry) /\ Distinct(new)
    BY <1>3, <2>1, <2>2, WithLevelKeeps
  <2>4. config' \in {new, Torn}
    BY <1>5 DEF Write, Written
  <2>5. doubt' \subseteq Subjects
    BY <1>3, <1>5 DEF Write, IInv, TypeOK
  <2>6. UNCHANGED <<stopped, log, cut, loop>>
    BY <1>5 DEF Write, auditLog
  <2> HIDE DEF new
  <2> QED BY <1>2, <2>3, <2>4, <2>5, <2>6 DEF IInv, TypeOK, OneEntryPerKey, ThreadState
<1> QED BY <1>4, <1>5

LEMMA LinkKeeps == ASSUME IInv, NEW t \in Threads, Link(t) PROVE IInv'
<1>1. thread[t].at # "idle"
  BY DEF Link
<1>2. LatestHash \in Nat
  BY DEF LatestHash, IInv, TypeOK
<1>3. /\ thread' \in [Threads -> ThreadState]
      /\ \A u \in Threads : Sound(thread'[u])
  BY <1>1, <1>2, StepsState, NoCopy DEF Link
<1> QED BY <1>3 DEF IInv, TypeOK, OneEntryPerKey, Link, ThreadState, files, auditLog

LEMMA AppendRecordKeeps == ASSUME IInv, NEW t \in Threads, AppendRecord(t) PROVE IInv'
<1> DEFINE new == [subject |-> thread[t].subject, value |-> thread[t].value,
                  prev |-> thread[t].prev]
<1>1. thread[t].at # "idle"
  BY DEF AppendRecord
<1>2. new \in Record
  BY <1>1, Serving DEF Record
<1>3. Appended(new)
  BY DEF AppendRecord
<1> HIDE DEF new
<1>4. log' \in Seq(Record) /\ cut' \in BOOLEAN
  BY <1>2, <1>3 DEF IInv, TypeOK, Appended
<1>6. doubt' \subseteq Subjects
  BY <1>1, Serving DEF AppendRecord, IInv, TypeOK
<1>5. /\ thread' \in [Threads -> ThreadState]
      /\ \A u \in Threads : Sound(thread'[u])
  BY Idle, ThreadStep DEF AppendRecord
<1> QED BY <1>4, <1>5, <1>6 DEF IInv, TypeOK, OneEntryPerKey, AppendRecord, ThreadState, files

LEMMA FailKeeps == ASSUME IInv, NEW t \in Threads, Fail(t) PROVE IInv'
<1>1. /\ thread' \in [Threads -> ThreadState]
      /\ \A u \in Threads : Sound(thread'[u])
  BY Idle, ThreadStep DEF Fail
<1>2. doubt' \subseteq Subjects
  <2>1. CASE thread[t].at \in {"link", "append"}
    BY <2>1, Serving DEF Fail, IInv, TypeOK
  <2>2. CASE thread[t].at \notin {"link", "append"}
    BY <2>2 DEF Fail, IInv, TypeOK
  <2> QED BY <2>1, <2>2
<1>3. cut' \in BOOLEAN
  BY DEF Fail, CutAt, IInv, TypeOK
<1> QED BY <1>1, <1>2, <1>3 DEF IInv, TypeOK, OneEntryPerKey, Fail, ThreadState, files

LEMMA LoopKeeps == ASSUME IInv, LoopLink \/ LoopFail \/ LoopAppend PROVE IInv'
<1>1. CASE LoopLink \/ LoopFail
  <2>1. UNCHANGED <<files, log, thread, doubt>> /\ cut' \in BOOLEAN
    BY <1>1 DEF LoopLink, LoopFail, auditLog, CutAt, IInv, TypeOK
  <2>2. loop' \in Nat \union {None}
    <3>1. Len(log) \in Nat
      BY DEF IInv, TypeOK
    <3> QED BY <1>1, <3>1 DEF LoopLink, LoopFail, LatestHash
  <2> QED BY <2>1, <2>2 DEF IInv, TypeOK, OneEntryPerKey, files
<1>2. CASE LoopAppend
  <2>1. UNCHANGED <<files, thread, doubt>> /\ loop' = None
    BY <1>2 DEF LoopAppend
  <2>2. [subject |-> None, value |-> None, prev |-> loop] \in Record
    BY <1>2 DEF LoopAppend, IInv, TypeOK, Record
  <2>3. log' \in Seq(Record) /\ cut' \in BOOLEAN
    BY <1>2, <2>2 DEF LoopAppend, Appended, IInv, TypeOK
  <2> QED BY <2>1, <2>3 DEF IInv, TypeOK, OneEntryPerKey, files
<1> QED BY <1>1, <1>2

LEMMA NextIInv == IInv /\ [Next]_vars => IInv'
<1> SUFFICES ASSUME IInv, [Next]_vars PROVE IInv'
  OBVIOUS
<1>1. ASSUME NEW t \in Threads, ThreadNext(t) PROVE IInv'
  <2>1. ASSUME NEW s \in Subjects, NEW value \in ValuesOf(s), Request(t, s, value) PROVE IInv'
    BY <2>1, RequestKeeps
  <2> QED BY <1>1, <2>1, OpenKeeps, WriteKeeps, LinkKeeps, AppendRecordKeeps, FailKeeps
        DEF ThreadNext
<1>2. CASE LoopLink \/ LoopAppend \/ LoopFail
  BY <1>2, LoopKeeps
<1>3. CASE UNCHANGED vars
  BY <1>3 DEF vars, IInv, TypeOK, OneEntryPerKey
<1> QED BY <1>1, <1>2, <1>3 DEF Next

(* The strengthened invariant holds of every state. *)
THEOREM Invariance == Spec => []IInv
<1> QED BY InitIInv, NextIInv, PTL DEF Spec

(* The variables keep their types through every race of the handlers. *)
THEOREM TypeCorrect == Spec => []TypeOK
<1>1. IInv => TypeOK
  BY DEF IInv
<1> QED BY <1>1, Invariance, PTL

(* The autonomy file never holds two entries of one key, however many threads load
   and rewrite it without a lock (autonomy/config.py, set_level). *)
THEOREM EntriesStaySingle == Spec => []OneEntryPerKey
<1>1. IInv => OneEntryPerKey
  BY DEF IInv
<1> QED BY <1>1, Invariance, PTL

-----------------------------------------------------------------------------
(* The agreement of the settings with the audit log.                       *)

(* Of the positions below n that are in a set there is a greatest. *)
LEMMA Greatest ==
  ASSUME NEW n \in Nat, NEW S \in SUBSET (1..n), S # {}
  PROVE  \E i \in S : \A j \in S : j =< i
<1> DEFINE T == {n - i : i \in S}
<1>1. T \in SUBSET Nat /\ T # {}
  <2>1. \A i \in S : n - i \in Nat
    OBVIOUS
  <2> QED BY <2>1, Zenon
<1> DEFINE R == OpToRel(<, Nat)
<1>2. \A x, y \in Nat : y < x => <<y, x>> \in R
  BY DEF OpToRel
<1>3. IsWellFoundedOn(R, Nat)
  BY NatLessThanWellFounded
<1> HIDE DEF T, R
<1>4. PICK k \in T : \A m \in T : ~ (<<m, k>> \in R)
  BY <1>1, <1>3, WFMin
<1>5. \A m \in T : ~ (m < k)
  BY <1>1, <1>2, <1>4, Zenon
<1>6. PICK i \in S : k = n - i
  BY DEF T
<1>7. ASSUME NEW j \in S PROVE j =< i
  <2>1. n - j \in T
    BY DEF T
  <2> QED BY <1>5, <1>6, <2>1
<1> QED BY <1>7

(* A record is the last about its own subject, and changes nothing for the others. *)
LEMMA LastAppend ==
  ASSUME NEW s \in Subjects, NEW r, log \in Seq(Record), log' = Append(log, r)
  PROVE  Last(s)' = IF r.subject = s THEN r.value ELSE Last(s)
<1> DEFINE P == RecordsOf(s)
           n == Len(log)
<1>1. /\ n \in Nat /\ P \subseteq 1..n
      /\ DOMAIN log' = 1..(n + 1) /\ log'[n + 1] = r
      /\ \A i \in 1..n : log'[i] = log[i]
  BY DEF RecordsOf
<1>2. RecordsOf(s)' = IF r.subject = s THEN P \union {n + 1} ELSE P
  BY <1>1 DEF RecordsOf
<1> HIDE DEF P
<1>3. CASE r.subject = s
  <2> DEFINE Q == P \union {n + 1}
             IsLast(i) == \A j \in Q : j =< i
  <2>1. \A i \in Q : IsLast(i) => i = n + 1
    BY <1>1
  <2>2. n + 1 \in Q /\ IsLast(n + 1)
    BY <1>1
  <2> HIDE DEF IsLast
  <2>3. (CHOOSE i \in Q : IsLast(i)) = n + 1
    BY <2>1, <2>2
  <2>4. LastOf(Q) = n + 1
    BY <2>3 DEF LastOf, IsLast
  <2> QED BY <1>1, <1>2, <1>3, <2>2, <2>4 DEF Last
<1>4. CASE r.subject # s
  <2>1. RecordsOf(s)' = P
    BY <1>2, <1>4
  <2>2. P # {} => LastOf(P) \in P
    BY <1>1, Greatest DEF LastOf
  <2>3. P # {} => log'[LastOf(P)] = log[LastOf(P)]
    BY <1>1, <2>2
  <2> QED BY <1>4, <2>1, <2>3 DEF Last, P
<1> QED BY <1>3, <1>4

(* In a list with one entry per key, get_level finds each entry. *)
LEMMA LevelOfEntry ==
  ASSUME NEW entries \in Seq(Entry), Distinct(entries), NEW i \in DOMAIN entries
  PROVE  Level(entries, entries[i].key) = entries[i].level
BY FirstIs DEF Level, Has

(* On any list with one entry per key, get_level after set_level returns what was set,
   and for every other key what it returned before (autonomy/config.py). *)
THEOREM LevelWith ==
  ASSUME NEW entries \in Seq(Entry), Distinct(entries),
         NEW key \in Keys, NEW level \in Levels, NEW s \in Keys
  PROVE  Level(WithLevel(entries, key, level), s)
           = IF s = key THEN level ELSE Level(entries, s)
<1> DEFINE new == WithLevel(entries, key, level)
<1>1. new \in Seq(Entry) /\ Distinct(new)
  BY WithLevelKeeps
<1>2. \E k \in DOMAIN new :
        /\ new[k].key = key /\ new[k].level = level
        /\ \A i \in DOMAIN entries : i \in DOMAIN new /\ (i # k => new[i] = entries[i])
        /\ \A i \in DOMAIN new : i # k => i \in DOMAIN entries
        /\ k \in DOMAIN entries => entries[k].key = key
  <2>1. CASE Has(entries, key)
    <3>1. PICK k \in DOMAIN entries : entries[k].key = key
      BY <2>1 DEF Has
    <3>2. new = [entries EXCEPT ![k].level = level]
      BY <2>1, <3>1, FirstIs DEF WithLevel
    <3>3. entries[k] \in Entry
      BY <3>1
    <3>4. new[k].key = key /\ new[k].level = level
      BY <3>1, <3>2, <3>3 DEF Entry
    <3> HIDE DEF new
    <3> QED BY <3>1, <3>2, <3>4
  <2>2. CASE ~ Has(entries, key)
    <3>1. new = Append(entries, [key |-> key, level |-> level])
      BY <2>2 DEF WithLevel
    <3> HIDE DEF new
    <3>2. Len(entries) + 1 \in DOMAIN new /\ Len(entries) + 1 \notin DOMAIN entries
      BY <3>1
    <3> QED BY <3>1, <3>2
  <2> QED BY <2>1, <2>2
<1> HIDE DEF new
<1>3. PICK k \in DOMAIN new :
        /\ new[k].key = key /\ new[k].level = level
        /\ \A i \in DOMAIN entries : i \in DOMAIN new /\ (i # k => new[i] = entries[i])
        /\ \A i \in DOMAIN new : i # k => i \in DOMAIN entries
        /\ k \in DOMAIN entries => entries[k].key = key
  BY <1>2
<1>4. CASE s = key
  BY <1>1, <1>3, <1>4, LevelOfEntry DEF new
<1>5. CASE s # key /\ Has(entries, s)
  <2>1. PICK i \in DOMAIN entries : entries[i].key = s
    BY <1>5 DEF Has
  <2>2. i # k /\ i \in DOMAIN new /\ new[i] = entries[i]
    BY <1>3, <1>5, <2>1
  <2>3. Level(entries, s) = entries[i].level /\ Level(new, s) = new[i].level
    BY <1>1, <2>1, <2>2, LevelOfEntry
  <2> QED BY <1>5, <2>2, <2>3 DEF new
<1>6. CASE s # key /\ ~ Has(entries, s)
  <2>1. ~ Has(new, s)
    BY <1>3, <1>6 DEF Has
  <2> QED BY <1>6, <2>1 DEF Level, new
<1> QED BY <1>4, <1>5, <1>6

(* A request on the setting s has set it, and not yet appended its record. *)
HasSet(t) == thread[t].at \in {"link", "append"}

\* v is what s has to be: the value of the request that has just set it, if there is
\* one, and otherwise what the last record says.
Right(s, v) ==
  /\ \A t \in Active(s) : HasSet(t) => v = thread[t].value
  /\ (\A t \in Active(s) : ~ HasSet(t)) => v = Last(s)

\* The list of t is still to be written.
Holds(t) == thread[t].subject \in Keys /\ thread[t].at \in {"open", "write"}

\* The setting s is right wherever it is kept: in the file, and in the list of every
\* thread that will write one; and one request at most is about it.
Fine(s) ==
  /\ \A t, u \in Active(s) : t = u
  /\ s = Stop /\ stopped # Torn => Right(s, stopped)
  /\ s \in Keys /\ config # Torn => Right(s, Level(config, s))
  /\ s \in Keys => \A t \in Threads : Holds(t) => Right(s, Level(thread[t].copy, s))

\* The inductive invariant behind AuditAgrees.
AuditInv == \A s \in Subjects \ doubt : Fine(s)

\* Wherever s is kept after the step, it was kept so before.
Kept(s) ==
  /\ s = Stop /\ stopped' # Torn => stopped # Torn /\ stopped' = stopped
  /\ s \in Keys /\ config' # Torn =>
       \/ config # Torn /\ Level(config', s) = Level(config, s)
       \/ \E u \in Threads : Holds(u) /\ Level(config', s) = Level(thread[u].copy, s)
  /\ s \in Keys => \A t \in Threads : Holds(t)' =>
       \/ config # Torn /\ thread'[t].copy = config
       \/ Holds(t) /\ thread'[t].copy = thread[t].copy

(* If what is right for s stays right, and s is kept nowhere else, s stays fine. *)
LEMMA FineKept ==
  ASSUME NEW s \in Subjects, Fine(s), Kept(s),
         \A t, u \in Active(s)' : t = u,
         \A v : Right(s, v) => /\ \A t \in Active(s)' : HasSet(t)' => v = thread'[t].value
                               /\ (\A t \in Active(s)' : ~ HasSet(t)') => v = Last(s)'
  PROVE  Fine(s)'
<1> DEFINE After(v) == /\ \A t \in Active(s)' : HasSet(t)' => v = thread'[t].value
                       /\ (\A t \in Active(s)' : ~ HasSet(t)') => v = Last(s)'
<1>1. \A v : Right(s, v) => After(v)
  OBVIOUS
<1>2. /\ Right(s, stopped)' <=> After(stopped')
      /\ Right(s, Level(config, s))' <=> After(Level(config', s))
      /\ \A t \in Threads : Right(s, Level(thread[t].copy, s))' <=> After(Level(thread'[t].copy, s))
  BY DEF Right, Level, First, Has
<1> HIDE DEF After
<1>3. s = Stop /\ stopped' # Torn => After(stopped')
  BY <1>1 DEF Fine, Kept
<1>4. s \in Keys /\ config' # Torn => After(Level(config', s))
  BY <1>1 DEF Fine, Kept
<1>5. s \in Keys => \A t \in Threads : Holds(t)' => After(Level(thread'[t].copy, s))
  BY <1>1 DEF Fine, Kept
<1> QED BY <1>2, <1>3, <1>4, <1>5 DEF Fine

(* A step of a request about another setting, which leaves the last record of s. *)
LEMMA OtherFine ==
  ASSUME IInv, NEW s \in Subjects, Fine(s), Kept(s), NEW t \in Threads, NEW r,
         thread' = [thread EXCEPT ![t] = r], thread[t].subject # s, r.subject # s,
         Last(s)' = Last(s)
  PROVE  Fine(s)'
<1>1. \A u \in Threads : thread'[u] = IF u = t THEN r ELSE thread[u]
  BY DEF IInv, TypeOK
<1>2. /\ Active(s)' = Active(s)
      /\ \A u \in Active(s) : thread'[u] = thread[u]
  BY <1>1 DEF Active
<1>3. \A u, w \in Active(s)' : u = w
  BY <1>2 DEF Fine
<1>4. ASSUME NEW v, Right(s, v)
      PROVE  /\ \A u \in Active(s)' : HasSet(u)' => v = thread'[u].value
             /\ (\A u \in Active(s)' : ~ HasSet(u)') => v = Last(s)'
  BY <1>2, <1>4 DEF Right, HasSet
<1> QED BY <1>3, <1>4, FineKept

(* A step of the one request on s, which has not written yet. *)
LEMMA OwnFine ==
  ASSUME IInv, NEW s \in Subjects, Fine(s), Kept(s), NEW t \in Threads, NEW r,
         thread' = [thread EXCEPT ![t] = r], Active(s) \subseteq {t}, ~ HasSet(t),
         r.at \notin {"link", "append"}, Last(s)' = Last(s)
  PROVE  Fine(s)'
<1>1. \A u \in Threads : thread'[u] = IF u = t THEN r ELSE thread[u]
  BY DEF IInv, TypeOK
<1>2. Active(s)' \subseteq {t} /\ ~ HasSet(t)'
  BY <1>1 DEF Active, HasSet
<1>3. ASSUME NEW v, Right(s, v)
      PROVE  /\ \A u \in Active(s)' : HasSet(u)' => v = thread'[u].value
             /\ (\A u \in Active(s)' : ~ HasSet(u)') => v = Last(s)'
  BY <1>2, <1>3 DEF Right
<1> QED BY <1>2, <1>3, FineKept

(* The end of the log is what it was for every setting. *)
LEMMA LastSame == ASSUME NEW s, log' = log PROVE Last(s)' = Last(s)
BY DEF Last, RecordsOf, LastOf

LEMMA RequestFine ==
  ASSUME IInv, AuditInv, NEW t \in Threads, NEW x \in Subjects, NEW value \in ValuesOf(x),
         Request(t, x, value)
  PROVE  AuditInv'
<1> SUFFICES ASSUME NEW s \in Subjects, s \notin doubt' PROVE Fine(s)'
  BY DEF AuditInv
<1> DEFINE r == [at |-> "open", subject |-> x, value |-> value,
                copy |-> IF x = Stop THEN <<>> ELSE config, prev |-> 0]
<1>1. Fine(s)
  BY DEF AuditInv, Request
<1>2. thread' = [thread EXCEPT ![t] = r] /\ r.at = "open" /\ r.subject = x
  BY DEF Request
<1>3. Kept(s)
  <2>1. \A u \in Threads : thread'[u] = IF u = t THEN r ELSE thread[u]
    BY <1>2 DEF IInv, TypeOK
  <2>2. ASSUME NEW u \in Threads, Holds(u)'
        PROVE  \/ config # Torn /\ thread'[u].copy = config
               \/ Holds(u) /\ thread'[u].copy = thread[u].copy
    <3>1. CASE u = t
      BY <2>1, <2>2, <3>1, StopAssumption DEF Holds, Request
    <3>2. CASE u # t
      BY <2>1, <2>2, <3>2 DEF Holds
    <3> QED BY <3>1, <3>2
  <2>3. UNCHANGED files
    BY DEF Request
  <2> QED BY <2>2, <2>3 DEF Kept, files
<1>4. thread[t].subject = None /\ None \notin Subjects /\ Last(s)' = Last(s)
  BY LastSame, StopAssumption DEF Request, NoRequest, Subjects, auditLog
<1>5. CASE x # s
  BY <1>1, <1>2, <1>3, <1>4, <1>5, OtherFine
<1>6. CASE x = s
  <2>1. Active(s) \subseteq {t} /\ ~ HasSet(t)
    BY <1>6 DEF Request, NoRequest, HasSet
  <2> QED BY <1>1, <1>2, <1>3, <1>4, <2>1, OwnFine
<1> QED BY <1>5, <1>6

LEMMA OpenFine == ASSUME IInv, AuditInv, NEW t \in Threads, Open(t) PROVE AuditInv'
<1> SUFFICES ASSUME NEW s \in Subjects, s \notin doubt' PROVE Fine(s)'
  BY DEF AuditInv
<1> DEFINE r == [at |-> "write", subject |-> thread[t].subject, value |-> thread[t].value,
                copy |-> thread[t].copy, prev |-> 0]
<1>1. Fine(s)
  BY DEF AuditInv, Open
<1>2. thread' = [thread EXCEPT ![t] = r] /\ r.at = "write" /\ r.subject = thread[t].subject
  BY DEF Open, Steps
<1>3. Kept(s)
  <2>1. \A u \in Threads : thread'[u] = IF u = t THEN r ELSE thread[u]
    BY <1>2 DEF IInv, TypeOK
  <2>2. ASSUME NEW u \in Threads, Holds(u)'
        PROVE  Holds(u) /\ thread'[u].copy = thread[u].copy
    BY <2>1, <2>2 DEF Holds, Open
  <2>3. config' \in {config, Torn} /\ stopped' \in {stopped, Torn}
    BY DEF Open
  <2> QED BY <2>2, <2>3 DEF Kept
<1>4. Last(s)' = Last(s)
  BY LastSame DEF Open, auditLog
<1>5. CASE thread[t].subject # s
  BY <1>1, <1>2, <1>3, <1>4, <1>5, OtherFine
<1>6. CASE thread[t].subject = s
  <2>1. Active(s) \subseteq {t} /\ ~ HasSet(t)
    BY <1>1, <1>6 DEF Open, Active, HasSet, Fine
  <2> QED BY <1>1, <1>2, <1>3, <1>4, <2>1, OwnFine
<1> QED BY <1>5, <1>6

LEMMA WriteFine == ASSUME IInv, AuditInv, NEW t \in Threads, Write(t) PROVE AuditInv'
<1> SUFFICES ASSUME NEW s \in Subjects, s \notin doubt' PROVE Fine(s)'
  BY DEF AuditInv
<1> DEFINE r == [at |-> "link", subject |-> thread[t].subject, value |-> thread[t].value,
                copy |-> <<>>, prev |-> 0]
           x == thread[t].subject
           new == WithLevel(thread[t].copy, x, thread[t].value)
<1>1. Fine(s)
  BY DEF AuditInv, Write
<1>2. thread' = [thread EXCEPT ![t] = r] /\ r.at = "link" /\ r.subject = x
      /\ r.value = thread[t].value
  BY DEF Write, Steps
<1>3. \A u \in Threads : thread'[u] = IF u = t THEN r ELSE thread[u]
  BY <1>2 DEF IInv, TypeOK
<1>4. thread[t].at = "write" /\ x \in Subjects /\ thread[t].value \in ValuesOf(x)
      /\ thread[t].copy \in Seq(Entry) /\ Distinct(thread[t].copy)
  BY Serving DEF Write, IInv, Sound
<1>5. Last(s)' = Last(s)
  BY LastSame DEF Write, auditLog
<1>6. x \in Keys => \A k \in Keys :
        Level(new, k) = IF k = x THEN thread[t].value ELSE Level(thread[t].copy, k)
  BY <1>4, LevelWith, StopAssumption DEF ValuesOf
<1>7. /\ x = Stop => config' = config /\ stopped' \in {thread[t].value, Torn}
      /\ x \in Keys => stopped' = stopped /\ config' \in {new, Torn}
  BY <1>4, StopAssumption DEF Write, Written
<1>8. \A u \in Threads : Holds(u)' => u # t /\ Holds(u) /\ thread'[u].copy = thread[u].copy
  BY <1>3, <1>2 DEF Holds
<1> HIDE DEF r, new
<1>9. CASE x # s
  <2>1. Kept(s)
    <3>1. CASE x = Stop
      BY <1>7, <1>8, <1>9, <3>1 DEF Kept
    <3>2. CASE x \in Keys
      <4>1. Holds(t)
        BY <1>4, <3>2 DEF Holds
      <4>2. s \in Keys /\ config' # Torn => Level(config', s) = Level(thread[t].copy, s)
        BY <1>6, <1>7, <1>9, <3>2
      <4> QED BY <1>7, <1>8, <1>9, <3>2, <4>1, <4>2 DEF Kept
    <3> QED BY <1>4, <3>1, <3>2 DEF Subjects
  <2> QED BY <1>1, <1>2, <1>5, <1>9, <2>1, OtherFine
<1>10. CASE x = s
  <2>1. Active(s)' = {t} /\ HasSet(t)' /\ thread'[t].value = thread[t].value
    <3>1. Active(s) = {t}
      BY <1>1, <1>10 DEF Fine, Active
    <3> QED BY <1>2, <1>3, <1>10, <3>1 DEF Active, HasSet
  <2>2. s = Stop /\ stopped' # Torn => stopped' = thread[t].value
    BY <1>7, <1>10
  <2>3. s \in Keys /\ config' # Torn => Level(config', s) = thread[t].value
    BY <1>6, <1>7, <1>10
  <2>4. s \in Keys => \A u \in Threads : ~ Holds(u)'
    <3> SUFFICES ASSUME s \in Keys, NEW u \in Threads, Holds(u)' PROVE FALSE
      OBVIOUS
    <3>1. s # Stop
      BY StopAssumption
    <3>2. Overwriters(t) = {}
      BY <3>1, <1>10 DEF Write
    <3> QED BY <1>8, <3>2 DEF Overwriters, Holds
  <2>5. s = Stop /\ stopped' # Torn => Right(s, stopped)'
    BY <2>1, <2>2 DEF Right
  <2>6. s \in Keys /\ config' # Torn => Right(s, Level(config, s))'
    <3>1. Level(config, s)' = Level(config', s)
      BY DEF Level, First, Has
    <3> QED BY <2>1, <2>3, <3>1 DEF Right
  <2> QED BY <2>1, <2>4, <2>5, <2>6 DEF Fine
<1> QED BY <1>9, <1>10

LEMMA LinkFine == ASSUME IInv, AuditInv, NEW t \in Threads, Link(t) PROVE AuditInv'
<1> SUFFICES ASSUME NEW s \in Subjects, s \notin doubt' PROVE Fine(s)'
  BY DEF AuditInv
<1> DEFINE r == [at |-> "append", subject |-> thread[t].subject, value |-> thread[t].value,
                copy |-> <<>>, prev |-> LatestHash]
<1>1. Fine(s)
  BY DEF AuditInv, Link
<1>2. thread' = [thread EXCEPT ![t] = r]
  BY DEF Link, Steps
<1>3. \A u \in Threads : thread'[u] = IF u = t THEN r ELSE thread[u]
  BY <1>2 DEF IInv, TypeOK
<1>4. /\ Active(s)' = Active(s)
      /\ \A u \in Threads : thread'[u].value = thread[u].value /\ (HasSet(u)' <=> HasSet(u))
  BY <1>3 DEF Active, HasSet, Link
<1>5. Last(s)' = Last(s)
  BY LastSame DEF Link, auditLog
<1>6. Kept(s)
  <2>1. \A u \in Threads : Holds(u)' => Holds(u) /\ thread'[u].copy = thread[u].copy
    BY <1>3 DEF Holds
  <2> QED BY <2>1 DEF Kept, Link, files
<1>7. ASSUME NEW v, Right(s, v)
      PROVE  /\ \A u \in Active(s)' : HasSet(u)' => v = thread'[u].value
             /\ (\A u \in Active(s)' : ~ HasSet(u)') => v = Last(s)'
  <2>1. \A u \in Active(s) : u \in Threads
    BY DEF Active
  <2> QED BY <1>4, <1>5, <1>7, <2>1 DEF Right
<1>8. \A u, w \in Active(s)' : u = w
  BY <1>1, <1>4 DEF Fine
<1> QED BY <1>1, <1>6, <1>7, <1>8, FineKept

LEMMA AppendRecordFine ==
  ASSUME IInv, AuditInv, NEW t \in Threads, AppendRecord(t)
  PROVE  AuditInv'
<1> SUFFICES ASSUME NEW s \in Subjects, s \notin doubt' PROVE Fine(s)'
  BY DEF AuditInv
<1> DEFINE rec == [subject |-> thread[t].subject, value |-> thread[t].value,
                  prev |-> thread[t].prev]
<1>1. Fine(s)
  BY DEF AuditInv, AppendRecord
<1>2. thread' = [thread EXCEPT ![t] = NoRequest] /\ NoRequest.subject # s
  BY StopAssumption DEF AppendRecord, NoRequest, Subjects
<1>3. \A u \in Threads : thread'[u] = IF u = t THEN NoRequest ELSE thread[u]
  BY <1>2 DEF IInv, TypeOK
<1>4. Appended(rec) /\ log \in Seq(Record) /\ (cut => thread[t].subject # s)
  BY DEF AppendRecord, IInv, TypeOK
<1>5. Last(s)' = IF rec.subject = s THEN rec.value ELSE Last(s)
  <2> HIDE DEF rec
  <2>1. CASE cut
    BY <1>4, <2>1, LastSame DEF Appended, rec
  <2>2. CASE ~cut
    BY <1>4, <2>2, LastAppend DEF Appended
  <2> QED BY <2>1, <2>2
<1>6. Kept(s)
  <2>1. \A u \in Threads : Holds(u)' => Holds(u) /\ thread'[u].copy = thread[u].copy
    BY <1>3 DEF Holds, NoRequest
  <2> QED BY <2>1 DEF Kept, AppendRecord, files
<1>7. CASE thread[t].subject # s
  BY <1>1, <1>2, <1>5, <1>6, <1>7, OtherFine
<1>8. CASE thread[t].subject = s
  <2>1. Active(s) = {t} /\ HasSet(t)
    BY <1>1, <1>8 DEF Fine, Active, HasSet, AppendRecord
  <2>2. Active(s)' = {}
    BY <1>2, <1>3, <2>1 DEF Active
  <2>3. ASSUME NEW v, Right(s, v)
        PROVE  /\ \A u \in Active(s)' : HasSet(u)' => v = thread'[u].value
               /\ (\A u \in Active(s)' : ~ HasSet(u)') => v = Last(s)'
    BY <1>5, <1>8, <2>1, <2>2, <2>3 DEF Right
  <2> QED BY <1>1, <1>6, <2>2, <2>3, FineKept
<1> QED BY <1>7, <1>8

LEMMA FailFine == ASSUME IInv, AuditInv, NEW t \in Threads, Fail(t) PROVE AuditInv'
<1> SUFFICES ASSUME NEW s \in Subjects, s \notin doubt' PROVE Fine(s)'
  BY DEF AuditInv
<1>1. Fine(s)
  BY DEF AuditInv, Fail
<1>2. thread' = [thread EXCEPT ![t] = NoRequest] /\ NoRequest.subject # s
      /\ NoRequest.at = "idle"
  BY StopAssumption DEF Fail, NoRequest, Subjects
<1>3. Last(s)' = Last(s)
  BY LastSame DEF Fail
<1>4. Kept(s)
  <2>1. \A u \in Threads : thread'[u] = IF u = t THEN NoRequest ELSE thread[u]
    BY <1>2 DEF IInv, TypeOK
  <2>2. \A u \in Threads : Holds(u)' => Holds(u) /\ thread'[u].copy = thread[u].copy
    BY <2>1, <1>2 DEF Holds
  <2> QED BY <2>2 DEF Kept, Fail, files
<1>5. CASE thread[t].subject # s
  BY <1>1, <1>2, <1>3, <1>4, <1>5, OtherFine
<1>6. CASE thread[t].subject = s
  <2>1. Active(s) \subseteq {t} /\ ~ HasSet(t)
    BY <1>1, <1>6 DEF Fine, Active, HasSet, Fail
  <2> QED BY <1>1, <1>2, <1>3, <1>4, <2>1, OwnFine
<1> QED BY <1>5, <1>6

(* The other handlers append records that are about no setting. *)
LEMMA LoopFine ==
  ASSUME IInv, AuditInv, UNCHANGED <<files, thread, doubt>>,
         log' = log \/ LoopAppend
  PROVE  AuditInv'
<1> SUFFICES ASSUME NEW s \in Subjects, s \notin doubt' PROVE Fine(s)'
  BY DEF AuditInv
<1>1. Fine(s)
  BY DEF AuditInv
<1>2. Last(s)' = Last(s)
  <2>1. CASE log' = log
    BY <2>1, LastSame
  <2>2. CASE LoopAppend /\ log' # log
    <3> DEFINE rec == [subject |-> None, value |-> None, prev |-> loop]
    <3>1. rec.subject # s
      BY StopAssumption DEF Subjects
    <3>2. log' = Append(log, rec) /\ log \in Seq(Record)
      BY <2>2 DEF LoopAppend, Appended, IInv, TypeOK
    <3> HIDE DEF rec
    <3> QED BY <3>1, <3>2, LastAppend
  <2> QED BY <2>1, <2>2
<1>3. Kept(s)
  BY DEF Kept, Holds, files
<1>4. Active(s)' = Active(s)
  BY DEF Active
<1>5. ASSUME NEW v, Right(s, v)
      PROVE  /\ \A u \in Active(s)' : HasSet(u)' => v = thread'[u].value
             /\ (\A u \in Active(s)' : ~ HasSet(u)') => v = Last(s)'
  BY <1>2, <1>4, <1>5 DEF Right, HasSet
<1>6. \A u, w \in Active(s)' : u = w
  BY <1>1, <1>4 DEF Fine
<1> QED BY <1>1, <1>3, <1>5, <1>6, FineKept

LEMMA InitAuditInv == Init => AuditInv
<1> SUFFICES ASSUME Init, NEW s \in Subjects PROVE Fine(s)
  BY DEF AuditInv
<1>1. \A t \in Threads : thread[t] = NoRequest /\ t \notin Active(s) /\ ~ Holds(t)
  BY StopAssumption DEF Init, NoRequest, Active, Holds, Subjects
<1>2. Last(s) = IF s = Stop THEN FALSE ELSE Default
  BY DEF Init, Last, RecordsOf
<1>3. config = <<>> /\ stopped = FALSE /\ Level(config, s) = Default
  BY DEF Init, Level, Has
<1>4. \A v : v = Last(s) => Right(s, v)
  BY <1>1 DEF Right, Active
<1> QED BY <1>1, <1>2, <1>3, <1>4, StopAssumption DEF Fine, Active

LEMMA NextAuditInv == IInv /\ AuditInv /\ [Next]_vars => AuditInv'
<1> SUFFICES ASSUME IInv, AuditInv, [Next]_vars PROVE AuditInv'
  OBVIOUS
<1>1. ASSUME NEW t \in Threads, ThreadNext(t) PROVE AuditInv'
  <2>1. ASSUME NEW s \in Subjects, NEW value \in ValuesOf(s), Request(t, s, value) PROVE AuditInv'
    BY <2>1, RequestFine
  <2> QED BY <1>1, <2>1, OpenFine, WriteFine, LinkFine, AppendRecordFine, FailFine
        DEF ThreadNext
<1>2. CASE LoopLink \/ LoopAppend \/ LoopFail \/ UNCHANGED vars
  BY <1>2, LoopFine DEF LoopLink, LoopAppend, LoopFail, vars, files, auditLog
<1> QED BY <1>1, <1>2 DEF Next

(* A setting is what its last audit record says, unless its requests overlapped, were
   overwritten or failed: set and then record (routers/autonomy.py), in whatever order
   the threads do it, leaves no other way for the log to be wrong. *)
THEOREM SettingsAgree == Spec => []AuditAgrees
<1>1. IInv /\ AuditInv => AuditAgrees
  <2> SUFFICES ASSUME AuditInv, NEW s \in Subjects \ doubt, Settled(s)
               PROVE  /\ s = Stop /\ stopped # Torn => stopped = Last(s)
                      /\ s \in Keys /\ config # Torn => Level(config, s) = Last(s)
    BY DEF AuditAgrees
  <2>1. \A v : Right(s, v) => v = Last(s)
    BY DEF Right, Settled, HasSet
  <2> QED BY <2>1 DEF AuditInv, Fine
<1> QED BY <1>1, InitAuditInv, NextAuditInv, InitIInv, NextIInv, PTL DEF Spec

-----------------------------------------------------------------------------
(* UserStore.                                                              *)

\* One user per address.
OnePerEmail(list) == \A i, j \in DOMAIN list : list[i].email = list[j].email => i = j

\* The list a request will write is no worse than what it found, and says of every
\* user but its own what was last answered, unless that was fought over.
Faithful(w) ==
  handler[w].at # "idle" =>
    /\ OnePerEmail(handler[w].list)
    /\ \E u \in Entries(handler[w].list) : u.id = handler[w].id
    /\ \A id \in DOMAIN answered \ (fought \union {handler[w].id}) :
         answered[id] \in Entries(handler[w].list)

UsersInv ==
  /\ UsersTypeOK
  /\ UsersAreKept
  /\ \A id \in DOMAIN answered : answered[id].id = id
  /\ \A w \in Workers : Faithful(w)

LEMMA EntriesOf ==
  ASSUME NEW list \in Seq(UserRecord)
  PROVE  \A u \in Entries(list) : u \in UserRecord
BY DEF Entries

LEMMA UsersInitInv == UsersInit => UsersInv
<1> SUFFICES ASSUME UsersInit PROVE UsersInv
  OBVIOUS
<1> DEFINE root == User(Root, 0, All)
<1>1. root \in UserRecord /\ root.id = 0
  BY ScopesAssumption DEF User, UserRecord
<1> HIDE DEF root
<1>2. /\ users = <<root>> /\ users \in Seq(UserRecord) /\ DOMAIN users = {1} /\ users[1] = root
      /\ answered = [i \in {0} |-> root] /\ fought = {} /\ issued = 0
  BY <1>1 DEF UsersInit, root
<1>3. handler \in [Workers -> [at : {"idle", "open", "write"}, list : Seq(UserRecord), id : Nat]]
  BY DEF UsersInit, Resting
<1>4. UsersTypeOK
  BY <1>1, <1>2, <1>3, MaxUsersAssumption DEF UsersTypeOK
<1>5. UsersAreKept
  BY <1>2 DEF UsersAreKept, Entries
<1>6. \A w \in Workers : Faithful(w)
  BY DEF UsersInit, Resting, Faithful
<1> QED BY <1>1, <1>2, <1>4, <1>5, <1>6 DEF UsersInv

(* A list with a user added whose address was free. *)
LEMMA AddedList ==
  ASSUME NEW list \in Seq(UserRecord), OnePerEmail(list), NEW new \in UserRecord,
         \A u \in Entries(list) : u.email # new.email
  PROVE  /\ Append(list, new) \in Seq(UserRecord)
         /\ OnePerEmail(Append(list, new))
         /\ Entries(Append(list, new)) = Entries(list) \union {new}
<1> DEFINE more == Append(list, new)
<1>1. /\ more \in Seq(UserRecord) /\ Len(list) \in Nat
      /\ DOMAIN more = 1..(Len(list) + 1) /\ DOMAIN list = 1..Len(list)
      /\ more[Len(list) + 1] = new
      /\ \A i \in 1..Len(list) : more[i] = list[i] /\ list[i].email # new.email
  BY DEF Entries
<1> HIDE DEF more
<1>2. OnePerEmail(more)
  BY <1>1 DEF OnePerEmail
<1>3. Entries(more) = Entries(list) \union {new}
  <2>1. \A x : x \in Entries(more) => x \in Entries(list) \union {new}
    BY <1>1 DEF Entries
  <2>2. \A x : x \in Entries(list) \union {new} => x \in Entries(more)
    BY <1>1 DEF Entries
  <2> QED BY <2>1, <2>2
<1> QED BY <1>1, <1>2, <1>3 DEF more

(* A list with the scopes of one user set: the others stay what they are. *)
LEMMA RescopedList ==
  ASSUME NEW list \in Seq(UserRecord), OnePerEmail(list), NEW id, NEW scopes \in Scopes
  PROVE  /\ Rescoped(list, id, scopes) \in Seq(UserRecord)
         /\ OnePerEmail(Rescoped(list, id, scopes))
         /\ \A u \in Entries(list) : u.id # id => u \in Entries(Rescoped(list, id, scopes))
         /\ (\E u \in Entries(list) : u.id = id)
              => \E u \in Entries(Rescoped(list, id, scopes)) : u.id = id
<1> DEFINE new == Rescoped(list, id, scopes)
<1>1. \A i \in DOMAIN list : list[i] \in UserRecord
  OBVIOUS
<1>2. DOMAIN new = DOMAIN list /\ DOMAIN list = 1..Len(list) /\ Len(list) \in Nat
  BY DEF Rescoped
<1>3. \A i \in DOMAIN list :
        /\ new[i] \in UserRecord /\ new[i].email = list[i].email /\ new[i].id = list[i].id
        /\ list[i].id # id => new[i] = list[i]
  BY <1>1 DEF Rescoped, UserRecord
<1>4. new = [i \in 1..Len(list) |-> new[i]]
  BY <1>2 DEF Rescoped
<1> HIDE DEF new
<1>5. new \in Seq(UserRecord)
  BY <1>2, <1>3, <1>4
<1>6. OnePerEmail(new)
  BY <1>2, <1>3 DEF OnePerEmail
<1>7. \A u \in Entries(list) : u.id # id => u \in Entries(new)
  BY <1>2, <1>3 DEF Entries
<1>8. (\E u \in Entries(list) : u.id = id) => \E u \in Entries(new) : u.id = id
  BY <1>2, <1>3 DEF Entries
<1> QED BY <1>5, <1>6, <1>7, <1>8 DEF new

HandlerState == [at : {"idle", "open", "write"}, list : Seq(UserRecord), id : Nat]

(* A request that begins with a faithful list. *)
LEMMA BeginKeeps ==
  ASSUME UsersInv, NEW w \in Workers, NEW list \in Seq(UserRecord), NEW id \in Nat,
         Serves(w, list, id), OnePerEmail(list), \E u \in Entries(list) : u.id = id,
         \A i \in DOMAIN answered \ fought : i # id => answered[i] \in Entries(list),
         issued' \in 0..MaxUsers, UNCHANGED <<users, answered, fought>>
  PROVE  UsersInv'
<1> DEFINE h == [at |-> "open", list |-> list, id |-> id]
<1>1. handler \in [Workers -> HandlerState] /\ h \in HandlerState
  BY DEF UsersInv, UsersTypeOK, HandlerState
<1>2. handler' = [handler EXCEPT ![w] = h] /\ h.list = list /\ h.id = id
  BY DEF Serves
<1> HIDE DEF h
<1>3. /\ handler' \in [Workers -> HandlerState]
      /\ \A v \in Workers : handler'[v] = IF v = w THEN h ELSE handler[v]
  BY <1>1, <1>2
<1>4. \A v \in Workers : Faithful(v)'
  BY <1>2, <1>3 DEF Faithful, UsersInv
<1>5. UsersTypeOK'
  BY <1>3 DEF UsersInv, UsersTypeOK, HandlerState
<1> QED BY <1>4, <1>5 DEF UsersInv, UsersAreKept

LEMMA AddUserKeeps ==
  ASSUME UsersInv, NEW w \in Workers, NEW email \in Emails, NEW scopes \in Scopes,
         AddUser(w, email, scopes)
  PROVE  UsersInv'
<1> DEFINE new == User(email, issued + 1, scopes)
           list == Append(users, new)
<1>1. users \in Seq(UserRecord) /\ OnePerEmail(users) /\ issued \in 0..MaxUsers
      /\ \A i \in DOMAIN answered \ fought : answered[i] \in Entries(users)
  BY DEF UsersInv, UsersTypeOK, UsersAreKept, AddUser, OnePerEmail
<1>2. new \in UserRecord /\ new.id = issued + 1 /\ new.email = email
  BY <1>1, MaxUsersAssumption DEF User, UserRecord
<1>3. \A u \in Entries(users) : u.email # new.email
  BY <1>2 DEF AddUser
<1>4. Serves(w, list, issued + 1) /\ issued' = issued + 1 /\ issued < MaxUsers
      /\ UNCHANGED <<users, answered, fought>>
  BY DEF AddUser
<1> HIDE DEF new
<1>5. list \in Seq(UserRecord) /\ OnePerEmail(list) /\ Entries(list) = Entries(users) \union {new}
  BY <1>1, <1>2, <1>3, AddedList
<1> HIDE DEF list
<1>6. issued + 1 \in Nat /\ issued' \in 0..MaxUsers
  BY <1>1, <1>4, MaxUsersAssumption
<1> QED BY <1>1, <1>2, <1>4, <1>5, <1>6, BeginKeeps

LEMMA UpdateScopesKeeps ==
  ASSUME UsersInv, NEW w \in Workers, NEW id \in 0..issued, NEW scopes \in Scopes,
         UpdateScopes(w, id, scopes)
  PROVE  UsersInv'
<1> DEFINE list == Rescoped(users, id, scopes)
<1>1. users \in Seq(UserRecord) /\ OnePerEmail(users) /\ issued \in 0..MaxUsers
      /\ \A i \in DOMAIN answered \ fought : answered[i] \in Entries(users)
  BY DEF UsersInv, UsersTypeOK, UsersAreKept, UpdateScopes, OnePerEmail
<1>2. /\ list \in Seq(UserRecord) /\ OnePerEmail(list)
      /\ \A u \in Entries(users) : u.id # id => u \in Entries(list)
      /\ \E u \in Entries(list) : u.id = id
  BY <1>1, RescopedList DEF UpdateScopes
<1>3. Serves(w, list, id) /\ UNCHANGED <<users, issued, answered, fought>>
  BY DEF UpdateScopes
<1> HIDE DEF list
<1>4. \A i \in DOMAIN answered \ fought : i # id => answered[i] \in Entries(list)
  BY <1>1, <1>2 DEF UsersInv
<1>5. id \in Nat
  BY <1>1
<1> QED BY <1>1, <1>2, <1>3, <1>4, <1>5, BeginKeeps

LEMMA TruncateKeeps == ASSUME UsersInv, NEW w \in Workers, Truncate(w) PROVE UsersInv'
<1> DEFINE h == [handler[w] EXCEPT !.at = "write"]
<1>1. handler \in [Workers -> HandlerState] /\ h \in HandlerState
      /\ h.list = handler[w].list /\ h.id = handler[w].id
  <2>1. handler \in [Workers -> HandlerState]
    BY DEF UsersInv, UsersTypeOK, HandlerState
  <2>2. handler[w] \in HandlerState
    BY <2>1
  <2> QED BY <2>1, <2>2 DEF HandlerState
<1>2. handler' = [handler EXCEPT ![w] = h] /\ handler[w].at # "idle"
  BY DEF Truncate
<1> HIDE DEF h
<1>3. /\ handler' \in [Workers -> HandlerState]
      /\ \A v \in Workers : handler'[v] = IF v = w THEN h ELSE handler[v]
  BY <1>1, <1>2
<1>4. \A v \in Workers : Faithful(v)'
  BY <1>1, <1>2, <1>3 DEF Faithful, UsersInv, Truncate
<1>5. UsersTypeOK'
  BY <1>3 DEF UsersInv, UsersTypeOK, HandlerState, Truncate
<1> QED BY <1>4, <1>5 DEF UsersInv, UsersAreKept, Truncate

LEMMA AbandonKeeps == ASSUME UsersInv, NEW w \in Workers, Abandon(w) PROVE UsersInv'
<1>1. handler \in [Workers -> HandlerState] /\ Resting \in HandlerState /\ Resting.at = "idle"
  BY DEF UsersInv, UsersTypeOK, HandlerState, Resting
<1>2. handler' = [handler EXCEPT ![w] = Resting]
  BY DEF Abandon
<1>3. /\ handler' \in [Workers -> HandlerState]
      /\ \A v \in Workers : handler'[v] = IF v = w THEN Resting ELSE handler[v]
  BY <1>1, <1>2
<1>4. \A v \in Workers : Faithful(v)'
  BY <1>1, <1>3 DEF Faithful, UsersInv, Abandon
<1>5. UsersTypeOK'
  BY <1>3 DEF UsersInv, UsersTypeOK, HandlerState, Abandon
<1> QED BY <1>4, <1>5 DEF UsersInv, UsersAreKept, Abandon

LEMMA SaveKeeps == ASSUME UsersInv, NEW w \in Workers, Save(w) PROVE UsersInv'
<1> DEFINE list == handler[w].list
           id == handler[w].id
           mine == CHOOSE u \in Entries(list) : u.id = id
<1>1. /\ handler \in [Workers -> HandlerState] /\ Resting \in HandlerState
      /\ Resting.at = "idle" /\ list \in Seq(UserRecord) /\ id \in Nat
  BY DEF UsersInv, UsersTypeOK, HandlerState, Resting
<1>2. /\ OnePerEmail(list) /\ \E u \in Entries(list) : u.id = id
      /\ \A i \in DOMAIN answered \ (fought \union {id}) : answered[i] \in Entries(list)
  BY DEF UsersInv, Faithful, Save
<1>3. mine \in Entries(list) /\ mine.id = id
  BY <1>2
<1>4. mine \in UserRecord
  BY <1>1, <1>3, EntriesOf
<1>5. /\ users' \in {list, Torn}
      /\ answered' = [i \in DOMAIN answered \union {id} |-> IF i = id THEN mine ELSE answered[i]]
      /\ fought' = IF Others(w) = {} THEN fought ELSE fought \union {id}
      /\ handler' = [handler EXCEPT ![w] = Resting] /\ issued' = issued
  BY DEF Save, Written
<1> HIDE DEF list, id, mine
<1>6. /\ handler' \in [Workers -> HandlerState]
      /\ \A v \in Workers : handler'[v] = IF v = w THEN Resting ELSE handler[v]
  BY <1>1, <1>5
<1>7. /\ DOMAIN answered' = DOMAIN answered \union {id}
      /\ \A i \in DOMAIN answered' : answered'[i] = IF i = id THEN mine ELSE answered[i]
  BY <1>5
<1>8. UsersTypeOK'
  <2>1. \A i \in DOMAIN answered' : answered'[i] \in UserRecord
    BY <1>4, <1>7 DEF UsersInv, UsersTypeOK
  <2>2. answered' \in [DOMAIN answered' -> UserRecord]
    BY <1>5, <2>1
  <2>3. fought' \subseteq DOMAIN answered' /\ DOMAIN answered' \subseteq Nat
    BY <1>1, <1>5, <1>7 DEF UsersInv, UsersTypeOK
  <2> QED BY <1>1, <1>5, <1>6, <2>2, <2>3 DEF UsersInv, UsersTypeOK, HandlerState
<1>9. UsersAreKept'
  <2> SUFFICES ASSUME users' # Torn PROVE UsersAreKept'
    BY DEF UsersAreKept
  <2>1. users' = list
    BY <1>5
  <2>2. \A i \in DOMAIN answered' \ fought' : answered'[i] \in Entries(list)
    BY <1>2, <1>3, <1>5, <1>7
  <2>3. Entries(users') = Entries(list)
    BY <2>1
  <2> QED BY <1>2, <2>1, <2>2, <2>3 DEF UsersAreKept, OnePerEmail, Entries
<1>10. \A i \in DOMAIN answered' : answered'[i].id = i
  BY <1>3, <1>7 DEF UsersInv
<1>11. ASSUME NEW v \in Workers PROVE Faithful(v)'
  <2>1. CASE v = w \/ handler[v].at = "idle"
    BY <1>1, <1>6, <2>1 DEF Faithful
  <2>2. CASE v # w /\ handler[v].at # "idle"
    <3>1. fought' = fought \union {id} /\ handler'[v] = handler[v]
      BY <1>5, <1>6, <2>2 DEF Others
    <3> QED BY <1>7, <2>2, <3>1 DEF UsersInv, Faithful
  <2> QED BY <2>1, <2>2
<1> QED BY <1>8, <1>9, <1>10, <1>11 DEF UsersInv

LEMMA UsersNextInv == UsersInv /\ [UsersNext]_usersVars => UsersInv'
<1> SUFFICES ASSUME UsersInv, [UsersNext]_usersVars PROVE UsersInv'
  OBVIOUS
<1>1. CASE UNCHANGED usersVars
  BY <1>1 DEF usersVars, UsersInv, UsersTypeOK, UsersAreKept, Faithful
<1>2. ASSUME NEW w \in Workers, NEW email \in Emails, NEW scopes \in Scopes,
             AddUser(w, email, scopes)
      PROVE  UsersInv'
  BY <1>2, AddUserKeeps
<1>3. ASSUME NEW w \in Workers, NEW id \in 0..issued, NEW scopes \in Scopes,
             UpdateScopes(w, id, scopes)
      PROVE  UsersInv'
  BY <1>3, UpdateScopesKeeps
<1>4. ASSUME NEW w \in Workers, Refuse(w) \/ Truncate(w) \/ Save(w) \/ Abandon(w)
      PROVE  UsersInv'
  BY <1>1, <1>4, TruncateKeeps, SaveKeeps, AbandonKeeps DEF Refuse
<1> QED BY <1>1, <1>2, <1>3, <1>4 DEF UsersNext

(* The variables of the user store keep their types. *)
THEOREM UsersTypeCorrect == UsersSpec => []UsersTypeOK
<1>1. UsersInv => UsersTypeOK
  BY DEF UsersInv
<1> QED BY <1>1, UsersInitInv, UsersNextInv, PTL DEF UsersSpec

(* Administrators that race on the list of users may lose an answer they were given
   only when one of them held an older list, and never make two users of one address
   (auth/user_store.py: every request loads the list and saves it whole). *)
THEOREM UsersStayKept == UsersSpec => []UsersAreKept
<1>1. UsersInv => UsersAreKept
  BY DEF UsersInv
<1> QED BY <1>1, UsersInitInv, UsersNextInv, PTL DEF UsersSpec

=============================================================================
