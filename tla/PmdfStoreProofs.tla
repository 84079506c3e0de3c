--------------------------- MODULE PmdfStoreProofs ---------------------------
(***************************************************************************)
(* Proofs about PmdfStore, for every set of paths, schema and writers.     *)
(*                                                                         *)
(* The inductive invariant says what the lock protects: who is past        *)
(* Acquire holds it (LockInv), what the holder has saved is in the working *)
(* tree and, after index.add, in the index (ProgressInv); working tree,    *)
(* index and HEAD differ only on what the holder or a failed operation has *)
(* touched (CleanInv); and the references of a checked entity resolve,     *)
(* first in the working tree, then in the index, then in HEAD (RefsInv).   *)
(***************************************************************************)
EXTENDS PmdfStore, TLAPS

Touched(w) == writer[w].saved \union ({writer[w].path} \ {None})

LockInv == \A w \in Writers : writer[w].at \in Locked <=> lock = w

ProgressInv ==
  \A w \in Writers :
    /\ writer[w].at # "idle" => writer[w].saved \subseteq DOMAIN writer[w].batch
    /\ writer[w].at \notin Locked => writer[w].saved = {}
    /\ writer[w].at # "write" => writer[w].path = None
    /\ writer[w].at = "write" => writer[w].path \in DOMAIN writer[w].batch
    /\ writer[w].at \in {"add", "commit"} => writer[w].saved = DOMAIN writer[w].batch
    /\ \A p \in writer[w].saved : worktree[p] = writer[w].batch[p]
    /\ ~writer[w].checked => writer[w].saved \subseteq unchecked
    /\ writer[w].at = "commit" =>
         \A p \in DOMAIN writer[w].batch : index[p] = writer[w].batch[p]

CleanInv ==
  \A p \in Paths \ left :
    /\ worktree[p] # index[p] => \E w \in Writers : p \in Touched(w)
    /\ index[p] # head[p] =>
         \E w \in Writers : writer[w].at = "commit" /\ p \in writer[w].saved

Resolved(tree, p, entity) == \A q \in entity : q = p \/ tree[q] # None \/ q \in left

CheckedInv ==
  \A w \in Writers : writer[w].checked =>
    \E p \in Paths :
      /\ DOMAIN writer[w].batch = {p}
      /\ \A q \in writer[w].batch[p] : q = p \/ worktree[q] # None
      /\ writer[w].at = "commit" => Resolved(index, p, writer[w].batch[p])

RefsInv ==
  /\ CheckedInv
  /\ \A p \in Paths \ unchecked : index[p] \in Entities => Resolved(index, p, index[p])
  /\ \A p \in Paths \ unchecked : head[p] \in Entities => Resolved(head, p, head[p])

IInv == TypeOK /\ LockInv /\ ProgressInv /\ HistoryIsWhole /\ CleanInv /\ RefsInv

-----------------------------------------------------------------------------
(* Facts about batches and trees.                                          *)

LEMMA BatchFacts ==
  ASSUME NEW batch \in Batches
  PROVE  /\ DOMAIN batch \subseteq Paths
         /\ batch # None
         /\ \A p \in DOMAIN batch : /\ batch[p] \in Entities
                                   /\ batch[p] # None /\ batch[p] # Torn
BY NoneAssumption, TornAssumption DEF Batches, History!Batches, Entities, History!Entities

LEMMA SingletonBatch ==
  ASSUME NEW p \in Paths, NEW entity \in Schema[p]
  PROVE  [q \in {p} |-> entity] \in Batches
<1> DEFINE batch == [q \in {p} |-> entity]
<1>1. entity \in Entities
  BY DEF Entities, History!Entities
<1>2. /\ batch \in [{p} -> Entities]
      /\ {p} \in (SUBSET Paths) \ {{}}
  <2>1. batch \in [{p} -> Entities]
    BY <1>1
  <2>2. {p} # {} /\ {p} \subseteq Paths
    OBVIOUS
  <2>3. QED
    BY <2>1, <2>2
<1>3. \A q \in DOMAIN batch : batch[q] \in Schema[q]
  OBVIOUS
<1>4. batch \in UNION {[paths -> Entities] : paths \in (SUBSET Paths) \ {{}}}
  BY <1>2
<1>5. QED
  BY <1>3, <1>4 DEF Batches, History!Batches, Entities

-----------------------------------------------------------------------------
(* What one step does to the operations of the writers.                    *)

LEMMA TypeInit == Init => TypeOK
BY SchemaAssumption
DEF Init, TypeOK, History!Empty, Contents, Idle

LEMMA Others ==
  ASSUME NEW w \in Writers, TypeOK,
         \/ \E p \in Paths : \E entity \in Schema[p] : WriteEntity(w, p, entity)
         \/ \E batch \in Batches : WriteBatch(w, batch)
         \/ Proceed(w)
         \/ Fail(w)
  PROVE  \A v \in Writers : v # w => writer'[v] = writer[v]
BY DEF WriteEntity, WriteBatch, Proceed, Acquire, Timeout, Truncate, WriteText, Add, Commit,
       Fail, TypeOK

LEMMA AcquireFacts ==
  ASSUME NEW w \in Writers, TypeOK, Acquire(w)
  PROVE  /\ writer[w] \in Operation
         /\ writer'[w] \in Operation
         /\ writer'[w].at = "save"
         /\ writer'[w].batch = writer[w].batch
         /\ writer'[w].checked = writer[w].checked
         /\ writer'[w].saved = writer[w].saved
         /\ writer'[w].path = writer[w].path
<1>1. writer[w] \in Operation
  BY DEF Acquire, TypeOK, Idle
<1>2. writer'[w] = [writer[w] EXCEPT !.at = "save"]
  BY DEF Acquire, TypeOK
<1>3. QED
  BY <1>1, <1>2 DEF Operation

LEMMA TruncateFacts ==
  ASSUME NEW w \in Writers, NEW p \in Paths, TypeOK, Truncate(w, p)
  PROVE  /\ writer[w] \in Operation
         /\ writer'[w] \in Operation
         /\ writer'[w].at = "write"
         /\ writer'[w].batch = writer[w].batch
         /\ writer'[w].checked = writer[w].checked
         /\ writer'[w].saved = writer[w].saved
         /\ writer'[w].path = p
<1>1. writer[w] \in Operation
  BY DEF Truncate, TypeOK, Idle
<1>2. writer'[w] = [writer[w] EXCEPT !.at = "write", !.path = p]
  BY DEF Truncate, TypeOK
<1>3. QED
  BY <1>1, <1>2 DEF Operation

LEMMA WriteTextFacts ==
  ASSUME NEW w \in Writers, TypeOK, ProgressInv, WriteText(w)
  PROVE  /\ writer[w] \in Operation
         /\ writer'[w] \in Operation
         /\ writer[w].path \in DOMAIN writer[w].batch
         /\ writer[w].path \in Paths
         /\ writer[w].batch[writer[w].path] \in Entities
         /\ writer'[w].at = IF writer[w].saved \union {writer[w].path} = DOMAIN writer[w].batch THEN "add" ELSE "save"
         /\ writer'[w].batch = writer[w].batch
         /\ writer'[w].checked = writer[w].checked
         /\ writer'[w].saved = writer[w].saved \union {writer[w].path}
         /\ writer'[w].path = None
<1> DEFINE saved == writer[w].saved \union {writer[w].path}
           at == IF saved = DOMAIN writer[w].batch THEN "add" ELSE "save"
<1>1. writer[w] \in Operation
  BY DEF WriteText, TypeOK, Idle
<1>2. writer'[w] = [writer[w] EXCEPT !.at = at, !.saved = saved, !.path = None]
  BY DEF WriteText, TypeOK
<1> HIDE DEF saved, at
<1>3. writer'[w] = [at |-> at, batch |-> writer[w].batch, checked |-> writer[w].checked,
                    saved |-> saved, path |-> None]
  BY <1>1, <1>2 DEF Operation
<1>4. /\ writer[w].path \in DOMAIN writer[w].batch
      /\ writer[w].batch \in Batches
  BY <1>1 DEF WriteText, ProgressInv, Operation
<1>5. /\ writer[w].path \in Paths
      /\ writer[w].batch[writer[w].path] \in Entities
  BY <1>4, BatchFacts
<1>6. at \in {"add", "save"} /\ saved \in SUBSET Paths
  BY <1>1, <1>5 DEF at, saved, Operation
<1>7. writer'[w] \in Operation
  BY <1>1, <1>3, <1>6 DEF Operation
<1>8. QED
  BY <1>1, <1>3, <1>4, <1>5, <1>7 DEF saved, at

LEMMA AddFacts ==
  ASSUME NEW w \in Writers, TypeOK, Add(w)
  PROVE  /\ writer[w] \in Operation
         /\ writer'[w] \in Operation
         /\ writer'[w].at = "commit"
         /\ writer'[w].batch = writer[w].batch
         /\ writer'[w].checked = writer[w].checked
         /\ writer'[w].saved = writer[w].saved
         /\ writer'[w].path = writer[w].path
<1>1. writer[w] \in Operation
  BY DEF Add, TypeOK, Idle
<1>2. writer'[w] = [writer[w] EXCEPT !.at = "commit"]
  BY DEF Add, TypeOK
<1>3. QED
  BY <1>1, <1>2 DEF Operation

LEMMA BeginFacts ==
  ASSUME NEW w \in Writers, NEW batch \in Batches, NEW checked \in BOOLEAN, TypeOK,
         writer' = [writer EXCEPT ![w] = Accepted(batch, checked)]
  PROVE  /\ writer'[w] \in Operation
         /\ writer'[w] = [at |-> "lock", batch |-> batch, checked |-> checked,
                          saved |-> {}, path |-> None]
BY DEF Accepted, TypeOK, Operation

LEMMA IdleFacts ==
  ASSUME NEW w \in Writers, TypeOK, Timeout(w) \/ Commit(w) \/ Fail(w)
  PROVE  /\ writer'[w] = Idle
         /\ writer'[w].at = "idle"
         /\ writer'[w].saved = {}
         /\ writer'[w].path = None
         /\ writer'[w].checked = FALSE
         /\ writer'[w].batch = None
<1>1. writer'[w] = Idle
  BY DEF Timeout, Commit, Fail, TypeOK
<1>2. QED
  BY <1>1 DEF Idle

LEMMA TypeStep == TypeOK /\ ProgressInv /\ [Next]_vars => TypeOK'
<1> SUFFICES ASSUME TypeOK, ProgressInv, Next PROVE TypeOK'
  BY DEF TypeOK, vars
<1> PICK w \in Writers :
      \/ \E p \in Paths : \E entity \in Schema[p] : WriteEntity(w, p, entity)
      \/ \E batch \in Batches : WriteBatch(w, batch)
      \/ Proceed(w)
      \/ Fail(w)
  BY DEF Next
<1>1. \A v \in Writers : v # w => writer'[v] \in Operation \union {Idle}
  BY Others DEF TypeOK
<1>2. writer' = [writer EXCEPT ![w] = writer'[w]] /\ DOMAIN writer' = Writers
  BY DEF WriteEntity, WriteBatch, Proceed, Acquire, Timeout, Truncate, WriteText, Add, Commit,
     Fail, TypeOK
<1>3. writer'[w] \in Operation \union {Idle} => writer' \in [Writers -> Operation \union {Idle}]
  BY <1>1, <1>2 DEF TypeOK
<1>4. ASSUME NEW p \in Paths, NEW entity \in Schema[p], WriteEntity(w, p, entity) PROVE TypeOK'
  <2>1. writer'[w] \in Operation
    BY <1>4, SingletonBatch, BeginFacts DEF WriteEntity
  <2>2. QED
    BY <1>3, <1>4, <2>1 DEF WriteEntity, TypeOK
<1>5. ASSUME NEW batch \in Batches, WriteBatch(w, batch) PROVE TypeOK'
  <2>1. writer'[w] \in Operation
    BY <1>5, BeginFacts DEF WriteBatch
  <2>2. QED
    BY <1>3, <1>5, <2>1 DEF WriteBatch, TypeOK
<1>6. CASE Acquire(w)
  <2>1. writer'[w] \in Operation
    BY <1>6, AcquireFacts
  <2>2. QED
    BY <1>3, <1>6, <2>1 DEF Acquire, TypeOK
<1>7. CASE Timeout(w)
  BY <1>3, <1>7, IdleFacts DEF Timeout, TypeOK
<1>8. ASSUME NEW p \in Paths, Truncate(w, p) PROVE TypeOK'
  <2>1. writer'[w] \in Operation
    BY <1>8, TruncateFacts
  <2>2. QED
    BY <1>3, <1>8, <2>1 DEF Truncate, TypeOK, Contents
<1>9. CASE WriteText(w)
  <2>1. /\ writer'[w] \in Operation
        /\ writer[w].path \in Paths
        /\ writer[w].batch[writer[w].path] \in Entities
    BY <1>9, WriteTextFacts
  <2>2. QED
    BY <1>3, <1>9, <2>1 DEF WriteText, TypeOK, Contents
<1>10. CASE Add(w)
  <2>1. writer'[w] \in Operation
    BY <1>10, AddFacts
  <2>2. QED
    BY <1>3, <1>10, <2>1 DEF Add, TypeOK
<1>11. CASE Commit(w)
  BY <1>3, <1>11, IdleFacts DEF Commit, TypeOK
<1>12. CASE Fail(w)
  <2>1. writer[w].saved \subseteq Paths /\ writer[w].path \in Paths \union {None}
    BY DEF TypeOK, Operation, Idle
  <2>2. QED
    BY <1>3, <1>12, <2>1, IdleFacts DEF Fail, TypeOK
<1>13. QED
  BY <1>4, <1>5, <1>6, <1>7, <1>8, <1>9, <1>10, <1>11, <1>12 DEF Proceed

-----------------------------------------------------------------------------
(* The lock, and the progress of its holder.                               *)

LEMMA OneStep ==
  ASSUME Next
  PROVE  \E w \in Writers :
           \/ \E p \in Paths : \E entity \in Schema[p] : WriteEntity(w, p, entity)
           \/ \E batch \in Batches : WriteBatch(w, batch)
           \/ Acquire(w)
           \/ Timeout(w)
           \/ \E p \in Paths : Truncate(w, p)
           \/ WriteText(w)
           \/ Add(w)
           \/ Commit(w)
           \/ Fail(w)
BY DEF Next, Proceed

\* The first step of an operation, of either entry point.
Begin(w) ==
  \E batch \in Batches, checked \in BOOLEAN :
    /\ writer[w] = Idle
    /\ writer'[w] = [at |-> "lock", batch |-> batch, checked |-> checked,
                     saved |-> {}, path |-> None]
    /\ checked => \E p \in Paths : /\ DOMAIN batch = {p}
                                   /\ \A q \in batch[p] : q = p \/ worktree[q] # None
    /\ UNCHANGED <<worktree, index, head, lock, left, unchecked>>

LEMMA BeginStep ==
  ASSUME NEW w \in Writers, TypeOK,
         \/ \E p \in Paths : \E entity \in Schema[p] : WriteEntity(w, p, entity)
         \/ \E batch \in Batches : WriteBatch(w, batch)
  PROVE  Begin(w)
<1>1. ASSUME NEW p \in Paths, NEW entity \in Schema[p], WriteEntity(w, p, entity)
      PROVE  Begin(w)
  <2> DEFINE batch == [q \in {p} |-> entity]
  <2>1. batch \in Batches
    BY SingletonBatch
  <2>2. DOMAIN batch = {p} /\ batch[p] = entity
    OBVIOUS
  <2>3. \A q \in entity : q = p \/ worktree[q] # None
    BY <1>1 DEF WriteEntity, ValidReferences
  <2>4. writer' = [writer EXCEPT ![w] = Accepted(batch, TRUE)]
    BY <1>1 DEF WriteEntity
  <2> HIDE DEF batch
  <2>5. writer'[w] = [at |-> "lock", batch |-> batch, checked |-> TRUE,
                      saved |-> {}, path |-> None]
    BY <2>1, <2>4, BeginFacts
  <2>6. QED
    BY <1>1, <2>1, <2>2, <2>3, <2>5 DEF Begin, WriteEntity
<1>2. ASSUME NEW batch \in Batches, WriteBatch(w, batch)
      PROVE  Begin(w)
  <2>1. writer'[w] = [at |-> "lock", batch |-> batch, checked |-> FALSE,
                      saved |-> {}, path |-> None]
    BY <1>2, BeginFacts DEF WriteBatch
  <2>2. QED
    BY <1>2, <2>1 DEF Begin, WriteBatch
<1>3. QED
  BY <1>1, <1>2

LEMMA LockStep == TypeOK /\ ProgressInv /\ LockInv /\ [Next]_vars => LockInv'
<1> SUFFICES ASSUME TypeOK, ProgressInv, LockInv, Next PROVE LockInv'
  BY DEF LockInv, vars
<1> USE DEF Locked
<1> PICK w \in Writers :
      \/ \E p \in Paths : \E entity \in Schema[p] : WriteEntity(w, p, entity)
      \/ \E batch \in Batches : WriteBatch(w, batch)
      \/ Acquire(w)
      \/ Timeout(w)
      \/ \E p \in Paths : Truncate(w, p)
      \/ WriteText(w)
      \/ Add(w)
      \/ Commit(w)
      \/ Fail(w)
  BY OneStep
<1>1. \A v \in Writers : v # w => writer'[v] = writer[v]
  BY Others DEF Proceed
<1>2. ASSUME writer'[w].at \in Locked <=> writer[w].at \in Locked, lock' = lock
      PROVE  LockInv'
  BY <1>1, <1>2 DEF LockInv
<1>3. ASSUME writer'[w].at \notin Locked, lock' = None, writer[w].at \in Locked
      PROVE  LockInv'
  BY <1>1, <1>3, NoneAssumption DEF LockInv
<1>4. CASE Begin(w)
  BY <1>2, <1>4 DEF Begin, Idle
<1>5. CASE Acquire(w)
  <2>1. writer'[w].at = "save" /\ lock = None /\ lock' = w
    BY <1>5, AcquireFacts DEF Acquire
  <2>2. QED
    BY <1>1, <2>1, NoneAssumption DEF LockInv
<1>6. CASE Timeout(w)
  BY <1>2, <1>6, IdleFacts DEF Timeout, Idle
<1>7. ASSUME NEW p \in Paths, Truncate(w, p) PROVE LockInv'
  <2>1. writer'[w].at = "write" /\ writer[w].at = "save" /\ lock' = lock
    BY <1>7, TruncateFacts DEF Truncate
  <2>2. QED
    BY <1>2, <2>1
<1>8. CASE WriteText(w)
  <2>1. writer'[w].at \in {"add", "save"} /\ writer[w].at = "write" /\ lock' = lock
    BY <1>8, WriteTextFacts DEF WriteText
  <2>2. QED
    BY <1>2, <2>1
<1>9. CASE Add(w)
  BY <1>2, <1>9, AddFacts DEF Add
<1>10. CASE Commit(w)
  <2>1. writer'[w].at = "idle" /\ writer[w].at = "commit" /\ lock' = None
    BY <1>10, IdleFacts DEF Commit, Idle
  <2>2. QED
    BY <1>3, <2>1
<1>11. CASE Fail(w)
  <2>1. writer'[w].at = "idle"
    BY <1>11, IdleFacts DEF Idle
  <2>2. CASE writer[w].at \in Locked
    BY <1>3, <1>11, <2>1, <2>2 DEF Fail
  <2>3. CASE writer[w].at \notin Locked
    BY <1>2, <1>11, <2>1, <2>3 DEF Fail
  <2>4. QED
    BY <2>2, <2>3
<1>12. QED
  BY <1>4, <1>5, <1>6, <1>7, <1>8, <1>9, <1>10, <1>11, BeginStep

\* While w is past Acquire, no other writer has saved anything.
LEMMA Alone ==
  ASSUME LockInv, ProgressInv, NEW w \in Writers, writer[w].at \in Locked
  PROVE  \A v \in Writers : v # w =>
           writer[v].at \notin Locked /\ writer[v].saved = {} /\ writer[v].path = None
BY DEF LockInv, ProgressInv, Locked

LEMMA ProgressStep ==
  TypeOK /\ ProgressInv /\ LockInv /\ [Next]_vars => ProgressInv'
<1> SUFFICES ASSUME TypeOK, ProgressInv, LockInv, Next PROVE ProgressInv'
  BY DEF ProgressInv, vars
<1> PICK w \in Writers :
      \/ \E p \in Paths : \E entity \in Schema[p] : WriteEntity(w, p, entity)
      \/ \E batch \in Batches : WriteBatch(w, batch)
      \/ Acquire(w)
      \/ Timeout(w)
      \/ \E p \in Paths : Truncate(w, p)
      \/ WriteText(w)
      \/ Add(w)
      \/ Commit(w)
      \/ Fail(w)
  BY OneStep
<1> DEFINE Good(v) ==
      /\ writer[v].at # "idle" => writer[v].saved \subseteq DOMAIN writer[v].batch
      /\ writer[v].at \notin Locked => writer[v].saved = {}
      /\ writer[v].at # "write" => writer[v].path = None
      /\ writer[v].at = "write" => writer[v].path \in DOMAIN writer[v].batch
      /\ writer[v].at \in {"add", "commit"} => writer[v].saved = DOMAIN writer[v].batch
      /\ \A p \in writer[v].saved : worktree[p] = writer[v].batch[p]
      /\ ~writer[v].checked => writer[v].saved \subseteq unchecked
      /\ writer[v].at = "commit" =>
           \A p \in DOMAIN writer[v].batch : index[p] = writer[v].batch[p]
<1>0. Good(w)
  BY DEF ProgressInv
<1>1. \A v \in Writers : v # w => writer'[v] = writer[v]
  BY Others DEF Proceed
<1>2. ASSUME Good(w)', UNCHANGED <<worktree, index, unchecked>>
      PROVE  ProgressInv'
  BY <1>1, <1>2 DEF ProgressInv
<1>3. ASSUME Good(w)', writer[w].at \in Locked
      PROVE  ProgressInv'
  <2>1. \A v \in Writers : v # w =>
          writer'[v].at \notin Locked /\ writer'[v].saved = {} /\ writer'[v].path = None
    BY <1>1, <1>3, Alone
  <2>2. QED
    BY <1>3, <2>1 DEF ProgressInv, Locked
<1>4. CASE Begin(w)
  <2>1. /\ writer'[w].at = "lock" /\ writer'[w].saved = {} /\ writer'[w].path = None
        /\ UNCHANGED <<worktree, index, unchecked>>
    BY <1>4 DEF Begin
  <2>2. QED
    BY <1>2, <2>1 DEF Locked
<1>5. CASE Acquire(w)
  <2>1. Good(w)'
    BY <1>0, <1>5, AcquireFacts DEF Acquire, Locked
  <2>2. QED
    BY <1>2, <1>5, <2>1 DEF Acquire
<1>6. ASSUME Timeout(w) \/ Commit(w) \/ Fail(w) PROVE ProgressInv'
  <2>1. Good(w)'
    BY <1>6, IdleFacts DEF Locked
  <2>2. CASE writer[w].at \in Locked
    BY <1>3, <2>1, <2>2
  <2>3. CASE writer[w].at \notin Locked
    BY <1>2, <1>6, <2>1, <2>3 DEF Timeout, Commit, Fail, Locked
  <2>4. QED
    BY <2>2, <2>3
<1>7. ASSUME NEW p \in Paths, Truncate(w, p) PROVE ProgressInv'
  <2>1. /\ writer[w].at = "save" /\ p \in DOMAIN writer[w].batch \ writer[w].saved
        /\ \A q \in Paths : q # p => worktree'[q] = worktree[q]
        /\ unchecked' = unchecked
    BY <1>7 DEF Truncate, TypeOK
  <2>2. writer[w].saved \subseteq Paths
    BY DEF TypeOK, Operation, Idle
  <2>3. /\ writer'[w].at = "write" /\ writer'[w].path = p
        /\ writer'[w].saved = writer[w].saved
        /\ writer'[w].batch = writer[w].batch
        /\ writer'[w].checked = writer[w].checked
    BY <1>7, TruncateFacts
  <2>4. Good(w)'
    BY <1>0, <2>1, <2>2, <2>3 DEF Locked
  <2>5. QED
    BY <1>3, <2>1, <2>4 DEF Locked
<1>8. CASE WriteText(w)
  <2> DEFINE p == writer[w].path
  <2>1. /\ worktree' = [worktree EXCEPT ![p] = writer[w].batch[p]]
        /\ ~writer[w].checked => unchecked' = unchecked \union {p}
        /\ writer[w].at = "write"
    BY <1>8 DEF WriteText
  <2>2. p \in DOMAIN writer[w].batch /\ p \in Paths
    BY <1>8, WriteTextFacts
  <2>3. /\ writer'[w].saved = writer[w].saved \union {p}
        /\ writer'[w].batch = writer[w].batch
        /\ writer'[w].checked = writer[w].checked
        /\ writer'[w].path = None
        /\ \/ writer'[w].at = "add" /\ writer[w].saved \union {p} = DOMAIN writer[w].batch
           \/ writer'[w].at = "save"
    BY <1>8, WriteTextFacts
  <2>4. worktree'[p] = writer[w].batch[p] /\ \A q \in Paths : q # p => worktree'[q] = worktree[q]
    BY <2>1, <2>2 DEF TypeOK
  <2>5. writer[w].saved \subseteq Paths
    BY DEF TypeOK, Operation, Idle
  <2> HIDE DEF p
  <2>6. Good(w)'
    BY <1>0, <2>1, <2>2, <2>3, <2>4, <2>5 DEF Locked
  <2>7. QED
    BY <1>3, <2>1, <2>6 DEF Locked
<1>9. CASE Add(w)
  <2>1. /\ writer[w].at = "add"
        /\ worktree' = worktree /\ unchecked' = unchecked
    BY <1>9 DEF Add
  <2>2. writer[w].saved = DOMAIN writer[w].batch /\ DOMAIN writer[w].batch \subseteq Paths
    BY <1>0, <1>9, <2>1, AddFacts, BatchFacts DEF Operation
  <2>3. \A p \in DOMAIN writer[w].batch : index'[p] = writer[w].batch[p]
    BY <1>0, <1>9, <2>2 DEF Add
  <2>4. Good(w)'
    BY <1>0, <1>9, <2>1, <2>2, <2>3, AddFacts DEF Locked
  <2>5. QED
    BY <1>3, <2>1, <2>4 DEF Locked
<1>10. QED
  BY <1>4, <1>5, <1>6, <1>7, <1>8, <1>9, BeginStep

-----------------------------------------------------------------------------
(* Working tree, index and HEAD.                                           *)

LEMMA WholeStep ==
  TypeOK /\ ProgressInv /\ HistoryIsWhole /\ [Next]_vars => HistoryIsWhole'
<1> SUFFICES ASSUME TypeOK, ProgressInv, HistoryIsWhole, [Next]_vars PROVE HistoryIsWhole'
  OBVIOUS
<1>1. ASSUME NEW w \in Writers, Add(w) PROVE HistoryIsWhole'
  <2>1. writer[w].at = "add" /\ head' = head
    BY <1>1 DEF Add
  <2>2. writer[w].batch \in Batches
    BY <1>1, AddFacts DEF Operation
  <2>3. \A p \in DOMAIN writer[w].batch : worktree[p] = writer[w].batch[p]
    BY <2>1 DEF ProgressInv
  <2>4. \A p \in DOMAIN writer[w].batch : worktree[p] # Torn
    BY <2>2, <2>3, BatchFacts
  <2>5. QED
    BY <1>1, <2>1, <2>4 DEF Add, HistoryIsWhole
<1>2. ASSUME NEW w \in Writers, Commit(w) PROVE HistoryIsWhole'
  BY <1>2 DEF Commit, HistoryIsWhole
<1>3. CASE UNCHANGED <<index, head>>
  BY <1>3 DEF HistoryIsWhole
<1>4. QED
  BY <1>1, <1>2, <1>3
  DEF Next, Proceed, WriteEntity, WriteBatch, Acquire, Timeout, Truncate, WriteText, Fail, vars

LEMMA CleanStep ==
  TypeOK /\ ProgressInv /\ LockInv /\ CleanInv /\ [Next]_vars => CleanInv'
<1> SUFFICES ASSUME TypeOK, ProgressInv, LockInv, CleanInv, [Next]_vars,
                    NEW p \in Paths, p \notin left'
             PROVE  /\ worktree'[p] # index'[p] => \E w \in Writers : p \in Touched(w)'
                    /\ index'[p] # head'[p] =>
                         \E w \in Writers : writer'[w].at = "commit" /\ p \in writer'[w].saved
  BY DEF CleanInv
<1> DEFINE Behind == worktree[p] # index[p] => \E w \in Writers : p \in Touched(w)
           Ahead == index[p] # head[p] =>
                      \E w \in Writers : writer[w].at = "commit" /\ p \in writer[w].saved
<1>1. CASE UNCHANGED vars
  BY <1>1 DEF vars, CleanInv, Touched
<1>2. CASE Next
  <2> PICK w \in Writers :
        \/ \E q \in Paths : \E entity \in Schema[q] : WriteEntity(w, q, entity)
        \/ \E batch \in Batches : WriteBatch(w, batch)
        \/ Acquire(w)
        \/ Timeout(w)
        \/ \E q \in Paths : Truncate(w, q)
        \/ WriteText(w)
        \/ Add(w)
        \/ Commit(w)
        \/ Fail(w)
    BY <1>2, OneStep
  <2>1. \A v \in Writers : v # w => writer'[v] = writer[v]
    BY Others DEF Proceed
  <2>2. p \notin left => Behind /\ Ahead
    BY DEF CleanInv
  <2>3. ASSUME UNCHANGED <<worktree, index, head>>, left \subseteq left',
               \/ /\ writer'[w].saved = writer[w].saved /\ writer'[w].path = writer[w].path
                  /\ writer[w].at # "commit"
               \/ p \notin writer[w].saved /\ p \notin Touched(w)
        PROVE  Behind' /\ Ahead'
    BY <2>1, <2>2, <2>3 DEF Touched
  <2>4. CASE Begin(w)
    BY <2>3, <2>4 DEF Begin, Idle, Touched
  <2>5. CASE Acquire(w)
    BY <2>3, <2>5, AcquireFacts DEF Acquire
  <2>6. CASE Timeout(w)
    BY <2>3, <2>6 DEF Timeout, ProgressInv, Touched, Locked
  <2>7. ASSUME NEW q \in Paths, Truncate(w, q) PROVE Behind' /\ Ahead'
    <3>1. /\ writer'[w].path = q /\ writer'[w].saved = writer[w].saved
          /\ writer[w].path = None /\ writer[w].at = "save"
          /\ UNCHANGED <<index, head, left>>
          /\ q # p => worktree'[p] = worktree[p]
      BY <2>7, TruncateFacts DEF Truncate, TypeOK, ProgressInv
    <3>2. Ahead'
      BY <2>1, <2>2, <3>1
    <3>3. CASE q = p
      BY <3>1, <3>2, <3>3, NoneAssumption DEF Touched
    <3>4. CASE q # p
      BY <2>1, <2>2, <3>1, <3>2, <3>4 DEF Touched
    <3>5. QED
      BY <3>3, <3>4
  <2>8. CASE WriteText(w)
    <3> DEFINE q == writer[w].path
    <3>1. /\ writer'[w].saved = writer[w].saved \union {q} /\ q \in Paths
          /\ writer[w].at = "write"
          /\ UNCHANGED <<index, head, left>>
          /\ q # p => worktree'[p] = worktree[p]
      BY <2>8, WriteTextFacts DEF WriteText, TypeOK
    <3>2. Ahead'
      BY <2>1, <2>2, <3>1
    <3>3. CASE q = p
      BY <3>1, <3>2, <3>3 DEF Touched
    <3>4. CASE q # p
      BY <2>1, <2>2, <3>1, <3>2, <3>4 DEF Touched
    <3>5. QED
      BY <3>3, <3>4
  <2>9. CASE Add(w)
    <3>1. /\ writer'[w].at = "commit" /\ writer'[w].saved = writer[w].saved
          /\ writer'[w].path = writer[w].path
          /\ writer[w].saved = DOMAIN writer[w].batch
          /\ writer[w].at = "add"
          /\ UNCHANGED <<worktree, head, left>>
          /\ index'[p] = IF p \in DOMAIN writer[w].batch THEN worktree[p] ELSE index[p]
      BY <2>9, AddFacts DEF Add, ProgressInv
    <3>2. QED
      BY <2>1, <2>2, <3>1 DEF Touched
  <2>10. CASE Commit(w)
    <3>1. /\ writer[w].at = "commit" /\ head' = index
          /\ UNCHANGED <<worktree, index>>
          /\ left' = left \ DOMAIN writer[w].batch
          /\ writer[w].path = None /\ writer[w].saved = DOMAIN writer[w].batch
          /\ \A q \in writer[w].saved : worktree[q] = writer[w].batch[q]
          /\ \A q \in DOMAIN writer[w].batch : index[q] = writer[w].batch[q]
      BY <2>10 DEF Commit, ProgressInv
    <3>2. Ahead'
      BY <3>1
    <3>3. CASE p \in DOMAIN writer[w].batch
      BY <3>1, <3>2, <3>3
    <3>4. CASE p \notin DOMAIN writer[w].batch
      BY <2>1, <2>2, <3>1, <3>2, <3>4 DEF Touched
    <3>5. QED
      BY <3>3, <3>4
  <2>11. CASE Fail(w)
    BY <2>3, <2>11 DEF Fail, Touched
  <2>12. QED
    BY <2>4, <2>5, <2>6, <2>7, <2>8, <2>9, <2>10, <2>11, BeginStep DEF Touched
<1>3. QED
  BY <1>1, <1>2

-----------------------------------------------------------------------------
(* References.                                                             *)

LEMMA References ==
  ASSUME NEW entity \in Entities
  PROVE  entity \subseteq Paths
BY SchemaAssumption DEF Entities, History!Entities

\* A file that is there stays there, and a path leaves `left' with a commit.
LEMMA FilesStay ==
  ASSUME TypeOK, ProgressInv, [Next]_vars, NEW q \in Paths
  PROVE  /\ worktree[q] # None => worktree'[q] # None
         /\ index[q] # None => index'[q] # None
         /\ q \in left /\ q \notin left' => index'[q] # None
<1>1. ASSUME NEW w \in Writers, NEW p \in Paths, Truncate(w, p)
      PROVE  worktree[q] # None => worktree'[q] # None
  BY <1>1, NoneAssumption DEF Truncate, TypeOK
<1>2. ASSUME NEW w \in Writers, WriteText(w)
      PROVE  worktree[q] # None => worktree'[q] # None
  <2>1. writer[w].batch[writer[w].path] # None
    BY <1>2, WriteTextFacts, NoneAssumption
  <2>2. QED
    BY <1>2, <2>1 DEF WriteText, TypeOK
<1>3. ASSUME NEW w \in Writers, Add(w)
      PROVE  index[q] # None => index'[q] # None
  <2>1. writer[w].batch \in Batches /\ writer[w].at = "add"
    BY <1>3, AddFacts DEF Operation, Add
  <2>2. \A p \in DOMAIN writer[w].batch : worktree[p] # None
    BY <2>1, BatchFacts DEF ProgressInv
  <2>3. QED
    BY <1>3, <2>2 DEF Add
<1>4. ASSUME NEW w \in Writers, Commit(w), q \in left, q \notin left'
      PROVE  index'[q] # None
  <2>1. /\ q \in DOMAIN writer[w].batch /\ writer[w].at = "commit" /\ index' = index
        /\ writer[w].batch \in Batches
    BY <1>4 DEF Commit, TypeOK, Operation, Idle
  <2>2. QED
    BY <2>1, BatchFacts DEF ProgressInv
<1>5. QED
  BY <1>1, <1>2, <1>3, <1>4
  DEF Next, Proceed, WriteEntity, WriteBatch, Acquire, Timeout, Truncate, WriteText, Add,
      Commit, Fail, vars

LEMMA ResolvedStays ==
  ASSUME TypeOK, ProgressInv, [Next]_vars, NEW p, NEW entity \in Entities,
         Resolved(index, p, entity)
  PROVE  Resolved(index, p, entity)'
BY FilesStay, References DEF Resolved

\* The entity a checked operation adds resolves in the index it is added to.
LEMMA AddResolves ==
  ASSUME TypeOK, LockInv, ProgressInv, CleanInv, CheckedInv,
         NEW w \in Writers, Add(w), writer[w].checked
  PROVE  \E p \in Paths, entity \in Entities :
           /\ DOMAIN writer[w].batch = {p} /\ writer[w].batch[p] = entity
           /\ \A q \in entity : q = p \/ worktree'[q] # None
           /\ Resolved(index, p, entity)'
<1>1. PICK p \in Paths : /\ DOMAIN writer[w].batch = {p}
                        /\ \A q \in writer[w].batch[p] : q = p \/ worktree[q] # None
  BY DEF CheckedInv
<1>2. /\ writer[w].at = "add" /\ writer[w].batch \in Batches
      /\ writer[w].path = None /\ writer[w].saved = {p}
      /\ worktree' = worktree /\ left' = left
      /\ UNCHANGED worktree /\ UNCHANGED left
  BY <1>1, AddFacts DEF Add, Operation, ProgressInv
<1>3. writer[w].batch[p] \in Entities
  BY <1>1, <1>2, BatchFacts
<1>4. ASSUME NEW q \in writer[w].batch[p], q # p, q \notin left
      PROVE  index'[q] # None
  <2>1. q \in Paths /\ worktree[q] # None
    BY <1>1, <1>3, <1>4, References
  <2>2. \A v \in Writers : q \notin Touched(v)
    BY <1>2, <1>4, Alone DEF Touched, Locked
  <2>3. worktree[q] = index[q]
    BY <1>4, <2>1, <2>2 DEF CleanInv
  <2>4. index'[q] = index[q]
    BY <1>1, <1>4, <2>1 DEF Add
  <2>5. QED
    BY <2>1, <2>3, <2>4
<1>5. PICK entity \in Entities : writer[w].batch[p] = entity
  BY <1>3
<1>6. Resolved(index, p, entity)'
  BY <1>2, <1>4, <1>5 DEF Resolved
<1>7. QED
  BY <1>1, <1>2, <1>5, <1>6

LEMMA CheckedStep ==
  TypeOK /\ ProgressInv /\ LockInv /\ CleanInv /\ CheckedInv /\ [Next]_vars => CheckedInv'
<1> SUFFICES ASSUME TypeOK, ProgressInv, LockInv, CleanInv, CheckedInv, Next PROVE CheckedInv'
  BY DEF CheckedInv, Resolved, vars
<1> PICK w \in Writers :
      \/ \E p \in Paths : \E entity \in Schema[p] : WriteEntity(w, p, entity)
      \/ \E batch \in Batches : WriteBatch(w, batch)
      \/ Acquire(w)
      \/ Timeout(w)
      \/ \E p \in Paths : Truncate(w, p)
      \/ WriteText(w)
      \/ Add(w)
      \/ Commit(w)
      \/ Fail(w)
  BY OneStep
<1>1. \A v \in Writers : v # w => writer'[v] = writer[v]
  BY Others DEF Proceed
<1> DEFINE Good(v) ==
      \E p \in Paths :
        /\ DOMAIN writer[v].batch = {p}
        /\ \A q \in writer[v].batch[p] : q = p \/ worktree[q] # None
        /\ writer[v].at = "commit" => Resolved(index, p, writer[v].batch[p])
<1>2. ASSUME NEW v \in Writers, writer[v].checked,
             writer'[v].batch = writer[v].batch,
             writer'[v].at = "commit" => writer[v].at = "commit"
      PROVE  Good(v)'
  <2>1. PICK p \in Paths :
          /\ DOMAIN writer[v].batch = {p}
          /\ \A q \in writer[v].batch[p] : q = p \/ worktree[q] # None
          /\ writer[v].at = "commit" => Resolved(index, p, writer[v].batch[p])
    BY <1>2 DEF CheckedInv
  <2>2. writer[v].batch \in Batches
    BY <1>2 DEF TypeOK, Operation, Idle
  <2>3. PICK entity \in Entities : writer[v].batch[p] = entity
    BY <2>1, <2>2, BatchFacts
  <2>4. writer[v].at = "commit" => Resolved(index, p, entity)'
    BY <2>1, <2>3, ResolvedStays
  <2>5. \A q \in entity : q = p \/ worktree'[q] # None
    BY <2>1, <2>3, References, FilesStay
  <2>6. Resolved(index, p, entity)' => Resolved(index, p, writer[v].batch[p])'
    BY <1>2, <2>3 DEF Resolved
  <2>7. QED
    BY <1>2, <2>1, <2>3, <2>4, <2>5, <2>6
<1>3. ASSUME writer'[w].checked => Good(w)'
      PROVE  CheckedInv'
  BY <1>1, <1>2, <1>3 DEF CheckedInv
<1>4. CASE Begin(w)
  <2>1. PICK batch \in Batches, checked \in BOOLEAN :
          /\ writer'[w] = [at |-> "lock", batch |-> batch, checked |-> checked,
                           saved |-> {}, path |-> None]
          /\ checked => \E p \in Paths : /\ DOMAIN batch = {p}
                                         /\ \A q \in batch[p] : q = p \/ worktree[q] # None
          /\ worktree' = worktree
    BY <1>4 DEF Begin
  <2>2. /\ writer'[w].at = "lock" /\ writer'[w].batch = batch
        /\ writer'[w].checked = checked
    BY <2>1
  <2>3. checked => Good(w)'
    BY <2>1, <2>2
  <2>4. QED
    BY <1>3, <2>2, <2>3
<1>5. CASE Timeout(w) \/ Commit(w) \/ Fail(w)
  BY <1>3, <1>5, IdleFacts
<1>6. ASSUME Acquire(w) \/ (\E p \in Paths : Truncate(w, p)) \/ WriteText(w)
      PROVE  CheckedInv'
  <2>1. /\ writer'[w].batch = writer[w].batch /\ writer'[w].checked = writer[w].checked
        /\ writer'[w].at # "commit"
    BY <1>6, AcquireFacts, TruncateFacts, WriteTextFacts
  <2>2. QED
    BY <1>2, <1>3, <2>1
<1>7. CASE Add(w)
  <2>1. /\ writer'[w].batch = writer[w].batch /\ writer'[w].checked = writer[w].checked
    BY <1>7, AddFacts
  <2>2. ASSUME writer[w].checked PROVE Good(w)'
    <3>1. PICK p \in Paths, entity \in Entities :
            /\ DOMAIN writer[w].batch = {p} /\ writer[w].batch[p] = entity
            /\ \A q \in entity : q = p \/ worktree'[q] # None
            /\ Resolved(index, p, entity)'
      BY <1>7, <2>2, AddResolves
    <3>2. Resolved(index, p, writer[w].batch[p])'
      BY <2>1, <3>1 DEF Resolved
    <3>3. QED
      BY <2>1, <3>1, <3>2
  <2>3. QED
    BY <1>3, <2>1, <2>2
<1>8. QED
  BY <1>4, <1>5, <1>6, <1>7, BeginStep

LEMMA RefsStep ==
  TypeOK /\ ProgressInv /\ LockInv /\ CleanInv /\ RefsInv /\ [Next]_vars => RefsInv'
<1> SUFFICES ASSUME TypeOK, ProgressInv, LockInv, CleanInv, RefsInv, [Next]_vars PROVE RefsInv'
  OBVIOUS
<1>1. CheckedInv'
  BY CheckedStep DEF RefsInv
<1> DEFINE InIndex == \A p \in Paths \ unchecked : index[p] \in Entities => Resolved(index, p, index[p])
           InHead == \A p \in Paths \ unchecked : head[p] \in Entities => Resolved(head, p, head[p])
<1>2. ASSUME UNCHANGED <<index, head>>, left \subseteq left', unchecked \subseteq unchecked'
      PROVE  InIndex' /\ InHead'
  BY <1>2 DEF RefsInv, Resolved
<1>3. ASSUME NEW w \in Writers, Add(w) PROVE InIndex' /\ InHead'
  <2>1. /\ writer[w].at = "add" /\ writer[w].saved = DOMAIN writer[w].batch
        /\ UNCHANGED <<worktree, head, left, unchecked>>
    BY <1>3 DEF Add, ProgressInv
  <2>2. InHead'
    BY <2>1 DEF RefsInv, Resolved
  <2>3. ASSUME NEW p \in Paths \ unchecked, index'[p] \in Entities
        PROVE  Resolved(index, p, index[p])'
    <3>1. CASE p \in DOMAIN writer[w].batch
      <4>1. writer[w].checked
        BY <2>1, <2>3, <3>1 DEF ProgressInv
      <4>2. PICK p0 \in Paths, entity \in Entities :
              /\ DOMAIN writer[w].batch = {p0} /\ writer[w].batch[p0] = entity
              /\ Resolved(index, p0, entity)'
        BY <1>3, <4>1, AddResolves DEF RefsInv
      <4>3. p0 = p /\ index'[p] = entity
        BY <1>3, <2>1, <3>1, <4>2 DEF Add, ProgressInv
      <4>4. QED
        BY <4>2, <4>3 DEF Resolved
    <3>2. CASE p \notin DOMAIN writer[w].batch
      <4>1. index'[p] = index[p]
        BY <1>3, <3>2 DEF Add
      <4>2. PICK entity \in Entities : index[p] = entity
        BY <2>3, <4>1
      <4>3. Resolved(index, p, entity)
        BY <2>3, <4>2 DEF RefsInv
      <4>4. Resolved(index, p, entity)'
        BY <4>3, ResolvedStays
      <4>5. QED
        BY <4>1, <4>2, <4>4 DEF Resolved
    <3>3. QED
      BY <3>1, <3>2
  <2>4. QED
    BY <2>1, <2>2, <2>3
<1>4. ASSUME NEW w \in Writers, Commit(w) PROVE InIndex' /\ InHead'
  <2>1. /\ writer[w].at = "commit" /\ index' = index /\ head' = index
        /\ unchecked' = IF writer[w].checked THEN unchecked \ DOMAIN writer[w].batch ELSE unchecked
    BY <1>4 DEF Commit
  <2>2. ASSUME NEW p \in Paths \ unchecked', index[p] \in Entities
        PROVE  Resolved(index, p, index[p])'
    <3>1. PICK entity \in Entities : index[p] = entity
      BY <2>2
    <3>2. CASE p \notin unchecked
      <4>1. Resolved(index, p, entity)
        BY <2>2, <3>1, <3>2 DEF RefsInv
      <4>2. Resolved(index, p, entity)'
        BY <4>1, ResolvedStays
      <4>3. QED
        BY <2>1, <3>1, <4>2 DEF Resolved
    <3>3. CASE p \in unchecked
      <4>1. writer[w].checked /\ p \in DOMAIN writer[w].batch
        BY <2>1, <2>2, <3>3
      <4>2. PICK p0 \in Paths : /\ DOMAIN writer[w].batch = {p0}
                               /\ Resolved(index, p0, writer[w].batch[p0])
        BY <2>1, <4>1 DEF RefsInv, CheckedInv
      <4>3. p0 = p /\ writer[w].batch[p0] = entity
        BY <2>1, <3>1, <4>1, <4>2 DEF ProgressInv
      <4>4. Resolved(index, p, entity)'
        BY <4>2, <4>3, ResolvedStays
      <4>5. QED
        BY <2>1, <3>1, <4>4 DEF Resolved
    <3>4. QED
      BY <3>2, <3>3
  <2>3. QED
    BY <2>1, <2>2 DEF Resolved
<1>5. InIndex' /\ InHead'
  BY <1>2, <1>3, <1>4
  DEF Next, Proceed, WriteEntity, WriteBatch, Acquire, Timeout, Truncate, WriteText, Fail, vars
<1>6. QED
  BY <1>1, <1>5 DEF RefsInv

-----------------------------------------------------------------------------
(* The theorems.                                                           *)

LEMMA InductiveInit == Init => IInv
<1> SUFFICES ASSUME Init PROVE IInv
  OBVIOUS
<1>1. TypeOK
  BY TypeInit
<1>2. LockInv /\ ProgressInv
  BY NoneAssumption DEF Init, Idle, LockInv, ProgressInv, Locked
<1>3. HistoryIsWhole /\ CleanInv
  BY NoneAssumption DEF Init, History!Empty, HistoryIsWhole, CleanInv
<1>4. RefsInv
  BY NoneAssumption DEF Init, Idle, History!Empty, RefsInv, CheckedInv
<1>5. QED
  BY <1>1, <1>2, <1>3, <1>4 DEF IInv

LEMMA InductiveStep == IInv /\ [Next]_vars => IInv'
BY TypeStep, LockStep, ProgressStep, WholeStep, CleanStep, RefsStep DEF IInv

LEMMA Inductive == Spec => []IInv
BY InductiveInit, InductiveStep, PTL DEF Spec

(* Every variable of the store keeps its type. *)
THEOREM TypeCorrect == Spec => []TypeOK
<1>1. IInv => TypeOK
  BY DEF IInv
<1>2. QED
  BY <1>1, Inductive, PTL

(* No half-written file gets into the index or a commit: index.add runs under
   the lock, after all of the operation's files are written. *)
THEOREM WholeHistory == Spec => []HistoryIsWhole
<1>1. IInv => HistoryIsWhole
  BY DEF IInv
<1>2. QED
  BY <1>1, Inductive, PTL

(* With the lock free, working tree, index and HEAD are the same but for the
   files of failed operations. *)
THEOREM CleanStore == Spec => []CleanWhenUnlocked
<1>1. IInv => CleanWhenUnlocked
  <2> SUFFICES ASSUME IInv, lock = None, NEW p \in Paths \ left
               PROVE  worktree[p] = index[p] /\ index[p] = head[p]
    BY DEF CleanWhenUnlocked
  <2>1. \A w \in Writers : writer[w].at \notin Locked
    BY NoneAssumption DEF IInv, LockInv
  <2>2. \A w \in Writers : writer[w].saved = {} /\ writer[w].path = None
    BY <2>1 DEF IInv, ProgressInv, Locked
  <2>3. QED
    BY <2>2 DEF IInv, CleanInv, Touched
<1>2. QED
  BY <1>1, Inductive, PTL

(* The references of a checked entity resolve in HEAD, failed operations
   aside, though they were checked against the working tree and unlocked. *)
THEOREM ReferencesResolve == Spec => []DanglingOnlyAfterFailure
<1>1. IInv => DanglingOnlyAfterFailure
  BY DEF IInv, RefsInv, Resolved, DanglingOnlyAfterFailure
<1>2. QED
  BY <1>1, Inductive, PTL

(* The store implements the abstract history: whole batches are staged, and
   each commit contains the batch of its operation as it was given. *)
THEOREM StoreImplementsHistory == Spec => HistoryOfBatches
<1>1. Init => History!Init
  <2> SUFFICES ASSUME Init PROVE History!Init
    OBVIOUS
  <2>1. \A w \in Writers : writer[w].batch = None /\ (writer[w].at = "commit") = FALSE
    BY DEF Init, Idle
  <2>2. pending = [w \in Writers |-> History!NoOperation]
    BY <2>1 DEF pending, History!NoOperation
  <2>3. QED
    BY <2>2 DEF Init, History!Init
<1>2. IInv /\ [Next]_vars => [History!Next]_(History!vars)
  <2> SUFFICES ASSUME IInv, Next PROVE History!Next \/ UNCHANGED History!vars
    BY DEF vars, History!vars, pending
  <2> PICK w \in Writers :
        \/ \E p \in Paths : \E entity \in Schema[p] : WriteEntity(w, p, entity)
        \/ \E batch \in Batches : WriteBatch(w, batch)
        \/ Acquire(w)
        \/ Timeout(w)
        \/ \E p \in Paths : Truncate(w, p)
        \/ WriteText(w)
        \/ Add(w)
        \/ Commit(w)
        \/ Fail(w)
    BY OneStep
  <2>0. TypeOK /\ ProgressInv
    BY DEF IInv
  <2>1. \A v \in Writers : v # w => writer'[v] = writer[v]
    BY <2>0, Others DEF Proceed
  <2>2. \A v \in Writers : pending[v] = [batch |-> writer[v].batch, staged |-> writer[v].at = "commit"]
    BY DEF pending
  <2>3. ASSUME NEW batch, NEW staged \in BOOLEAN,
               writer'[w].batch = batch, (writer'[w].at = "commit") = staged
        PROVE  pending' = [pending EXCEPT ![w] = [batch |-> batch, staged |-> staged]]
    BY <2>1, <2>3 DEF pending
  <2>4. CASE Begin(w)
    <3>1. PICK batch \in Batches :
            /\ writer[w] = Idle
            /\ writer'[w].batch = batch /\ writer'[w].at = "lock"
            /\ UNCHANGED <<index, head>>
      BY <2>4 DEF Begin
    <3>2. pending[w] = History!NoOperation
      <4>1. writer[w].batch = None /\ writer[w].at = "idle"
        BY <3>1 DEF Idle
      <4>2. pending[w] = [batch |-> None, staged |-> FALSE]
        BY <2>2, <4>1
      <4>3. QED
        BY <4>2 DEF History!NoOperation
    <3>3. pending' = [pending EXCEPT ![w] = [batch |-> batch, staged |-> FALSE]]
      BY <2>3, <3>1
    <3>4. History!Begin(w, batch)
      BY <3>1, <3>2, <3>3 DEF History!Begin
    <3>5. QED
      BY <3>4 DEF History!Next, Batches
  <2>5. CASE Timeout(w) \/ Fail(w)
    <3>1. writer'[w].batch = None /\ writer'[w].at = "idle" /\ UNCHANGED <<index, head>>
      BY <2>0, <2>5, IdleFacts DEF Timeout, Fail, Idle
    <3>2. pending' = [pending EXCEPT ![w] = History!NoOperation]
      BY <2>3, <3>1 DEF History!NoOperation
    <3>3. QED
      BY <3>1, <3>2 DEF History!Abandon, History!Next
  <2>6. CASE Acquire(w) \/ (\E p \in Paths : Truncate(w, p)) \/ WriteText(w)
    <3>1. writer'[w].batch = writer[w].batch /\ writer[w].at # "commit" /\ writer'[w].at # "commit"
      BY <2>0, <2>6, AcquireFacts, TruncateFacts, WriteTextFacts
      DEF Acquire, Truncate, WriteText
    <3>2. UNCHANGED <<index, head>>
      BY <2>6 DEF Acquire, Truncate, WriteText
    <3>3. UNCHANGED pending
      BY <2>1, <3>1 DEF pending
    <3>4. QED
      BY <3>2, <3>3 DEF History!vars
  <2>7. CASE Add(w)
    <3>1. /\ writer[w].at = "add" /\ writer[w].batch \in Batches
          /\ writer'[w].at = "commit" /\ writer'[w].batch = writer[w].batch
      BY <2>0, <2>7, AddFacts DEF Add, Operation
    <3>2. /\ writer[w].saved = DOMAIN writer[w].batch
          /\ \A p \in writer[w].saved : worktree[p] = writer[w].batch[p]
      BY <2>0, <3>1 DEF ProgressInv
    <3>3. /\ index' = History!Overlay(writer[w].batch, index)
          /\ UNCHANGED head
      BY <2>7, <3>2 DEF Add, History!Overlay
    <3>4. pending[w] = [batch |-> writer[w].batch, staged |-> FALSE]
      BY <2>2, <3>1
    <3>5. pending' = [pending EXCEPT ![w] = [batch |-> writer[w].batch, staged |-> TRUE]]
      BY <2>3, <3>1
    <3>6. pending[w] # History!NoOperation
      BY <3>1, <3>4, NoneAssumption DEF History!NoOperation
    <3>7. History!Stage(w)
      BY <3>3, <3>4, <3>5, <3>6 DEF History!Stage
    <3>8. QED
      BY <3>7 DEF History!Next
  <2>8. CASE Commit(w)
    <3>1. /\ writer[w].at = "commit" /\ writer'[w].batch = None /\ writer'[w].at = "idle"
          /\ head' = index /\ UNCHANGED index
      BY <2>0, <2>8, IdleFacts DEF Commit, Idle
    <3>2. \A p \in DOMAIN writer[w].batch : index[p] = writer[w].batch[p]
      BY <2>0, <3>1 DEF ProgressInv
    <3>3. index = History!Overlay(writer[w].batch, index)
      BY <2>0, <3>2 DEF History!Overlay, TypeOK
    <3>4. pending[w] = [batch |-> writer[w].batch, staged |-> TRUE]
      BY <2>2, <3>1
    <3>5. pending' = [pending EXCEPT ![w] = History!NoOperation]
      BY <2>3, <3>1 DEF History!NoOperation
    <3>6. History!Publish(w)
      BY <3>1, <3>3, <3>4, <3>5 DEF History!Publish
    <3>7. QED
      BY <3>6 DEF History!Next
  <2>9. QED
    BY <2>0, <2>4, <2>5, <2>6, <2>7, <2>8, BeginStep
<1>3. QED
  BY <1>1, <1>2, Inductive, PTL DEF Spec, HistoryOfBatches, History!Spec
=============================================================================
