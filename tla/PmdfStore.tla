------------------------------ MODULE PmdfStore ------------------------------
(***************************************************************************)
(* The Git-backed entity store of the api-server (pmdf_store/store.py,     *)
(* pmdf_store/lock.py, pmdf/io.py) and the checks the CRUD endpoints make  *)
(* before they write to it (routers/pmdf.py).                              *)
(*                                                                         *)
(* Any number of writers share one repository: the event loop of the       *)
(* api-server and whatever other process opens the same directory, which   *)
(* is what the cross-process file lock is for. The lock covers the writing *)
(* of the files, index.add and index.commit; the checks that come before   *)
(* read the working tree without it. A writer may fail, or its process may *)
(* die, between any two effects: the lock is then released by the context  *)
(* manager or by the operating system, and nothing is undone.              *)
(***************************************************************************)
EXTENDS FiniteSets

CONSTANTS
  Paths,     \* the files <kind>/<id>.yaml; an id has one kind
  Schema,    \* the contents the JSON Schema of its kind allows each file, a content
             \* being reduced to the set of paths it refers to
  Writers,   \* the threads and processes that call the store
  None,      \* no file, no lock holder, no path
  Torn       \* a file that write_text has truncated and not yet written

ASSUME SchemaAssumption == Schema \in [Paths -> SUBSET SUBSET Paths]

VARIABLES
  worktree,   \* the files in the working tree
  index,      \* the files in the Git index
  head,       \* the files in the tree of HEAD
  lock,       \* the holder of .pmdf.lock
  writer,     \* the operation each writer is in
  left,       \* (history) paths a failed operation wrote and no commit has covered since
  unchecked   \* (history) paths written without a reference check and not checked since

vars == <<worktree, index, head, lock, writer, left, unchecked>>

\* The abstract history that index and HEAD implement. An operation counts as
\* staged between its index.add and its index.commit.
pending ==
  [w \in Writers |-> [batch |-> writer[w].batch, staged |-> writer[w].at = "commit"]]
History == INSTANCE BatchHistory WITH staged <- index

Entities == History!Entities
Batches == History!Batches
Overlay(batch, tree) == History!Overlay(batch, tree)

ASSUME NoneAssumption ==
  None \notin Entities \union Writers \union Paths \union {Torn} \union Batches
ASSUME TornAssumption == Torn \notin Entities

Contents == Entities \union {None, Torn}

Idle == [at |-> "idle", batch |-> None, checked |-> FALSE, saved |-> {}, path |-> None]
Operation == [at : {"lock", "save", "write", "add", "commit"}, batch : Batches,
              checked : BOOLEAN, saved : SUBSET Paths, path : Paths \union {None}]
Locked == {"save", "write", "add", "commit"}

Accepted(batch, checked) ==
  [at |-> "lock", batch |-> batch, checked |-> checked, saved |-> {}, path |-> None]

Init ==
  /\ worktree = History!Empty
  /\ index = History!Empty
  /\ head = History!Empty
  /\ lock = None
  /\ writer = [w \in Writers |-> Idle]
  /\ left = {}
  /\ unchecked = {}

-----------------------------------------------------------------------------
(* What happens before the store is called.                                *)

\* Mutant: the references of the candidate are not looked up.
NoReferenceCheck(p, entity) == \A q \in Paths : worktree[q] # Torn

(* _validate_schema_and_references: every file of the working tree is loaded,
   and load_entity raises on a truncated one; then each reference of the
   candidate must name a file that is there, or the candidate itself. *)
ValidReferences(p, entity) ==
  /\ \A q \in Paths : worktree[q] # Torn
  /\ \A q \in entity : q = p \/ worktree[q] # None

(* POST and PUT /pmdf/{kind}: the reference check, then store.create or
   store.update of the one entity. A candidate that fails is answered 422 or
   500 and changes nothing. *)
WriteEntity(w, p, entity) ==
  /\ writer[w] = Idle
  /\ ValidReferences(p, entity)
  /\ writer' = [writer EXCEPT ![w] = Accepted([q \in {p} |-> entity], TRUE)]
  /\ UNCHANGED <<worktree, index, head, lock, left, unchecked>>

(* decide (one Approval) and POST /import/apply (save_all of a bundle) call the
   store with no look at the references; save_all returns at once from an empty
   list, which is why no batch is empty. *)
WriteBatch(w, batch) ==
  /\ writer[w] = Idle
  /\ writer' = [writer EXCEPT ![w] = Accepted(batch, FALSE)]
  /\ UNCHANGED <<worktree, index, head, lock, left, unchecked>>

-----------------------------------------------------------------------------
(* repo_write_lock.                                                        *)

\* Mutant: the lock is taken though somebody has it.
AcquireAnyway(w) ==
  /\ writer[w].at = "lock"
  /\ lock' = w
  /\ writer' = [writer EXCEPT ![w].at = "save"]
  /\ UNCHANGED <<worktree, index, head, left, unchecked>>

Acquire(w) ==
  /\ writer[w].at = "lock"
  /\ lock = None
  /\ lock' = w
  /\ writer' = [writer EXCEPT ![w].at = "save"]
  /\ UNCHANGED <<worktree, index, head, left, unchecked>>

\* Mutant: a writer waits for the lock with no limit.
WaitForever(w) == FALSE /\ UNCHANGED vars

(* LockTimeoutError: somebody else has had the lock for as long as the writer
   was ready to wait. *)
Timeout(w) ==
  /\ writer[w].at = "lock"
  /\ lock # None
  /\ writer' = [writer EXCEPT ![w] = Idle]
  /\ UNCHANGED <<worktree, index, head, lock, left, unchecked>>

-----------------------------------------------------------------------------
(* _commit and save_all under the lock.                                    *)

(* save_entity, first half: write_text opens the file and thereby empties it. *)
Truncate(w, p) ==
  /\ writer[w].at = "save"
  /\ p \in DOMAIN writer[w].batch \ writer[w].saved
  /\ worktree' = [worktree EXCEPT ![p] = Torn]
  /\ writer' = [writer EXCEPT ![w] = [@ EXCEPT !.at = "write", !.path = p]]
  /\ UNCHANGED <<index, head, lock, left, unchecked>>

(* save_entity, second half. *)
WriteText(w) ==
  /\ writer[w].at = "write"
  /\ LET p == writer[w].path
         saved == writer[w].saved \union {p}
     IN  /\ worktree' = [worktree EXCEPT ![p] = writer[w].batch[p]]
         /\ writer' = [writer EXCEPT ![w] =
              [@ EXCEPT !.at = IF saved = DOMAIN writer[w].batch THEN "add" ELSE "save",
                        !.saved = saved, !.path = None]]
         /\ unchecked' = IF writer[w].checked THEN unchecked ELSE unchecked \union {p}
  /\ UNCHANGED <<index, head, lock, left>>

\* Mutants: each file is added as soon as it is written; only one is added.
AddPartially(w) ==
  /\ writer[w].at \in {"save", "add"}
  /\ index' = [p \in Paths |-> IF p \in writer[w].saved THEN worktree[p] ELSE index[p]]
  /\ writer' = [writer EXCEPT ![w].at = IF @ = "add" THEN "commit" ELSE @]
  /\ UNCHANGED <<worktree, head, lock, left, unchecked>>

AddOne(w) ==
  /\ writer[w].at = "add"
  /\ \E q \in DOMAIN writer[w].batch : index' = [index EXCEPT ![q] = worktree[q]]
  /\ writer' = [writer EXCEPT ![w].at = "commit"]
  /\ UNCHANGED <<worktree, head, lock, left, unchecked>>

(* index.add of all the files, read back from the working tree. *)
Add(w) ==
  /\ writer[w].at = "add"
  /\ index' = [p \in Paths |-> IF p \in DOMAIN writer[w].batch THEN worktree[p] ELSE index[p]]
  /\ writer' = [writer EXCEPT ![w].at = "commit"]
  /\ UNCHANGED <<worktree, head, lock, left, unchecked>>

(* index.commit writes the whole index as the new tree of HEAD, whoever staged
   what is in it; the lock is released. *)
Commit(w) ==
  /\ writer[w].at = "commit"
  /\ head' = index
  /\ lock' = None
  /\ writer' = [writer EXCEPT ![w] = Idle]
  /\ left' = left \ DOMAIN writer[w].batch
  /\ unchecked' = IF writer[w].checked THEN unchecked \ DOMAIN writer[w].batch ELSE unchecked
  /\ UNCHANGED <<worktree, index>>

(* The operation ends half-way, by an exception or with its process. *)
Fail(w) ==
  /\ writer[w].at # "idle"
  /\ lock' = IF writer[w].at \in Locked THEN None ELSE lock
  /\ left' = left \union writer[w].saved \union ({writer[w].path} \ {None})
  /\ writer' = [writer EXCEPT ![w] = Idle]
  /\ UNCHANGED <<worktree, index, head, unchecked>>

-----------------------------------------------------------------------------
\* What a writer does without further input; each of these calls returns.
Proceed(w) ==
  \/ Acquire(w)
  \/ Timeout(w)
  \/ \E p \in Paths : Truncate(w, p)
  \/ WriteText(w)
  \/ Add(w)
  \/ Commit(w)

Next ==
  \E w \in Writers :
    \/ \E p \in Paths : \E entity \in Schema[p] : WriteEntity(w, p, entity)
    \/ \E batch \in Batches : WriteBatch(w, batch)
    \/ Proceed(w)
    \/ Fail(w)

Spec == Init /\ [][Next]_vars
FairSpec == Spec /\ \A w \in Writers : WF_vars(Proceed(w))
-----------------------------------------------------------------------------
(* Properties.                                                             *)

(* The types of all variables. *)
TypeOK ==
  /\ worktree \in [Paths -> Contents]
  /\ index \in [Paths -> Contents]
  /\ head \in [Paths -> Contents]
  /\ lock \in Writers \union {None}
  /\ writer \in [Writers -> Operation \union {Idle}]
  /\ left \subseteq Paths
  /\ unchecked \subseteq Paths

(* A half-written file stays in the working tree: neither the index nor any
   commit ever holds one, however writers interleave and wherever they fail
   (index.add in store.py comes after every save_entity, under the lock). *)
HistoryIsWhole == \A p \in Paths : index[p] # Torn /\ head[p] # Torn

(* While nobody holds the lock, working tree, index and HEAD agree on every
   file except those a failed operation left behind (store.py, _commit). *)
CleanWhenUnlocked ==
  lock = None =>
    \A p \in Paths \ left : worktree[p] = index[p] /\ index[p] = head[p]

(* What a committed entity refers to is committed too, unless a failed
   operation left the file uncommitted or the entity came in by a path with no
   check. The check of routers/pmdf.py reads the working tree before the lock is
   taken, and is still good when the commit is made. *)
DanglingOnlyAfterFailure ==
  \A p \in Paths : head[p] \in Entities =>
    \A q \in head[p] : q = p \/ head[q] # None \/ q \in left \/ p \in unchecked

(* HEAD advances by whole batches in the order they were staged (store.py,
   save_all: "many entities in one commit"). *)
HistoryOfBatches == History!Spec

(* Every operation the store accepts ends, with a commit, a LockTimeoutError or
   another failure, even if the lock always goes to somebody else (lock.py). *)
OperationsEnd ==
  \A w \in Writers : writer[w].at # "idle" ~> writer[w].at = "idle"

(* store.py says one operation is one commit: a commit changes the files of the
   operation that makes it and no others.  It does not hold: what an operation
   has staged before it fails goes with the next commit. *)
OneOperationOneCommit ==
  [][\A w \in Writers : Commit(w) =>
       \A p \in Paths : head'[p] # head[p] => p \in DOMAIN writer[w].batch]_vars
=============================================================================
