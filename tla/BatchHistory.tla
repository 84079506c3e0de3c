---------------------------- MODULE BatchHistory ----------------------------
(***************************************************************************)
(* What the PMDF store promises of its Git history, without locks, files   *)
(* or half-done work: each operation has a batch of entities, which enters *)
(* the index as a whole; the operation then commits the index, with its    *)
(* own batch as it was given, or it is abandoned. What an abandoned        *)
(* operation has staged goes with the next commit.                         *)
(***************************************************************************)
CONSTANTS
  Paths,     \* the files <kind>/<id>.yaml
  Schema,    \* the contents the JSON Schema of its kind allows each file
  Writers,   \* those who may have an operation under way
  None       \* no file under the path, no operation

VARIABLES
  pending,   \* the batch of each writer's operation, and whether it is staged
  staged,    \* the tree in the index
  head       \* the tree of HEAD

vars == <<pending, staged, head>>

Entities == UNION {Schema[p] : p \in Paths}

Batches ==
  {batch \in UNION {[paths -> Entities] : paths \in (SUBSET Paths) \ {{}}} :
     \A p \in DOMAIN batch : batch[p] \in Schema[p]}

Empty == [p \in Paths |-> None]
NoOperation == [batch |-> None, staged |-> FALSE]

Overlay(batch, tree) ==
  [p \in Paths |-> IF p \in DOMAIN batch THEN batch[p] ELSE tree[p]]

Init ==
  /\ pending = [w \in Writers |-> NoOperation]
  /\ staged = Empty
  /\ head = Empty

Begin(w, batch) ==
  /\ pending[w] = NoOperation
  /\ pending' = [pending EXCEPT ![w] = [batch |-> batch, staged |-> FALSE]]
  /\ UNCHANGED <<staged, head>>

Stage(w) ==
  /\ pending[w] # NoOperation /\ ~pending[w].staged
  /\ staged' = Overlay(pending[w].batch, staged)
  /\ pending' = [pending EXCEPT ![w] = [batch |-> pending[w].batch, staged |-> TRUE]]
  /\ UNCHANGED head

Publish(w) ==
  /\ pending[w].staged
  /\ staged = Overlay(pending[w].batch, staged)
  /\ head' = staged
  /\ pending' = [pending EXCEPT ![w] = NoOperation]
  /\ UNCHANGED staged

Abandon(w) ==
  /\ pending' = [pending EXCEPT ![w] = NoOperation]
  /\ UNCHANGED <<staged, head>>

Next ==
  \E w \in Writers :
    \/ \E batch \in Batches : Begin(w, batch)
    \/ Stage(w)
    \/ Publish(w)
    \/ Abandon(w)

Spec == Init /\ [][Next]_vars
=============================================================================
