---------------------------- MODULE KnowledgeIndex ----------------------------
(***************************************************************************)
(* The vector index (services/kb-ingest) beside the editor that feeds it:  *)
(* PmdfIndexer.consume_forever, which takes the events of EntityEditing's  *)
(* writes one by one; QdrantKbStore; and the commands ingest and recreate. *)
(*                                                                         *)
(* A vector is the number of its dimensions.  The indexed text of an       *)
(* entity is one of its fields, 0 when it is blank.  The corpus is one     *)
(* file, the sequence of the lengths of its sections, or empty at first.   *)
(***************************************************************************)
EXTENDS EntityEditing, SequencesExt

CONSTANTS
  TextField, \* the field that extract_entity_text takes
  Corpus,    \* contents that the file can have
  MaxChars,  \* of a chunk, 500 in the code
  Overlap    \* of the chunks of one section, 50 in the code

ASSUME CorpusAssumption == Corpus \subseteq Seq(Nat)
ASSUME ChunksAssumption == MaxChars \in Nat \ {0} /\ Overlap \in Nat
ASSUME TextAssumption == TextField \in Fields

VARIABLES
  consumer,   \* consume_forever: idle, asked, embedding or dead, at an entity, with its text
  dim,        \* dimensions of the embedding model
  collection, \* dimensions of the collection, 0 when there is none
  points,     \* the text of an entity's point, 0 when there is none
  chunks,     \* the file's points, by chunk_index
  file,       \* the file: its content and revision
  ingest,     \* the command ingest: the file as it was read, or idle
  recreate,   \* the command recreate: idle, or the dimensions it will create
  dropped,    \* (history) entities whose event, or point, came to nothing
  ingested    \* (history) the revision of the file that was ingested last, 0 if it is lost

index == <<consumer, dim, collection, points, chunks, file, ingest, recreate, dropped, ingested>>
pages == <<stored, rev, fieldRev, client, puts>>
documentVars == <<editing, index>>

Unread == [rev |-> 0, sections |-> <<>>]

IndexInit ==
  /\ consumer = [at |-> "idle", id |-> AnyId, text |-> 0]
  /\ dim = 1 /\ collection = 0
  /\ points = [e \in Ids |-> 0] /\ chunks = <<>>
  /\ file = Unread
  /\ ingest = Unread /\ recreate = 0
  /\ dropped = Ids /\ ingested = 0

-----------------------------------------------------------------------------
(* The indexer.                                                            *)

(* queue.get, and the request for the entity. *)
Take ==
  /\ consumer.at = "idle" /\ events # <<>>
  /\ consumer' = [at |-> "asked", id |-> Head(events), text |-> 0]
  /\ events' = Tail(events)
  /\ UNCHANGED <<pages, silent, inputs, dim, collection, points, chunks, file, ingest, recreate,
                 dropped, ingested>>

\* The event is over without a point.
Skip == consumer' = [consumer EXCEPT !.at = "idle"] /\ dropped' = dropped \cup {consumer.id}

(* The entity arrives; one without text is skipped, and a point it has stays. *)
Fetched ==
  /\ consumer.at = "asked"
  /\ LET text == stored[consumer.id][TextField] IN
       IF text = 0 THEN Skip
       ELSE consumer' = [consumer EXCEPT !.at = "embedding", !.text = text] /\ dropped' = dropped
  /\ UNCHANGED <<pages, events, silent, inputs, dim, collection, points, chunks, file, ingest,
                 recreate, ingested>>

(* The entity is not found, or no embedding comes back. *)
ComesToNothing ==
  /\ consumer.at \in {"asked", "embedding"} /\ AnInput
  /\ Skip
  /\ UNCHANGED <<pages, events, silent, dim, collection, points, chunks, file, ingest, recreate,
                 ingested>>

(* The embedding client, the store or the API raise: consume_forever ends. *)
ConsumerDies ==
  /\ consumer.at \in {"asked", "embedding"} /\ AnInput
  /\ consumer' = [consumer EXCEPT !.at = "dead"]
  /\ UNCHANGED <<pages, events, silent, dim, collection, points, chunks, file, ingest, recreate,
                 dropped, ingested>>

(* Somebody starts it again, on a queue of its own. *)
ConsumerRestarts ==
  /\ consumer.at = "dead" /\ AnInput
  /\ consumer' = [consumer EXCEPT !.at = "idle"]
  /\ events' = <<>>
  /\ dropped' = dropped \cup Range(events) \cup {consumer.id}
  /\ UNCHANGED <<pages, silent, dim, collection, points, chunks, file, ingest, recreate, ingested>>

\* _ensure_collection passes, and leaves a collection of these dimensions.
Ensured == collection \in {0, dim} /\ collection' = dim

(* upsert_pmdf_entity: the entity has one point, which is replaced. *)
Upsert ==
  /\ consumer.at = "embedding"
  /\ Ensured
  /\ points' = [points EXCEPT ![consumer.id] = consumer.text]
  /\ dropped' = dropped \ {consumer.id}
  /\ consumer' = [consumer EXCEPT !.at = "idle"]
  /\ UNCHANGED <<pages, events, silent, inputs, dim, chunks, file, ingest, recreate, ingested>>

\* Mutant: a vector that does not fit is tried for ever.
TryAgain == consumer.at = "embedding" /\ collection \notin {0, dim} /\ UNCHANGED documentVars

(* CollectionDimensionMismatchError *)
Mismatch ==
  /\ consumer.at = "embedding" /\ collection \notin {0, dim}
  /\ consumer' = [consumer EXCEPT !.at = "dead"]
  /\ UNCHANGED <<pages, events, silent, inputs, dim, collection, points, chunks, file, ingest,
                 recreate, dropped, ingested>>

-----------------------------------------------------------------------------
(* The commands, and the operator of docs/kb-embedding-switch.md.          *)

\* Mutant: the overlap is added to the step.
SplitApart(n) ==
  LET step == MaxChars + Overlap
      Ends(k) == k * step + MaxChars >= n
      last == CHOOSE k \in 0..n : Ends(k) /\ \A j \in 0..n : Ends(j) => k <= j
  IN [k \in 1..(last + 1) |-> <<(k - 1) * step, Min({(k - 1) * step + MaxChars, n})>>]

\* _split_fixed_length: where the parts of a section of n characters begin and end.
SplitFixedLength(n) ==
  LET step == Max({MaxChars - Overlap, 1})
      Ends(k) == k * step + MaxChars >= n
      last == CHOOSE k \in 0..n : Ends(k) /\ \A j \in 0..n : Ends(j) => k <= j
  IN [k \in 1..(last + 1) |-> <<(k - 1) * step, Min({(k - 1) * step + MaxChars, n})>>]

\* chunk_document: the chunks of the sections that are not blank.
ChunkDocument(f) ==
  FlattenSeq([s \in DOMAIN f.sections |->
    IF f.sections[s] = 0 THEN <<>>
    ELSE LET parts == SplitFixedLength(f.sections[s]) IN
         [k \in DOMAIN parts |-> [rev |-> f.rev, section |-> s,
                                  from |-> parts[k][1], to |-> parts[k][2]]]])

(* The command reads and splits the file; without chunks there is nothing to do. *)
IngestReads ==
  /\ ingest = Unread /\ AnInput
  /\ ChunkDocument(file) # <<>>
  /\ ingest' = file
  /\ UNCHANGED <<pages, events, silent, consumer, dim, collection, points, chunks, file, recreate,
                 dropped, ingested>>

(* upsert_kb_chunks: a chunk replaces the one of its index; those beyond stay. *)
IngestUpserts ==
  /\ ingest # Unread /\ Ensured
  /\ LET new == ChunkDocument(ingest) IN
       chunks' = new \o SubSeq(chunks, Len(new) + 1, Len(chunks))
  /\ ingested' = ingest.rev /\ ingest' = Unread
  /\ UNCHANGED <<pages, events, silent, inputs, consumer, dim, points, file, recreate, dropped>>

(* The dimensions differ, or the embedding or the store raises. *)
IngestFails ==
  /\ ingest # Unread
  /\ \/ collection \notin {0, dim} /\ UNCHANGED inputs
     \/ AnInput
  /\ ingest' = Unread
  /\ UNCHANGED <<pages, events, silent, consumer, dim, collection, points, chunks, file,
                 recreate, dropped, ingested>>

(* recreate deletes the collection ... *)
RecreateDeletes(d) ==
  /\ recreate = 0 /\ AnInput
  /\ recreate' = d /\ collection' = 0
  /\ points' = [e \in Ids |-> 0] /\ dropped' = Ids
  /\ chunks' = <<>> /\ ingested' = 0
  /\ UNCHANGED <<pages, events, silent, consumer, dim, file, ingest>>

(* ... and creates it, which fails if another process was faster. *)
RecreateCreates ==
  /\ recreate # 0 /\ recreate' = 0
  /\ collection' = IF collection = 0 THEN recreate ELSE collection
  /\ UNCHANGED <<pages, events, silent, inputs, consumer, dim, points, chunks, file, ingest,
                 dropped, ingested>>

SwitchModel ==
  /\ AnInput /\ dim' = 3 - dim
  /\ UNCHANGED <<pages, events, silent, consumer, collection, points, chunks, file, ingest,
                 recreate, dropped, ingested>>

EditFile(s) ==
  /\ AnInput /\ file' = [rev |-> file.rev + 1, sections |-> s]
  /\ UNCHANGED <<pages, events, silent, consumer, dim, collection, points, chunks, ingest,
                 recreate, dropped, ingested>>

(* The event of an entity is sent again. *)
Resend(e) ==
  /\ AnInput /\ Announce(e)
  /\ UNCHANGED <<pages, index>>

-----------------------------------------------------------------------------
ConsumerSteps == Take \/ Fetched \/ Upsert \/ Mismatch

IndexNext ==
  \/ ConsumerSteps \/ ComesToNothing \/ ConsumerDies \/ ConsumerRestarts
  \/ IngestReads \/ IngestUpserts \/ IngestFails
  \/ \E d \in {1, 2} : RecreateDeletes(d)
  \/ RecreateCreates \/ SwitchModel
  \/ \E s \in Corpus : EditFile(s)
  \/ \E e \in Ids : Resend(e)

DocumentsInit == EditingInit /\ IndexInit
DocumentsNext == (EditingNext /\ UNCHANGED index) \/ IndexNext

DocumentsSpec == DocumentsInit /\ [][DocumentsNext]_documentVars

(* The task that consumes the events runs while it can. *)
DocumentsFairSpec == DocumentsSpec /\ WF_documentVars(ConsumerSteps)

-----------------------------------------------------------------------------
(* What each variable holds. *)
DocumentsTypeOK ==
  /\ EditingTypeOK
  /\ consumer.at \in {"idle", "asked", "embedding", "dead"} /\ consumer.id \in Ids
  /\ dim \in {1, 2} /\ collection \in 0..2 /\ recreate \in 0..2
  /\ \A e \in Ids : points[e] \in Values
  /\ dropped \subseteq Ids /\ ingested \in 0..file.rev /\ file.sections \in Corpus \cup {<<>>}

\* The event of an entity is queued or being handled, by a consumer that may have died of it.
Pending(e) == e \in Range(events) \/ (consumer.at # "idle" /\ consumer.id = e)

(* The index follows the store: the text of an entity is that of its point, unless its
   event is on its way, came to nothing or was never sent, or its point was deleted
   and not written again. *)
EntitiesAreCurrent ==
  \A e \in Ids : \/ points[e] = stored[e][TextField]
                 \/ Pending(e) \/ e \in dropped \cup silent

(* Once the file was ingested, and until it changes or the collection is deleted, every
   character of it is in a chunk of its own revision. *)
FileIsCurrent ==
  ingested = file.rev =>
    \A s \in DOMAIN file.sections : \A c \in 0..(file.sections[s] - 1) :
      \E k \in DOMAIN chunks : /\ chunks[k].rev = file.rev /\ chunks[k].section = s
                               /\ chunks[k].from <= c /\ c < chunks[k].to

(* Both halves of the index. *)
IndexIsCurrent == EntitiesAreCurrent /\ FileIsCurrent

(* When nobody writes any more, every event is handled in the end, unless the consumer
   has died of one. *)
EventsAreHandled == <>[](consumer.at = "dead" \/ \A e \in Ids : ~ Pending(e))
=============================================================================
