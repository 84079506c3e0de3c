--------------------------- MODULE MCKnowledgeIndex ---------------------------
(* Two entities of two fields; a file of two overlapping chunks, or of one behind a
   blank section. *)
EXTENDS KnowledgeIndex

CONSTANTS a, b, said, rest

MCCorpus == {<<5>>, <<0, 2>>}
=============================================================================
