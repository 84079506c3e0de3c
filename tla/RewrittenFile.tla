---------------------------- MODULE RewrittenFile ----------------------------
(***************************************************************************)
(* A JSON file that requests on worker threads rewrite with no lock, by    *)
(* write_text, which truncates the file when it opens it.                  *)
(***************************************************************************)

CONSTANT Torn \* a file that is empty or holds pieces of two texts: json.loads raises

\* What the file holds after a writer that opened it earlier writes new: if
\* another writer has written since, a longer text of its may stick out.
Written(old, new) == IF old \in {Torn, new} THEN {new} ELSE {new, Torn}
=============================================================================
