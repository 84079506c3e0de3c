----------------------------- MODULE MCPmdfStore -----------------------------
(***************************************************************************)
(* The instances of PmdfStore that TLC checks.                             *)
(***************************************************************************)
EXTENDS PmdfStore

CONSTANTS p1, p2

\* p1 is of a kind without references, p2 of a kind that may refer to p1.
MCSchema == [p \in Paths |-> IF p = p1 THEN {{}} ELSE {{}, {p1}}]
=============================================================================
