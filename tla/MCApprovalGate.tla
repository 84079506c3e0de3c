--------------------------- MODULE MCApprovalGate ---------------------------
(***************************************************************************)
(* The instances of ApprovalGate that TLC checks.                          *)
(***************************************************************************)
EXTENDS ApprovalGate, TLC

\* Ids are drawn at random, and targets and requests are alike: permuting them
\* changes nothing.
Symmetry == Permutations(Proposals) \union Permutations(Records)
            \union Permutations(Targets) \union Permutations(Requests)

\* One handler that dies after it wrote, and one record of the CRUD API, at a time.
FewAccidents ==
  /\ Cardinality(orphans) <= 1
  /\ Cardinality({r \in Records : origin[r] = Direct}) <= 1

\* The stop and the files have nothing in common but the requests: the stop goes on
\* only while no body is on the loop, and a second request is in flight only while
\* no accident has happened.
StopWhenCalm ==
  /\ stopped => loop = Idle
  /\ Cardinality({q \in Requests : call[q] # NoCall}) > 1 =>
       orphans = {} /\ byHand = {}

Bounded == FewAccidents /\ StopWhenCalm
=============================================================================
