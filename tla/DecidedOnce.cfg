\* Two proposals, two approval records, two targets, no more than one L1 request in flight.
CONSTANTS
  Proposals = {p1, p2}
  Records = {r1, r2}
  Targets = {e1, e2}
  Requests = {q1}
  None = None
SPECIFICATION Spec
SYMMETRY Symmetry
CONSTRAINT Bounded
INVARIANTS
  DecidedOnce
