\* Two proposals, two approval records, two targets, two L1 requests in flight.
CONSTANTS
  Proposals = {p1, p2}
  Records = {r1, r2}
  Targets = {e1, e2}
  Requests = {q1, q2}
  None = None
SPECIFICATION Spec
SYMMETRY Symmetry
CONSTRAINT Bounded
INVARIANTS
  DecidedIsRecorded
  OneRecordPerProposal
  ExecutionIsBacked
  StopDrains
