\* Two runs, two targets, two risks.
CONSTANTS
  None = None
  Runs = {r1, r2}
  Targets = {t1, t2}
  MaxRisks = 2
SYMMETRY Interchangeable
SPECIFICATION GraphsSpec
INVARIANTS
  HalfDoneOnlyByFailure
  StopSparesOnlyLoose
