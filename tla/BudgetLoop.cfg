\* Two PUTs by hand, two faults.
CONSTANTS
  Budgets = {0, 5}
  MaxRecords = 6
  MaxManual = 2
  MaxFaults = 2
SPECIFICATION FairSpec
INVARIANTS
  BlockIsVerdict
  TrainingDrains
PROPERTIES
  BlockFollowsBudget
