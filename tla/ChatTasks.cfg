\* A runner and a caller, two instructions, a graph of two nodes, two faults.
CONSTANTS
  Runners = {r1}
  Callers = {c1}
  Nodes = 2
  MaxTasks = 2
  MaxFaults = 2
SPECIFICATION FairSpec
INVARIANTS
  DispatchedOnce
  RunningHasWorker
  StopInterrupts
PROPERTIES
  InstructionsEnd
