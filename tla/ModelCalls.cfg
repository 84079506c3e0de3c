\* Two tasks, three faults; a judge that gives 2 or 4: a mean of three passes
\* with a single 2.
CONSTANTS
  Tasks = {t1, t2}
  Chain <- MCChain
  Deployed = {"pdm-large", "pdm-small"}
  NumRetries = 1
  MaxFaults = 3
  Scenarios = {s1, s2}
  Priority = {s2}
  Count = 2
  StoryDraft <- MCStoryDraft
  StoryRequired <- MCStoryRequired
  Scores = {2, 4}
  MaxTrainings = 2
SPECIFICATION MCSpec
INVARIANTS
  TriesInOrder
  PendingIsQueued
  TrainsOnPassed
  RunsAreIndependent
  LogIsBacked
PROPERTIES
  EndSurvives
  TasksEnd
  RunsEnd
CHECK_DEADLOCK FALSE
