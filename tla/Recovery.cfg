\* Five titles, a listing of five, one foreign issue, two faults; two logins, one topic
\* with up to three changes, two connections that break.
CONSTANTS
  e1 = e1
  e2 = e2
  s1 = s1
  s2 = s2
  s3 = s3
  Epics = {e1, e2}
  Subs = {s1, s2, s3}
  EpicOf <- MCEpicOf
  Other = Other
  Limit = 5
  Page = 1
  MaxForeign = 1
  MaxIssues = 7
  MaxFaults = 2
  Topics = {count}
  None = None
  MaxLogins = 2
  MaxChanges = 3
  MaxBreaks = 2
SPECIFICATION MCSpec
INVARIANTS
  OneIssuePerTitle
  CleanExitIsComplete
  LastWordIsCurrent
  ConnectedIsOpen
PROPERTIES
  Converges
  Reconnects
CHECK_DEADLOCK FALSE
