\* Two keys, two levels, two threads, logs of up to two records; two users, two
\* addresses for them, two scopes, two threads.
CONSTANTS
  Keys = {k1, k2}
  Levels = {L0, L1}
  Default = L0
  Threads = {t1, t2}
  Stop = Stop
  Torn = Torn
  None = None
  MaxRecords = 1
  Emails = {e1, e2}
  Root = root
  Scopes = {All, one}
  All = All
  Workers = {w1, w2}
  MaxUsers = 2
SPECIFICATION MCSpec
SYMMETRY Symmetry
CONSTRAINT ShortLog
INVARIANTS
  ChainIntact
