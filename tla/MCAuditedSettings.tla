-------------------------- MODULE MCAuditedSettings --------------------------
(***************************************************************************)
(* The instance of AuditedSettings and UserStore that TLC checks.  The two *)
(* share no file, so a behaviour steps through one of them, and the other  *)
(* stays as it began.                                                      *)
(***************************************************************************)
EXTENDS AuditedSettings, UserStore, TLC

CONSTANT MaxRecords

VARIABLE part \* which of the two steps

MCInit == Init /\ UsersInit /\ part \in {"settings", "users"}

MCNext ==
  /\ UNCHANGED part
  /\ \/ part = "settings" /\ Next /\ UNCHANGED usersVars
     \/ part = "users" /\ UsersNext /\ UNCHANGED vars

MCSpec == MCInit /\ [][MCNext]_<<vars, usersVars, part>>

\* Threads and keys are alike.
Symmetry == Permutations(Threads) \union Permutations(Keys)

\* Logs are cut off at MaxRecords records.
ShortLog == Len(log) <= MaxRecords
=============================================================================
