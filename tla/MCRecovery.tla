------------------------------ MODULE MCRecovery ------------------------------
(***************************************************************************)
(* The instances of BootstrapIssues and LiveUpdates that TLC checks: two   *)
(* clients that must recover from the failures of the server they talk to, *)
(* the script that is started again against GitHub and the page that       *)
(* connects again to the API server.  The two share no state, so a         *)
(* behaviour steps through one of them, and the other stays as it began.   *)
(*                                                                         *)
(* An epic with two sub-issues, which is more than a page, and one with    *)
(* one, and a repository that one issue of other people makes longer than  *)
(* the listing.  Two logins, one topic with up to three changes.           *)
(***************************************************************************)
EXTENDS BootstrapIssues, LiveUpdates, TLC

CONSTANTS e1, e2, s1, s2, s3

MCEpicOf == (s1 :> e1) @@ (s2 :> e1) @@ (s3 :> e2)

VARIABLE part \* which of the two steps

MCInit == Init /\ LiveInit /\ part \in {"script", "page"}

MCNext ==
  /\ UNCHANGED part
  /\ \/ part = "script" /\ Next /\ UNCHANGED liveVars
     \/ part = "page" /\ LiveNext /\ UNCHANGED vars

(* The fairness of FairSpec and LiveFairSpec, for the part that steps. *)
MCSpec ==
  /\ MCInit /\ [][MCNext]_<<vars, liveVars, part>>
  /\ WF_vars(part = "script" /\ Progress)
  /\ WF_vars(part = "script" /\ pc = "off" /\ Start)
  /\ \A u \in Logins : WF_liveVars(part = "page" /\ Proceed(u))
=============================================================================
