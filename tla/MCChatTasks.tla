----------------------------- MODULE MCChatTasks -----------------------------
(***************************************************************************)
(* The instances of ChatTasks that TLC checks.                             *)
(***************************************************************************)
EXTENDS ChatTasks
=============================================================================
