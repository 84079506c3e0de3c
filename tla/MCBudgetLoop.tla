---------------------------- MODULE MCBudgetLoop ----------------------------
(***************************************************************************)
(* The instance of BudgetLoop that TLC checks: a deployment without budget *)
(* and one whose budget is five records, so that a month of up to six can  *)
(* be short of, at and beyond both thresholds (four and five records).     *)
(***************************************************************************)
EXTENDS BudgetLoop
=============================================================================
