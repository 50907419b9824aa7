----------------------------- MODULE BudgetsMC -----------------------------
(* Small instances of Budgets for TLC. *)
EXTENDS Budgets
=============================================================================
