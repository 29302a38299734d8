-------------------------- MODULE MCGrantExecution --------------------------
(* A small instance of GrantExecution for TLC. *)
EXTENDS GrantInvariant

CONSTANTS g1, g2, g3

(* Metered grants of which no two can be admitted in one window. *)
MCDebit == [g \in Grants |-> 1]

(* A pre-sentence row with a mint beside the sentence grants. *)
MCLegacyLog == << MintEvent(g3, 0) >>

(* Budgets hold: what the grants admitted in a window do never sums to     *)
(* more than its limit, and no history of crashes and re-run sweeps makes  *)
(* decide_aggregate refuse its own evidence and wedge the budget.          *)
BudgetHolds == NoOverspend /\ LedgerCoherent
=============================================================================
