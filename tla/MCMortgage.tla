----------------------------- MODULE MCMortgage -----------------------------
(* MortgageCalculator for TLC *)
EXTENDS MortgageCalculator

\* A subsidy that changes with the height and leaves remainders
MCTakeOff == [h \in 1..MaxHeight |-> IF h < BHDIP011Height THEN 7 ELSE 5]
=============================================================================
