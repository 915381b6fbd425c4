------------------------------ MODULE StockSums ------------------------------
(***************************************************************************)
(* Sums of quantities over sets of tasks.  A sum is the cardinality of the *)
(* set of units it counts, so that the facts about finite sets are the     *)
(* facts about sums: disjoint holders add up, and dropping a holder takes  *)
(* away exactly its units.                                                 *)
(***************************************************************************)
EXTENDS Integers, FiniteSets

(* f[t][r] units of row r for each holder t of S.                          *)
Units(S, f, r) == UNION {{t} \X (1 .. f[t][r]) : t \in S}

(* SUM(f[t][r]) over the holders of S.                                     *)
SumOver(S, f, r) == Cardinality(Units(S, f, r))

(* The same of quantities that may be negative: what the holders have,     *)
(* less what they owe.                                                     *)
Debts(S, f, r) == UNION {{t} \X (1 .. 0 - f[t][r]) : t \in S}
NetOver(S, f, r) == SumOver(S, f, r) - Cardinality(Debts(S, f, r))
=============================================================================
