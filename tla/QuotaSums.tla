------------------------------ MODULE QuotaSums ------------------------------
(***************************************************************************)
(* Sums of quotas.  The controller adds quotas up in loops over teams and  *)
(* workspaces; the order of a loop does not matter to the total, so a sum  *)
(* is the number of units that are counted, which is a set and can be      *)
(* reasoned about without recursion.                                       *)
(***************************************************************************)
EXTENDS Integers, FiniteSets

\* The sum of a function into the natural numbers.
Units(f) == UNION {{x} \X (1..f[x]) : x \in DOMAIN f}
SumOver(f) == Cardinality(Units(f))
=============================================================================
