------------------------------- MODULE Totals -------------------------------
(* Sums of naturals, written as counts: a total that is the size of a set   *)
(* can be reasoned about without induction over the function.              *)
EXTENDS Naturals, FiniteSets

\* one cell for each unit of each f[x]
Cells(f) == UNION {{x} \X (1..f[x]) : x \in DOMAIN f}

\* the sum of f[x] over the domain of f
Total(f) == Cardinality(Cells(f))
=============================================================================
