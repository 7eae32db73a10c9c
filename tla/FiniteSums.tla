----------------------------- MODULE FiniteSums -----------------------------
(* Sums of the values of a function, kept as a module of their own because *)
(* FiniteSums_proofs shows what they are for every function and finite set. *)
EXTENDS FiniteSetsExt

\* The sum of f[x] over the elements x of S.
SumOver(f, S) == MapThenSumSet(LAMBDA x : f[x], S)

=============================================================================
