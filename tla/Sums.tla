-------------------------------- MODULE Sums --------------------------------
(***************************************************************************)
(* Sums of integers over finite sets, in the form the proofs reason about. *)
(***************************************************************************)
EXTENDS Integers, FiniteSetsExt

\* The sum of f[x] over the x in S, a subset of the domain of f.
SumOver(f, S) == MapThenSumSet(LAMBDA x : f[x], S)
=============================================================================
