-------------------------------- MODULE Sums --------------------------------
(* Sums over finite sets, of weights given as a function.                  *)
EXTENDS Integers, FiniteSets, FiniteSetsExt

SumOf(w, S) == MapThenSumSet(LAMBDA x : w[x], S)
=============================================================================
