-------------------------- MODULE MCNetReceivePath --------------------------
(* The receive path alone, under the most general caller.                  *)
EXTENDS NetReceivePath

ConnSymmetry == Permutations(Conns)
=============================================================================
