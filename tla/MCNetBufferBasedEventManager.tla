-------------------- MODULE MCNetBufferBasedEventManager --------------------
(* The server with one event manager.  Clients may be permuted in the runs *)
(* that check no liveness and name no client in their constants.            *)
EXTENDS NetBufferBasedEventManager, TLC

ConnSymmetry == Permutations(Conns)
=============================================================================
