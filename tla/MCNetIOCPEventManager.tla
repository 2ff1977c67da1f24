------------------------ MODULE MCNetIOCPEventManager ------------------------
(* The IOCP server with its one event manager.  Clients may be permuted,    *)
(* and so may addresses.                                                    *)
EXTENDS NetIOCPEventManager, TLC

ConnsAndAddresses == Permutations(Conns) \cup Permutations(Addresses)
=============================================================================
