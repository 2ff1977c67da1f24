------------------------------- MODULE MCMain -------------------------------
(* The process with every NetSocket object its two drivers create.         *)
EXTENDS Main

MCObjects ==
  {Listener, ClientSocket} \cup {ContextSocket(c) : c \in Conns}
    \cup {Element(where, i) : where \in Storages, i \in Sockets}
=============================================================================
