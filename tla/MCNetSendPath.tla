--------------------------- MODULE MCNetSendPath ---------------------------
(* The send path alone, under the most general caller.                     *)
EXTENDS NetSendPath
=============================================================================
