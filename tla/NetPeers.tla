------------------------------- MODULE NetPeers -------------------------------
(***************************************************************************)
(* The clients of a server, as TCP shows them to it: each connects at most *)
(* once, sends, and ends its connection in one way or another.  Nothing of *)
(* this is code of the repository; the servers' modules take these steps   *)
(* between any two of their own.                                            *)
(***************************************************************************)
EXTENDS Naturals

CONSTANT Conns   (* the clients                                            *)

VARIABLES
  link,          (* the state of the TCP connection                        *)
  unread         (* chunks sent that the server has not taken yet          *)

Links == {"none", "pending", "up", "fin", "rst", "lost", "closed"}

PeersInit ==
  /\ link = [c \in Conns |-> "none"]
  /\ unread = [c \in Conns |-> 0]

(* The backlog of the listening socket                                      *)
Pending == {c \in Conns : link[c] = "pending"}

Connects(c) ==
  /\ link[c] = "none"
  /\ link' = [link EXCEPT ![c] = "pending"]
  /\ UNCHANGED unread

Sends(c) ==
  /\ link[c] = "up"
  /\ unread' = [unread EXCEPT ![c] = @ + 1]
  /\ UNCHANGED link

(* An orderly close leaves what was sent before it to be read; a reset or  *)
(* another loss of the connection ("rst", "lost") does not.                 *)
Closes(c) ==
  /\ link[c] = "up"
  /\ link' = [link EXCEPT ![c] = "fin"]
  /\ UNCHANGED unread

Breaks(c, how) ==
  /\ link[c] \in {"up", "fin"}
  /\ link' = [link EXCEPT ![c] = how]
  /\ unread' = [unread EXCEPT ![c] = 0]

=============================================================================
