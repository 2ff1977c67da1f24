------------------------------ MODULE NetSocket ------------------------------
(***************************************************************************)
(* Who owns a socket handle.  Every NetSocket object closes the handle it  *)
(* holds when it is destroyed, so a handle held by two objects would be    *)
(* closed under the feet of the second, and of whoever the system gives    *)
(* the number to next; a handle held by none stays open.                    *)
(*                                                                         *)
(* An object that is not alive and one that holds no handle are the same   *)
(* here: both have INVALID_SOCKET.  The operations are operators on the    *)
(* whole state, for the statements of the code that do several.             *)
(***************************************************************************)
EXTENDS Naturals

CONSTANTS
  Objects,         (* the NetSocket objects                                *)
  Handles,         (* what the system may number an open socket            *)
  INVALID_SOCKET

ASSUME SocketAssumption == INVALID_SOCKET \notin Handles

VARIABLE sockets   (* handle: NetSocket::_socket of each object;           *)
                   (* open: the handles the system has open (external)     *)

SocketsInit ==
  sockets = [handle |-> [o \in Objects |-> INVALID_SOCKET], open |-> {}]

(* The handles the system may number a new socket with                      *)
FreeHandles == Handles \ sockets.open

(* A slip a mutated run uses: the source of a move keeps its handle.       *)
MovedCopied(s, to, from) == [s EXCEPT !.handle = [s.handle EXCEPT ![to] = s.handle[from]]]

(* NetSocket(NetSocket&&), and the move assignment, which leaves what its  *)
(* target held open.                                                        *)
Moved(s, to, from) ==
  [s EXCEPT !.handle = [s.handle EXCEPT ![to] = s.handle[from], ![from] = INVALID_SOCKET]]

(* Close, and ~NetSocket, on the objects of S                               *)
Closed(s, S) ==
  [handle |-> [o \in Objects |-> IF o \in S THEN INVALID_SOCKET ELSE s.handle[o]],
   open   |-> s.open \ {s.handle[o] : o \in S}]

(* NetSocket(addressType), or SetSocket with what WSAAccept returned: the  *)
(* system opened handle h, and what the object held is closed.              *)
Opened(s, o, h) ==
  LET closed == Closed(s, {o}) IN
  [handle |-> [closed.handle EXCEPT ![o] = h], open |-> closed.open \cup {h}]

-----------------------------------------------------------------------------
(* Every order of calls, with the obligation of the callers of a move: its *)
(* target holds no handle.                                                  *)
SocketsNext ==
  \/ \E o \in Objects, h \in FreeHandles : sockets' = Opened(sockets, o, h)
  \/ \E S \in SUBSET Objects : sockets' = Closed(sockets, S)
  \/ \E to, from \in Objects :
       /\ to # from
       /\ sockets.handle[to] = INVALID_SOCKET
       /\ sockets' = Moved(sockets, to, from)

SocketsSpec == SocketsInit /\ [][SocketsNext]_sockets

SocketsTypeOK ==
  sockets \in [handle : [Objects -> Handles \cup {INVALID_SOCKET}], open : SUBSET Handles]

(* Every open handle is held by exactly one NetSocket, and every handle    *)
(* held is open: none is closed twice, used after another object closed it *)
(* and the system gave its number away again, or left open by all.          *)
HandlesHaveOneOwner ==
  /\ \A o, p \in Objects :
       sockets.handle[o] = sockets.handle[p] /\ sockets.handle[o] # INVALID_SOCKET => o = p
  /\ {sockets.handle[o] : o \in Objects} \ {INVALID_SOCKET} = sockets.open

=============================================================================
