--------------------------- MODULE NetSocketProofs ---------------------------
(***************************************************************************)
(* Every open handle has exactly one owner, for any objects and handles.   *)
(* Each operation keeps it, whatever it is applied to, as long as the      *)
(* target of a move holds nothing: the three lemmas are stated of any      *)
(* state s, so that they chain along a statement of several operations.    *)
(***************************************************************************)
EXTENDS NetSocket, TLAPS

(* SocketsTypeOK and HandlesHaveOneOwner of a state s                       *)
Owned(s) ==
  /\ s \in [handle : [Objects -> Handles \cup {INVALID_SOCKET}], open : SUBSET Handles]
  /\ \A o, p \in Objects : s.handle[o] = s.handle[p] /\ s.handle[o] # INVALID_SOCKET => o = p
  /\ {s.handle[o] : o \in Objects} \ {INVALID_SOCKET} = s.open

(* NetSocket::Close and ~NetSocket, on any set of objects                   *)
LEMMA ClosedKeeps ==
  ASSUME NEW s, Owned(s), NEW S \in SUBSET Objects
  PROVE  /\ Owned(Closed(s, S))
         /\ \A o \in S : Closed(s, S).handle[o] = INVALID_SOCKET
         /\ Closed(s, S).open \subseteq s.open
  <1> DEFINE c == Closed(s, S)
  <1>1. /\ c.handle \in [Objects -> Handles \cup {INVALID_SOCKET}]
        /\ \A o \in Objects : c.handle[o] = IF o \in S THEN INVALID_SOCKET ELSE s.handle[o]
        /\ c.open = s.open \ {s.handle[o] : o \in S}
        /\ c = [handle |-> c.handle, open |-> c.open]
    BY DEF Owned, Closed
  <1> HIDE DEF c
  <1>2. c \in [handle : [Objects -> Handles \cup {INVALID_SOCKET}], open : SUBSET Handles]
    BY <1>1 DEF Owned
  <1>3. \A o, p \in Objects : c.handle[o] = c.handle[p] /\ c.handle[o] # INVALID_SOCKET => o = p
    BY <1>1 DEF Owned
  <1>4. {c.handle[o] : o \in Objects} \ {INVALID_SOCKET} = c.open
    BY <1>1 DEF Owned
  <1> QED BY <1>1, <1>2, <1>3, <1>4 DEF Owned, c

(* The moves, onto an object without a handle                               *)
LEMMA MovedKeeps ==
  ASSUME NEW s, Owned(s), NEW to \in Objects, NEW from \in Objects, to # from,
         s.handle[to] = INVALID_SOCKET
  PROVE  Owned(Moved(s, to, from))
  BY SocketAssumption DEF Owned, Moved

(* SetSocket and NetSocket(addressType), with a handle the system had free  *)
LEMMA OpenedKeeps ==
  ASSUME NEW s, Owned(s), NEW o \in Objects, NEW h \in Handles \ s.open
  PROVE  Owned(Opened(s, o, h))
  <1> DEFINE c == Closed(s, {o})
  <1>1. Owned(c) /\ c.handle[o] = INVALID_SOCKET /\ h \notin c.open
    BY ClosedKeeps
  <1>2. Opened(s, o, h) = [handle |-> [c.handle EXCEPT ![o] = h], open |-> c.open \cup {h}]
    BY DEF Opened
  <1> HIDE DEF c
  <1> QED BY <1>1, <1>2, SocketAssumption DEF Owned

(* Every NetSocket closes its handle, and every handle is closed by one:   *)
(* under every order of constructions, accepts, moves, closes and           *)
(* destructions that moves only onto empty objects.                         *)
THEOREM OneOwner == SocketsSpec => []HandlesHaveOneOwner
  <1>1. SocketsInit => Owned(sockets)
    BY DEF SocketsInit, Owned
  <1>2. Owned(sockets) /\ [SocketsNext]_sockets => Owned(sockets)'
    <2> SUFFICES ASSUME Owned(sockets), [SocketsNext]_sockets
                 PROVE  Owned(sockets')
      BY DEF Owned
    <2>1. CASE \E o \in Objects, h \in FreeHandles : sockets' = Opened(sockets, o, h)
      BY <2>1, OpenedKeeps DEF FreeHandles
    <2>2. CASE \E S \in SUBSET Objects : sockets' = Closed(sockets, S)
      BY <2>2, ClosedKeeps
    <2>3. CASE \E to, from \in Objects :
                 /\ to # from
                 /\ sockets.handle[to] = INVALID_SOCKET
                 /\ sockets' = Moved(sockets, to, from)
      BY <2>3, MovedKeeps
    <2>4. CASE UNCHANGED sockets
      BY <2>4
    <2> QED BY <2>1, <2>2, <2>3, <2>4 DEF SocketsNext
  <1>3. Owned(sockets) => HandlesHaveOneOwner
    BY DEF Owned, HandlesHaveOneOwner
  <1> QED BY <1>1, <1>2, <1>3, PTL DEF SocketsSpec
=============================================================================
