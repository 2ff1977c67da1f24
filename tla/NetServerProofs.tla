--------------------------- MODULE NetServerProofs ---------------------------
(***************************************************************************)
(* Every accepted client's onDisconnect is called exactly once, for any    *)
(* set of clients: NotifiedExactlyOnce is inductive together with the type *)
(* invariant.  What carries it is that the two calls of onDisconnect take  *)
(* the connection out of the list in the same step, and that a connection  *)
(* is in the list from its creation to that step.                           *)
(***************************************************************************)
EXTENDS NetServer, TLAPS

ServerInv == ServerTypeOK /\ NotifiedExactlyOnce

(* Notify counts one call for each connection of S and none for others.    *)
LEMMA NotifyCounts ==
  ASSUME ServerTypeOK, NEW S, Notify(S)
  PROVE  /\ notified' \in [Conns -> Nat]
         /\ \A c \in Conns : notified'[c] = IF c \in S THEN notified[c] + 1 ELSE notified[c]
  BY DEF ServerTypeOK, Notify

LEMMA InitEstablishes == ServerInit => ServerInv
  BY DEF ServerInit, ServerInv, ServerTypeOK, NotifiedExactlyOnce

(* NetServer::AddConnection                                                 *)
LEMMA AddConnectionPreserves ==
  ASSUME ServerInv, NEW c \in Conns, status[c] = "none", AddConnection(c)
  PROVE  ServerInv'
  <1>1. ServerTypeOK'
    BY DEF ServerInv, ServerTypeOK, AddConnection
  <1>2. NotifiedExactlyOnce'
    <2> SUFFICES ASSUME NEW d \in Conns
                 PROVE notified'[d] = IF status'[d] # "none" /\ d \notin connections'
                                      THEN 1 ELSE 0
      BY DEF NotifiedExactlyOnce
    <2>1. CASE d = c
      BY <2>1 DEF ServerInv, NotifiedExactlyOnce, AddConnection
    <2>2. CASE d # c
      BY <2>2 DEF ServerInv, ServerTypeOK, NotifiedExactlyOnce, AddConnection
    <2> QED BY <2>1, <2>2
  <1> QED BY <1>1, <1>2 DEF ServerInv

(* NetEventHandler::Disconnect                                              *)
LEMMA ChangeStateToClosePreserves ==
  ASSUME ServerInv,
         NEW S \in SUBSET {c \in connections : status[c] = "Init"},
         ChangeStateToClose(S)
  PROVE  ServerInv'
  <1>1. ServerTypeOK'
    BY DEF ServerInv, ServerTypeOK, ChangeStateToClose
  <1>2. NotifiedExactlyOnce'
    BY DEF ServerInv, ServerTypeOK, NotifiedExactlyOnce, ChangeStateToClose
  <1> QED BY <1>1, <1>2 DEF ServerInv

(* NetServer::Update                                                        *)
LEMMA UpdatePreserves ==
  ASSUME ServerInv, Update
  PROVE  ServerInv'
  <1> DEFINE closing == ClosingConnections(connections)
  <1>1. closing \subseteq connections /\ \A c \in closing : status[c] = "MarkForClose"
    BY DEF ClosingConnections
  <1>2. /\ notified' \in [Conns -> Nat]
        /\ \A c \in Conns : notified'[c] = IF c \in closing THEN notified[c] + 1 ELSE notified[c]
    BY NotifyCounts DEF ServerInv, Update
  <1>3. /\ connections' = connections \ closing
        /\ \A c \in Conns : status'[c] = IF c \in closing THEN "Closed" ELSE status[c]
        /\ status' \in [Conns -> {"none", "Init", "MarkForClose", "Closed"}]
    BY DEF Update, ServerInv, ServerTypeOK
  <1> HIDE DEF closing
  <1>4. ServerTypeOK'
    BY <1>2, <1>3 DEF ServerInv, ServerTypeOK
  <1>5. NotifiedExactlyOnce'
    BY <1>1, <1>2, <1>3 DEF ServerInv, NotifiedExactlyOnce
  <1> QED BY <1>4, <1>5 DEF ServerInv

(* ~NetServer, once every connection was disconnected                       *)
LEMMA DestroyPreserves ==
  ASSUME ServerInv, \A c \in connections : status[c] = "MarkForClose", Destroy
  PROVE  ServerInv'
  <1>1. NotifiedByDestructor(connections) = connections
    BY DEF NotifiedByDestructor
  <1>2. /\ notified' \in [Conns -> Nat]
        /\ \A c \in Conns : notified'[c] = IF c \in connections THEN notified[c] + 1 ELSE notified[c]
    BY <1>1, NotifyCounts DEF ServerInv, Destroy
  <1>3. connections' = {} /\ status' = status
    BY DEF Destroy
  <1> QED BY <1>2, <1>3 DEF ServerInv, ServerTypeOK, NotifiedExactlyOnce

LEMMA ServerInvHolds == Spec => []ServerInv
  <1>1. ServerInit => ServerInv
    BY InitEstablishes
  <1>2. ServerInv /\ [ServerNext]_serverVars => ServerInv'
    <2> SUFFICES ASSUME ServerInv, [ServerNext]_serverVars
                 PROVE ServerInv'
      OBVIOUS
    <2>1. CASE \E c \in Conns : status[c] = "none" /\ AddConnection(c)
      BY <2>1, AddConnectionPreserves
    <2>2. CASE \E S \in SUBSET {c \in connections : status[c] = "Init"} : ChangeStateToClose(S)
      BY <2>2, ChangeStateToClosePreserves
    <2>3. CASE Update
      BY <2>3, UpdatePreserves
    <2>4. CASE (\A c \in connections : status[c] = "MarkForClose") /\ Destroy
      BY <2>4, DestroyPreserves
    <2>5. CASE UNCHANGED serverVars
      BY <2>5 DEF ServerInv, ServerTypeOK, NotifiedExactlyOnce, serverVars
    <2> QED BY <2>1, <2>2, <2>3, <2>4, <2>5 DEF ServerNext
  <1> QED BY <1>1, <1>2, PTL DEF Spec

(* The servers' promise to their clients' owner: each accepted client is   *)
(* reported disconnected exactly once, by NetConnection::Update or by       *)
(* ~NetConnection, whatever the order of disconnections, updates and the    *)
(* end of the server.                                                       *)
THEOREM NotifiedOnce == Spec => []NotifiedExactlyOnce
  <1>1. ServerInv => NotifiedExactlyOnce
    BY DEF ServerInv
  <1> QED BY <1>1, ServerInvHolds, PTL
=============================================================================
