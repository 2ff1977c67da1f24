----------------------- MODULE NetServerManagersProofs -----------------------
(***************************************************************************)
(* NetServer with any number of event managers, clients and handles.  The  *)
(* balance of the managers is first a fact about numbers (BalancedStep).    *)
(***************************************************************************)
EXTENDS NetServerManagers, NetSocketProofs, NetServerProofs, FiniteSetTheorems,
        SequenceTheorems

(* The managers the cursor a passed since it was at s, in the order of the *)
(* vector, from whose end it goes on at the front                           *)
Passed(s, a, k) == IF s <= a THEN s <= k /\ k < a ELSE s <= k \/ k < a

(* The loads L while nobody leaves: b clients each, two more where the     *)
(* cursor has been in this round, and one more, perhaps, where it is.       *)
BalancedAt(n, L, a, b, s) ==
  /\ L[a] \in {b, b + 1}
  /\ \A k \in 1..n : k # a => L[k] = IF Passed(s, a, k) THEN b + 2 ELSE b

Balanced(n, L, a) == \E b \in Nat, s \in 1..n : BalancedAt(n, L, a, b, s)

(* The manager after a, as GetAvailableEventHandler counts                  *)
LEMMA NextIsCyclic ==
  ASSUME NEW n \in Nat \ {0}, NEW a \in 1..n
  PROVE  (a % n) + 1 = IF a = n THEN 1 ELSE a + 1
  <1>1. CASE a = n
    BY <1>1
  <1>2. CASE a < n
    BY <1>2
  <1> QED BY <1>1, <1>2

LEMMA NextInRange ==
  ASSUME NEW n \in Nat, NEW a \in 1..n
  PROVE  (a % n) + 1 \in 1..n
  BY NextIsCyclic

(* One accept: manager a gets the client, and the cursor moves when a had  *)
(* more clients than the next manager.                                      *)
LEMMA BalancedStep ==
  ASSUME NEW n \in Nat \ {0}, NEW L \in [1..n -> Nat], NEW a \in 1..n, Balanced(n, L, a),
         NEW next, next = IF a = n THEN 1 ELSE a + 1
  PROVE  Balanced(n, [L EXCEPT ![a] = L[a] + 1], IF L[a] > L[next] THEN next ELSE a)
  <1> DEFINE M == [L EXCEPT ![a] = L[a] + 1]
  <1>1. next \in 1..n
    OBVIOUS
  <1>2. PICK b \in Nat, s \in 1..n : BalancedAt(n, L, a, b, s)
    BY DEF Balanced
  <1>3. M[a] = L[a] + 1 /\ \A k \in 1..n : k # a => M[k] = L[k]
    OBVIOUS
  <1> HIDE DEF M
  <1>4. CASE L[a] = b
    <2>1. ~(L[a] > L[next])
      BY <1>1, <1>2, <1>4 DEF BalancedAt
    <2>2. BalancedAt(n, M, a, b, s)
      BY <1>2, <1>3, <1>4 DEF BalancedAt
    <2> QED BY <2>1, <2>2 DEF Balanced, M
  <1>5. CASE L[a] = b + 1 /\ L[next] = b
    <2>1. L[a] > L[next] /\ next # a
      BY <1>5
    <2>2. ~Passed(s, a, next)
      BY <1>1, <1>2, <1>5, <2>1 DEF BalancedAt
    <2>3. \A k \in 1..n : Passed(s, next, k) <=> Passed(s, a, k) \/ k = a
      BY <2>1, <2>2 DEF Passed
    <2>4. BalancedAt(n, M, next, b, s)
      BY <1>1, <1>2, <1>3, <1>5, <2>1, <2>2, <2>3 DEF BalancedAt
    <2> QED BY <1>1, <2>1, <2>4 DEF Balanced, M
  <1>6. CASE L[a] = b + 1 /\ L[next] # b
    <2>1. ~(L[a] > L[next]) /\ (next = a \/ Passed(s, a, next))
      BY <1>1, <1>2, <1>6 DEF BalancedAt
    <2>2. \A k \in 1..n : k # a => Passed(s, a, k)
      BY <2>1 DEF Passed
    <2>3. BalancedAt(n, M, a, b + 2, a)
      BY <1>2, <1>3, <1>6, <2>2 DEF BalancedAt, Passed
    <2> QED BY <2>1, <2>3 DEF Balanced, M
  <1> QED BY <1>2, <1>4, <1>5, <1>6 DEF BalancedAt

LEMMA BalancedBounds ==
  ASSUME NEW n \in Nat \ {0}, NEW L \in [1..n -> Nat], NEW a \in 1..n, Balanced(n, L, a)
  PROVE  \A j, k \in 1..n : L[j] <= L[k] + 2
  <1>1. PICK b \in Nat, s \in 1..n : BalancedAt(n, L, a, b, s)
    BY DEF Balanced
  <1>2. \A k \in 1..n : L[k] = b \/ L[k] = b + 1 \/ L[k] = b + 2
    <2> SUFFICES ASSUME NEW k \in 1..n
                 PROVE  L[k] = b \/ L[k] = b + 1 \/ L[k] = b + 2
      OBVIOUS
    <2>1. CASE k = a
      BY <1>1, <2>1 DEF BalancedAt
    <2>2. CASE k # a
      BY <1>1, <2>2 DEF BalancedAt
    <2> QED BY <2>1, <2>2
  <1>3. ASSUME NEW j \in 1..n, NEW k \in 1..n
        PROVE  L[j] <= L[k] + 2
    <2>1. PICK x \in 0..2 : L[j] = b + x
      BY <1>2
    <2>2. PICK y \in 0..2 : L[k] = b + y
      BY <1>2
    <2> QED BY <2>1, <2>2
  <1> QED BY <1>3

-----------------------------------------------------------------------------
(* The cursor is on a manager, and only in the loop are there contexts.    *)
ShapeInv ==
  /\ netEventManagers \in Seq(SUBSET Conns)
  /\ \A k \in DOMAIN netEventManagers : IsFiniteSet(netEventManagers[k])
  /\ phase \in {"none", "Setup", "Loop", "Left", "Exit"}
  /\ phase \in {"none", "Exit"} => netEventManagers = <<>>
  /\ phase \in {"Setup", "Loop", "Left"} => availableServerIndex \in 1..Len(netEventManagers)
  /\ phase \in {"none", "Setup"} => availableServerIndex = 1
  /\ phase # "Loop" => Contexts = {}

StatusInv ==
  /\ ServerTypeOK
  /\ \A c \in connections : status[c] \in {"Init", "MarkForClose"}

SocketInv == Owned(sockets) /\ sockets.handle[ClientSocket] = INVALID_SOCKET

ManagersInv == ShapeInv /\ StatusInv /\ SocketInv /\ ConnectionsHaveOneManager

(* The objects are different ones.                                          *)
LEMMA ObjectsDiffer ==
  /\ Listener \in Objects /\ ClientSocket \in Objects
  /\ \A c \in Conns : ContextSocket(c) \in Objects
  /\ Listener # ClientSocket
  /\ \A c \in Conns : ContextSocket(c) # Listener /\ ContextSocket(c) # ClientSocket
  /\ \A c, d \in Conns : ContextSocket(c) = ContextSocket(d) => c = d
  BY ManagersAssumption DEF Listener, ClientSocket, ContextSocket

LEMMA InitHolds == ManagersIdle /\ SocketsInit => ManagersInv
  <1> SUFFICES ASSUME ManagersIdle, SocketsInit PROVE ManagersInv
    OBVIOUS
  <1>1. netEventManagers = <<>> /\ DOMAIN netEventManagers = {} /\ Contexts = {}
    BY DEF ManagersIdle, Contexts
  <1>2. ShapeInv
    BY <1>1 DEF ShapeInv, ManagersIdle
  <1>3. StatusInv
    BY DEF StatusInv, ManagersIdle, ServerInit, ServerTypeOK
  <1>4. SocketInv
    BY ObjectsDiffer DEF SocketInv, SocketsInit, Owned
  <1>5. ConnectionsHaveOneManager
    BY <1>1, ObjectsDiffer DEF ConnectionsHaveOneManager, ManagersIdle, ServerInit, SocketsInit
  <1> QED BY <1>2, <1>3, <1>4, <1>5 DEF ManagersInv

(* NetServer(address)                                                       *)
LEMMA ConstructKeeps ==
  ASSUME ManagersInv, Construct
  PROVE  ManagersInv'
  <1>1. PICK h \in FreeHandles : sockets' = Opened(sockets, Listener, h)
    BY DEF Construct
  <1>2. /\ netEventManagers' = << {} >> /\ DOMAIN netEventManagers' = {1}
        /\ netEventManagers'[1] = {} /\ Len(netEventManagers') = 1
        /\ Contexts' = {} /\ Contexts = {}
    BY DEF Construct, Contexts, ManagersInv, ShapeInv
  <1>3. ShapeInv'
    BY <1>2, FS_EmptySet DEF ManagersInv, ShapeInv, Construct
  <1>4. StatusInv'
    BY DEF ManagersInv, StatusInv, ServerTypeOK, Construct, serverVars
  <1>5. \A o \in Objects : o # Listener => sockets'.handle[o] = sockets.handle[o]
    BY <1>1, ObjectsDiffer DEF ManagersInv, SocketInv, Owned, Opened, Closed
  <1>6. SocketInv'
    <2>1. Owned(sockets')
      BY <1>1, OpenedKeeps, ObjectsDiffer DEF ManagersInv, SocketInv, FreeHandles
    <2> QED BY <2>1, <1>5, ObjectsDiffer DEF ManagersInv, SocketInv, Owned
  <1>7. ConnectionsHaveOneManager'
    BY <1>2, <1>5, ObjectsDiffer
    DEF ManagersInv, ConnectionsHaveOneManager, Construct, serverVars, ContextSocket
  <1> QED BY <1>3, <1>4, <1>6, <1>7 DEF ManagersInv

LEMMA AddEventHandlerKeeps ==
  ASSUME ManagersInv, AddEventHandler
  PROVE  ManagersInv'
  <1> DEFINE n == Len(netEventManagers)
  <1>1. /\ netEventManagers' \in Seq(SUBSET Conns) /\ Len(netEventManagers') = n + 1 /\ n \in Nat
        /\ \A k \in 1..n : netEventManagers'[k] = netEventManagers[k]
        /\ netEventManagers'[n + 1] = {}
    BY DEF ManagersInv, ShapeInv, AddEventHandler
  <1>2. Contexts = {} /\ \A k \in 1..n : netEventManagers[k] = {}
    BY DEF ManagersInv, ShapeInv, AddEventHandler, Contexts
  <1>3. Contexts' = {} /\ \A k \in DOMAIN netEventManagers' : netEventManagers'[k] = {}
    BY <1>1, <1>2 DEF Contexts
  <1>4. ShapeInv'
    BY <1>1, <1>3, FS_EmptySet DEF ManagersInv, ShapeInv, AddEventHandler
  <1>5. StatusInv' /\ SocketInv'
    BY DEF ManagersInv, StatusInv, SocketInv, Owned, ServerTypeOK, AddEventHandler, serverVars
  <1>6. ConnectionsHaveOneManager'
    BY <1>2, <1>3
    DEF ManagersInv, ConnectionsHaveOneManager, AddEventHandler, serverVars, ContextSocket
  <1> QED BY <1>4, <1>5, <1>6 DEF ManagersInv

LEMMA EnterLoopKeeps ==
  ASSUME ManagersInv, EnterLoop
  PROVE  ManagersInv'
  <1>1. Contexts' = Contexts
    BY DEF EnterLoop, Contexts
  <1> QED BY <1>1 DEF ManagersInv, ShapeInv, StatusInv, SocketInv, Owned, ServerTypeOK,
                      ConnectionsHaveOneManager, EnterLoop, serverVars, ContextSocket

(* The way of an accepted handle: SetSocket, the move into the context,    *)
(* and the destruction of the local variable                                *)
LEMMA AcceptedSocket ==
  ASSUME NEW s, Owned(s), s.handle[ClientSocket] = INVALID_SOCKET,
         NEW c \in Conns, s.handle[ContextSocket(c)] = INVALID_SOCKET,
         NEW h \in Handles \ s.open
  PROVE  LET t == Closed(Moved(Opened(s, ClientSocket, h), ContextSocket(c), ClientSocket),
                         {ClientSocket})
         IN /\ Owned(t)
            /\ t.handle[ContextSocket(c)] = h
            /\ \A o \in Objects : o # ContextSocket(c) => t.handle[o] = s.handle[o]
  <1> DEFINE t1 == Opened(s, ClientSocket, h)
             t2 == Moved(t1, ContextSocket(c), ClientSocket)
             t3 == Closed(t2, {ClientSocket})
  <1>1. Owned(t1) /\ t1.handle = [s.handle EXCEPT ![ClientSocket] = h]
    <2>1. Owned(t1)
      BY OpenedKeeps, ObjectsDiffer
    <2>2. s.handle \in [Objects -> Handles \cup {INVALID_SOCKET}]
      BY DEF Owned
    <2>3. Closed(s, {ClientSocket}).handle = s.handle
      BY <2>2 DEF Closed
    <2>4. t1.handle = [s.handle EXCEPT ![ClientSocket] = h]
      BY <2>3 DEF Opened
    <2> QED BY <2>1, <2>4
  <1>2. t1.handle[ContextSocket(c)] = INVALID_SOCKET /\ t1.handle[ClientSocket] = h
    BY <1>1, ObjectsDiffer DEF Owned
  <1> HIDE DEF t1
  <1>3. /\ Owned(t2)
        /\ t2.handle = [t1.handle EXCEPT ![ContextSocket(c)] = h, ![ClientSocket] = INVALID_SOCKET]
    <2>1. Owned(t2)
      BY <1>1, <1>2, MovedKeeps, ObjectsDiffer
    <2>2. t1 \in [handle : [Objects -> Handles \cup {INVALID_SOCKET}], open : SUBSET Handles]
      BY <1>1 DEF Owned
    <2> QED BY <1>2, <2>1, <2>2 DEF Moved
  <1> HIDE DEF t2
  <1>4. /\ Owned(t3)
        /\ \A o \in Objects : t3.handle[o] = IF o = ClientSocket THEN INVALID_SOCKET ELSE t2.handle[o]
    <2>1. {ClientSocket} \in SUBSET Objects
      BY ObjectsDiffer
    <2>2. Owned(t3)
      BY <1>3, <2>1, ClosedKeeps
    <2> QED BY <2>2 DEF Closed
  <1> HIDE DEF t3
  <1>5. /\ t3.handle[ContextSocket(c)] = h
        /\ \A o \in Objects : o # ContextSocket(c) => t3.handle[o] = s.handle[o]
    BY <1>1, <1>3, <1>4, ObjectsDiffer DEF Owned
  <1> QED BY <1>4, <1>5 DEF t1, t2, t3

(* One connection more in the vector of the manager chosen                *)
LEMMA AcceptedContext ==
  ASSUME ManagersInv, NEW c \in Conns, Accept(c)
  PROVE  /\ netEventManagers' \in Seq(SUBSET Conns)
         /\ Len(netEventManagers') = Len(netEventManagers)
         /\ DOMAIN netEventManagers' = DOMAIN netEventManagers
         /\ \A j \in DOMAIN netEventManagers : netEventManagers'[j] =
             IF j = availableServerIndex THEN netEventManagers[j] \cup {c} ELSE netEventManagers[j]
  <1>1. /\ netEventManagers \in Seq(SUBSET Conns) /\ Len(netEventManagers) \in Nat
        /\ DOMAIN netEventManagers = 1..Len(netEventManagers)
        /\ availableServerIndex \in 1..Len(netEventManagers)
    BY DEF ManagersInv, ShapeInv, Accept
  <1>2. netEventManagers' = [netEventManagers EXCEPT ![availableServerIndex] = @ \cup {c}]
    BY DEF Accept
  <1>3. netEventManagers[availableServerIndex] \cup {c} \in SUBSET Conns
    BY <1>1, ElementOfSeq
  <1>4. netEventManagers' \in Seq(SUBSET Conns)
    BY <1>1, <1>2, <1>3, ExceptSeq
  <1>5. DOMAIN netEventManagers' = DOMAIN netEventManagers
    BY <1>1, <1>2
  <1>6. Len(netEventManagers') = Len(netEventManagers)
    BY <1>1, <1>4, <1>5
  <1>7. \A j \in DOMAIN netEventManagers : netEventManagers'[j] =
          IF j = availableServerIndex THEN netEventManagers[j] \cup {c} ELSE netEventManagers[j]
    BY <1>1, <1>2
  <1> QED BY <1>4, <1>5, <1>6, <1>7

LEMMA AcceptKeeps ==
  ASSUME ManagersInv, NEW c \in Conns, Accept(c)
  PROVE  ManagersInv'
  <1>1. PICK h \in FreeHandles :
          sockets' = Closed(Moved(Opened(sockets, ClientSocket, h), ContextSocket(c), ClientSocket),
                            {ClientSocket})
    BY DEF Accept
  <1>2. c \notin connections /\ c \notin Contexts /\ sockets.handle[ContextSocket(c)] = INVALID_SOCKET
    BY DEF ManagersInv, StatusInv, ConnectionsHaveOneManager, Accept
  <1>3. /\ Owned(sockets') /\ sockets'.handle[ContextSocket(c)] = h
        /\ \A o \in Objects : o # ContextSocket(c) => sockets'.handle[o] = sockets.handle[o]
    BY <1>1, <1>2, AcceptedSocket DEF ManagersInv, SocketInv, FreeHandles
  <1>4. SocketInv'
    BY <1>3, ObjectsDiffer DEF ManagersInv, SocketInv
  <1>5. StatusInv'
    BY DEF ManagersInv, StatusInv, ServerTypeOK, Accept, AddConnection
  <1>6. /\ netEventManagers \in Seq(SUBSET Conns) /\ Len(netEventManagers) \in Nat
        /\ DOMAIN netEventManagers = 1..Len(netEventManagers)
        /\ availableServerIndex \in 1..Len(netEventManagers)
    BY DEF ManagersInv, ShapeInv, Accept
  <1>7. /\ netEventManagers' \in Seq(SUBSET Conns)
        /\ Len(netEventManagers') = Len(netEventManagers)
        /\ DOMAIN netEventManagers' = DOMAIN netEventManagers
        /\ \A j \in DOMAIN netEventManagers : netEventManagers'[j] =
             IF j = availableServerIndex THEN netEventManagers[j] \cup {c} ELSE netEventManagers[j]
    BY AcceptedContext
  <1>8. Contexts' = Contexts \cup {c}
    <2>1. Contexts' = UNION {netEventManagers'[j] : j \in DOMAIN netEventManagers}
      BY <1>7 DEF Contexts
    <2>2. \A x : x \in Contexts' <=> \E j \in DOMAIN netEventManagers : x \in netEventManagers'[j]
      BY <2>1
    <2>3. \A x : x \in Contexts <=> \E j \in DOMAIN netEventManagers : x \in netEventManagers[j]
      BY DEF Contexts
    <2>4. \A x : x \in Contexts' <=> x \in Contexts \/ x = c
      BY <1>6, <1>7, <2>2, <2>3
    <2> QED BY <2>4
  <1>9. availableServerIndex' \in 1..Len(netEventManagers)
    <2>1. (availableServerIndex % Len(netEventManagers)) + 1 \in 1..Len(netEventManagers)
      BY <1>6, NextInRange
    <2> QED BY <1>6, <2>1 DEF Accept, NextAvailable
  <1>10. ShapeInv'
    <2>1. \A j \in DOMAIN netEventManagers : IsFiniteSet(netEventManagers'[j])
      BY <1>7, FS_AddElement DEF ManagersInv, ShapeInv
    <2>2. phase = "Loop" /\ phase' = "Loop"
      BY DEF Accept
    <2> QED BY <1>7, <1>9, <2>1, <2>2 DEF ShapeInv
  <1>11. ConnectionsHaveOneManager'
    <2>1. \A i, j \in DOMAIN netEventManagers :
            i # j => netEventManagers'[i] \cap netEventManagers'[j] = {}
      <3>1. \A j \in DOMAIN netEventManagers : c \notin netEventManagers[j]
        BY <1>2 DEF Contexts
      <3>2. \A i, j \in DOMAIN netEventManagers :
              i # j => netEventManagers[i] \cap netEventManagers[j] = {}
        BY DEF ManagersInv, ConnectionsHaveOneManager
      <3> QED BY <1>7, <3>1, <3>2
    <2>2. Contexts' = {d \in connections' : status'[d] = "Init"}
      BY <1>2, <1>8 DEF ManagersInv, StatusInv, ServerTypeOK, ConnectionsHaveOneManager, Accept, AddConnection
    <2>3. Contexts' = {d \in Conns : sockets'.handle[ContextSocket(d)] # INVALID_SOCKET}
      <3>1. h # INVALID_SOCKET
        BY SocketAssumption DEF FreeHandles
      <3>2. \A d \in Conns : d # c =>
              sockets'.handle[ContextSocket(d)] = sockets.handle[ContextSocket(d)]
        BY <1>3, ObjectsDiffer
      <3>3. Contexts = {d \in Conns : sockets.handle[ContextSocket(d)] # INVALID_SOCKET}
        BY DEF ManagersInv, ConnectionsHaveOneManager
      <3> QED BY <1>3, <1>8, <3>1, <3>2, <3>3
    <2> QED BY <1>7, <2>1, <2>2, <2>3 DEF ConnectionsHaveOneManager, ContextSocket
  <1> QED BY <1>4, <1>5, <1>10, <1>11 DEF ManagersInv

(* Disconnected contexts leave their vectors, and their sockets are closed. *)
LEMMA RemoveConnectionsKeeps ==
  ASSUME ManagersInv, NEW S \in SUBSET Contexts, RemoveConnections(S),
         phase = "Loop", phase' \in {"Loop", "Left"}, phase' = "Left" => S = Contexts
  PROVE  ManagersInv'
  <1>1. S \subseteq Conns /\ S \subseteq connections
    BY DEF ManagersInv, StatusInv, ServerTypeOK, ConnectionsHaveOneManager
  <1>2. /\ netEventManagers \in Seq(SUBSET Conns) /\ Len(netEventManagers) \in Nat
        /\ DOMAIN netEventManagers = 1..Len(netEventManagers)
    BY DEF ManagersInv, ShapeInv
  <1>3. /\ DOMAIN netEventManagers' = DOMAIN netEventManagers
        /\ \A k \in DOMAIN netEventManagers : netEventManagers'[k] = netEventManagers[k] \ S
    BY DEF RemoveConnections, Remaining
  <1>4. netEventManagers' \in Seq(SUBSET Conns) /\ Len(netEventManagers') = Len(netEventManagers)
    <2>1. \A k \in 1..Len(netEventManagers) : netEventManagers[k] \ S \in SUBSET Conns
      BY <1>2, ElementOfSeq
    <2>2. netEventManagers' \in [1..Len(netEventManagers) -> SUBSET Conns]
      BY <1>2, <2>1 DEF RemoveConnections, Remaining
    <2> QED BY <1>2, <2>2
  <1>5. Contexts' = Contexts \ S
    <2>1. \A x : x \in Contexts' <=> \E k \in DOMAIN netEventManagers : x \in netEventManagers'[k]
      BY <1>3 DEF Contexts
    <2>2. \A x : x \in Contexts <=> \E k \in DOMAIN netEventManagers : x \in netEventManagers[k]
      BY DEF Contexts
    <2>3. \A x : x \in Contexts' <=> x \in Contexts /\ x \notin S
      BY <1>3, <2>1, <2>2
    <2> QED BY <2>3
  <1>6. ShapeInv'
    <2>1. \A k \in DOMAIN netEventManagers : IsFiniteSet(netEventManagers'[k])
      <3>1. \A k \in DOMAIN netEventManagers : IsFiniteSet(netEventManagers[k])
        BY DEF ManagersInv, ShapeInv
      <3>2. \A k \in DOMAIN netEventManagers : IsFiniteSet(netEventManagers[k] \ S)
        BY <3>1, FS_Subset
      <3> QED BY <1>3, <3>2
    <2>2. availableServerIndex' = availableServerIndex
      BY DEF RemoveConnections
    <2> QED BY <1>3, <1>4, <1>5, <2>1, <2>2 DEF ManagersInv, ShapeInv
  <1>7. StatusInv'
    BY <1>1 DEF ManagersInv, StatusInv, ServerTypeOK, RemoveConnections, ChangeStateToClose
  <1>8. {ContextSocket(c) : c \in S} \in SUBSET Objects
    BY <1>1, ObjectsDiffer
  <1>9. \A o \in Objects : sockets'.handle[o] =
          IF o \in {ContextSocket(c) : c \in S} THEN INVALID_SOCKET ELSE sockets.handle[o]
    BY DEF RemoveConnections, Closed
  <1>10. SocketInv'
    <2>1. Owned(sockets')
      BY <1>8, ClosedKeeps DEF ManagersInv, SocketInv, RemoveConnections
    <2> QED BY <1>9, <2>1, ObjectsDiffer DEF ManagersInv, SocketInv
  <1>11. ConnectionsHaveOneManager'
    <2>1. \A j, k \in DOMAIN netEventManagers :
            j # k => netEventManagers'[j] \cap netEventManagers'[k] = {}
      BY <1>3 DEF ManagersInv, ConnectionsHaveOneManager
    <2>2. Contexts' = {c \in connections' : status'[c] = "Init"}
      BY <1>1, <1>5 DEF ManagersInv, StatusInv, ServerTypeOK, ConnectionsHaveOneManager,
                        RemoveConnections, ChangeStateToClose
    <2>3. Contexts' = {c \in Conns : sockets'.handle[ContextSocket(c)] # INVALID_SOCKET}
      <3>1. \A c \in Conns : ContextSocket(c) \in {ContextSocket(d) : d \in S} <=> c \in S
        BY <1>1, ObjectsDiffer
      <3>2. Contexts = {c \in Conns : sockets.handle[ContextSocket(c)] # INVALID_SOCKET}
        BY DEF ManagersInv, ConnectionsHaveOneManager
      <3> QED BY <1>5, <1>9, <3>1, <3>2, ObjectsDiffer
    <2> QED BY <1>3, <2>1, <2>2, <2>3 DEF ConnectionsHaveOneManager, ContextSocket
  <1> QED BY <1>6, <1>7, <1>10, <1>11 DEF ManagersInv

LEMMA HandleNetEventsKeeps ==
  ASSUME ManagersInv, HandleNetEvents
  PROVE  ManagersInv'
  <1>1. PICK S \in SUBSET Contexts : RemoveConnections(S)
    BY DEF HandleNetEvents
  <1>2. phase = "Loop" /\ phase' = "Loop"
    BY DEF HandleNetEvents
  <1> QED BY <1>1, <1>2, RemoveConnectionsKeeps

LEMMA DisconnectAllKeeps ==
  ASSUME ManagersInv, DisconnectAll
  PROVE  ManagersInv'
  <1>1. RemoveConnections(Contexts) /\ phase = "Loop" /\ phase' = "Left"
    BY DEF DisconnectAll
  <1> QED BY <1>1, RemoveConnectionsKeeps

(* Update erases connections that no manager serves any more.               *)
LEMMA UpdateConnectionsKeeps ==
  ASSUME ManagersInv, UpdateConnections
  PROVE  ManagersInv'
  <1> DEFINE closing == ClosingConnections(connections)
  <1>1. /\ connections' = connections \ closing
        /\ \A c \in Conns : status'[c] = IF c \in closing THEN "Closed" ELSE status[c]
        /\ status' \in [Conns -> {"none", "Init", "MarkForClose", "Closed"}]
        /\ notified' \in [Conns -> Nat]
    BY DEF UpdateConnections, Update, Notify, ManagersInv, StatusInv, ServerTypeOK
  <1>2. /\ sockets' = sockets /\ netEventManagers' = netEventManagers
        /\ availableServerIndex' = availableServerIndex /\ phase' = phase
        /\ Contexts' = Contexts
    BY DEF UpdateConnections, managersVars, Contexts
  <1>3. closing = {c \in connections : status[c] = "MarkForClose"}
    BY DEF ClosingConnections
  <1> HIDE DEF closing
  <1>4. ShapeInv' /\ SocketInv'
    BY <1>2 DEF ManagersInv, ShapeInv, SocketInv, Owned
  <1>5. StatusInv'
    BY <1>1, <1>3 DEF ManagersInv, StatusInv, ServerTypeOK
  <1>6. Contexts' = {c \in connections' : status'[c] = "Init"}
    BY <1>1, <1>2, <1>3 DEF ManagersInv, StatusInv, ServerTypeOK, ConnectionsHaveOneManager
  <1>7. ConnectionsHaveOneManager'
    BY <1>2, <1>6 DEF ManagersInv, ConnectionsHaveOneManager, ContextSocket
  <1> QED BY <1>4, <1>5, <1>7 DEF ManagersInv

(* ~NetServer, after DisconnectAll                                          *)
LEMMA DestructKeeps ==
  ASSUME ManagersInv, Destruct
  PROVE  ManagersInv'
  <1>1. /\ netEventManagers' = <<>> /\ phase' = "Exit" /\ connections' = {} /\ status' = status
        /\ notified' \in [Conns -> Nat] /\ sockets' = Closed(sockets, {Listener})
    BY DEF Destruct, Destroy, Notify, ManagersInv, StatusInv, ServerTypeOK
  <1>2. DOMAIN netEventManagers' = {} /\ Contexts' = {} /\ Contexts = {}
    BY <1>1 DEF Contexts, Destruct, ManagersInv, ShapeInv
  <1>3. ShapeInv'
    BY <1>1, <1>2 DEF ShapeInv
  <1>4. StatusInv'
    BY <1>1 DEF ManagersInv, StatusInv, ServerTypeOK
  <1>5. \A o \in Objects : o # Listener => sockets'.handle[o] = sockets.handle[o]
    BY <1>1 DEF Closed
  <1>6. SocketInv'
    <2>1. Owned(sockets')
      BY <1>1, ObjectsDiffer, ClosedKeeps DEF ManagersInv, SocketInv
    <2> QED BY <1>5, <2>1, ObjectsDiffer DEF ManagersInv, SocketInv
  <1>7. ConnectionsHaveOneManager'
    BY <1>1, <1>2, <1>5, ObjectsDiffer, ZenonT(40) DEF ManagersInv, ConnectionsHaveOneManager, ContextSocket
  <1> QED BY <1>3, <1>4, <1>6, <1>7 DEF ManagersInv

(* Every step of the server                                                 *)
LEMMA ManagersStepKeeps ==
  ASSUME ManagersInv, [ManagersNext]_<<serverVars, sockets, managersVars>>
  PROVE  ManagersInv'
  <1>1. CASE Construct
    BY <1>1, ConstructKeeps
  <1>2. CASE AddEventHandler
    BY <1>2, AddEventHandlerKeeps
  <1>3. CASE EnterLoop
    BY <1>3, EnterLoopKeeps
  <1>4. CASE \E c \in Conns : Accept(c)
    BY <1>4, AcceptKeeps
  <1>5. CASE HandleNetEvents
    BY <1>5, HandleNetEventsKeeps
  <1>6. CASE UpdateConnections
    BY <1>6, UpdateConnectionsKeeps
  <1>7. CASE DisconnectAll
    BY <1>7, DisconnectAllKeeps
  <1>8. CASE Destruct
    BY <1>8, DestructKeeps
  <1>9. CASE UNCHANGED <<serverVars, sockets, managersVars>>
    <2>1. Contexts' = Contexts
      BY <1>9 DEF Contexts, managersVars
    <2> QED BY <1>9, <2>1 DEF ManagersInv, ShapeInv, StatusInv, SocketInv, Owned, ServerTypeOK,
                 ConnectionsHaveOneManager, serverVars, managersVars, ContextSocket
  <1> QED BY <1>1, <1>2, <1>3, <1>4, <1>5, <1>6, <1>7, <1>8, <1>9 DEF ManagersNext

LEMMA ManagersInvHolds == ManagersSpec => []ManagersInv
  <1> QED BY InitHolds, ManagersStepKeeps, PTL DEF ManagersSpec

(* For any number of managers, clients and handles: no connection is in     *)
(* two managers, and what is in one is exactly what is listed as open and   *)
(* has a socket.                                                            *)
THEOREM OneManager == ManagersSpec => []ConnectionsHaveOneManager
  <1>1. ManagersInv => ConnectionsHaveOneManager
    BY DEF ManagersInv
  <1> QED BY <1>1, ManagersInvHolds, PTL

(* The server never has a handle twice and never leaves one open: the       *)
(* obligation NetSocket's specification puts on a move is kept.             *)
THEOREM ServerHandlesHaveOneOwner == ManagersSpec => []HandlesHaveOneOwner
  <1>1. ManagersInv => HandlesHaveOneOwner
    BY DEF ManagersInv, SocketInv, Owned, HandlesHaveOneOwner
  <1> QED BY <1>1, ManagersInvHolds, PTL

-----------------------------------------------------------------------------
(* A step of the managers' server is one that NetServer's specification    *)
(* allows.                                                                  *)
LEMMA ManagersStepServes ==
  ASSUME ManagersInv, [ManagersNext]_<<serverVars, sockets, managersVars>>
  PROVE  [ServerNext]_serverVars
  <1> SUFFICES ASSUME ManagersNext PROVE ServerNext \/ UNCHANGED serverVars
    BY DEF serverVars
  <1>1. Contexts = {c \in connections : status[c] = "Init"}
    BY DEF ManagersInv, ConnectionsHaveOneManager
  <1>2. CASE Construct \/ AddEventHandler \/ EnterLoop
    BY <1>2 DEF Construct, AddEventHandler, EnterLoop
  <1>3. CASE \E c \in Conns : Accept(c)
    BY <1>3 DEF Accept, ServerNext
  <1>4. ASSUME NEW S \in SUBSET Contexts, RemoveConnections(S)
        PROVE  ServerNext
    BY <1>1, <1>4 DEF RemoveConnections, ServerNext
  <1>5. CASE HandleNetEvents
    BY <1>4, <1>5 DEF HandleNetEvents
  <1>6. CASE DisconnectAll
    BY <1>4, <1>6 DEF DisconnectAll
  <1>7. CASE UpdateConnections
    BY <1>7 DEF UpdateConnections, ServerNext
  <1>8. CASE Destruct
    <2>1. Contexts = {}
      BY <1>8 DEF Destruct, ManagersInv, ShapeInv
    <2>2. \A c \in connections : status[c] = "MarkForClose"
      BY <1>1, <2>1 DEF ManagersInv, StatusInv
    <2> QED BY <1>8, <2>2 DEF Destruct, ServerNext
  <1> QED BY <1>2, <1>3, <1>5, <1>6, <1>7, <1>8 DEF ManagersNext

(* NetServer as specified: the managers' server never disconnects a         *)
(* connection twice or after it was erased, and is not destroyed before     *)
(* all are disconnected. With it NotifiedOnce holds of any number of        *)
(* managers.                                                                *)
THEOREM ManagersServeAsSpecified == ManagersSpec => Spec
  <1>1. ManagersIdle => ServerInit
    BY DEF ManagersIdle
  <1> QED BY <1>1, ManagersStepServes, ManagersInvHolds, PTL DEF ManagersSpec, Spec

-----------------------------------------------------------------------------
Loads == [k \in 1..Len(netEventManagers) |-> Cardinality(netEventManagers[k])]

NobodyLeft == \A c \in Conns : status[c] \in {"none", "Init"}

(* What makes LoadsDifferByTwo inductive: the loads are those the cursor    *)
(* leaves behind.                                                           *)
LoadInv ==
  NobodyLeft /\ phase \in {"Setup", "Loop"} =>
    Balanced(Len(netEventManagers), Loads, availableServerIndex)

LEMMA LoadsAreNumbers ==
  ASSUME ShapeInv
  PROVE  /\ Loads \in [1..Len(netEventManagers) -> Nat]
         /\ DOMAIN netEventManagers = 1..Len(netEventManagers)
         /\ Len(netEventManagers) \in Nat
  <1>1. Len(netEventManagers) \in Nat /\ DOMAIN netEventManagers = 1..Len(netEventManagers)
    BY DEF ShapeInv
  <1>2. \A k \in 1..Len(netEventManagers) : Cardinality(netEventManagers[k]) \in Nat
    BY <1>1, FS_CardinalityType DEF ShapeInv
  <1> QED BY <1>1, <1>2 DEF Loads

LEMMA NoContextsNoLoad ==
  ASSUME ShapeInv, Contexts = {}
  PROVE  \A k \in 1..Len(netEventManagers) : Loads[k] = 0
  <1>1. \A k \in 1..Len(netEventManagers) : netEventManagers[k] = {}
    BY LoadsAreNumbers DEF Contexts
  <1> QED BY <1>1, FS_EmptySet DEF Loads

LEMMA EmptyIsBalanced ==
  ASSUME NEW n \in Nat \ {0}, NEW L, \A k \in 1..n : L[k] = 0
  PROVE  Balanced(n, L, 1)
  <1>1. BalancedAt(n, L, 1, 0, 1)
    BY DEF BalancedAt, Passed
  <1> QED BY <1>1 DEF Balanced

LEMMA AcceptBalances ==
  ASSUME ManagersInv, LoadInv, NEW c \in Conns, Accept(c), NobodyLeft
  PROVE  Balanced(Len(netEventManagers'), Loads', availableServerIndex')
  <1> DEFINE n == Len(netEventManagers)
             a == availableServerIndex
             next == (a % n) + 1
  <1>1. /\ netEventManagers \in Seq(SUBSET Conns) /\ Loads \in [1..n -> Nat] /\ n \in Nat \ {0}
        /\ DOMAIN netEventManagers = 1..n /\ a \in 1..n /\ Balanced(n, Loads, a)
    BY LoadsAreNumbers DEF ManagersInv, ShapeInv, LoadInv, Accept
  <1>2. /\ Len(netEventManagers') = n
        /\ \A j \in 1..n : netEventManagers'[j] =
             IF j = a THEN netEventManagers[j] \cup {c} ELSE netEventManagers[j]
    BY <1>1, AcceptedContext
  <1>3. c \notin netEventManagers[a] /\ IsFiniteSet(netEventManagers[a])
    BY <1>1 DEF ManagersInv, ShapeInv, StatusInv, ConnectionsHaveOneManager, Accept, Contexts
  <1>4. Cardinality(netEventManagers[a] \cup {c}) = Cardinality(netEventManagers[a]) + 1
    BY <1>3, FS_AddElement
  <1>5. Loads' = [Loads EXCEPT ![a] = Loads[a] + 1]
    <2>1. \A j \in 1..n : Loads[j] = Cardinality(netEventManagers[j])
      BY DEF Loads
    <2>2. Loads' = [j \in 1..n |-> Cardinality(netEventManagers'[j])]
      BY <1>2 DEF Loads
    <2>3. \A j \in 1..n : Loads'[j] = IF j = a THEN Loads[j] + 1 ELSE Loads[j]
      BY <1>1, <1>2, <1>4, <2>1, <2>2
    <2> QED BY <1>1, <2>2, <2>3
  <1>6. next \in 1..n /\ next = IF a = n THEN 1 ELSE a + 1
    BY <1>1, NextIsCyclic, NextInRange
  <1>7. availableServerIndex' = IF Loads[a] > Loads[next] THEN next ELSE a
    BY <1>1, <1>6 DEF Accept, NextAvailable, NumberOfConnections, Loads
  <1> HIDE DEF n, a, next
  <1>8. Balanced(n, [Loads EXCEPT ![a] = Loads[a] + 1], IF Loads[a] > Loads[next] THEN next ELSE a)
    BY <1>1, <1>6, BalancedStep
  <1> QED BY <1>2, <1>5, <1>7, <1>8

LEMMA LoadInvStep ==
  ASSUME ManagersInv, LoadInv, [ManagersNext]_<<serverVars, sockets, managersVars>>, ManagersInv'
  PROVE  LoadInv'
  <1> SUFFICES ASSUME NobodyLeft', phase' \in {"Setup", "Loop"}
               PROVE  Balanced(Len(netEventManagers'), Loads', availableServerIndex')
    BY DEF LoadInv
  <1>1. CASE phase' = "Setup"
    <2>1. /\ availableServerIndex' = 1 /\ Len(netEventManagers') \in Nat \ {0}
          /\ DOMAIN netEventManagers' = 1..Len(netEventManagers') /\ Contexts' = {}
      BY <1>1 DEF ManagersInv, ShapeInv
    <2>2. \A k \in 1..Len(netEventManagers') : netEventManagers'[k] = {}
      BY <2>1 DEF Contexts
    <2>3. \A k \in 1..Len(netEventManagers') : Loads'[k] = 0
      BY <2>2, FS_EmptySet DEF Loads
    <2> QED BY <2>1, <2>3, EmptyIsBalanced
  <1>2. CASE netEventManagers' = netEventManagers /\ availableServerIndex' = availableServerIndex
             /\ phase \in {"Setup", "Loop"} /\ NobodyLeft
    BY <1>2 DEF LoadInv, Loads
  <1>3. CASE EnterLoop \/ UNCHANGED <<serverVars, sockets, managersVars>>
    BY <1>2, <1>3 DEF EnterLoop, serverVars, managersVars, NobodyLeft
  <1>4. CASE \E c \in Conns : Accept(c)
    <2>1. PICK c \in Conns : Accept(c)
      BY <1>4
    <2>2. NobodyLeft
      BY <2>1 DEF NobodyLeft, Accept, AddConnection, ManagersInv, StatusInv, ServerTypeOK
    <2> QED BY <2>1, <2>2, AcceptBalances
  <1>5. CASE HandleNetEvents
    <2>1. PICK S \in SUBSET Contexts : RemoveConnections(S) /\ phase = "Loop"
      BY <1>5 DEF HandleNetEvents
    <2>2. S \subseteq Conns
      BY DEF ManagersInv, ConnectionsHaveOneManager
    <2>3. S = {} /\ NobodyLeft
      BY <2>1, <2>2 DEF NobodyLeft, RemoveConnections, ChangeStateToClose
    <2>4. netEventManagers' = netEventManagers
      BY <2>1, <2>3 DEF RemoveConnections, Remaining, ManagersInv, ShapeInv
    <2> QED BY <1>2, <2>1, <2>3, <2>4 DEF RemoveConnections
  <1>6. CASE UpdateConnections
    <2>1. NobodyLeft
      BY <1>6 DEF NobodyLeft, UpdateConnections, Update
    <2> QED BY <1>2, <1>6, <2>1 DEF UpdateConnections, managersVars
  <1>7. CASE DisconnectAll \/ Destruct
    BY <1>7 DEF DisconnectAll, Destruct
  <1>8. CASE Construct \/ AddEventHandler
    BY <1>1, <1>8 DEF Construct, AddEventHandler
  <1> QED BY <1>3, <1>4, <1>5, <1>6, <1>7, <1>8 DEF ManagersNext

LEMMA LoadInvSuffices ==
  ASSUME ManagersInv, LoadInv
  PROVE  LoadsDifferByTwo
  <1> SUFFICES ASSUME NobodyLeft
               PROVE  \A j, k \in 1..Len(netEventManagers) : Loads[j] <= Loads[k] + 2
    BY LoadsAreNumbers DEF LoadsDifferByTwo, NobodyLeft, NumberOfConnections, Loads, ManagersInv
  <1>1. CASE phase \in {"Setup", "Loop"}
    <2>1. Balanced(Len(netEventManagers), Loads, availableServerIndex)
      BY <1>1 DEF LoadInv
    <2>2. availableServerIndex \in 1..Len(netEventManagers)
      BY <1>1 DEF ManagersInv, ShapeInv
    <2>3. Loads \in [1..Len(netEventManagers) -> Nat] /\ Len(netEventManagers) \in Nat \ {0}
      BY <2>2, LoadsAreNumbers DEF ManagersInv
    <2> QED BY <2>1, <2>2, <2>3, BalancedBounds
  <1>2. CASE phase \notin {"Setup", "Loop"}
    BY <1>2, NoContextsNoLoad DEF ManagersInv, ShapeInv
  <1> QED BY <1>1, <1>2

(* For any number of managers and clients: as long as no client has left,   *)
(* no manager has more than two clients more than another.                  *)
THEOREM LoadsStayTogether == ManagersSpec => []LoadsDifferByTwo
  <1>1. ManagersIdle => LoadInv
    BY DEF ManagersIdle, LoadInv
  <1> QED BY <1>1, LoadInvSuffices, LoadInvStep, ManagersInvHolds, PTL DEF ManagersSpec

=============================================================================
