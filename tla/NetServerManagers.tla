-------------------------- MODULE NetServerManagers --------------------------
(***************************************************************************)
(* NetServer with any number of event managers (PollServer and             *)
(* SelectServer have two): the accepted socket on its way from WSAAccept   *)
(* to the SocketContext that owns it, the choice of the manager, and the   *)
(* connections of NetServer.  What one manager's HandleNetEvents does with  *)
(* one connection is the matter of the managers' own modules; here it      *)
(* removes whichever contexts it likes.                                     *)
(***************************************************************************)
EXTENDS NetServer, NetSocket, Sequences, FiniteSets

CONSTANT MaxManagers   (* bound: event managers                            *)

Listener == <<"serverSocket", 0>>       (* NetServer::serverSocket          *)
ClientSocket == <<"clientSocket", 0>>   (* the local variable of Accept     *)
ContextSocket(c) == <<"socket", c>>     (* SocketContext::socket            *)

ASSUME ManagersAssumption ==
  /\ MaxManagers \in Nat \ {0}
  /\ {Listener, ClientSocket} \cup {ContextSocket(c) : c \in Conns} \subseteq Objects

VARIABLES
  netEventManagers,      (* the connections of each manager's contexts     *)
  availableServerIndex,  (* counted from 1 here                            *)
  phase                  (* "Setup", "Loop", "Left" the loop, "Exit"       *)

managersVars == <<netEventManagers, availableServerIndex, phase>>

Contexts == UNION {netEventManagers[k] : k \in DOMAIN netEventManagers}

ManagersIdle ==
  /\ ServerInit
  /\ netEventManagers = <<>>
  /\ availableServerIndex = 1
  /\ phase = "none"

-----------------------------------------------------------------------------
(* NetServer(address): the listening socket and the first manager           *)
Construct ==
  /\ phase = "none"
  /\ \E h \in FreeHandles : sockets' = Opened(sockets, Listener, h)
  /\ netEventManagers' = << {} >>
  /\ phase' = "Setup"
  /\ UNCHANGED <<serverVars, availableServerIndex>>

(* The drivers add managers before their loop.                              *)
AddEventHandler ==
  /\ phase = "Setup"
  /\ Len(netEventManagers) < MaxManagers
  /\ netEventManagers' = Append(netEventManagers, {})
  /\ UNCHANGED <<serverVars, sockets, availableServerIndex, phase>>

EnterLoop ==
  /\ phase = "Setup"
  /\ phase' = "Loop"
  /\ UNCHANGED <<serverVars, sockets, netEventManagers, availableServerIndex>>

NumberOfConnections(k) == Cardinality(netEventManagers[k])

(* Slips mutated runs use: the loads compared the other way round; the     *)
(* contexts of a removed connection kept.                                   *)
NextAvailableReversed(k, next) ==
  IF NumberOfConnections(k) < NumberOfConnections(next) THEN next ELSE k
RemainingAll(S) == netEventManagers

(* GetAvailableEventHandler hands out manager k, and moves the cursor to   *)
(* the next one when k had more connections than that BEFORE this accept.   *)
NextAvailable(k, next) ==
  IF NumberOfConnections(k) > NumberOfConnections(next) THEN next ELSE k

Remaining(S) == [k \in DOMAIN netEventManagers |-> netEventManagers[k] \ S]

(* NetServer::Accept, when WSAAccept returns a socket (when it returns     *)
(* none, nothing changes): SetSocket on the local clientSocket, which is    *)
(* moved through AddConnection into the SocketContext, and destroyed.       *)
Accept(c) ==
  LET k == availableServerIndex IN
  /\ phase = "Loop"
  /\ status[c] = "none"
  /\ \E h \in FreeHandles :
       sockets' = Closed(Moved(Opened(sockets, ClientSocket, h), ContextSocket(c), ClientSocket),
                         {ClientSocket})
  /\ AddConnection(c)
  /\ netEventManagers' = [netEventManagers EXCEPT ![k] = @ \cup {c}]
  /\ availableServerIndex' = NextAvailable(k, (k % Len(netEventManagers)) + 1)
  /\ UNCHANGED phase

(* The SocketContexts of S are disconnected and destroyed.                  *)
RemoveConnections(S) ==
  /\ ChangeStateToClose(S)
  /\ sockets' = Closed(sockets, {ContextSocket(c) : c \in S})
  /\ netEventManagers' = Remaining(S)
  /\ UNCHANGED availableServerIndex

HandleNetEvents ==
  /\ phase = "Loop"
  /\ \E S \in SUBSET Contexts : RemoveConnections(S)
  /\ UNCHANGED phase

UpdateConnections ==
  /\ phase = "Loop"
  /\ Update
  /\ UNCHANGED <<sockets, managersVars>>

DisconnectAll ==
  /\ phase = "Loop"
  /\ RemoveConnections(Contexts)
  /\ phase' = "Left"

(* ~NetServer: the managers, the connections, the listening socket          *)
Destruct ==
  /\ phase = "Left"
  /\ Destroy
  /\ sockets' = Closed(sockets, {Listener})
  /\ netEventManagers' = <<>>
  /\ phase' = "Exit"
  /\ UNCHANGED availableServerIndex

ManagersNext ==
  \/ Construct \/ AddEventHandler \/ EnterLoop
  \/ \E c \in Conns : Accept(c)
  \/ HandleNetEvents \/ UpdateConnections \/ DisconnectAll \/ Destruct

ManagersSpec ==
  ManagersIdle /\ SocketsInit /\ [][ManagersNext]_<<serverVars, sockets, managersVars>>

-----------------------------------------------------------------------------
ManagersTypeOK ==
  /\ ServerTypeOK
  /\ netEventManagers \in Seq(SUBSET Conns)
  /\ availableServerIndex \in 1..MaxManagers
  /\ phase \in {"none", "Setup", "Loop", "Left", "Exit"}

(* No connection is served by two managers, none that is open by no        *)
(* manager, and a socket is open for exactly those that are served: a       *)
(* connection that Update erases has no context and no socket any more.     *)
ConnectionsHaveOneManager ==
  /\ \A j, k \in DOMAIN netEventManagers :
       j # k => netEventManagers[j] \cap netEventManagers[k] = {}
  /\ Contexts = {c \in connections : status[c] = "Init"}
  /\ Contexts = {c \in Conns : sockets.handle[ContextSocket(c)] # INVALID_SOCKET}

(* GetAvailableEventHandler spreads the clients: as long as none has left,  *)
(* no manager has more than two clients more than another, although the     *)
(* cursor compares only neighbours, reads their loads before the new client *)
(* is counted, and moves by at most one for each.                           *)
LoadsDifferByTwo ==
  (\A c \in Conns : status[c] \in {"none", "Init"}) =>
    \A j, k \in DOMAIN netEventManagers : NumberOfConnections(j) <= NumberOfConnections(k) + 2

=============================================================================
