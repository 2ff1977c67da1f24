------------------------------ MODULE NetServer ------------------------------
(***************************************************************************)
(* NetServer's list of connections, with the part of NetConnection that    *)
(* decides their life: its status and its two calls of onDisconnect.       *)
(*                                                                         *)
(* The operations have no precondition of their own, as in the code; what  *)
(* their callers must guarantee is stated in ServerNext, and the modules   *)
(* of the event managers are checked against it (PROPERTY Server!Spec).    *)
(***************************************************************************)
EXTENDS Naturals

CONSTANT Conns   (* the clients, each accepted at most once                *)

VARIABLES
  connections,   (* the NetConnections in NetServer::connections           *)
  status,        (* NetConnection::status; "none": not created yet         *)
  notified       (* history: calls of onDisconnect                         *)

serverVars == <<connections, status, notified>>

ServerInit ==
  /\ connections = {}
  /\ status = [c \in Conns |-> "none"]
  /\ notified = [c \in Conns |-> 0]

-----------------------------------------------------------------------------
(* Slips mutated runs use: the test of the status negated, or of the wrong *)
(* status; no call in the destructor.                                       *)
ClosingConnectionsNegated(S) == {c \in S : status[c] # "MarkForClose"}
ClosingConnectionsClosed(S) == {c \in S : status[c] = "Closed"}
NotifiedByDestructorNever(S) == {}

(* The connections of S that NetConnection::Update reports closed, after   *)
(* its call of onDisconnect                                                 *)
ClosingConnections(S) == {c \in S : status[c] = "MarkForClose"}

(* The connections of S whose destructor calls onDisconnect                 *)
NotifiedByDestructor(S) == {c \in S : status[c] = "MarkForClose"}

Notify(S) == notified' = [c \in Conns |-> IF c \in S THEN notified[c] + 1 ELSE notified[c]]

-----------------------------------------------------------------------------
(* NetServer::AddConnection's emplace_back                                  *)
AddConnection(c) ==
  /\ connections' = connections \cup {c}
  /\ status' = [status EXCEPT ![c] = "Init"]
  /\ UNCHANGED notified

(* NetEventHandler::Disconnect on the connections of S                      *)
ChangeStateToClose(S) ==
  /\ status' = [c \in Conns |-> IF c \in S THEN "MarkForClose" ELSE status[c]]
  /\ UNCHANGED <<connections, notified>>

(* Every NetConnection is updated; those marked for close are notified,    *)
(* Closed and erased: their destructors stay silent.                        *)
Update ==
  LET closing == ClosingConnections(connections) IN
  /\ Notify(closing)
  /\ status' = [c \in Conns |-> IF c \in closing THEN "Closed" ELSE status[c]]
  /\ connections' = connections \ closing

(* ~NetServer destroys the managers and then the list.                      *)
Destroy ==
  /\ Notify(NotifiedByDestructor(connections))
  /\ connections' = {}
  /\ UNCHANGED status

-----------------------------------------------------------------------------
(* Every order of calls the servers may produce.  The callers' obligations: *)
(* a connection is disconnected once and before it is erased, and every     *)
(* open one is before the server is destroyed (DisconnectAll).              *)
ServerNext ==
  \/ \E c \in Conns : status[c] = "none" /\ AddConnection(c)
  \/ \E S \in SUBSET {c \in connections : status[c] = "Init"} : ChangeStateToClose(S)
  \/ Update
  \/ (\A c \in connections : status[c] = "MarkForClose") /\ Destroy

Spec == ServerInit /\ [][ServerNext]_serverVars

-----------------------------------------------------------------------------
ServerTypeOK ==
  /\ connections \subseteq Conns
  /\ status \in [Conns -> {"none", "Init", "MarkForClose", "Closed"}]
  /\ notified \in [Conns -> Nat]

(* onDisconnect is called exactly once for every accepted client, by        *)
(* Update or, when the server ends first, by ~NetConnection; never while    *)
(* the NetConnection is still listed.                                       *)
NotifiedExactlyOnce ==
  \A c \in Conns :
    notified[c] = IF status[c] # "none" /\ c \notin connections THEN 1 ELSE 0

=============================================================================
