------------------------- MODULE NetIOCPEventManager -------------------------
(***************************************************************************)
(* The IOCP server (IOCPServer in Servers.hpp): NetIOCPEventManager with   *)
(* the parts of NetServer, NetEventHandler and NetSocket that it runs,     *)
(* against its clients, the kernel's overlapped operations and the queue   *)
(* of completions.                                                          *)
(*                                                                         *)
(* A connection c names the accepted socket, its NetConnection and its     *)
(* SocketContext.  A completion names the connection its operation was     *)
(* started on; what the code sees of it, the completion key, is the address *)
(* of that connection's context.  Completions may still come when the      *)
(* context was erased (the kernel had accepted its operations), and by then *)
(* make_unique may have put the context of a later connection at the same  *)
(* address: the code, which compares addresses, takes it for the old one.  *)
(*                                                                         *)
(* One thread runs the loop, and the clients and the kernel move between   *)
(* its steps.  WSARecv and WSASend fail at once on a connection that was   *)
(* reset; that, and a completion with an unexpected error, is LENET_ERROR, *)
(* whose __debugbreak() ends the process here (pc = "Dead").  What the     *)
(* process does after it used an erased context is not defined, whether or *)
(* not another context has its address by then; the model stops there too  *)
(* (pc = "Undefined").                                                      *)
(***************************************************************************)
EXTENDS Naturals, Sequences, SequencesExt, FiniteSets

CONSTANTS
  Conns,           (* the clients, each connecting at most once            *)
  Addresses,       (* where make_unique may put a SocketContext            *)
  nullptr,         (* the address of the context of a client not accepted  *)
  InitialBuffers, MaxBuffers,   (* as in NetReceivePath                    *)
  MaxChunks,       (* bound: chunks sent by one client                     *)
  MaxMessages      (* bound: messages emplaced on one connection           *)

VARIABLES
  (* NetPeers, and the kernel (external) *)
  link,
  unread,           (* chunks not yet given to a WSARecv                   *)
  receiving,        (* sockets with an outstanding WSARecv                 *)
  sending,          (* number of outstanding WSASends of each socket       *)
  completionPort,   (* the completions queued, oldest first                *)
  (* NetServer *)
  connections, status, notified,
  (* NetIOCPEventManager and the server's loop *)
  socketContexts,   (* the connections that have a SocketContext           *)
  address,          (* where that context is, or was until it was erased    *)
  closing,          (* the loop was left: DisconnectAllConnections         *)
  pc,
  (* NetReceivePath, NetSendPath *)
  pool, buffers, content, chunks, receivedMessages, handedOver,
  messagesToSend, sended, inFlight, emplaced, wire

netVars     == <<link, unread, receiving, sending, completionPort>>
serverVars  == <<connections, status, notified>>
loopVars    == <<closing, pc>>
receiveVars == <<pool, buffers, content, chunks, receivedMessages, handedOver>>
sendVars    == <<messagesToSend, sended, inFlight, emplaced, wire>>
vars == <<netVars, serverVars, socketContexts, address, loopVars, receiveVars, sendVars>>

ReceivePath == INSTANCE NetReceivePath
SendPath == INSTANCE NetSendPath WITH Overlapped <- TRUE
Server == INSTANCE NetServer
Peers == INSTANCE NetPeers

Failing == {"fin", "rst"}   (* the client is gone *)

(* What GetQueuedCompletionStatus says of an operation: bytes were         *)
(* transferred; none were (or ERROR_NETNAME_DELETED,                        *)
(* ERROR_CONNECTION_ABORTED, which Wait turns into none); another error.   *)
Results == {"bytes", "none", "error"}

Completion(c, operation, result) ==
  [key |-> c, operationType |-> operation, result |-> result]

(* PostQueuedCompletionStatus(completionPort, 0, 0, nullptr): no context    *)
CloseStatus == [operationType |-> "Close"]

(* The completions of an operation on connection c that are still queued   *)
Queued(c, operation) ==
  {k \in DOMAIN completionPort :
     /\ completionPort[k].operationType = operation
     /\ completionPort[k].key = c}

Init ==
  /\ Peers!PeersInit
  /\ receiving = {}
  /\ sending = [c \in Conns |-> 0]
  /\ completionPort = <<>>
  /\ Server!ServerInit
  /\ socketContexts = {}
  /\ address = [c \in Conns |-> nullptr]
  /\ closing = FALSE
  /\ pc = "Accept"
  /\ ReceivePath!ReceiveInit
  /\ SendPath!SendInit

-----------------------------------------------------------------------------
(* The kernel: the outstanding receive of c gets a chunk, or the end of    *)
(* the connection; its sends complete one after the other.                  *)
ReceiveCompletes(c) ==
  /\ c \in receiving
  /\ unread[c] > 0 \/ link[c] \in Failing
  /\ receiving' = receiving \ {c}
  /\ unread' = [unread EXCEPT ![c] = IF @ > 0 THEN @ - 1 ELSE 0]
  /\ completionPort' = Append(completionPort,
       Completion(c, "Receive", IF unread[c] > 0 THEN "bytes" ELSE "none"))
  /\ UNCHANGED <<link, sending>>

SendCompletes(c) ==
  /\ sending[c] > 0
  /\ sending' = [sending EXCEPT ![c] = @ - 1]
  /\ completionPort' = Append(completionPort,
       Completion(c, "Send", IF link[c] = "rst" THEN "none" ELSE "bytes"))
  /\ UNCHANGED <<link, unread, receiving>>

(* The server is running and does nothing meanwhile.                        *)
Running == pc \notin {"Exit", "Dead", "Undefined"}

Outside ==
  /\ Running
  /\ UNCHANGED <<serverVars, socketContexts, address, loopVars, receiveVars, sendVars>>

PeerStep ==
  /\ \E c \in Conns :
       \/ /\ \/ Peers!Connects(c) \/ Peers!Closes(c) \/ Peers!Breaks(c, "rst")
             \/ /\ chunks[c] + unread[c] + Cardinality(Queued(c, "Receive")) < MaxChunks
                /\ Peers!Sends(c)
          /\ UNCHANGED <<receiving, sending, completionPort>>
       \/ ReceiveCompletes(c) \/ SendCompletes(c)
  /\ Outside

-----------------------------------------------------------------------------
(* A step of the loop that changes nothing but the loop's own state         *)
ControlOnly == UNCHANGED <<netVars, serverVars, socketContexts, address, receiveVars, sendVars>>

GoTo(label) == pc' = label /\ UNCHANGED closing

(* LENET_ERROR: __debugbreak() ends the process; the state of a process    *)
(* that ended is of no interest.                                            *)
Halt == GoTo("Dead") /\ ControlOnly

(* After HandleNetEvents: back to the loop, or on with                      *)
(* DisconnectAllConnections.                                                *)
HandleNetEventsReturns ==
  /\ pc' = IF closing THEN "Clear" ELSE "Update"
  /\ UNCHANGED closing

(* Slips that mutated runs use: the next receive not posted; posted twice  *)
(* on a new context; a send restarted without being posted.                 *)
ReceivingAgainNever(c) == receiving
SendingStartedTwice(S) == [c \in Conns |-> IF c \in S THEN sending[c] + 2 ELSE sending[c]]

(* TNetProtocol::ReceiveAsync and SendAsync on the sockets of S, as far as *)
(* they succeed                                                             *)
ReceivingAgain(c) == receiving \cup {c}

SendingStarted(S) == [c \in Conns |-> IF c \in S THEN sending[c] + 1 ELSE sending[c]]

(* The connection was reset: WSARecv or WSASend fail with WSAECONNRESET,   *)
(* which, unlike in Receive and Send, is an error.                          *)
AsyncFails(c) == link[c] = "rst"

(* closesocket cancels what is outstanding on c: every operation completes *)
(* all the same, with either error, or done when it was a send.             *)
Repeated(completion, n) == [k \in 1..n |-> completion]

CancelledOf(c) ==
  {Repeated(Completion(c, "Receive", r), IF c \in receiving THEN 1 ELSE 0)
     \o Repeated(Completion(c, "Send", s), sending[c]) :
       r \in Results \ {"bytes"}, s \in Results}

(* Slips that mutated runs use: the context is not looked for; every        *)
(* context is disconnected; the first read is started on another context.  *)
FoundAlways(c) == {c}
DisconnectedAll(c) == socketContexts
FirstReadOfFront(c) ==
  ReceivePath!StartRead(IF socketContexts = {} THEN c ELSE CHOOSE d \in socketContexts : TRUE)

(* std::find_if over the contexts, by address: what it may return           *)
Found(c) == {d \in socketContexts : address[d] = address[c]}

(* netEventHandler.Disconnect in RemoveConnection, and StartRead in         *)
(* AddConnection, on this socket context                                    *)
Disconnected(c) == {c}

FirstRead(c) == ReceivePath!StartRead(c)

(* RemoveConnection(socketContext) when it is found: Disconnect, and the   *)
(* destruction of the SocketContext, which closes the socket.               *)
RemoveConnection(c) ==
  /\ Server!ChangeStateToClose(Disconnected(c))
  /\ socketContexts' = socketContexts \ {c}
  /\ link' = [link EXCEPT ![c] = "closed"]
  /\ receiving' = receiving \ {c}
  /\ sending' = [sending EXCEPT ![c] = 0]
  /\ \E cancelled \in CancelledOf(c) :
       completionPort' = Tail(completionPort) \o cancelled
  /\ ReceivePath!DropReads({c})
  /\ SendPath!DropWrites({c})
  /\ UNCHANGED <<unread, address>>

-----------------------------------------------------------------------------
(* NetServer::Accept: one connection per turn, on a listening socket that  *)
(* does not block.                                                          *)
AcceptNothing ==
  /\ pc = "Accept"
  /\ Peers!Pending = {}
  /\ GoTo("ProcessSend")
  /\ ControlOnly

(* NetServer::AddConnection and NetIOCPEventManager::AddConnection: the    *)
(* new context, put where no other context is, is associated with the port, *)
(* gets a buffer and receives.                                              *)
Accept(c) ==
  /\ pc = "Accept"
  /\ c \in Peers!Pending
  /\ Server!AddConnection(c)
  /\ socketContexts' = socketContexts \cup {c}
  /\ \E a \in Addresses \ {address[d] : d \in socketContexts} :
       address' = [address EXCEPT ![c] = a]
  /\ link' = [link EXCEPT ![c] = "up"]
  /\ FirstRead(c)
  /\ receiving' = ReceivingAgain(c)
  /\ GoTo("ProcessSend")
  /\ UNCHANGED <<unread, sending, completionPort, sendVars>>

(* The client gives up before it is accepted, or resets the connection     *)
(* before ReceiveAsync is called: either call fails with an error.          *)
AcceptedIsReset(c) ==
  /\ pc = "Accept"
  /\ c \in Peers!Pending
  /\ Halt

(* ProcessSend: StartWrite on every context, and SendAsync for those that  *)
(* started a message.                                                       *)
Starting == {c \in socketContexts : SendPath!CanStartOn(c)}

ProcessSend ==
  /\ pc = "ProcessSend"
  /\ \A c \in Starting : ~AsyncFails(c)
  /\ SendPath!ProcessSend(socketContexts)
  /\ sending' = SendingStarted(Starting)
  /\ GoTo("Wait")
  /\ UNCHANGED <<link, unread, receiving, completionPort, serverVars, socketContexts, address,
                 receiveVars>>

ProcessSendFails ==
  /\ pc = "ProcessSend"
  /\ \E c \in Starting : AsyncFails(c)
  /\ Halt

-----------------------------------------------------------------------------
(* completionPort.Wait and the rest of HandleNetEvents, one completion.     *)
completion == Head(completionPort)

Dequeues(operation) ==
  /\ pc = "Wait"
  /\ completionPort # <<>>
  /\ completion.operationType = operation

WaitTimesOut ==
  /\ pc = "Wait"
  /\ completionPort = <<>>
  /\ HandleNetEventsReturns
  /\ ControlOnly

(* Wait says false: there is no context.                                    *)
CloseStatusArrives ==
  /\ Dequeues("Close")
  /\ completionPort' = Tail(completionPort)
  /\ HandleNetEventsReturns
  /\ UNCHANGED <<link, unread, receiving, sending, serverVars, socketContexts, address,
                 receiveVars, sendVars>>

DequeuesOf(operation, result) == Dequeues(operation) /\ completion.result = result

(* Another error, for instance ERROR_OPERATION_ABORTED                      *)
WaitFails ==
  /\ \E operation \in {"Receive", "Send"} : DequeuesOf(operation, "error")
  /\ Halt

(* bytesTransferred == 0: the context that is found is removed, the        *)
(* completion's own or a later one at its address.                          *)
NothingTransferred ==
  /\ \E operation \in {"Receive", "Send"} : DequeuesOf(operation, "none")
  /\ \/ \E d \in Found(completion.key) : RemoveConnection(d)
     \/ /\ Found(completion.key) = {}
        /\ completionPort' = Tail(completionPort)
        /\ UNCHANGED <<link, unread, receiving, sending, serverVars, socketContexts, address,
                       receiveVars, sendVars>>
  /\ HandleNetEventsReturns

(* The context is used without a look at the list.                          *)
ErasedContextIsUsed ==
  /\ \E operation \in {"Receive", "Send"} : DequeuesOf(operation, "bytes")
  /\ completion.key \notin socketContexts
  /\ GoTo("Undefined")
  /\ ControlOnly

Read(chunk) ==
  LET c == completion.key IN
  /\ DequeuesOf("Receive", "bytes")
  /\ c \in socketContexts
  /\ \/ AsyncFails(c) /\ Halt
     \/ /\ ~AsyncFails(c)
        /\ ReceivePath!Read(c, chunk)
        /\ receiving' = ReceivingAgain(c)
        /\ completionPort' = Tail(completionPort)
        /\ HandleNetEventsReturns
        /\ UNCHANGED <<link, unread, sending, serverVars, socketContexts, address, sendVars>>

Restarted(c) == IF SendPath!RestartsOnWrite(c) THEN {c} ELSE {}

Write ==
  LET c == completion.key IN
  /\ DequeuesOf("Send", "bytes")
  /\ c \in socketContexts
  /\ IF \E r \in Restarted(c) : AsyncFails(r) THEN Halt
     ELSE /\ SendPath!Write(c)
          /\ sending' = SendingStarted(Restarted(c))
          /\ completionPort' = Tail(completionPort)
          /\ HandleNetEventsReturns
          /\ UNCHANGED <<link, unread, receiving, serverVars, socketContexts, address, receiveVars>>

-----------------------------------------------------------------------------
(* The timed tasks of the server's loop, and its end.                      *)

(* NetServer::Update: every NetConnection hands over its messages; those   *)
(* marked for close are notified and erased.                                *)
Update ==
  /\ pc = "Update"
  /\ Server!Update
  /\ ReceivePath!HandOver(connections)
  /\ GoTo("Send")
  /\ UNCHANGED <<netVars, socketContexts, address, sendVars>>

(* A message for one of the connections, removed or not                     *)
Send(c) ==
  /\ pc = "Send"
  /\ c \in connections
  /\ emplaced[c] < MaxMessages
  /\ SendPath!Emplace(c)
  /\ GoTo("Accept")
  /\ UNCHANGED <<netVars, serverVars, socketContexts, address, receiveVars>>

(* The five, or the three, seconds of a TimedTask have not passed yet.      *)
NotDue ==
  /\ pc \in {"Update", "Send"}
  /\ GoTo(IF pc = "Update" THEN "Send" ELSE "Accept")
  /\ ControlOnly

(* The loop was left: DisconnectAllConnections posts a completion without  *)
(* context, so that the wait of its HandleNetEvents returns ...             *)
DisconnectAll ==
  /\ pc = "Accept"
  /\ closing' = TRUE
  /\ completionPort' = Append(completionPort, CloseStatus)
  /\ pc' = "ProcessSend"
  /\ UNCHANGED <<link, unread, receiving, sending, serverVars, socketContexts, address,
                 receiveVars, sendVars>>

(* ... handles one completion, and disconnects and erases every context.   *)
(* Nobody waits for the completions that are still to come.                 *)
Clear ==
  /\ pc = "Clear"
  /\ Server!ChangeStateToClose(socketContexts)
  /\ socketContexts' = {}
  /\ link' = [c \in Conns |-> IF c \in socketContexts THEN "closed" ELSE link[c]]
  /\ receiving' = {}
  /\ sending' = [c \in Conns |-> 0]
  /\ completionPort' = <<>>
  /\ ReceivePath!DropReads(socketContexts)
  /\ SendPath!DropWrites(socketContexts)
  /\ GoTo("Destroy")
  /\ UNCHANGED <<unread, address>>

(* ~NetServer                                                               *)
Destroy ==
  /\ pc = "Destroy"
  /\ Server!Destroy
  /\ GoTo("Exit")
  /\ UNCHANGED <<netVars, socketContexts, address, receiveVars, sendVars>>

ServerStep ==
  \/ AcceptNothing \/ \E c \in Conns : Accept(c) \/ AcceptedIsReset(c)
  \/ ProcessSend \/ ProcessSendFails
  \/ WaitTimesOut \/ CloseStatusArrives \/ WaitFails
  \/ NothingTransferred \/ ErasedContextIsUsed
  \/ (\E chunk \in ReceivePath!Kinds : Read(chunk)) \/ Write
  \/ Update \/ (\E c \in Conns : Send(c)) \/ NotDue
  \/ DisconnectAll \/ Clear \/ Destroy

Terminated == ~Running /\ UNCHANGED vars

Next == PeerStep \/ ServerStep \/ Terminated

Spec == Init /\ [][Next]_vars

-----------------------------------------------------------------------------
(* The properties.                                                          *)

(* The shape of the state.                                                  *)
TypeOK ==
  /\ link \in [Conns -> {"none", "pending", "up", "fin", "rst", "closed"}]
  /\ unread \in [Conns -> 0..MaxChunks]
  /\ receiving \subseteq Conns
  /\ sending \in [Conns -> 0..MaxMessages]
  /\ \A k \in DOMAIN completionPort :
       \/ completionPort[k] = CloseStatus
       \/ completionPort[k] \in
            [key : Conns, operationType : {"Receive", "Send"}, result : Results]
  /\ socketContexts \subseteq Conns
  /\ address \in [Conns -> Addresses \cup {nullptr}]
  /\ closing \in BOOLEAN
  /\ pc \in {"Accept", "ProcessSend", "Wait", "Update", "Send", "Clear", "Destroy",
             "Exit", "Dead", "Undefined"}
  /\ Server!ServerTypeOK
  /\ ReceivePath!ReceiveTypeOK
  /\ SendPath!SendTypeOK

(* receiveContext has one netBuffer and one OVERLAPPED: every context has   *)
(* exactly one receive, outstanding with the kernel or completed and queued, *)
(* so that no receive writes into a buffer that Read is looking at and no   *)
(* client is left without one.                                              *)
OneReceivePerContext ==
  \A c \in socketContexts :
    Cardinality({c} \cap receiving) + Cardinality(Queued(c, "Receive")) = 1

(* Each message that StartWrite marked `sended` is with the kernel or in   *)
(* the queue of completions until Write pops for it: none is marked and     *)
(* never sent, none is popped twice.                                        *)
StartedMessagesComplete ==
  \A c \in socketContexts :
    Len(inFlight[c]) = sending[c] + Cardinality(Queued(c, "Send"))

(* SocketContext::connection is a plain pointer into the std::list of      *)
(* NetServer, whose Update erases: no context outlives its NetConnection,   *)
(* and no open NetConnection is left without a context.                     *)
ContextsPointToOpenConnections ==
  socketContexts = {c \in connections : status[c] = "Init"}

(* A reset completes several operations of one connection, each of which   *)
(* asks for its removal: onDisconnect is called exactly once all the same.  *)
NotifiedExactlyOnce == Server!NotifiedExactlyOnce

(* HandleNetEvents removes a connection only when its client is gone, or   *)
(* when a completion of a connection erased before is still to be handled  *)
(* whose context was at the address that this one's has now: nothing else,  *)
(* no other mix of completions, removals and accepts, takes a client that   *)
(* is there for one that is gone.  (The exception is a defect, and happens: *)
(* a send cancelled by A's close completes with no bytes after B's context  *)
(* was allocated where A's had been, and disconnects B.)                     *)
OnlyGoneUnlessAddressReused ==
  [][\A c \in Conns :
       status[c] = "Init" /\ status'[c] = "MarkForClose"
         => \/ link[c] \in Failing \/ pc = "Clear"
            \/ \E d \in Conns \ socketContexts :
                 /\ address[d] = address[c]
                 /\ Queued(d, "Receive") \cup Queued(d, "Send") # {}]_vars

(* Every run of the server calls the receive path as NetReceivePath         *)
(* requires (what NetSendPath requires is StartedMessagesComplete) ...      *)
ReceivesAsSpecified == ReceivePath!Spec

(* ... and treats its connections as NetServer requires: none is            *)
(* disconnected twice or after it was erased, although completions of a     *)
(* connection outlive it.                                                   *)
ServesAsSpecified == Server!Spec

(* Wait gives its caller the IOContext and the SocketContext a completion  *)
(* names; those of a context that RemoveConnection erased are never used.   *)
NoErasedContextIsUsed == pc # "Undefined"

=============================================================================
