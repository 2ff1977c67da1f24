--------------------- MODULE NetBufferBasedEventManager ---------------------
(***************************************************************************)
(* A server built on NetBufferBasedEventManager: the readiness loop of     *)
(* PollServer and SelectServer (Servers.hpp), with the part of NetServer,  *)
(* NetConnection, NetEventHandler and NetSocket that it runs, against the  *)
(* sockets of its clients.                                                  *)
(*                                                                         *)
(* One thread runs the loop; pc is the system call it makes next, so that  *)
(* the clients and the network move between any two system calls: a        *)
(* connection may be reset after WaitForEvents reported it readable.  A    *)
(* connection c names the accepted socket, its SocketContext and its       *)
(* NetConnection, which AddConnection creates together.                     *)
(*                                                                         *)
(* The manager keeps two sequences and reaches one with indices of the     *)
(* other: socketContexts, and the sockets of its netEventBuffer (pollFDs   *)
(* of NetPollBuffer, sockets of NetSelectBuffer).                           *)
(*                                                                         *)
(* LENET_ERROR ends in __debugbreak(): the process stops, unless a         *)
(* debugger lets it go on (constant Debugger).                              *)
(***************************************************************************)
EXTENDS Naturals, Sequences, SequencesExt, FiniteSets

CONSTANTS
  Conns,           (* the clients, each connecting at most once            *)
  EventBuffers,    (* the event buffers considered: a subset of            *)
                   (* {"Poll", "Select"} (NetPollBuffer, NetSelectBuffer)   *)
  Debugger,        (* TRUE: a debugger may go on after __debugbreak()      *)
  Faults,          (* what may happen besides the clients' own traffic: a  *)
                   (* subset of FaultKinds ("high": a handle is not below  *)
                   (* FD_SETSIZE; "close": the loop is left)               *)
  InitialBuffers, MaxBuffers,   (* as in NetReceivePath                    *)
  MaxChunks,       (* bound: chunks sent by one client                     *)
  MaxMessages      (* bound: messages emplaced on one connection           *)

FaultKinds == {"lost", "high", "accept", "wait", "urgent", "close"}

ASSUME ManagerAssumption ==
  /\ EventBuffers \subseteq {"Poll", "Select"}
  /\ Debugger \in BOOLEAN
  /\ Faults \subseteq FaultKinds

VARIABLES
  kind,             (* TNetEventBuffer: what the manager was built with    *)
  (* the clients and the kernel (external) *)
  link,             (* the state of the TCP connection                     *)
  unread,           (* chunks that recv has not returned yet               *)
  full,             (* sockets whose send buffer has no room               *)
  urgent,           (* sockets with out-of-band data                       *)
  (* NetServer and NetConnection *)
  connections,      (* the NetConnections in NetServer::connections        *)
  status,           (* NetConnection::status                               *)
  notified,         (* history: calls of onDisconnect                      *)
  (* NetBufferBasedEventManager and its event buffer *)
  socketContexts,   (* the socket contexts, in their order                 *)
  netEventBuffer,   (* the sockets of the event buffer, in their order     *)
  writeFlags,       (* sockets with POLLWRNORM requested / in writeFDs     *)
  revents,          (* what the last WaitForEvents reported                *)
  (* HandleNetEvents and the server's loop *)
  pc, i, pollResult,
  (* NetReceivePath, NetSendPath *)
  pool, buffers, content, chunks, receivedMessages, handedOver,
  messagesToSend, sended, inFlight, emplaced, wire

netVars     == <<link, unread, full, urgent>>
serverVars  == <<connections, status, notified>>
managerVars == <<socketContexts, netEventBuffer, writeFlags>>
loopVars    == <<pc, i, pollResult, revents>>

Peers == INSTANCE NetPeers
ReceivePath == INSTANCE NetReceivePath
SendPath == INSTANCE NetSendPath WITH Overlapped <- FALSE
Server == INSTANCE NetServer

receiveVars == <<pool, buffers, content, chunks, receivedMessages, handedOver>>
sendVars    == <<messagesToSend, sended, inFlight, emplaced, wire>>
vars == <<kind, netVars, serverVars, managerVars, loopVars, receiveVars, sendVars>>

Events == {"Read", "Write", "Except", "Disconnect"}
Failing == {"fin", "rst", "lost"}   (* the other end is gone *)

Init ==
  /\ kind \in EventBuffers
  /\ Peers!PeersInit
  /\ full = {}
  /\ urgent = {}
  /\ Server!ServerInit
  /\ socketContexts = <<>>
  /\ netEventBuffer = <<>>
  /\ writeFlags = {}
  /\ revents = [c \in Conns |-> {}]
  /\ pc = "Accept"
  /\ i = 1
  /\ pollResult = 0
  /\ ReceivePath!ReceiveInit
  /\ SendPath!SendInit

-----------------------------------------------------------------------------
(* The clients and the kernel.                                              *)

PeerSendsUrgent(c) ==
  /\ "urgent" \in Faults
  /\ link[c] = "up"
  /\ urgent' = urgent \cup {c}
  /\ UNCHANGED <<link, unread, full>>

PeerReads(c) ==
  /\ c \in full
  /\ full' = full \ {c}
  /\ UNCHANGED <<link, unread, urgent>>

(* The server is running and does nothing meanwhile.                        *)
Outside ==
  /\ pc \notin {"Exit", "Dead"}
  /\ UNCHANGED <<kind, serverVars, managerVars, loopVars, receiveVars, sendVars>>

(* A connection may be "lost" to an error other than WSAECONNRESET, for     *)
(* instance WSAECONNABORTED.                                                *)
PeerStep ==
  /\ \E c \in Conns :
       \/ PeerSendsUrgent(c)
       \/ PeerReads(c)
       \/ /\ \/ Peers!Connects(c)
             \/ chunks[c] + unread[c] < MaxChunks /\ Peers!Sends(c)
             \/ Peers!Closes(c)
             \/ Peers!Breaks(c, "rst")
             \/ "lost" \in Faults /\ Peers!Breaks(c, "lost")
          /\ UNCHANGED <<full, urgent>>
  /\ Outside

-----------------------------------------------------------------------------
(* A step of the loop that changes nothing but the loop's own state         *)
ControlOnly == UNCHANGED <<netVars, serverVars, managerVars, receiveVars, sendVars>>

(* LENET_ERROR: __debugbreak() ends the process (the state of a process    *)
(* that ended is of no interest), or, under a debugger, the code may go on *)
(* with what follows.                                                       *)
Halt ==
  /\ pc' = "Dead"
  /\ UNCHANGED <<i, pollResult, revents>>
  /\ ControlOnly

LenetError(Following) == Halt \/ (Debugger /\ Following)

GoTo(label) == pc' = label /\ UNCHANGED <<i, pollResult, revents>>

(* Slips that mutated runs use: pop_back instead of erase; FD_CLR of the   *)
(* write set forgotten; the first read started on the front context, or    *)
(* into a buffer that is not the pool's.                                    *)
BufferAfterRemoveLast(sockets, index) == RemoveAt(sockets, Len(sockets))
FlagsAfterRemoveKeep(flags, socket) == flags
FirstReadOfFront(c) ==
  ReceivePath!StartRead(IF socketContexts = <<>> THEN c ELSE Head(socketContexts))

FirstReadOutsidePool(c) ==
  /\ buffers' = [buffers EXCEPT ![c] = <<pool.buffers + 1>>]
  /\ UNCHANGED <<pool, content, chunks, receivedMessages, handedOver>>

(* netEventBuffer.Remove(index), on the sockets and on the write flags,    *)
(* and socketContexts.erase                                                 *)
BufferAfterRemove(sockets, index) == RemoveAt(sockets, index)

FlagsAfterRemove(flags, socket) == flags \ {socket}

ContextsAfterRemove(contexts, index) == RemoveAt(contexts, index)

(* netEventHandler.StartRead on the new socket context                      *)
FirstRead(c) == ReceivePath!StartRead(c)

(* NetServer::AddConnection and NetBufferBasedEventManager::AddConnection. *)
(* The manager does not look at what netEventBuffer.Add returned.           *)
AddConnection(c, added) ==
  /\ Server!AddConnection(c)
  /\ socketContexts' = Append(socketContexts, c)
  /\ netEventBuffer' = IF added THEN Append(netEventBuffer, c) ELSE netEventBuffer
  /\ FirstRead(c)
  /\ link' = [link EXCEPT ![c] = "up"]
  /\ UNCHANGED <<unread, full, urgent, writeFlags, sendVars>>

(* RemoveConnection(index): Disconnect, Remove from the event buffer, and  *)
(* the destruction of the SocketContext, which closes the socket.           *)
RemoveConnection(index) ==
  LET c == socketContexts[index] IN
  /\ Server!ChangeStateToClose({c})
  /\ netEventBuffer' = BufferAfterRemove(netEventBuffer, index)
  /\ writeFlags' = FlagsAfterRemove(writeFlags, netEventBuffer[index])
  /\ socketContexts' = ContextsAfterRemove(socketContexts, index)
  /\ link' = [link EXCEPT ![c] = "closed"]
  /\ ReceivePath!DropReads({c})
  /\ SendPath!DropWrites({c})
  /\ UNCHANGED <<unread, full, urgent>>

-----------------------------------------------------------------------------
(* NetServer::Accept: one connection per turn; the listening socket does   *)
(* not block, so no client means nothing to do.                             *)
AcceptNothing ==
  /\ pc = "Accept"
  /\ Peers!Pending = {}
  /\ GoTo("ProcessSend")
  /\ ControlOnly

(* NetSelectBuffer::Add refuses a handle >= FD_SETSIZE.                     *)
Accept(c) ==
  LET Added(added) == AddConnection(c, added) /\ GoTo("ProcessSend") IN
  /\ pc = "Accept"
  /\ c \in Peers!Pending
  /\ \/ Added(TRUE)
     \/ "high" \in Faults /\ kind = "Select" /\ LenetError(Added(FALSE))

(* The client gave up before it was accepted.                               *)
AcceptFails(c) ==
  /\ pc = "Accept"
  /\ "accept" \in Faults
  /\ c \in Peers!Pending
  /\ LenetError(
       /\ link' = [link EXCEPT ![c] = "closed"]
       /\ GoTo("ProcessSend")
       /\ UNCHANGED <<unread, full, urgent, serverVars, managerVars, receiveVars, sendVars>>)

(* HandleNetEvents up to the wait: nothing when there are no sockets,      *)
(* otherwise StartWrite on the context of every index of the event buffer, *)
(* whose write flag is set when that started a message.                     *)
NoSockets ==
  /\ pc = "ProcessSend"
  /\ netEventBuffer = <<>>
  /\ GoTo("Update")
  /\ ControlOnly

ProcessSend ==
  LET indices == DOMAIN netEventBuffer IN
  /\ pc = "ProcessSend"
  /\ netEventBuffer # <<>>
  /\ SendPath!ProcessSend({socketContexts[k] : k \in indices})
  /\ writeFlags' = writeFlags \cup
       {netEventBuffer[k] : k \in {k \in indices : SendPath!CanStartOn(socketContexts[k])}}
  /\ GoTo("WaitForEvents")
  /\ UNCHANGED <<netVars, serverVars, socketContexts, netEventBuffer, receiveVars>>

(* What WSAPoll or select says of socket s.  WSAPoll reports POLLHUP for a *)
(* stream that was closed or reset and POLLERR for an error; what else it  *)
(* says of such a socket is left open.  select calls it readable, and      *)
(* keeps its exception set for out-of-band data.                            *)
Certain(s) ==
  LET gone == link[s] \in Failing IN
  {e \in Events :
     \/ e = "Read"  /\ (unread[s] > 0 \/ (kind = "Select" /\ gone))
     \/ e = "Write" /\ s \in writeFlags \ full /\ (kind = "Select" \/ ~gone)
     \/ e = "Disconnect" /\ kind = "Poll" /\ link[s] \in {"fin", "rst"}
     \/ e = "Except" /\ IF kind = "Poll" THEN link[s] = "lost" ELSE s \in urgent}

Possible(s) ==
  {e \in Events :
     /\ kind = "Poll" /\ link[s] \in Failing
     /\ \/ e = "Read" /\ unread[s] = 0
        \/ e = "Write" /\ s \in writeFlags
        \/ e = "Except" /\ link[s] = "rst"
        \/ e = "Disconnect" /\ link[s] = "lost"}

(* WSAPoll counts sockets; select counts a socket once for each set.       *)
Count(reports) ==
  IF kind = "Poll"
  THEN Cardinality({c \in Conns : reports[c] # {}})
  ELSE Cardinality({r \in Conns \X Events : r[2] \in reports[r[1]]})

WaitForEvents ==
  LET sockets == ToSet(netEventBuffer)
      open    == {r \in sockets \X Events : r[2] \in Possible(r[1])}
  IN
  /\ pc = "WaitForEvents"
  /\ \A s \in sockets : link[s] # "closed"
  /\ \E extra \in SUBSET open :
       LET reports == [s \in Conns |->
             IF s \in sockets THEN Certain(s) \cup {e \in Events : <<s, e>> \in extra} ELSE {}]
       IN
       /\ pollResult' = Count(reports)
       /\ revents' = reports
       /\ pc' = IF pollResult' = 0 THEN "Update" ELSE "Read"
  /\ i' = 1
  /\ ControlOnly

(* The wait fails: select refuses a closed socket, and either call may     *)
(* fail for a reason of the system's.                                       *)
WaitFails ==
  /\ pc = "WaitForEvents"
  /\ "wait" \in Faults \/ \E s \in ToSet(netEventBuffer) : link[s] = "closed"
  /\ LenetError(GoTo("Update")
                /\ ControlOnly)

-----------------------------------------------------------------------------
(* The scan.  netEvent is looked up in the event buffer at index i, the    *)
(* socket it is about is taken from the context at index i.  A removal is  *)
(* followed by `continue`: the index moves on although the sequences moved *)
(* up, and the next socket waits for the next turn.                         *)
netEvent == revents[netEventBuffer[i]]
current == socketContexts[i]

NextIndex(index) == index + 1

NextSocket ==
  /\ pc' = "Read"
  /\ i' = NextIndex(i)
  /\ UNCHANGED revents

(* A slip a mutated run uses: the last connection is removed instead.       *)
RemoveCurrentLast == RemoveConnection(Len(socketContexts)) /\ NextSocket

RemoveCurrent == RemoveConnection(i) /\ NextSocket

InScan == i <= Len(netEventBuffer) /\ pollResult # 0

(* The reports are forgotten here: the next WaitForEvents overwrites them   *)
(* before anything reads them.                                              *)
ScanEnds ==
  /\ pc = "Read"
  /\ ~InScan
  /\ pc' = "Update"
  /\ i' = 1
  /\ pollResult' = 0
  /\ revents' = [c \in Conns |-> {}]
  /\ ControlOnly

(* A slip a mutated run uses: every socket looked at is counted.            *)
AfterIsChangedAlways(left) == left - 1

(* if (netEvent.IsChanged()) --pollResult                                   *)
AfterIsChanged(left) == IF netEvent # {} THEN left - 1 ELSE left

NotReadable ==
  /\ pc = "Read"
  /\ InScan
  /\ "Read" \notin netEvent
  /\ pollResult' = AfterIsChanged(pollResult)
  /\ pc' = "Write"
  /\ UNCHANGED <<i, revents>>
  /\ ControlOnly

(* Slips that mutated runs use: a half-closed connection is not read any   *)
(* more; a reset is not among the expected errors.                          *)
CanReceiveOpenOnly(c) == unread[c] > 0 /\ link[c] = "up"
IsFatalOnReset(c) == link[c] \in {"lost", "rst"}

(* recv returns bytes.                                                      *)
CanReceive(c) == unread[c] > 0 /\ link[c] \in {"up", "fin"}

(* The error is neither WSAECONNRESET nor WSAEWOULDBLOCK: LENET_ERROR.     *)
IsFatal(c) == link[c] = "lost"

Read(chunk) ==
  /\ pc = "Read"
  /\ InScan
  /\ "Read" \in netEvent
  /\ CanReceive(current)
  /\ pollResult' = AfterIsChanged(pollResult)
  /\ unread' = [unread EXCEPT ![current] = @ - 1]
  /\ ReceivePath!Read(current, chunk)
  /\ pc' = "Write"
  /\ UNCHANGED <<i, revents, link, full, urgent, serverVars, managerVars, sendVars>>

(* recv returned 0 (orderly close), WSAECONNRESET or WSAEWOULDBLOCK; or it *)
(* failed otherwise, which is reported first.                               *)
ReadFails ==
  /\ pc = "Read"
  /\ InScan
  /\ "Read" \in netEvent
  /\ ~CanReceive(current)
  /\ LET Removed == pollResult' = AfterIsChanged(pollResult) /\ RemoveCurrent IN
     \/ ~IsFatal(current) /\ Removed
     \/ IsFatal(current) /\ LenetError(Removed)

WriteDue == "Write" \in netEvent /\ messagesToSend[current] # <<>>

NotWritable ==
  /\ pc = "Write"
  /\ ~WriteDue
  /\ GoTo("Check")
  /\ ControlOnly

CanSend(c) == c \notin full /\ link[c] \in {"up", "fin"}

(* A slip a mutated run uses: the result of Write negated.                  *)
FlagsAfterWriteSwapped(restarts) ==
  IF restarts THEN writeFlags \ {netEventBuffer[i]} ELSE writeFlags

(* ResetWriteFlag(i) unless Write started another message                   *)
FlagsAfterWrite(restarts) ==
  IF restarts THEN writeFlags ELSE writeFlags \ {netEventBuffer[i]}

(* A successful send may have taken only part of the message, and may have *)
(* left no room in the socket's buffer.                                     *)
Write ==
  /\ pc = "Write"
  /\ WriteDue
  /\ CanSend(current)
  /\ full' \in {full, full \cup {current}}
  /\ SendPath!Write(current)
  /\ writeFlags' = FlagsAfterWrite(SendPath!RestartsOnWrite(current))
  /\ GoTo("Check")
  /\ UNCHANGED <<link, unread, urgent, serverVars, socketContexts, netEventBuffer, receiveVars>>

WriteFails ==
  /\ pc = "Write"
  /\ WriteDue
  /\ ~CanSend(current)
  /\ UNCHANGED pollResult
  /\ \/ ~IsFatal(current) /\ RemoveCurrent
     \/ IsFatal(current) /\ LenetError(RemoveCurrent)

(* Disconnections come before exceptions: a socket that is both is removed *)
(* without an error.                                                        *)
Disconnection ==
  /\ pc = "Check"
  /\ "Disconnect" \in netEvent
  /\ UNCHANGED pollResult
  /\ RemoveCurrent

Exception ==
  /\ pc = "Check"
  /\ "Disconnect" \notin netEvent
  /\ "Except" \in netEvent
  /\ UNCHANGED pollResult
  /\ LenetError(RemoveCurrent)

NothingMore ==
  /\ pc = "Check"
  /\ netEvent \cap {"Disconnect", "Except"} = {}
  /\ UNCHANGED pollResult
  /\ NextSocket
  /\ ControlOnly

-----------------------------------------------------------------------------
(* The timed tasks of the servers' loops, and its end.                     *)

(* NetServer::Update: every NetConnection hands over its messages; those   *)
(* marked for close are notified and erased.                                *)
Update ==
  /\ pc = "Update"
  /\ Server!Update
  /\ ReceivePath!HandOver(connections)
  /\ GoTo("Send")
  /\ UNCHANGED <<netVars, managerVars, sendVars>>

(* A message for one of the connections, removed or not                     *)
Send(c) ==
  /\ pc = "Send"
  /\ c \in connections
  /\ emplaced[c] < MaxMessages
  /\ SendPath!Emplace(c)
  /\ GoTo("Accept")
  /\ UNCHANGED <<netVars, serverVars, managerVars, receiveVars>>

(* The five, or the three, seconds of a TimedTask have not passed yet.      *)
NotDue ==
  /\ pc \in {"Update", "Send"}
  /\ GoTo(IF pc = "Update" THEN "Send" ELSE "Accept")
  /\ ControlOnly

(* The loop was left: NetServer::DisconnectAll.  The event buffer keeps    *)
(* its sockets; nothing uses it any more.                                   *)
DisconnectAll ==
  LET removed == ToSet(socketContexts) IN
  /\ pc = "Accept"
  /\ "close" \in Faults
  /\ Server!ChangeStateToClose(removed)
  /\ socketContexts' = <<>>
  /\ link' = [c \in Conns |-> IF c \in removed THEN "closed" ELSE link[c]]
  /\ ReceivePath!DropReads(removed)
  /\ SendPath!DropWrites(removed)
  /\ GoTo("Destroy")
  /\ UNCHANGED <<unread, full, urgent, netEventBuffer, writeFlags>>

(* ~NetServer destroys the managers and then the connections: a            *)
(* NetConnection still marked for close is notified by its destructor.     *)
Destroy ==
  /\ pc = "Destroy"
  /\ Server!Destroy
  /\ GoTo("Exit")
  /\ UNCHANGED <<netVars, managerVars, receiveVars, sendVars>>

ServerStep ==
  /\ \/ AcceptNothing \/ \E c \in Conns : Accept(c) \/ AcceptFails(c)
     \/ NoSockets \/ ProcessSend \/ WaitForEvents \/ WaitFails
     \/ NotReadable \/ (\E chunk \in ReceivePath!Kinds : Read(chunk)) \/ ReadFails
     \/ NotWritable \/ Write \/ WriteFails
     \/ Disconnection \/ Exception \/ NothingMore \/ ScanEnds
     \/ Update \/ (\E c \in Conns : Send(c)) \/ NotDue
     \/ DisconnectAll \/ Destroy
  /\ UNCHANGED kind

(* The process has ended.                                                   *)
Terminated == pc \in {"Exit", "Dead"} /\ UNCHANGED vars

Next == PeerStep \/ ServerStep \/ Terminated

Spec == Init /\ [][Next]_vars

(* The loop runs and no system call blocks it for ever (the sockets do not *)
(* block, the wait has a timeout): weak fairness of the server.  Its clock *)
(* advances, so that the timed Update is due again and again: strong        *)
(* fairness of Update.  A client that is alive reads what it is sent.       *)
Fairness ==
  /\ WF_vars(ServerStep)
  /\ SF_vars(Update /\ UNCHANGED kind)
  /\ \A c \in Conns : WF_vars(PeerReads(c) /\ Outside)

FairSpec == Spec /\ Fairness

-----------------------------------------------------------------------------
(* The properties.                                                          *)

(* The shape of the state.                                                  *)
TypeOK ==
  /\ kind \in EventBuffers
  /\ link \in [Conns -> Peers!Links]
  /\ unread \in [Conns -> 0..MaxChunks]
  /\ full \subseteq Conns /\ urgent \subseteq Conns
  /\ Server!ServerTypeOK
  /\ socketContexts \in Seq(Conns) /\ netEventBuffer \in Seq(Conns)
  /\ writeFlags \subseteq Conns
  /\ revents \in [Conns -> SUBSET Events]
  /\ pc \in {"Accept", "ProcessSend", "WaitForEvents", "Read", "Write", "Check",
             "Update", "Send", "Destroy", "Exit", "Dead"}
  /\ i \in Nat \ {0}
  /\ pollResult \in Nat
  /\ ReceivePath!ReceiveTypeOK
  /\ SendPath!SendTypeOK

InLoop == pc \notin {"Destroy", "Exit"}

(* The two sequences that HandleNetEvents reaches with the same index      *)
(* (socketContexts[i], netEventBuffer.At(i)) are about the same sockets, so *)
(* that an event is handled on the connection it happened to: after every  *)
(* Accept and every removal during a scan.                                  *)
EventBufferMatchesContexts == InLoop => netEventBuffer = socketContexts

(* SocketContext::connection is a plain pointer into the std::list of      *)
(* NetServer, whose Update erases: no context outlives its NetConnection,   *)
(* no two share one, and no open NetConnection is left without a context.   *)
ContextsPointToOpenConnections ==
  /\ IsInjective(socketContexts)
  /\ ToSet(socketContexts) = {c \in connections : status[c] = "Init"}

(* The loop handles its connections as NetServer requires, so that every   *)
(* accepted client's onDisconnect is called exactly once (NetServer).       *)
NotifiedExactlyOnce == Server!NotifiedExactlyOnce

(* A socket is asked for writability exactly when a message was started on *)
(* it and not sent: otherwise Send would be given a pointer into a popped  *)
(* message (flag without message), or a message would never leave (message *)
(* without flag).                                                           *)
WriteFlagMeansStartedMessage ==
  InLoop => writeFlags = {c \in Conns : inFlight[c] # <<>>}

(* The early exit of the scan, `if (pollResult == 0) break`, never drops a *)
(* reported socket: what is left to count covers the reported sockets at   *)
(* the indices still to come, although removals shift and skip indices and *)
(* select counts a socket up to three times.                                *)
BudgetCoversTheRest ==
  pc = "Read" =>
    pollResult >= Cardinality({k \in i..Len(netEventBuffer) : revents[netEventBuffer[k]] # {}})

(* No client that was accepted makes the server reach LENET_ERROR and its  *)
(* __debugbreak() by closing or resetting its connection, not even between *)
(* a report and the recv or send it leads to.  What halts is a failing     *)
(* wait or accept (a client that gives up before it is accepted makes       *)
(* WSAAccept fail), a connection lost otherwise, or an excepted socket.     *)
AcceptedClientsDoNotHaltTheServer ==
  [][pc' = "Dead" =>
       pc \in {"Accept", "WaitForEvents", "Dead"} \/ link[current] = "lost" \/ current \in urgent]_vars

(* HandleNetEvents removes a connection only when its client is gone, or   *)
(* when its socket is excepted: readiness that was reported for one socket *)
(* is never used to disconnect another.                                     *)
OnlyGoneClientsAreRemoved ==
  [][\A c \in Conns :
       status[c] = "Init" /\ status'[c] = "MarkForClose"
         => link[c] \in Failing \/ c \in urgent \/ pc = "Accept"]_vars

(* With select, a client that sends and then closes in good order is read  *)
(* to the end, one chunk a turn, before HandleNetEvents removes it.  (With  *)
(* WSAPoll the POLLHUP of the close removes it after one chunk.)            *)
ClosedClientIsReadToTheEnd ==
  [][\A c \in Conns :
       kind = "Select" /\ status[c] = "Init" /\ status'[c] = "MarkForClose" /\ link[c] = "fin"
         => unread[c] = 0 \/ c \in urgent \/ pc = "Accept"]_vars

(* Every run of the server is a run of the two halves it composes: Read is *)
(* called only with a buffer, StartRead once for a context ...              *)
ReceivesAsSpecified == ReceivePath!Spec

(* ... and Write only at the end of a message that was started.             *)
SendsAsSpecified == SendPath!Spec

(* A client that is gone is noticed and its onDisconnect called, although  *)
(* a scan skips the socket after each one it removes and the timed Update  *)
(* comes when it comes; unless the process ends.                            *)
GoneClientsAreNotified ==
  \A c \in Conns : (link[c] \in Failing) ~> (notified[c] = 1 \/ pc = "Dead")

(* What a client sent is read, unless the connection or the process ends   *)
(* before.                                                                  *)
SentDataIsRead ==
  \A c \in Conns : (unread[c] > 0) ~> (unread[c] = 0 \/ status[c] # "Init" \/ pc = "Dead")

(* A message emplaced on an open connection goes out, or a newer one does, *)
(* or the connection or the process ends.                                   *)
NewestMessageGoesOut ==
  \A c \in Conns, m \in 1..MaxMessages :
    (emplaced[c] = m) ~>
      (status[c] # "Init" \/ pc = "Dead" \/ \E k \in DOMAIN wire[c] : wire[c][k] >= m)

=============================================================================
