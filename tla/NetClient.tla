------------------------------ MODULE NetClient ------------------------------
(***************************************************************************)
(* Client(count) of Servers.hpp: a vector of sockets, the NetSockets       *)
(* moving when it grows, and one loop that receives from each in turn with *)
(* NetSocket::Receive(bufferPool, msg).                                     *)
(*                                                                         *)
(* A message of the server has two fragments <<i, m, part>>, for message m *)
(* to socket i, the second ending in '\0'; TCP may deliver the stream in   *)
(* pieces of any number of fragments.  recv writes a piece from the start  *)
(* of the buffer and leaves the rest of the buffer as it was.               *)
(*                                                                         *)
(* LENET_ERROR ends the process (phase "Dead").  What LogSend sends is not *)
(* modelled: nothing the client receives depends on it.                     *)
(***************************************************************************)
EXTENDS NetSocket, BufferPool, SequencesExt

CONSTANTS
  MaxClients,      (* bound: the sockets of one client                     *)
  InitialBuffers,  (* bufferCount of the pool, 8 in the code               *)
  MaxBuffers,      (* bound: buffers the pool may create                   *)
  BufferSize,      (* fragments a buffer holds, 256 bytes in the code      *)
  MaxMessages      (* bound: messages the server sends to one socket       *)

Storages == {"storage", "newStorage"}   (* where a vector's elements are    *)
Element(where, i) == <<where, i>>
Sockets == 1..MaxClients

ASSUME ClientAssumption ==
  /\ {Element(where, i) : where \in Storages, i \in Sockets} \subseteq Objects
  /\ MaxClients \in Nat /\ MaxBuffers \in Nat /\ InitialBuffers \in 0..MaxBuffers
  /\ BufferSize \in Nat \ {0, 1}

VARIABLES
  storage, clients,   (* the vector: where it is, and its size             *)
  clientCount,        (* Client's argument count                           *)
  current,            (* the socket whose turn it is                       *)
  bufferPool,
  content,            (* the fragments each buffer holds                   *)
  bufferChain,        (* BufferChain::buffers during a Receive             *)
  msg,                (* the string all sockets share                      *)
  stream, sent,       (* external: fragments under way; messages sent      *)
  logged,             (* history: the messages logged for each socket      *)
  clientPhase

netVars == <<stream, sent>>
vectorVars == <<storage, clients, clientCount>>
receiveVars == <<current, bufferPool, content, bufferChain, msg, logged>>
clientVars == <<netVars, vectorVars, receiveVars, clientPhase>>

Zero == <<0, 0, 2>>   (* a new buffer is all '\0': no text, and an end      *)

ClientIdle ==
  /\ storage = "storage" /\ clients = 0 /\ clientCount = 1 /\ current = 1
  /\ bufferPool = NewPool(InitialBuffers)
  /\ content = [b \in 1..MaxBuffers |-> [k \in 1..BufferSize |-> Zero]]
  /\ bufferChain = <<>> /\ msg = <<>>
  /\ stream = [i \in Sockets |-> <<>>] /\ sent = [i \in Sockets |-> 0]
  /\ logged = [i \in Sockets |-> <<>>]
  /\ clientPhase = "none"

-----------------------------------------------------------------------------
(* The server sends a message to a socket that is connected.               *)
ServerSends(i) ==
  /\ clientPhase # "Dead"
  /\ i <= clients
  /\ sent[i] < MaxMessages
  /\ sent' = [sent EXCEPT ![i] = @ + 1]
  /\ stream' = [stream EXCEPT ![i] = @ \o << <<i, sent'[i], 1>>, <<i, sent'[i], 2>> >>]
  /\ UNCHANGED <<sockets, vectorVars, receiveVars, clientPhase>>

(* A connect, recv or send that fails otherwise than by WSAEWOULDBLOCK or  *)
(* WSAECONNRESET                                                            *)
ClientFails ==
  /\ clientPhase \in {"Connect", "Receive", "More", "Task"}
  /\ clientPhase' = "Dead"
  /\ UNCHANGED <<sockets, netVars, vectorVars, receiveVars>>

(* clients.emplace_back when the vector is full: the new socket is made in *)
(* new storage, the others are moved there, each to its place, and the old  *)
(* ones are destroyed.                                                      *)
Grown(s, to) ==
  LET old == {Element(storage, i) : i \in 1..clients}
      handle == [o \in Objects |->
                   IF o \in old THEN INVALID_SOCKET
                   ELSE IF o \in {Element(to, i) : i \in 1..clients}
                        THEN s.handle[Element(storage, o[2])] ELSE s.handle[o]]
  IN Closed([s EXCEPT !.handle = handle], old)

(* One turn of the loop that fills the vector, whose growth is the         *)
(* library's choice.                                                        *)
Connect ==
  /\ clientPhase = "Connect"
  /\ clients < clientCount
  /\ clients' = clients + 1
  /\ \E h \in FreeHandles, where \in Storages :
       LET opened == Opened(sockets, Element(where, clients'), h) IN
       /\ sockets' = IF where = storage THEN opened ELSE Grown(opened, where)
       /\ storage' = where
  /\ UNCHANGED <<clientCount, netVars, receiveVars, clientPhase>>

(* The end of that loop                                                     *)
Connected ==
  /\ clientPhase = "Connect"
  /\ clients = clientCount
  /\ clientPhase' = "Receive"
  /\ UNCHANGED <<sockets, netVars, vectorVars, receiveVars>>

-----------------------------------------------------------------------------
EndsInNul(fragment) == fragment[3] = 2

(* A buffer read as a C string; one without a '\0' is read past its end,    *)
(* and what lies there is left out.                                         *)
UpToNul(bytes) ==
  SubSeq(bytes, 1, Min({Len(bytes)} \cup {k \in DOMAIN bytes : EndsInNul(bytes[k])}))

(* ConcatBuffers                                                            *)
Concat(list, bytes) ==
  FlattenSeq([k \in 1..(Len(list) - 1) |-> bytes[list[k]]]) \o UpToNul(bytes[Last(list)])

(* Slip a mutated run uses: the result of Receive is not looked at.         *)
LogAlways(received) == logged' = [logged EXCEPT ![current] = Append(@, msg')]

(* if (client.Receive(bufferPool, msg)) LogUser(...)                        *)
Log(received) ==
  logged' = [logged EXCEPT ![current] = IF received THEN Append(@, msg') ELSE @]

(* Receive's next call of TakeBuffer: the first buffer is the chain's, the *)
(* others are taken from the pool behind its back.                          *)
Receiving == clientPhase \in {"Receive", "More"} /\ TakenBuffer(bufferPool) <= MaxBuffers
NextBuffer == TakenBuffer(bufferPool)
ChainAfterTake == IF clientPhase = "Receive" THEN <<NextBuffer>> ELSE bufferChain

(* Receive returns: ~BufferChain gives the chain's buffers back.            *)
ReceiveReturns(received) ==
  /\ bufferPool' = ReturnBuffers(AfterTake(bufferPool), ChainAfterTake)
  /\ bufferChain' = <<>>
  /\ Log(received)
  /\ clientPhase' = "Task"

(* Nothing has arrived, or never will: Receive returns false, whatever it  *)
(* took before.                                                             *)
ReceivesNothing ==
  /\ Receiving
  /\ UNCHANGED <<sockets, netVars, vectorVars, current, content, msg>>
  /\ ReceiveReturns(FALSE)

(* recv takes n fragments, and Receive returns when the last of them ends  *)
(* in '\0': the message is what the chain holds then.                       *)
Receive(n) ==
  LET taken == SubSeq(stream[current], 1, n) IN
  /\ Receiving
  /\ n <= Len(stream[current])
  /\ stream' = [stream EXCEPT ![current] = SubSeq(@, n + 1, Len(@))]
  /\ content' = [content EXCEPT ![NextBuffer] = taken \o SubSeq(@, n + 1, BufferSize)]
  /\ \/ /\ EndsInNul(taken[n])
        /\ msg' = Concat(ChainAfterTake, content')
        /\ ReceiveReturns(TRUE)
     \/ /\ ~EndsInNul(taken[n])
        /\ bufferPool' = AfterTake(bufferPool)
        /\ bufferChain' = ChainAfterTake
        /\ clientPhase' = "More"
        /\ UNCHANGED <<msg, logged>>
  /\ UNCHANGED <<sockets, sent, vectorVars, current>>

(* TimedTask<1>, then the next socket's turn                                *)
Task ==
  /\ clientPhase = "Task"
  /\ current' = (current % clients) + 1
  /\ clientPhase' = "Receive"
  /\ UNCHANGED <<sockets, netVars, vectorVars, bufferPool, content, bufferChain, msg, logged>>

ClientNext ==
  \/ \E i \in Sockets : ServerSends(i)
  \/ Connect \/ Connected \/ ClientFails
  \/ ReceivesNothing \/ (\E n \in 1..BufferSize : Receive(n)) \/ Task

-----------------------------------------------------------------------------
(* Client is started with at least one socket; only buffers that the pool  *)
(* made are mentioned.                                                      *)
ClientTypeOK ==
  /\ storage \in Storages /\ clients \in 0..clientCount
  /\ clientCount \in 1..MaxClients /\ current \in 1..clientCount
  /\ ToSet(bufferPool.buffersQueue \o bufferChain) \subseteq 1..bufferPool.buffers
  /\ bufferPool.buffers \in 0..MaxBuffers
  /\ \A b \in 1..MaxBuffers : Len(content[b]) = BufferSize
  /\ clientPhase \in {"none", "Connect", "Receive", "More", "Task", "Dead"}

(* The buffers that Receive fills are never free at the same time, nor     *)
(* free twice, whatever becomes of those it does not give back.             *)
ClientBuffersHaveOneUser ==
  /\ IsInjective(bufferPool.buffersQueue)
  /\ ToSet(bufferChain) \cap ToSet(bufferPool.buffersQueue) = {}

(* Although all sockets share one string and one pool, each message that   *)
(* is logged for a socket begins with something new of its own: none is     *)
(* logged twice, out of order, or for another socket.                       *)
LoggedInOrder ==
  \A i \in Sockets : \A k \in DOMAIN logged[i] :
    LET first == logged[i][k][1] IN
    /\ logged[i][k] # <<>> /\ first[1] = i
    /\ k > 1 => LET before == logged[i][k - 1][1] IN
                2 * before[2] + before[3] < 2 * first[2] + first[3]

(* What the client logs as received is a message the server sent it.        *)
LoggedMessagesWereSent ==
  \A i \in Sockets : \A m \in ToSet(logged[i]) :
    \E n \in 1..sent[i] : m = << <<i, n, 1>>, <<i, n, 2>> >>

=============================================================================
