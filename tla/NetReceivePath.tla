--------------------------- MODULE NetReceivePath ---------------------------
(***************************************************************************)
(* The receiving half of NetEventHandler (StartRead, Read) with the pool   *)
(* it takes its buffers from, the receiveContext of every socket context,  *)
(* and the queue it fills, NetConnection::receivedMessages.                *)
(*                                                                         *)
(* recv writes into netBuffer.buf, always the last buffer of the context's *)
(* list (SetNextBuffer sets the pointer and appends it).  A chunk is what  *)
(* one recv returned: the pair of its connection and its number on that    *)
(* connection.  Its kind says what Read's outcome depends on:              *)
(*   "end"    its last byte is '\0', the only byte Read looks at;          *)
(*   "full"   it is not, and the chunk fills the buffer;                   *)
(*   "short"  it is not, and the chunk does not fill the buffer.           *)
(* A chunk overwrites a buffer from the start, so what a chunk does not    *)
(* fill still holds the chunks that were there: content[b] is the sequence *)
(* of the chunks that buffer b holds bytes of, the newest first.           *)
(* A message is assembled later, from what the buffers of the list hold    *)
(* THEN: all the bytes of each but the last, and the last up to its first  *)
(* '\0' (what an "end" chunk has after an inner '\0' is dropped: a chunk  *)
(* stands for the part that is kept).                                      *)
(*                                                                         *)
(* When a context is destroyed its buffers are not returned: they stay in  *)
(* the pool's list, neither free nor in use.                               *)
(***************************************************************************)
EXTENDS Naturals, Sequences, SequencesExt, BufferPool

CONSTANTS
  Conns,           (* the connections                                      *)
  InitialBuffers,  (* bufferCount of the pool, 8 in the code               *)
  MaxBuffers,      (* bound: buffers the pool may create                   *)
  MaxChunks        (* bound: chunks received on one connection             *)

ASSUME ReceiveAssumption ==
  /\ InitialBuffers \in Nat
  /\ MaxBuffers \in Nat
  /\ InitialBuffers <= MaxBuffers
  /\ MaxChunks \in Nat

Buffers == 1..MaxBuffers
Chunks == Conns \X Nat
Kinds == {"end", "full", "short"}

VARIABLES
  pool,              (* NetEventHandler::bufferPool                        *)
  buffers,           (* receiveContext.buffers; <<>>: no socket context    *)
  content,           (* the chunks each buffer holds bytes of              *)
  chunks,            (* history: how many chunks came in                   *)
  receivedMessages,  (* NetConnection::receivedMessages, oldest first      *)
  handedOver         (* history: the messages onMessage was called with    *)

receiveVars == <<pool, buffers, content, chunks, receivedMessages, handedOver>>

ReceiveInit ==
  /\ pool = NewPool(InitialBuffers)
  /\ buffers = [c \in Conns |-> <<>>]
  /\ content = [b \in Buffers |-> <<>>]
  /\ chunks = [c \in Conns |-> 0]
  /\ receivedMessages = [c \in Conns |-> <<>>]
  /\ handedOver = [c \in Conns |-> <<>>]

-----------------------------------------------------------------------------
(* Slips a mutated run uses: IOContext::Reset forgotten; the buffers       *)
(* returned before they were read.                                         *)
ListAfterReadNoReset(list, kind) == list
PoolAfterReadAlways(p, list, kind) == ReturnBuffers(p, list)

(* What Read leaves of the context's list before it appends a new buffer   *)
ListAfterRead(list, kind) == IF kind = "end" THEN <<>> ELSE list

(* ... and of the pool before that buffer is taken.                         *)
PoolAfterRead(p, list, kind) == IF kind = "end" THEN ReturnBuffers(p, list) ELSE p

(* What a buffer that held the chunks of old holds after recv               *)
Filled(old, chunk, kind) == IF kind = "full" THEN <<chunk>> ELSE <<chunk>> \o old

(* ConcatBuffers: the whole of every buffer but the last, and of the last  *)
(* the chunk just received.                                                 *)
Message(list, bytes) ==
  [i \in DOMAIN list |->
     IF i < Len(list) THEN bytes[list[i]] ELSE <<Head(bytes[list[i]])>>]

(* What NetConnection::Update calls onMessage with until the queue q is    *)
(* empty: each turn hands over back() and pops the front.                   *)
HandedOver(q) == [k \in DOMAIN q |-> Last(q)]

(* IOContext::netBuffer.buf of connection c                                 *)
NetBuffer(c) == Last(buffers[c])

(* bad_alloc stands outside the model: a full pool takes no new buffer.    *)
MayTake(p) == TakenBuffer(p) <= MaxBuffers

-----------------------------------------------------------------------------
(* AddConnection's StartRead on a new SocketContext                         *)
StartRead(c) ==
  /\ buffers' = [buffers EXCEPT ![c] = <<TakenBuffer(pool)>>]
  /\ pool' = AfterTake(pool)
  /\ UNCHANGED <<content, chunks, receivedMessages, handedOver>>

(* A successful receive into netBuffer and the call of Read that handles   *)
(* it: a chunk ending in '\0' completes a message, whose buffers go back   *)
(* to the pool; in both cases the next buffer is taken.                     *)
Read(c, kind) ==
  LET chunk  == <<c, chunks[c] + 1>>
      filled == [content EXCEPT ![NetBuffer(c)] = Filled(@, chunk, kind)]
      kept   == PoolAfterRead(pool, buffers[c], kind)
  IN
  /\ content' = filled
  /\ chunks' = [chunks EXCEPT ![c] = @ + 1]
  /\ receivedMessages' = [receivedMessages EXCEPT ![c] =
       IF kind = "end" THEN Append(@, Message(buffers[c], filled)) ELSE @]
  /\ buffers' = [buffers EXCEPT ![c] =
       Append(ListAfterRead(@, kind), TakenBuffer(kept))]
  /\ pool' = AfterTake(kept)
  /\ UNCHANGED handedOver

(* NetConnection::Update on the connections of S empties their queues.     *)
HandOver(S) ==
  /\ handedOver' = [c \in Conns |->
       IF c \in S THEN handedOver[c] \o HandedOver(receivedMessages[c]) ELSE handedOver[c]]
  /\ receivedMessages' = [c \in Conns |-> IF c \in S THEN <<>> ELSE receivedMessages[c]]
  /\ UNCHANGED <<pool, buffers, content, chunks>>

(* The socket contexts of S are destroyed, with their lists of buffers.    *)
DropReads(S) ==
  /\ buffers' = [c \in Conns |-> IF c \in S THEN <<>> ELSE buffers[c]]
  /\ UNCHANGED <<pool, content, chunks, receivedMessages, handedOver>>

-----------------------------------------------------------------------------
(* Every order of calls the event managers may produce.  Their             *)
(* obligations: StartRead once per socket context, Read only with one.     *)
ReceiveNext ==
  \/ \E c \in Conns : buffers[c] = <<>> /\ MayTake(pool) /\ StartRead(c)
  \/ \E c \in Conns, kind \in Kinds :
       /\ buffers[c] # <<>>
       /\ chunks[c] < MaxChunks
       /\ MayTake(PoolAfterRead(pool, buffers[c], kind))
       /\ Read(c, kind)
  \/ \E S \in SUBSET Conns : HandOver(S)
  \/ \E S \in SUBSET Conns : DropReads(S)

Spec == ReceiveInit /\ [][ReceiveNext]_receiveVars

-----------------------------------------------------------------------------
(* The shape of the state (BufferPool.hpp, NetContext.hpp,                 *)
(* NetConnection.hpp): only buffers that were created are ever mentioned.  *)
ReceiveTypeOK ==
  /\ pool \in [buffersQueue : Seq(Nat), buffers : 0..MaxBuffers]
  /\ ToSet(pool.buffersQueue) \subseteq 1..pool.buffers
  /\ buffers \in [Conns -> Seq(Nat)]
  /\ \A c \in Conns : ToSet(buffers[c]) \subseteq 1..pool.buffers
  /\ content \in [Buffers -> Seq(Chunks)]
  /\ chunks \in [Conns -> Nat]
  /\ receivedMessages \in [Conns -> Seq(Seq(Seq(Chunks)))]
  /\ handedOver \in [Conns -> Seq(Seq(Seq(Chunks)))]

(* BufferPool's unwritten contract: a buffer has one user.  It is in the    *)
(* free queue once or in the list of one context once, never both, however  *)
(* StartRead, Read and disconnections of several clients interleave.        *)
BuffersHaveOneUser ==
  /\ IsInjective(pool.buffersQueue)
  /\ \A c \in Conns : IsInjective(buffers[c])
  /\ \A c \in Conns : ToSet(buffers[c]) \cap ToSet(pool.buffersQueue) = {}
  /\ \A c, d \in Conns : c # d => ToSet(buffers[c]) \cap ToSet(buffers[d]) = {}

(* The newest chunks of m's buffers are a run of chunks of connection c,   *)
(* without a hole.                                                          *)
IsLedByRunOf(c, m) == \A i \in DOMAIN m : m[i][1] = <<c, m[1][1][2] + i - 1>>

(* Each message starts after the ones before it in q.                       *)
InOrder(q) == \A j, k \in DOMAIN q : j < k => Last(q[j])[1][2] < q[k][1][1][2]

(* Whatever the kinds of the chunks, and however the clients share the     *)
(* pool: each message that NetEventHandler::Read queued or Update handed to *)
(* onMessage has, at the front of its buffers, an unbroken run of the       *)
(* chunks of its own client, and one that is queued starts after those      *)
(* queued before it.  No buffer is received into, or given to another       *)
(* client, between a chunk's arrival and the end of its message.  (What a   *)
(* buffer holds behind its newest chunk is MessagesAreTheClientsOwn's.)     *)
ChunksAreTheClientsOwn ==
  \A c \in Conns :
    /\ \A m \in ToSet(receivedMessages[c] \o handedOver[c]) : m # <<>> /\ IsLedByRunOf(c, m)
    /\ InOrder(receivedMessages[c])

(* What Read hands to a connection is what that client sent ("From: {},    *)
(* msg: {}", Servers.hpp): there are no other bytes in a message.           *)
MessagesAreTheClientsOwn ==
  \A c \in Conns :
    \A m \in ToSet(receivedMessages[c] \o handedOver[c]) :
      \A i \in DOMAIN m : m[i] = << <<c, m[1][1][2] + i - 1>> >>

(* onMessage is called with each message of a connection once, in the order *)
(* they were received, however many came in since the last Update.          *)
MessagesHandedOverInOrder == \A c \in Conns : InOrder(handedOver[c])

=============================================================================
