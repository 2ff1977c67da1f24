# LENet in TLA+

LENet is a small C++ networking library for Windows with three servers on top of
it (one on `WSAPoll`, one on `select`, one on I/O completion ports) and a test
client. This directory holds TLA+ models of them, the TLC configurations that
check them on small instances, and proofs about their parts that hold for every
instance. Line numbers refer to `src/Source/`.

1. [The system](#1-the-system)
2. [The modules](#2-the-modules)
3. [The runs](#3-the-runs)
4. [Fairness](#4-fairness)
5. [The proofs](#5-the-proofs)
6. [What the code does that its text does not say](#6-what-the-code-does-that-its-text-does-not-say)
7. [What is not modelled](#7-what-is-not-modelled)
8. [The plan](#8-the-plan)

## 1. The system

Everything runs in one thread. A server's loop (`Servers.hpp` 130-145, 167-182,
202-220) does the same four things for ever:

    server.Accept();            // at most one client, does not block
    server.HandleNetEvents();   // the event managers; waits at most a timeout
    TimedTask<5>(Update);       // hands over messages, drops closed connections
    TimedTask<3>(emplace);      // queues a greeting for a random connection

What makes it hard to test is that clients and the kernel move between any two
system calls of that loop, and that one connection is spread over four places
that the code keeps in step by hand: the `NetConnection` in the server's list,
the `SocketContext` in a manager's vector, an entry in the event buffer (or the
operations outstanding on the completion port), and the buffers of the pool.

| Component | State | Operations | What makes it correct |
|---|---|---|---|
| `NetServer` | `connections` (a `std::list`), managers, the balancing cursor, the listening socket | construction, `AddEventHandler`, `Accept`, `HandleNetEvents`, `Update`, `DisconnectAll`, destruction | a connection is erased only after nothing points to it; each client is reported disconnected once; each is served by one manager, and the managers share the load |
| `NetConnection` | `status`, `messagesToSend`, `receivedMessages`, callbacks, 16-bit id | `Send`, `Update`, `ChangeStateToClose` | `onDisconnect` once; messages handed over once, in order |
| `NetEventHandler`, sending half | the `sended` flag of each message, `sendContext.netBuffer` | `StartWrite`, `Write`, `ReadyToWrite` | the pointer given to the socket stays valid; nothing goes out twice or out of order |
| `NetEventHandler`, receiving half, with `BufferPool`, `ConcatBuffers`, `IOContext` | free queue, each context's list of buffers, what the buffers hold | `StartRead`, `Read`, `TakeBuffer`, `ReturnBuffers` | a buffer has one user; a message is what its client sent |
| `NetBufferBasedEventManager` | `socketContexts`, the event buffer, `pollResult`, the scan's index | `AddConnection`, `RemoveConnection`, `ProcessSend`, `HandleNetEvents`, `DisconnectAllConnections` | one index reaches two sequences about the same socket; the early exit drops nobody; everyone is served in the end |
| `NetPollBuffer`, `NetSelectBuffer` | sockets, write flags, reported events | `Add`, `Remove`, `WaitForEvents`, `SetWriteFlag`, `ResetWriteFlag`, `At` | the write flag means a started message; a refused socket is never used |
| `NetIOCPEventManager`, `IOCompletionPort` | `socketContexts`, the port's queue, operations outstanding | the same as above, and `Wait` | one receive per context; each started message completes once; a completion names a live context |
| `NetSocket`, `NetProtocolTCP` | a handle | `Accept`, `Send`, `Receive`, `SendAsync`, `ReceiveAsync`, moves | which failures are expected and which end the process; a handle has one owner |
| Client (`Client`, `NetSocket::Receive` with a `BufferChain`) | a vector of sockets, a pool, a string, all shared by the sockets | connect, receive, send | what it logs for a socket is a message the server sent to it; the vector may grow without losing a socket |
| `main.cpp` | the arguments | chooses a server and its managers, or a client and its sockets | whatever is typed, a driver starts with numbers it can work with, or the process says why not |
| Addresses, logging, error texts, platform | none that lasts | | |

How they interact: by direct calls and by plain pointers. The server calls the
manager; the manager calls the `NetEventHandler` with a `SocketContext`; the
handler reaches through `SocketContext::connection` into the queues of the
`NetConnection`, which the server's `Update` may erase; `netBuffer.buf` points
into a string of that queue. Callbacks (`onConnection`, `onMessage`,
`onDisconnect`) run inside those calls and only log.

`LENET_ERROR` (`NetBase.hpp` 26-32) ends in `__debugbreak()`: without a debugger
the process stops there. Whether an error path is reached is therefore part of
the behaviour, not of the wording.

The complete list of what can go wrong and is hard to test, each at its line and
with the property that watches it, is in `PROJECT.json` under `hazards`.

## 2. The modules

| Module | Models | Used by |
|---|---|---|
| `BufferPool` | `BufferPool<size>` as operators on a pool value | `NetReceivePath`, `NetClient` |
| `NetReceivePath` | `StartRead`, `Read`, the pool, `ConcatBuffers`, `receivedMessages`, what `Update` hands over | both managers |
| `NetSendPath` | `messagesToSend`, `sended`, `StartWrite`, `Write`, for both kinds of manager | both managers, `NetSendPathProofs` |
| `NetServer` | the list of connections, their status and their notification | both managers, `NetServerManagers`, `NetServerProofs` |
| `NetPeers` | the clients as TCP shows them (external) | both managers |
| `NetBufferBasedEventManager` | the poll and the select server with one manager | `MCNetBufferBasedEventManager` |
| `NetIOCPEventManager` | the IOCP server | `MCNetIOCPEventManager` |
| `NetSocket` | who owns which handle: construction, `SetSocket`, moves, `Close`, destruction | `NetServerManagers`, `NetClient`, `NetSocketProofs` |
| `NetServerManagers` | `NetServer` with any number of managers: the way of an accepted socket, `GetAvailableEventHandler`, construction to destruction | `Main`, `NetServerManagersProofs` |
| `NetClient` | `Client` of `Servers.hpp`, `NetSocket::Receive`, `BufferChain` | `Main` |
| `Main` | `main.cpp`: the command line, and the driver that runs | `MCMain`, `MainProofs` |
| `NetSendPathProofs`, `NetReceivePathProofs`, `NetServerProofs`, `NetSocketProofs` | theorems about the components | the proofs of what composes them |
| `NetBufferBasedEventManagerProofs`, `NetIOCPEventManagerProofs`, `NetServerManagersProofs` | theorems about the servers | the last by `MainProofs` |
| `MainProofs` | theorems about the process and its client | |

`NetReceivePath`, `NetSendPath`, `NetServer` and `NetSocket` are components. Each
has its own variables, its operations as actions or operators without
preconditions (as in the code), and a specification that states what its callers
owe it: that `Write` is only called at the end of something `StartWrite` started,
that `StartRead` is called once for a context, that a connection is disconnected
once and before it is erased, that a socket is moved into an object that holds
none. The two managers instantiate the first three, conjoin their operations with
the control of the loop, and are checked, and proved, to keep to those obligations
(`SendsAsSpecified`, `ReceivesAsSpecified`, `ServesAsSpecified`: the components'
specifications as properties of the servers; in the IOCP server
`StartedMessagesComplete` is what the send path requires). A component's
specification is thereby the abstract one that each server implements, and what
is proved of it holds in the servers.

The servers are described at two levels. `NetBufferBasedEventManager` and
`NetIOCPEventManager` have one manager and every system call. `NetServerManagers`
has any number of managers and takes one manager's `HandleNetEvents` as "some
contexts go"; in exchange it has the sockets, the choice of the manager, and the
server from its constructor to its destructor. Both use the same `NetServer`.
`Main` is the process: its command line chooses between `NetServerManagers` and
`NetClient`, which share the `sockets` of `NetSocket`.

How state and actions correspond to the code:

- A connection is one identifier for the accepted socket, its `SocketContext`
  and its `NetConnection`, which `AddConnection` creates together.
- A message is its number on its connection, a buffer is the number of the
  `emplace_back` that created it, a chunk is what one `recv` returned. Of a chunk
  only what `Read` looks at is kept: whether its last byte is `'\0'`, and whether
  it fills the buffer. What a chunk does not fill still holds older chunks.
- In the readiness loop `pc` is the next system call; the clients move between
  any two. `HandleNetEvents` is `ProcessSend`, `WaitForEvents`, and for each index
  of the scan `Read` / `ReadFails` / `NotReadable`, then `Write` / `WriteFails` /
  `NotWritable`, then `Disconnection` / `Exception` / `NothingMore`, which are the
  four blocks of the source (lines 101-146). `netEvent` is looked up in the event
  buffer at index `i` and `current` in `socketContexts` at index `i`: nothing in
  the model says that they agree. A removal is followed by the next index although
  both sequences moved up, as the `continue` of the source does.
- `WaitForEvents` gives each socket the events `Certain` says it must report and
  any of those `Possible` says it may: the two system calls differ in what they
  say of a connection that ended. `Count` differs as well: `WSAPoll` counts
  sockets, `select` counts a socket once for each set it is in.
- In the IOCP loop the kernel holds outstanding operations (`receiving`,
  `sending`) and appends to `completionPort`; `HandleNetEvents` takes one
  completion. `RemoveConnection` closes the socket, which cancels what is
  outstanding: those completions still come, with either of the errors Windows
  documents or with success for a send. What the code does with a completion of
  an erased context depends on the branch: the branch for 0 bytes looks the
  context up, the others use it (`ErasedContextIsUsed`, after which nothing is
  defined and the model stops).
- The lookup compares addresses, and the memory of an erased context may be
  allocated for the next one. `address` is where the context of a connection is,
  or was; `Accept` takes any address at which no context lives, and `Found` says
  which connections a lookup finds: the one that was meant, another one at its
  address, or none. A completion with bytes that names an erased context stops
  the model also when its address is in use again: what the code would do then
  is to read on the wrong connection.
- `sockets` is a record: `handle` is the field `_socket` of each `NetSocket`
  object, `open` the handles the system has open. An object is named by where it
  lives (the server's field, the local variable of `Accept`, the context of a
  connection, an element of a vector in one of two storages), because that is
  what moves and destructors tell apart. A handle that was closed may be given
  out again.
- In `NetServerManagers` one accept is one action: `SetSocket` on the local
  object, the move into the context, the destruction of the local object. No
  other object of that server acts between them, the server has one thread.
- In the client a message is two fragments, the second with the terminating
  `'\0'`; `recv` takes any number of them up to the buffer's size. "Nothing
  has arrived" is always a possible answer of a socket that does not block.
  `Receive`'s first buffer is in the `BufferChain`, the further ones are not:
  that is what the code does, and the pool grows by them.
- The pieces of `main.cpp`'s command line that are compared are strings; of the
  texts for a count there is one `stoi` refuses and one below 1.
- Several definitions come in pairs: the one that models the code, and before it
  one or two "slips" that state a plausible mistake in that code. Nothing uses the
  slips except when a property is tried against the mistake (`mutants` in
  `PROJECT.json`: each property fails when its slip replaces the definition).

## 3. The runs

| Run | Instance | What it shows |
|---|---|---|
| `send_path_iocp` | 2 connections, 4 messages each, overlapped | with several messages of one connection with the kernel at once, no order of calls makes a pointer into the queue dangle or the wire repeat or reorder a message |
| `send_path_queued` (violation) | 1 connection, 2 messages | a message queued behind another one's back is popped unsent (section 6) |
| `receive_path` | 2 clients, 3 chunks each of any kind, pool of 2 growing to 4 | a buffer has one user; a message begins with an unbroken run of its own client's chunks, and queued messages are in order |
| `receive_path_short` (violation) | 2 clients, 2 chunks each, pool of 1, chunks that do not fill their buffer | a message contains another client's old bytes (section 6) |
| `receive_path_update` (violation) | 1 client, 2 chunks that are messages | of two messages received between two `Update`s one is handed over twice and one never (section 6) |
| `server` | poll and select, 2 clients, 2 chunks each, no messages; failing accepts and waits, urgent data, the end of the loop, a debugger that continues or none | event buffer and contexts stay aligned; no context outlives its connection; the scan's budget covers what is left; no accepted client halts the server by closing or resetting; only clients that are gone are removed, with select only when they were read to the end; each admitted client is notified exactly once |
| `server_reading` | poll and select, lost connections, debugger continues, fairness | a client that is gone is notified; what was sent is read or the connection ends; the receive path is called as specified |
| `server_sending` | poll and select, 2 messages per connection, sockets that may be above `FD_SETSIZE`, no debugger, fairness | write flag and started message agree; the budget covers the writable sockets too; a reset before a reported send neither halts the server nor removes another client; the newest message goes out or the connection or the process ends; the send path is called as specified |
| `iocp_server` | 2 clients, 1 chunk and 1 message each, 2 addresses | one receive per context; one completion per started message; one notification per client; `NetServer` and the receive path are called as specified; only a client that is gone is removed, or one whose context is where an erased one was that has a completion queued |
| `iocp_erased_context` (violation) | 1 client, 1 message | a completion names an erased context (section 6) |
| `main` | every command line of up to 3 arguments; 4 clients and 1 or 2 managers, or a client with 1 or 2 sockets and 2 messages each | every handle has one owner, every connection one manager, the loads of the managers stay within two of each other while nobody leaves, each client is notified once; what the client logs begins with something new of the right socket, and its buffers have one user |
| `client_message` (violation) | 1 socket, 1 message | a message that arrives in two pieces is logged without its second piece (section 6) |

Why the bounds are enough:

- Two clients: the interesting interplay is between a socket that is removed in
  a scan and one other socket that shifts into its place, between two users of
  one pool, and between two entries of the completion queue. A third client adds
  orders of the same pairs. In the safety runs that name no client the clients
  are permuted (symmetry); it is not used where liveness is checked.
- Chunks: in `server` each client sends two, so that one is still unread when the
  scan is done with a client that closed: what a removal could lose. One is enough
  elsewhere: a connection then receives with bytes and without, before and after a
  close. Messages of several chunks and buffers that change hands are the business
  of `receive_path`, where three chunks allow a two-chunk message after a one-chunk
  message, in buffers that were used before. Chunks and messages in one turn of the
  readiness loop are in no run (the states are too many): there the reads are
  checked by `server` and the sends by `server_sending`, and the proofs are about
  both.
- Messages: one lets started message, completion and disconnection race
  (`iocp_server`); two let a message be queued behind another (`server_sending`);
  four let the overlapped send path have several in flight, one skipped and one
  restarted.
- `MaxBuffers` is never reached in the servers' runs: two contexts with at most
  two buffers each, plus the buffers that removed contexts took with them.
  `ReceivesAsSpecified` would fail if it were, since the receive path takes no
  buffer above the bound. `InitialBuffers` is 1 (8 in the code), so that the pool
  has to grow.
- In `main`, four clients on two managers let the loads differ by two, the cursor
  move on and the second manager catch up. The cursor is back at the first manager
  with the sixth accept, which no run reaches: rounds are `LoadsStayTogether`'s
  (section 5). Five handles are the listener's
  and one for each client, so that handles of clients that left are used again
  only by others. Two sockets make the client's vector grow, with and without a
  move to new storage. The client loses a buffer whenever a message comes in
  pieces, so `MaxBuffers` (4) is reached: from there on that client takes no
  step that needs another buffer. Three arguments are an option, its count and
  one more option.
- Deadlock is not checked in `main` and `client_message`: the process ends, when
  the server is destroyed, `stoi` throws or the client meets an error. It is
  checked in all other runs.
- No run uses a state constraint: every bound is a guard of the action it limits
  (`MaxChunks` where a client sends, `MaxMessages` in `Send` and `ServerSends`,
  `MaxBuffers` where a buffer is taken, `MaxManagers` in `AddEventHandler`).

`PROJECT.json` names for each property of each passing run a slip in the modelled
code with which the run fails.

## 4. Fairness

`server_reading` and `server_sending` use

- weak fairness of the server's steps: sockets do not block and both waits have a
  timeout, so the thread always comes back;
- strong fairness of `Update`: it is a `TimedTask`, which is due again and again
  because the clock advances; in the turns where it is not due the model passes
  it (`NotDue`), so weak fairness would say nothing;
- weak fairness of `PeerReads`: a client that is alive reads in the end, which
  makes room in the socket's send buffer. Without it a message may wait for ever,
  in the model and in the program.

Nothing is assumed of clients otherwise: they need not send, close or connect. The
timed task that queues messages is not fair: it may never run.

## 5. The proofs

`NetSendPathProofs` (553 obligations) proves for any set of connections, any bound
on messages and both kinds of manager:

- `TypeCorrect`: `Spec => []SendTypeOK`
- `PointersStayValid`: `Spec => []InFlightIsQueued`
- `MessagesGoOutInOrder`: `Spec => []WireInOrderWithoutRepeats`

None of the three is inductive. `StartWrite` takes the *back* of the queue and
`Write` pops the *front*, so that the popped message is usually not the one that
went out; why is a popped message never one that a pointer still needs? The
inductive invariant `SendInv` says what keeps them apart. Every `Write` pops one
message and reports one, so the queue is always the messages after the `Len(wire)`
oldest; reported and started messages together are increasing; and the k-th
started message has a number of at least k, because a back is started only when it
is newer than every message started before. The front of the queue is therefore
never newer than the oldest message in flight, and popping it leaves every later
one in the queue. The module proves one lemma for each action, over lemmas on
increasing sequences and on the operators `Pop`, `Started` and `Reported`.

`NetReceivePathProofs` (1324 obligations) proves for any connections, any pool and
any number of chunks:

- `ReceiveTypes`: `Spec => []ReceiveTypeOK`
- `OneUser`: `Spec => []BuffersHaveOneUser`
- `ChunksOwn`: `Spec => []ChunksAreTheClientsOwn`

A buffer's user changes hands in one step of `Read`: the list goes to the end of
the free queue and the next buffer comes from its front, which may be a buffer of
that very list. The invariant `ReceiveInv` is stated for one pool and one list
(`PoolOK`, `ListOK`, apart from every other list), with a lemma each for
`AfterTake`, `ReturnBuffers` and the list that is left. `ChunksOwn` needs
more: `MessagesInv` says that the buffers of a context but the last begin with
consecutive chunks of its own client, of which the last is the newest received,
and that the queued messages begin with earlier runs, one after the other. It
makes no assumption about the chunks: a `recv` may end anywhere. What it does not say is that a
message contains nothing else, and that is false (`receive_path_short`): a chunk
that fills neither its buffer nor the message leaves older bytes behind it. Both
servers carry `OneUser` and `ChunksOwn` over.

The module ends with a question the servers ask, how many buffers are enough: a
connection takes one when it is accepted and one with each chunk, so a pool with
room for `InitialBuffers` and one for each of those (`PoolSuffices`) never has to
refuse one (`BoundedStartRead`, `BoundedRead`).

`NetServerProofs` (73 obligations) proves `NotifiedOnce`: `Spec =>
[]NotifiedExactlyOnce` for any set of clients. The property is inductive together
with the type invariant. The case that needs the callers' obligation is
destruction: a connection that was never disconnected would be destroyed without
a call of `onDisconnect`, so the specification lets the server be destroyed only
after `DisconnectAll`. All three servers are proved to implement that
specification (`Serves`, `ManagersServeAsSpecified`), which carries the theorem
over to them.

`NetSocketProofs` (45 obligations) proves `OneOwner`: `SocketsSpec =>
[]HandlesHaveOneOwner`, for any objects and handles. Its three lemmas are about
any value of `sockets`, so that they chain along a statement such as the one in
`Accept` that opens, moves and closes. The assumption a move needs (its target
holds nothing) is the callers' obligation: move assignment does not close what it
overwrites.

`NetServerManagersProofs` (645 obligations) is about a server with any number of
managers, clients and handles.

- `OneManager`: `ManagersSpec => []ConnectionsHaveOneManager`
- `ServerHandlesHaveOneOwner`: `ManagersSpec => []HandlesHaveOneOwner`
- `ManagersServeAsSpecified`: `ManagersSpec => Spec`, `NetServer`'s specification;
  with it `NotifiedOnce` holds of every number of managers
- `LoadsStayTogether`: `ManagersSpec => []LoadsDifferByTwo`

The first three follow from `ManagersInv`, which adds to the property that there
are contexts only in the loop, that what is listed is open or marked for close,
and that the local `clientSocket` holds nothing between two accepts. The last
needs an invariant of its own. That the cursor moves by at most one, after a
comparison with loads that do not count the new client yet, keeps the loads within
two of each other for a reason one does not see in the code: in a round each
manager the cursor has left has `b + 2` clients, each it has not reached has `b`,
the one it is on has `b` or `b + 1`, and when the whole round is done, `b` grows
by two and the round starts where the cursor happens to be (`BalancedAt`).
`BalancedStep` is that argument in numbers; `LoadInv` ties it to the managers.

`NetBufferBasedEventManagerProofs` (2264 obligations) is about the poll and the
select server with one manager, any number of clients and any faults. Its
invariants are layers; each is proved from the ones below it.

1. `LivesOK`: a connection is listed and open exactly while its socket is among
   `socketContexts`, once, and its client has been accepted; the scan's index is
   behind no socket it needs. From it: `ContextsPoint`, `Serves` and
   `NotifiedOnce`.
2. `BudgetOK`: `pollResult` covers the reported sockets at the indices still to
   come. It is inductive in all three places of the loop's body, with what the
   current socket may still take off. A removal moves the sockets behind the index
   one place down and skips one of them; `RestRemoved` says that no reported
   socket is counted twice by that. From it: `BudgetCovers`.
3. `ScanInv`: the two sequences are equal, a write flag is set exactly for a
   started message, and what was reported of a socket that is still to be looked
   at is true now: it can be read, or its client is gone, and so on for every
   event. That is the reason why the server may act on reports that are older
   than the clients' last steps: a client can only make them truer. From it:
   `BufferMatches`, `FlagsMeanStarted`, `OnlyGone`, `ReadToTheEnd`,
   `ClientsDoNotHalt`, `Sends`, and with `MaxMessages \in Nat` also `SendsInOrder`.
4. `ReadsInv`: a connection has a list of buffers while its context exists, and
   the pool has created no more buffers than the connections have taken. From it:
   `Receives`, `OneUser` and `ChunksOwn`.
5. `ShapeOK` adds what is missing for `Types`.

Layers 3 and 5 have the hypothesis `NoSocketIsRefused`: no debugger continues after
`LENET_ERROR`, or no socket is above what `select` takes. Otherwise the statements
are false: a refused socket has a context and no entry in the event buffer, and a
debugger lets the server scan on with the sequences one apart. Without a debugger
the process ends first, and the theorems say that this is early enough. Layers 4
and 5 have the hypothesis `BuffersSuffice`, which is the assumption of
`NetReceivePath` and `InitialBuffers + Cardinality(Conns) * (MaxChunks + 1) <=
MaxBuffers`: the bound of the model on a pool that is unbounded in the code must
not be reached. The passing runs of the servers satisfy both
(`server_sending` lets a socket be refused, without a debugger).

`NetIOCPEventManagerProofs` (2224 obligations) is about the IOCP server, for any
number of clients. It has no hypothesis where none is named.

1. `LivesOK`: a context exists exactly while its connection is listed and open.
   From it: `ContextsPoint`, `Serves`, `NotifiedOnce`.
2. `IOInv`: of each context one receive is outstanding or queued, the messages in
   flight are the sends outstanding and queued, only accepted connections are
   named by completions, and a queued completion that took no bytes says that the
   client is gone, if its own context is there. Completions outlive their
   context, so the counts (`Count`, with a lemma for each way the queue changes)
   are claimed for contexts only, and what closesocket leaves behind is shown to
   belong to no other connection. From it: `OneReceive`, `StartedComplete`,
   `OnlyGone` (only a client that is gone is removed, or one whose context has the
   address of an erased one with a completion queued: `OnlyGoneUnlessAddressReused`),
   `Sends`, and with `MaxMessages \in Nat` also `SendsInOrder`.
3. `ReadsInv`, under `BuffersSuffice`: as for the readiness loop; a chunk whose
   completion is queued has left `unread` and is not in `chunks` yet, so the bound
   on chunks has to count it. From it: `Receives`, `OneUser` and `ChunksOwn`.
4. `ShapeOK` adds what is missing for `Types`. The kernel's sends of a connection
   are bounded by `MaxMessages` because started messages are increasing
   (`FlightBound` of `NetSendPathProofs`).

The inductive invariants of both modules were checked by TLC on the instances of
section 3 before they were proved, the pool with a bound that is exactly
`PoolSuffices`; so was that of `MainProofs`, on the instance of `main`.

`MainProofs` (1289 obligations) is about the process, under `MainSpec`, with any
number of clients, managers, handles, buffers and messages. Server and client are
alternatives, but they share `sockets`. `ServerLeavesOthers` says that no step of the
server touches an object outside it, and `ClientLeavesServer` the converse, so the
lemmas of `NetServerManagersProofs` hold in the process:
`ProcessHandlesHaveOneOwner`, `ProcessOneManager`, `ProcessLoads` and
`ProcessServesAsSpecified` (`MainSpec => Spec`), hence `ProcessNotifiesOnce`.

What is new is the client, and its three layers in `ClientInv`:

1. `VectorInv`: outside the vector no object of the client holds a handle. When
   `emplace_back` moves everything into other storage (`GrownKeeps`), each handle
   has moved with it, the closed ones are the empty ones, and none is left behind.
2. `PoolInv`: the chain of `Receive` owns no buffer, or one that the pool has given
   out and that is not in its queue. The buffers `Receive` takes past the first
   belong to nobody, so they come back to nobody either: they are lost, but they
   are never used twice. From it: `ClientOneUser`.
3. `StreamInv` and `HeadInv`. `ClientLogsInOrder` is not inductive, because the
   buffers hold what earlier messages, of other sockets too, left in them, and
   because the fragments a message is logged with are not those that arrived. The
   invariant follows one fragment, the first of the first buffer in the chain
   (`ChainHead`): it is of the stream of the socket being read, before everything
   still under way and after everything logged for that socket (`Fresh`). `Concat`
   begins with that buffer, whatever it appends. A stream is increasing, and what
   `recv` takes is its front, so what is left comes after.

`ProcessTypes` needs `MainAssumption`: a command line may ask for two sockets, so
the bound on sockets has to leave room for them.

Where two instances of one component
meet (the server's own and the one of the component's proofs) a lemma says that
they are the same (`SameServer`, `SameSend`, `SameReceive`).

The proofs use only the assumptions named in the modules (`ReceiveAssumption`,
`SendAssumption`, `SocketAssumption`, `ManagersAssumption`, `ClientAssumption`,
`MainAssumption`) and the hypotheses above. They say what the constants are: bounds
are numbers, a buffer has room for a whole message of the client's, the objects of
each part are among the `NetSocket`s.

Two definitions are written with the proofs in mind: `Grown` moves all elements of
the client's vector at once, since their order makes no difference and a fold over
them would need induction, and `stoi` is a function with its domain spelled out.
Both are the same operations as in the code.

Only model-checked:

- what is temporal beyond invariants, action properties and refinement
  (`GoneClientsAreNotified`, `SentDataIsRead`, `NewestMessageGoesOut`): liveness
  under fairness and `ENABLED` are out of the prover's reach, and so is induction
  over data;
- the properties of the runs that end in a violation: they are false.

Every invariant, action property and refinement that a passing run checks is
stated by a theorem.

## 6. What the code does that its text does not say

Each of these is a run that ends in a counterexample.

- **A queued message can be dropped** (`send_path_queued`, `NetEventHandler.cpp`
  51). `StartWrite` starts `messagesToSend.back()`, `Write` pops the front. With
  two messages queued between two `ProcessSend`s the newer one goes out and the
  older one leaves the queue, its `sended` still false.
- **A message can contain old bytes** (`receive_path_short`, `BufferPool.cpp`
  15). `ConcatBuffers` takes the whole of each buffer but the last. A `recv` that
  returns less than a buffer, and not the end of the message, leaves the rest of
  the buffer as the last user left it, and that becomes part of the message.
- **A message can be handed over twice, and another never** (`receive_path_update`,
  `NetConnection.hpp` 72). `Update` calls `onMessage` with the back of
  `receivedMessages` and pops the front, until the queue is empty: of two messages
  the newer is handed over twice.
- **The client loses the rest of a message** (`client_message`,
  `NetSockets.hpp` 60). `Receive` takes its second buffer from the pool and not
  from the chain, and `Concat` sees the chain only. What is logged is the first
  piece. The buffers taken that way are never returned.
- **A completion may name an erased context** (`iocp_erased_context`,
  `NetIOCPEventManager.hpp` 156). A client's close completes its receive with 0
  bytes; before it is handled `ProcessSend` starts a send on the connection; the
  close erases the context; the completion of the send is then used without a look
  at the list. `main.cpp` starts this server unless told otherwise.

Other behaviour worth knowing, in the models but contradicted by no text:

- In the IOCP server a completion may disconnect another client
  (`NetIOCPEventManager.hpp` 125). The branch for 0 bytes looks the context up, by
  its address. When a client's close erased its context while a send to it was
  outstanding, the next client's context may be allocated where that one was; the
  cancelled send's completion then finds it and disconnects a client that did
  nothing. `OnlyGoneUnlessAddressReused` makes an exception of exactly this case:
  without it `iocp_server` fails.
- `NetSelectBuffer::Add` says with its result that it took no socket, and
  `AddConnection` (`NetBufferBasedEventManager.hpp` 36) does not look at it: when a
  debugger goes on after the error's `__debugbreak()`, each later context is one
  place behind its socket, and the close of one client disconnects another.
- A client that gives up before it is accepted makes `WSAAccept` fail with an
  error other than `WSAEWOULDBLOCK`, which is a `LENET_ERROR` (`NetSockets.cpp`
  74): `AcceptFails`. `AcceptedClientsDoNotHaltTheServer` is about accepted clients.
- With `WSAPoll`, a client that sends two chunks and closes may lose the second:
  `POLLHUP` removes it after one read. With `select` it is read to the end
  (`ClosedClientIsReadToTheEnd`).
- `Receive` and `Send` expect `WSAECONNRESET`; `ReceiveAsync` and `SendAsync` treat
  it as an error, so a reset at the wrong moment halts the IOCP server
  (`AcceptedIsReset`, `ProcessSendFails`, the first case of `Read`).
- The buffers of a removed context are never returned to the pool.
- The byte count of a send is ignored: a partial send pops the whole message, and
  the client's `LogSend` drops the rest.
- After `--client` the count is looked for behind `-client` (`main.cpp` 62), so
  `--client 5` opens one socket. A count that is no number ends the process with
  an exception.
- Once clients have left, the loads of the managers may be any distance apart:
  the cursor moves by at most one per accept.
- When a message of the client's is interrupted by "nothing there yet", what
  `Receive` took of it is lost, and the rest is later logged as a message.
- All sockets of a client share one timer (`TimedTask<1>` has one static start).
- `IOCompletionPort` closes its port in the destructor and has no move
  constructor: a second manager in an IOCP server would close the first one's
  port. No driver adds one.
- Neither loop reaches the restart in `NetEventHandler::Write`, because
  `ProcessSend` runs just before each wait. `send_path_iocp` exercises it.
- `close` is never set in the drivers; the models leave the loop all the same
  (always possible in the IOCP server, the fault "close" in the other), since
  `DisconnectAll` is public.

## 7. What is not modelled

- What the system calls of one manager do, when there are several. The managers
  share nothing but the list of connections, and `NetServerManagers` lets each
  remove whichever of its contexts it likes; but the interleaving of two managers'
  scans inside one `HandleNetEvents` is in no run.
- Several managers in an IOCP server: no driver has them (see section 6).
- The 16-bit id of a connection and its wrap: ids are logged and never compared
  outside `operator==`, which has no caller.
- What the client sends (`LogSend`): nothing it receives depends on it.
- `Bind`, `Listen`, the socket options: they succeed or `LENET_ERROR` ends the
  start-up.
- That two sends of one connection share one `OVERLAPPED`: the model tells their
  completions apart.
- Reading past the end of a buffer without `'\0'` in the client's last buffer: what
  lies there is not defined, and the model takes nothing from it.
- Contents of messages, addresses, logging, error texts, start-up: without state
  or without influence on the control.
- In the IOCP server and the client, `__debugbreak()` always ends the process; in
  the readiness loops a constant says whether a debugger continues.

## 8. The plan

1. Done: send path, receive path with `Update`, readiness loop, IOCP manager, the
   server with several managers, sockets, client and command line. Proved: every
   property the passing runs check of the components, of the three servers and of
   the process, liveness apart.
2. Liveness of the IOCP server, as far as the process lives.
3. What of a message the client logs is lost, as a statement that holds: the log
   of a socket is made of fragments its server sent, or of older ones the buffers
   held.
