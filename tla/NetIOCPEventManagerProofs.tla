---------------------- MODULE NetIOCPEventManagerProofs ----------------------
(***************************************************************************)
(* Proofs about the IOCP server, for any number of clients, any pool and   *)
(* any number of chunks and messages.                                       *)
(***************************************************************************)
EXTENDS NetIOCPEventManager, SequenceTheorems, FiniteSetTheorems, TLAPS

ServerFacts == INSTANCE NetServerProofs

-----------------------------------------------------------------------------
(* The life of a connection: its context exists while it is open and its   *)
(* client has not been refused or dropped, at an address of its own; no    *)
(* list entry, context or operation exists before it is accepted.           *)
LivesOK ==
  /\ link \in [Conns -> {"none", "pending", "up", "fin", "rst", "closed"}]
  /\ connections \subseteq Conns
  /\ status \in [Conns -> {"none", "Init", "MarkForClose", "Closed"}]
  /\ socketContexts = {c \in connections : status[c] = "Init"}
  /\ \A c \in connections : status[c] \in {"Init", "MarkForClose"}
  /\ \A c \in Conns : status[c] = "none" <=> link[c] \in {"none", "pending"}
  /\ \A c \in socketContexts : link[c] \in {"up", "fin", "rst"}
  /\ pc = "Destroy" => socketContexts = {}
  /\ address \in [Conns -> Addresses \cup {nullptr}]
  /\ \A c, d \in socketContexts : address[c] = address[d] => c = d

LEMMA LivesInit == Init => LivesOK
BY DEF Init, Peers!PeersInit, Server!ServerInit, LivesOK

LEMMA LivesPeers ==
  ASSUME LivesOK, PeerStep
  PROVE  LivesOK'
<1>1. UNCHANGED <<connections, status, socketContexts, address, pc>>
  BY DEF PeerStep, Outside, serverVars, loopVars
<1>2. PICK c \in Conns :
        \/ Peers!Connects(c) \/ Peers!Closes(c) \/ Peers!Breaks(c, "rst") \/ Peers!Sends(c)
        \/ ReceiveCompletes(c) \/ SendCompletes(c)
  BY DEF PeerStep
<1>3. \/ link' = link
      \/ link[c] = "none" /\ link' = [link EXCEPT ![c] = "pending"]
      \/ link[c] = "up" /\ link' = [link EXCEPT ![c] = "fin"]
      \/ link[c] \in {"up", "fin"} /\ link' = [link EXCEPT ![c] = "rst"]
  BY <1>2 DEF Peers!Connects, Peers!Closes, Peers!Breaks, Peers!Sends,
       ReceiveCompletes, SendCompletes
<1>. QED  BY <1>1, <1>3 DEF LivesOK

(* The steps of the server that concern neither the list of connections nor *)
(* the contexts ...                                                         *)
OtherStep ==
  /\ UNCHANGED <<link, connections, status, notified, socketContexts, address>>
  /\ pc' # "Destroy"

LEMMA OtherSteps ==
  ASSUME \/ AcceptNothing \/ \E c \in Conns : AcceptedIsReset(c)
         \/ ProcessSend \/ ProcessSendFails
         \/ WaitTimesOut \/ CloseStatusArrives \/ WaitFails
         \/ ErasedContextIsUsed
         \/ (\E chunk \in ReceivePath!Kinds : Read(chunk)) \/ Write
         \/ (\E c \in Conns : Send(c)) \/ NotDue \/ DisconnectAll
  PROVE  OtherStep
<1>. USE DEF OtherStep, GoTo, ControlOnly, Halt, HandleNetEventsReturns, netVars, serverVars
<1>1. CASE AcceptNothing
  BY <1>1 DEF AcceptNothing
<1>2. CASE \E c \in Conns : AcceptedIsReset(c)
  BY <1>2 DEF AcceptedIsReset
<1>3. CASE ProcessSend
  BY <1>3 DEF ProcessSend
<1>4. CASE ProcessSendFails
  BY <1>4 DEF ProcessSendFails
<1>5. CASE WaitTimesOut
  BY <1>5 DEF WaitTimesOut
<1>6. CASE CloseStatusArrives
  BY <1>6 DEF CloseStatusArrives
<1>7. CASE WaitFails
  BY <1>7 DEF WaitFails
<1>8. CASE ErasedContextIsUsed
  BY <1>8 DEF ErasedContextIsUsed
<1>9. CASE \E chunk \in ReceivePath!Kinds : Read(chunk)
  BY <1>9 DEF Read
<1>10. CASE Write
  BY <1>10 DEF Write
<1>11. CASE \E c \in Conns : Send(c)
  BY <1>11 DEF Send
<1>12. CASE NotDue
  BY <1>12 DEF NotDue
<1>13. CASE DisconnectAll
  BY <1>13 DEF DisconnectAll
<1>. QED
  BY <1>1, <1>2, <1>3, <1>4, <1>5, <1>6, <1>7, <1>8, <1>9, <1>10, <1>11, <1>12, <1>13

(* ... and the others, with what each is for NetServer.                     *)
LEMMA AcceptLives ==
  ASSUME LivesOK, NEW c \in Conns, Accept(c)
  PROVE  /\ LivesOK'
         /\ status[c] = "none" /\ Server!AddConnection(c)
         /\ socketContexts' = socketContexts \cup {c}
<1>1. link[c] = "pending"
  BY DEF Accept, Peers!Pending
<1>2. /\ link' = [link EXCEPT ![c] = "up"]
      /\ connections' = connections \cup {c}
      /\ status' = [status EXCEPT ![c] = "Init"]
      /\ socketContexts' = socketContexts \cup {c}
      /\ pc' = "ProcessSend"
  BY DEF Accept, Server!AddConnection, GoTo
<1>3. Server!AddConnection(c)
  BY DEF Accept
<1>4. status[c] = "none" /\ c \notin socketContexts
  BY <1>1 DEF LivesOK
<1>5. PICK a \in Addresses \ {address[d] : d \in socketContexts} :
        address' = [address EXCEPT ![c] = a]
  BY DEF Accept
<1>6. /\ address' \in [Conns -> Addresses \cup {nullptr}]
      /\ \A d, e \in socketContexts' : address'[d] = address'[e] => d = e
  BY <1>2, <1>4, <1>5 DEF LivesOK
<1>7. /\ link' \in [Conns -> {"none", "pending", "up", "fin", "rst", "closed"}]
      /\ connections' \subseteq Conns
      /\ status' \in [Conns -> {"none", "Init", "MarkForClose", "Closed"}]
      /\ socketContexts' = {d \in connections' : status'[d] = "Init"}
      /\ \A d \in connections' : status'[d] \in {"Init", "MarkForClose"}
      /\ \A d \in Conns : status'[d] = "none" <=> link'[d] \in {"none", "pending"}
      /\ \A d \in socketContexts' : link'[d] \in {"up", "fin", "rst"}
      /\ pc' # "Destroy"
  BY <1>1, <1>2, <1>4 DEF LivesOK
<1>8. LivesOK'
  BY <1>6, <1>7 DEF LivesOK
<1>. QED  BY <1>2, <1>3, <1>4, <1>8

(* The context that a completion without bytes removes is its own, or its  *)
(* own is no more.                                                          *)
LEMMA RemoveLives ==
  ASSUME LivesOK, NothingTransferred
  PROVE  /\ LivesOK'
         /\ \/ UNCHANGED <<link, connections, status, notified, socketContexts, address>>
            \/ \E c \in socketContexts :
                 /\ completion.key = c \/ completion.key \notin socketContexts
                 /\ address[completion.key] = address[c]
                 /\ Server!ChangeStateToClose({c})
                 /\ socketContexts' = socketContexts \ {c}
                 /\ link' = [link EXCEPT ![c] = "closed"]
<1>1. CASE UNCHANGED <<link, connections, status, notified, socketContexts, address>>
  <2>1. pc' # "Destroy"
    BY DEF NothingTransferred, HandleNetEventsReturns
  <2>. QED  BY <1>1, <2>1 DEF LivesOK
<1>2. CASE \E c \in Found(completion.key) : RemoveConnection(c)
  <2>1. PICK c \in socketContexts :
          address[c] = address[completion.key] /\ RemoveConnection(c)
    BY <1>2 DEF Found
  <2>2. /\ Server!ChangeStateToClose({c})
        /\ socketContexts' = socketContexts \ {c}
        /\ link' = [link EXCEPT ![c] = "closed"]
        /\ address' = address
    BY <2>1 DEF RemoveConnection, Disconnected
  <2>3. /\ status' = [d \in Conns |-> IF d \in {c} THEN "MarkForClose" ELSE status[d]]
        /\ connections' = connections
    BY <2>2 DEF Server!ChangeStateToClose
  <2>4. c \in Conns /\ status[c] = "Init"
    BY DEF LivesOK
  <2>5. pc' # "Destroy"
    BY DEF NothingTransferred, HandleNetEventsReturns
  <2>6. LivesOK'
    BY <2>2, <2>3, <2>4, <2>5 DEF LivesOK
  <2>7. completion.key = c \/ completion.key \notin socketContexts
    BY <2>1 DEF LivesOK
  <2>. QED  BY <2>1, <2>2, <2>6, <2>7
<1>. QED  BY <1>1, <1>2 DEF NothingTransferred, serverVars

LEMMA UpdateLives ==
  ASSUME LivesOK, Update
  PROVE  LivesOK' /\ Server!Update /\ UNCHANGED <<link, socketContexts, address>>
<1>1. /\ Server!Update /\ pc' = "Send"
      /\ UNCHANGED <<link, socketContexts, address>>
  BY DEF Update, GoTo, netVars
<1>2. /\ connections' = connections \ {c \in connections : status[c] = "MarkForClose"}
      /\ status' = [c \in Conns |-> IF c \in {d \in connections : status[d] = "MarkForClose"}
                                   THEN "Closed" ELSE status[c]]
  BY <1>1 DEF Server!Update, Server!ClosingConnections
<1>3. LivesOK'
  BY <1>1, <1>2 DEF LivesOK
<1>. QED  BY <1>1, <1>3

LEMMA ClearLives ==
  ASSUME LivesOK, Clear
  PROVE  LivesOK' /\ Server!ChangeStateToClose(socketContexts) /\ socketContexts' = {}
<1>1. /\ Server!ChangeStateToClose(socketContexts)
      /\ socketContexts' = {} /\ address' = address
      /\ link' = [c \in Conns |-> IF c \in socketContexts THEN "closed" ELSE link[c]]
  BY DEF Clear
<1>2. /\ status' = [c \in Conns |-> IF c \in socketContexts THEN "MarkForClose" ELSE status[c]]
      /\ connections' = connections
  BY <1>1 DEF Server!ChangeStateToClose
<1>3. LivesOK'
  BY <1>1, <1>2 DEF LivesOK
<1>. QED  BY <1>1, <1>3

LEMMA DestroyLives ==
  ASSUME LivesOK, Destroy
  PROVE  /\ LivesOK' /\ Server!Destroy
         /\ \A c \in connections : status[c] = "MarkForClose"
         /\ socketContexts = {} /\ UNCHANGED <<link, socketContexts, address>>
<1>1. /\ Server!Destroy /\ pc = "Destroy"
      /\ UNCHANGED <<link, socketContexts, address>>
  BY DEF Destroy, netVars
<1>2. connections' = {} /\ status' = status
  BY <1>1 DEF Server!Destroy
<1>3. socketContexts = {} /\ \A c \in connections : status[c] = "MarkForClose"
  BY <1>1 DEF LivesOK
<1>4. LivesOK'
  BY <1>1, <1>2, <1>3 DEF LivesOK
<1>. QED  BY <1>1, <1>3, <1>4

LEMMA StepCases ==
  ASSUME [Next]_vars
  PROVE  \/ PeerStep \/ UNCHANGED vars \/ OtherStep
         \/ \E c \in Conns : Accept(c)
         \/ NothingTransferred \/ Update \/ Clear \/ Destroy
BY OtherSteps DEF Next, ServerStep, Terminated

LEMMA LivesStep == LivesOK /\ [Next]_vars => LivesOK'
<1>. SUFFICES ASSUME LivesOK, [Next]_vars  PROVE LivesOK'
  OBVIOUS
<1>1. CASE PeerStep
  BY <1>1, LivesPeers
<1>2. CASE UNCHANGED vars
  BY <1>2 DEF vars, netVars, serverVars, loopVars, LivesOK
<1>3. CASE OtherStep
  BY <1>3 DEF OtherStep, LivesOK
<1>4. CASE \E c \in Conns : Accept(c)
  BY <1>4, AcceptLives
<1>5. CASE NothingTransferred
  BY <1>5, RemoveLives
<1>6. CASE Update
  BY <1>6, UpdateLives
<1>7. CASE Clear
  BY <1>7, ClearLives
<1>8. CASE Destroy
  BY <1>8, DestroyLives
<1>. QED  BY <1>1, <1>2, <1>3, <1>4, <1>5, <1>6, <1>7, <1>8, StepCases

LEMMA LivesHold == Spec => []LivesOK
BY LivesInit, LivesStep, PTL DEF Spec

(* No SocketContext outlives its NetConnection, and no open NetConnection  *)
(* is left without a context, for any number of clients.                    *)
THEOREM ContextsPoint == Spec => []ContextsPointToOpenConnections
<1>1. LivesOK => ContextsPointToOpenConnections
  BY DEF LivesOK, ContextsPointToOpenConnections
<1>. QED  BY <1>1, LivesHold, PTL

-----------------------------------------------------------------------------
(* Each step is one of NetServer's, or leaves its variables alone.          *)
LEMMA ServesStep ==
  ASSUME LivesOK, [Next]_vars
  PROVE  [Server!ServerNext]_(Server!serverVars)
<1>. USE DEF Server!serverVars, Server!ServerNext
<1>1. CASE PeerStep
  BY <1>1 DEF PeerStep, Outside, serverVars
<1>2. CASE UNCHANGED vars
  BY <1>2 DEF vars, serverVars
<1>3. CASE OtherStep
  BY <1>3 DEF OtherStep
<1>4. CASE \E c \in Conns : Accept(c)
  BY <1>4, AcceptLives
<1>5. CASE NothingTransferred
  <2>1. CASE UNCHANGED <<link, connections, status, notified, socketContexts, address>>
    BY <2>1
  <2>2. CASE \E c \in socketContexts : Server!ChangeStateToClose({c})
    <3>1. PICK c \in socketContexts : Server!ChangeStateToClose({c})
      BY <2>2
    <3>2. {c} \in SUBSET {d \in connections : status[d] = "Init"}
      BY DEF LivesOK
    <3>. QED  BY <3>1, <3>2
  <2>. QED  BY <1>5, <2>1, <2>2, RemoveLives
<1>6. CASE Update
  BY <1>6, UpdateLives
<1>7. CASE Clear
  <2>1. socketContexts \in SUBSET {d \in connections : status[d] = "Init"}
    BY DEF LivesOK
  <2>. QED  BY <1>7, <2>1, ClearLives
<1>8. CASE Destroy
  BY <1>8, DestroyLives
<1>. QED  BY <1>1, <1>2, <1>3, <1>4, <1>5, <1>6, <1>7, <1>8, StepCases

(* The IOCP server implements NetServer: every order of completions, also  *)
(* of those that come after their connection was removed, disconnects and  *)
(* erases each NetConnection once.                                          *)
THEOREM Serves == Spec => ServesAsSpecified
<1>1. Init => Server!ServerInit
  BY DEF Init
<1>. QED  BY <1>1, LivesHold, ServesStep, PTL DEF Spec, ServesAsSpecified, Server!Spec

(* Both instances of NetServer say the same.                                *)
LEMMA SameServer == Server!Spec <=> ServerFacts!Spec
<1>1. Server!ServerInit <=> ServerFacts!ServerInit
  BY DEF Server!ServerInit, ServerFacts!ServerInit
<1>2. [Server!ServerNext]_(Server!serverVars) <=> [ServerFacts!ServerNext]_(ServerFacts!serverVars)
  BY DEF Server!ServerNext, Server!serverVars, Server!AddConnection, Server!ChangeStateToClose,
       Server!Update, Server!Destroy, Server!Notify, Server!ClosingConnections,
       Server!NotifiedByDestructor,
       ServerFacts!ServerNext, ServerFacts!serverVars, ServerFacts!AddConnection,
       ServerFacts!ChangeStateToClose, ServerFacts!Update, ServerFacts!Destroy,
       ServerFacts!Notify, ServerFacts!ClosingConnections, ServerFacts!NotifiedByDestructor
<1>. QED  BY <1>1, <1>2, PTL DEF Server!Spec, ServerFacts!Spec

(* onDisconnect is called exactly once for every accepted client.           *)
THEOREM NotifiedOnce == Spec => []NotifiedExactlyOnce
<1>1. ServerFacts!Spec => []ServerFacts!NotifiedExactlyOnce
  BY ServerFacts!NotifiedOnce
<1>2. Spec => Server!Spec
  BY Serves DEF ServesAsSpecified
<1>. QED  BY <1>1, <1>2, SameServer, PTL
          DEF NotifiedExactlyOnce, Server!NotifiedExactlyOnce, ServerFacts!NotifiedExactlyOnce

-----------------------------------------------------------------------------
(* The queue of completions.  Count is the number of completions of an     *)
(* operation on a connection that a queue p holds.                          *)
Completions == [key : Conns, operationType : {"Receive", "Send"}, result : Results]
                 \cup {CloseStatus}

Names(e, c, operation) == e.operationType = operation /\ e.key = c

At(p, c, operation) == {k \in 1..Len(p) : Names(p[k], c, operation)}

Count(p, c, operation) == Cardinality(At(p, c, operation))

LEMMA CountType ==
  ASSUME NEW p \in Seq(Completions), NEW c, NEW operation
  PROVE  /\ IsFiniteSet(At(p, c, operation))
         /\ Count(p, c, operation) \in Nat
         /\ Count(p, c, operation) = 0 <=> \A k \in 1..Len(p) : ~Names(p[k], c, operation)
<1>1. Len(p) \in Nat
  BY LenProperties
<1>2. IsFiniteSet(1..Len(p))
  BY <1>1, FS_Interval
<1>3. At(p, c, operation) \in SUBSET (1..Len(p))
  BY DEF At
<1>4. IsFiniteSet(At(p, c, operation))
  BY <1>2, <1>3, FS_Subset
<1>5. Count(p, c, operation) \in Nat
  BY <1>4, FS_CardinalityType DEF Count
<1>6. Count(p, c, operation) = 0 <=> At(p, c, operation) = {}
  BY <1>4, FS_EmptySet DEF Count
<1>. QED  BY <1>4, <1>5, <1>6 DEF At

LEMMA CountEmpty ==
  ASSUME NEW c, NEW operation
  PROVE  Count(<<>>, c, operation) = 0
<1>1. <<>> \in Seq(Completions) /\ Len(<<>>) = 0
  BY EmptySeq
<1>2. \A k \in 1..Len(<<>>) : ~Names(<<>>[k], c, operation)
  BY <1>1
<1>. QED  BY <1>1, <1>2, CountType

LEMMA CountAppend ==
  ASSUME NEW p \in Seq(Completions), NEW e \in Completions, NEW c, NEW operation
  PROVE  Count(Append(p, e), c, operation)
           = Count(p, c, operation) + (IF Names(e, c, operation) THEN 1 ELSE 0)
<1>1. /\ Len(p) \in Nat /\ Len(Append(p, e)) = Len(p) + 1
      /\ \A k \in 1..Len(p) : Append(p, e)[k] = p[k]
      /\ Append(p, e)[Len(p) + 1] = e
  BY AppendProperties, LenProperties
<1>2. \A k : k \in 1..Len(p) + 1 <=> k \in 1..Len(p) \/ k = Len(p) + 1
  BY <1>1
<1>3. At(Append(p, e), c, operation) =
        IF Names(e, c, operation) THEN At(p, c, operation) \cup {Len(p) + 1}
                                  ELSE At(p, c, operation)
  BY <1>1, <1>2 DEF At
<1>4. Len(p) + 1 \notin At(p, c, operation)
  BY <1>1 DEF At
<1>5. IsFiniteSet(At(p, c, operation)) /\ Count(p, c, operation) \in Nat
  BY CountType
<1>6. CASE Names(e, c, operation)
  BY <1>3, <1>4, <1>5, <1>6, FS_AddElement DEF Count
<1>7. CASE ~Names(e, c, operation)
  BY <1>3, <1>5, <1>7 DEF Count
<1>. QED  BY <1>6, <1>7

(* Taking the front off moves the others up by one place.                   *)
LEMMA CountTail ==
  ASSUME NEW p \in Seq(Completions), p # <<>>, NEW c, NEW operation
  PROVE  Count(p, c, operation)
           = Count(Tail(p), c, operation) + (IF Names(Head(p), c, operation) THEN 1 ELSE 0)
<1>1. /\ Len(p) \in Nat \ {0} /\ Head(p) = p[1]
      /\ Tail(p) \in Seq(Completions) /\ Len(Tail(p)) = Len(p) - 1
      /\ \A k \in 1..Len(Tail(p)) : Tail(p)[k] = p[k + 1]
  BY EmptySeq, HeadTailProperties
<1>. DEFINE S == At(Tail(p), c, operation)
            T == At(p, c, operation) \ {1}
            f == [k \in S |-> k + 1]
<1>2. \A k : k \in S <=> k \in 1..Len(p) - 1 /\ Names(p[k + 1], c, operation)
  BY <1>1 DEF At
<1>3. \A k : k \in T <=> k \in 2..Len(p) /\ Names(p[k], c, operation)
  BY <1>1 DEF At
<1>4. f \in [S -> T]
  BY <1>1, <1>2, <1>3
<1>5. \A j, k \in S : f[j] = f[k] => j = k
  <2>1. \A k \in S : k \in Nat
    BY <1>1, <1>2
  <2>. QED  BY <2>1
<1>6. \A t \in T : \E k \in S : f[k] = t
  <2>. TAKE t \in T
  <2>1. t \in 2..Len(p) /\ Names(p[t], c, operation)
    BY <1>3
  <2>2. t - 1 \in 1..Len(p) - 1 /\ (t - 1) + 1 = t
    BY <2>1, <1>1
  <2>3. t - 1 \in S
    BY <2>1, <2>2, <1>2
  <2>. QED  BY <2>2, <2>3
<1>7. ExistsBijection(S, T)
  BY <1>4, <1>5, <1>6 DEF ExistsBijection, Bijection, Injection, Surjection, IsInjective
<1>8. IsFiniteSet(S) /\ IsFiniteSet(At(p, c, operation)) /\ Count(p, c, operation) \in Nat
  BY <1>1, CountType
<1>9. Cardinality(T) = Cardinality(S)
  BY <1>7, <1>8, FS_Bijection
<1>10. 1 \in At(p, c, operation) <=> Names(Head(p), c, operation)
  BY <1>1 DEF At
<1>11. Cardinality(T) = IF 1 \in At(p, c, operation) THEN Count(p, c, operation) - 1
                                                    ELSE Count(p, c, operation)
  BY <1>8, FS_RemoveElement DEF Count
<1>. QED  BY <1>8, <1>9, <1>10, <1>11 DEF Count

LEMMA CountConcat ==
  ASSUME NEW p \in Seq(Completions), NEW q \in Seq(Completions), NEW c, NEW operation,
         \A k \in 1..Len(q) : ~Names(q[k], c, operation)
  PROVE  Count(p \o q, c, operation) = Count(p, c, operation)
<1>1. /\ Len(p) \in Nat /\ Len(q) \in Nat
      /\ Len(p \o q) = Len(p) + Len(q)
      /\ \A i \in 1..Len(p) + Len(q) :
           (p \o q)[i] = IF i <= Len(p) THEN p[i] ELSE q[i - Len(p)]
  BY ConcatProperties, LenProperties
<1>2. \A k : k \in At(p \o q, c, operation) <=> k \in At(p, c, operation)
  <2>. TAKE k
  <2>1. CASE k \in 1..Len(p)
    <3>1. k \in 1..Len(p) + Len(q) /\ (p \o q)[k] = p[k]
      BY <2>1, <1>1
    <3>. QED  BY <2>1, <3>1, <1>1 DEF At
  <2>2. CASE k \in 1..Len(p) + Len(q) /\ k \notin 1..Len(p)
    <3>1. k - Len(p) \in 1..Len(q) /\ (p \o q)[k] = q[k - Len(p)]
      BY <2>2, <1>1
    <3>2. ~Names((p \o q)[k], c, operation)
      BY <3>1
    <3>. QED  BY <2>2, <3>2 DEF At
  <2>3. CASE k \notin 1..Len(p) + Len(q) /\ k \notin 1..Len(p)
    BY <2>3, <1>1 DEF At
  <2>. QED  BY <2>1, <2>2, <2>3
<1>3. At(p \o q, c, operation) = At(p, c, operation)
  BY <1>2
<1>. QED  BY <1>3 DEF Count

-----------------------------------------------------------------------------
(* The overlapped operations.  Every operation belongs to a context, every *)
(* queued completion to a connection that was accepted, and one that took  *)
(* no bytes for a connection that still has its context says that the      *)
(* client is gone.                                                          *)
TypesOK ==
  /\ unread \in [Conns -> Nat]
  /\ sending \in [Conns -> Nat]
  /\ completionPort \in Seq(Completions)
  /\ messagesToSend \in [Conns -> Seq(Nat)]
  /\ inFlight \in [Conns -> Seq(Nat)]
  /\ emplaced \in [Conns -> Nat]

EntryOKIn(e, statuses, contexts, links) ==
  e # CloseStatus =>
    /\ statuses[e.key] # "none"
    /\ e.result = "none" /\ e.key \in contexts => links[e.key] \in Failing

EntryOK(e) == EntryOKIn(e, status, socketContexts, link)

EntryStaysOK(e) == EntryOKIn(e, status', socketContexts', link')

OperationsOK ==
  /\ receiving \subseteq socketContexts
  /\ \A c \in Conns \ socketContexts : sending[c] = 0 /\ inFlight[c] = <<>>
  /\ \A k \in 1..Len(completionPort) : EntryOK(completionPort[k])
  /\ \A c \in socketContexts :
       /\ (IF c \in receiving THEN 1 ELSE 0) + Count(completionPort, c, "Receive") = 1
       /\ Len(inFlight[c]) = sending[c] + Count(completionPort, c, "Send")

IOInv == LivesOK /\ TypesOK /\ OperationsOK

LEMMA IOInit == Init => TypesOK /\ OperationsOK
<1>. SUFFICES ASSUME Init  PROVE TypesOK /\ OperationsOK
  OBVIOUS
<1>1. /\ unread = [c \in Conns |-> 0] /\ sending = [c \in Conns |-> 0]
      /\ completionPort = <<>> /\ receiving = {} /\ socketContexts = {}
      /\ messagesToSend = [c \in Conns |-> <<>>] /\ inFlight = [c \in Conns |-> <<>>]
      /\ emplaced = [c \in Conns |-> 0]
  BY DEF Init, Peers!PeersInit, SendPath!SendInit
<1>2. TypesOK
  BY <1>1 DEF TypesOK
<1>3. Len(completionPort) = 0
  BY <1>1
<1>. QED  BY <1>1, <1>2, <1>3 DEF OperationsOK

(* What a queued completion says stays true.                                *)
LEMMA EntriesStay ==
  ASSUME LivesOK, [Next]_vars, NEW e \in Completions, EntryOK(e)
  PROVE  EntryStaysOK(e)
<1>. SUFFICES ASSUME e # CloseStatus
              PROVE  /\ status'[e.key] # "none"
                     /\ e.result = "none" /\ e.key \in socketContexts' => link'[e.key] \in Failing
  BY DEF EntryStaysOK, EntryOKIn
<1>1. /\ e.key \in Conns /\ status[e.key] # "none"
      /\ e.result = "none" /\ e.key \in socketContexts => link[e.key] \in {"fin", "rst"}
  BY DEF EntryOK, EntryOKIn, Completions, Failing
<1>. USE DEF Failing
<1>2. CASE PeerStep
  <2>1. UNCHANGED <<connections, status, socketContexts, pc>>
    BY <1>2 DEF PeerStep, Outside, serverVars, loopVars
  <2>2. PICK c \in Conns :
          \/ Peers!Connects(c) \/ Peers!Closes(c) \/ Peers!Breaks(c, "rst") \/ Peers!Sends(c)
          \/ ReceiveCompletes(c) \/ SendCompletes(c)
    BY <1>2 DEF PeerStep
  <2>3. \/ link' = link
        \/ link[c] = "none" /\ link' = [link EXCEPT ![c] = "pending"]
        \/ link[c] = "up" /\ link' = [link EXCEPT ![c] = "fin"]
        \/ link[c] \in {"up", "fin"} /\ link' = [link EXCEPT ![c] = "rst"]
    BY <2>2 DEF Peers!Connects, Peers!Closes, Peers!Breaks, Peers!Sends,
         ReceiveCompletes, SendCompletes
  <2>. QED  BY <1>1, <2>1, <2>3 DEF LivesOK
<1>3. CASE UNCHANGED vars
  BY <1>1, <1>3 DEF vars, netVars, serverVars
<1>4. CASE OtherStep
  BY <1>1, <1>4 DEF OtherStep
<1>5. CASE \E c \in Conns : Accept(c)
  <2>1. PICK c \in Conns : Accept(c)
    BY <1>5
  <2>2. c # e.key
    BY <1>1, <2>1, AcceptLives
  <2>3. status'[e.key] = status[e.key] /\ link'[e.key] = link[e.key]
    BY <1>1, <2>1, <2>2 DEF Accept, Server!AddConnection, LivesOK
  <2>4. e.key \in socketContexts' => e.key \in socketContexts
    BY <2>1, <2>2, AcceptLives
  <2>. QED  BY <1>1, <2>3, <2>4
<1>6. CASE NothingTransferred
  <2>1. CASE UNCHANGED <<link, connections, status, notified, socketContexts, address>>
    BY <1>1, <2>1
  <2>2. CASE \E c \in socketContexts : /\ Server!ChangeStateToClose({c})
                                       /\ socketContexts' = socketContexts \ {c}
                                       /\ link' = [link EXCEPT ![c] = "closed"]
    <3>1. PICK c \in socketContexts : /\ Server!ChangeStateToClose({c})
                                      /\ socketContexts' = socketContexts \ {c}
                                      /\ link' = [link EXCEPT ![c] = "closed"]
      BY <2>2
    <3>2. status'[e.key] \in {"MarkForClose", status[e.key]}
      BY <1>1, <3>1 DEF Server!ChangeStateToClose
    <3>3. e.key \in socketContexts' => e.key # c /\ e.key \in socketContexts
      BY <3>1
    <3>4. e.key # c => link'[e.key] = link[e.key]
      BY <1>1, <3>1 DEF LivesOK
    <3>. QED  BY <1>1, <3>2, <3>3, <3>4
  <2>. QED  BY <1>6, <2>1, <2>2, RemoveLives
<1>7. CASE Update
  <2>1. status'[e.key] \in {"Closed", status[e.key]}
    BY <1>1, <1>7, UpdateLives DEF Server!Update
  <2>. QED  BY <1>1, <1>7, <2>1, UpdateLives
<1>8. CASE Clear
  <2>1. status'[e.key] \in {"MarkForClose", status[e.key]}
    BY <1>1, <1>8, ClearLives DEF Server!ChangeStateToClose
  <2>. QED  BY <1>1, <1>8, <2>1, ClearLives
<1>9. CASE Destroy
  <2>1. status'[e.key] = status[e.key]
    BY <1>9, DestroyLives DEF Server!Destroy
  <2>. QED  BY <1>1, <1>9, <2>1, DestroyLives
<1>. QED  BY <1>2, <1>3, <1>4, <1>5, <1>6, <1>7, <1>8, <1>9, StepCases

(* The four ways a step changes the queue, and what its entries say after. *)
LEMMA PortEntries ==
  ASSUME IOInv, [Next]_vars
  PROVE  \A k \in 1..Len(completionPort) :
           completionPort[k] \in Completions /\ EntryStaysOK(completionPort[k])
<1>. TAKE k \in 1..Len(completionPort)
<1>1. completionPort \in Seq(Completions)
  BY DEF IOInv, TypesOK
<1>2. completionPort[k] \in Completions
  BY <1>1, ElementOfSeq
<1>3. EntryOK(completionPort[k])
  BY DEF IOInv, OperationsOK
<1>. QED  BY <1>2, <1>3, EntriesStay DEF IOInv

LEMMA TailEntries ==
  ASSUME IOInv, [Next]_vars, completionPort # <<>>
  PROVE  /\ Tail(completionPort) \in Seq(Completions)
         /\ Head(completionPort) \in Completions /\ EntryOK(Head(completionPort))
         /\ \A k \in 1..Len(Tail(completionPort)) : EntryStaysOK(Tail(completionPort)[k])
<1>1. completionPort \in Seq(Completions)
  BY DEF IOInv, TypesOK
<1>2. /\ Tail(completionPort) \in Seq(Completions)
      /\ Len(Tail(completionPort)) = Len(completionPort) - 1
      /\ \A k \in 1..Len(Tail(completionPort)) : Tail(completionPort)[k] = completionPort[k + 1]
      /\ Head(completionPort) = completionPort[1]
      /\ Len(completionPort) \in Nat \ {0}
  BY <1>1, HeadTailProperties, EmptySeq
<1>3. 1 \in 1..Len(completionPort)
  BY <1>2
<1>4. Head(completionPort) \in Completions /\ EntryOK(Head(completionPort))
  BY <1>1, <1>2, <1>3, ElementOfSeq DEF IOInv, OperationsOK
<1>5. ASSUME NEW k \in 1..Len(Tail(completionPort))
      PROVE  EntryStaysOK(Tail(completionPort)[k])
  <2>1. k + 1 \in 1..Len(completionPort) /\ Tail(completionPort)[k] = completionPort[k + 1]
    BY <1>2
  <2>2. completionPort[k + 1] \in Completions /\ EntryOK(completionPort[k + 1])
    BY <1>1, <2>1, ElementOfSeq DEF IOInv, OperationsOK
  <2>3. Tail(completionPort)[k] \in Completions /\ EntryOK(Tail(completionPort)[k])
    BY <2>1, <2>2
  <2>. QED  BY <2>3, EntriesStay DEF IOInv
<1>. QED  BY <1>2, <1>4, <1>5

LEMMA OperationsNext ==
  ASSUME receiving' \subseteq socketContexts',
         \A c \in Conns \ socketContexts' : sending'[c] = 0 /\ inFlight'[c] = <<>>,
         \A k \in 1..Len(completionPort') : EntryStaysOK(completionPort'[k]),
         \A c \in socketContexts' :
           /\ (IF c \in receiving' THEN 1 ELSE 0) + Count(completionPort', c, "Receive") = 1
           /\ Len(inFlight'[c]) = sending'[c] + Count(completionPort', c, "Send")
  PROVE  OperationsOK'
BY DEF OperationsOK, EntryOK, EntryStaysOK, Count, At, Names

LEMMA QuietSteps ==
  ASSUME IOInv, [Next]_vars,
         UNCHANGED <<sending, receiving, completionPort, inFlight, socketContexts>>
  PROVE  OperationsOK'
<1>1. \A k \in 1..Len(completionPort') : EntryStaysOK(completionPort'[k])
  BY PortEntries
<1>. QED  BY <1>1, OperationsNext DEF IOInv, OperationsOK

(* The types of one connection, and the counts of its completions           *)
LEMMA IOFacts ==
  ASSUME IOInv
  PROVE  /\ completionPort \in Seq(Completions)
         /\ socketContexts \subseteq Conns /\ receiving \subseteq Conns
         /\ \A c \in Conns : /\ sending[c] \in Nat /\ unread[c] \in Nat
                             /\ inFlight[c] \in Seq(Nat) /\ Len(inFlight[c]) \in Nat
                             /\ messagesToSend[c] \in Seq(Nat)
                             /\ Count(completionPort, c, "Receive") \in Nat
                             /\ Count(completionPort, c, "Send") \in Nat
<1>1. completionPort \in Seq(Completions)
  BY DEF IOInv, TypesOK
<1>2. socketContexts \subseteq Conns /\ receiving \subseteq Conns
  BY DEF IOInv, LivesOK, OperationsOK
<1>3. \A c \in Conns : /\ Count(completionPort, c, "Receive") \in Nat
                       /\ Count(completionPort, c, "Send") \in Nat
  BY <1>1, CountType
<1>4. \A c \in Conns : /\ sending[c] \in Nat /\ unread[c] \in Nat
                       /\ inFlight[c] \in Seq(Nat) /\ messagesToSend[c] \in Seq(Nat)
  BY DEF IOInv, TypesOK
<1>5. \A c \in Conns : Len(inFlight[c]) \in Nat
  BY <1>4, LenProperties
<1>. QED  BY <1>1, <1>2, <1>3, <1>4, <1>5

(* A completion joins the queue ...                                         *)
LEMMA PortGrows ==
  ASSUME IOInv, [Next]_vars, NEW e \in Completions, EntryStaysOK(e),
         completionPort' = Append(completionPort, e)
  PROVE  /\ completionPort' \in Seq(Completions)
         /\ \A k \in 1..Len(completionPort') : EntryStaysOK(completionPort'[k])
         /\ \A c, operation : Count(completionPort', c, operation)
              = Count(completionPort, c, operation) + (IF Names(e, c, operation) THEN 1 ELSE 0)
<1>1. completionPort \in Seq(Completions)
  BY IOFacts
<1>2. /\ Append(completionPort, e) \in Seq(Completions)
      /\ Len(completionPort) \in Nat
      /\ Len(Append(completionPort, e)) = Len(completionPort) + 1
      /\ \A k \in 1..Len(completionPort) : Append(completionPort, e)[k] = completionPort[k]
      /\ Append(completionPort, e)[Len(completionPort) + 1] = e
  BY <1>1, AppendProperties, LenProperties
<1>3. \A k \in 1..Len(completionPort) + 1 : k \in 1..Len(completionPort) \/ k = Len(completionPort) + 1
  BY <1>2
<1>4. \A k \in 1..Len(completionPort') : EntryStaysOK(completionPort'[k])
  BY <1>2, <1>3, PortEntries
<1>5. \A c, operation : Count(completionPort', c, operation)
         = Count(completionPort, c, operation) + (IF Names(e, c, operation) THEN 1 ELSE 0)
  BY <1>1, CountAppend
<1>. QED  BY <1>2, <1>4, <1>5

(* ... or the oldest one leaves it.                                         *)
LEMMA PortShrinks ==
  ASSUME IOInv, [Next]_vars, completionPort # <<>>, completionPort' = Tail(completionPort)
  PROVE  /\ completionPort' \in Seq(Completions)
         /\ \A k \in 1..Len(completionPort') : EntryStaysOK(completionPort'[k])
         /\ \A c, operation : Count(completionPort', c, operation) \in Nat
         /\ \A c, operation : Count(completionPort, c, operation)
              = Count(completionPort', c, operation) + (IF Names(completion, c, operation) THEN 1 ELSE 0)
<1>1. completionPort \in Seq(Completions)
  BY IOFacts
<1>2. /\ completionPort' \in Seq(Completions)
      /\ \A k \in 1..Len(completionPort') : EntryStaysOK(completionPort'[k])
  BY TailEntries
<1>3. \A c, operation : Count(completionPort', c, operation) \in Nat
  BY <1>2, CountType
<1>4. \A c, operation : Count(completionPort, c, operation)
        = Count(completionPort', c, operation) + (IF Names(completion, c, operation) THEN 1 ELSE 0)
  BY <1>1, CountTail DEF completion
<1>. QED  BY <1>2, <1>3, <1>4

LEMMA ReceiveCompletesIO ==
  ASSUME IOInv, [Next]_vars, NEW c \in Conns, ReceiveCompletes(c), Outside
  PROVE  TypesOK' /\ OperationsOK'
<1>. DEFINE e == Completion(c, "Receive", IF unread[c] > 0 THEN "bytes" ELSE "none")
<1>1. /\ c \in receiving /\ receiving' = receiving \ {c}
      /\ unread[c] > 0 \/ link[c] \in Failing
      /\ unread' = [unread EXCEPT ![c] = IF unread[c] > 0 THEN unread[c] - 1 ELSE 0]
      /\ completionPort' = Append(completionPort, e)
      /\ UNCHANGED <<link, sending, status, socketContexts, inFlight, messagesToSend, emplaced>>
  BY DEF ReceiveCompletes, Outside, serverVars, sendVars
<1>2. /\ e \in Completions /\ e.key = c /\ e # CloseStatus
      /\ e.operationType = "Receive"
      /\ e.result = "none" => link[c] \in Failing
  BY <1>1 DEF Completion, Completions, Results, CloseStatus
<1>3. c \in socketContexts /\ status[c] # "none"
  BY <1>1 DEF IOInv, OperationsOK, LivesOK
<1>. HIDE DEF e
<1>4. EntryStaysOK(e)
  BY <1>1, <1>2, <1>3 DEF EntryStaysOK, EntryOKIn
<1>5. /\ completionPort' \in Seq(Completions)
      /\ \A k \in 1..Len(completionPort') : EntryStaysOK(completionPort'[k])
      /\ \A d, operation : Count(completionPort', d, operation)
           = Count(completionPort, d, operation) + (IF Names(e, d, operation) THEN 1 ELSE 0)
  BY <1>1, <1>2, <1>4, PortGrows
<1>6. unread' \in [Conns -> Nat]
  BY <1>1 DEF IOInv, TypesOK
<1>7. TypesOK'
  BY <1>1, <1>5, <1>6 DEF IOInv, TypesOK
<1>8. ASSUME NEW d \in socketContexts
      PROVE  /\ (IF d \in receiving' THEN 1 ELSE 0) + Count(completionPort', d, "Receive") = 1
             /\ Len(inFlight[d]) = sending[d] + Count(completionPort', d, "Send")
  <2>1. /\ (IF d \in receiving THEN 1 ELSE 0) + Count(completionPort, d, "Receive") = 1
        /\ Len(inFlight[d]) = sending[d] + Count(completionPort, d, "Send")
        /\ Count(completionPort, d, "Receive") \in Nat
        /\ Count(completionPort, d, "Send") \in Nat
    BY IOFacts DEF IOInv, OperationsOK
  <2>2. /\ Count(completionPort', d, "Send") = Count(completionPort, d, "Send") + 0
        /\ Count(completionPort', d, "Receive")
             = Count(completionPort, d, "Receive") + (IF d = c THEN 1 ELSE 0)
    BY <1>2, <1>5 DEF Names
  <2>. QED  BY <1>1, <2>1, <2>2
<1>9. receiving' \subseteq socketContexts
  BY <1>1 DEF IOInv, OperationsOK
<1>. QED  BY <1>1, <1>5, <1>7, <1>8, <1>9, OperationsNext DEF IOInv, OperationsOK

LEMMA SendCompletesIO ==
  ASSUME IOInv, [Next]_vars, NEW c \in Conns, SendCompletes(c), Outside
  PROVE  TypesOK' /\ OperationsOK'
<1>. DEFINE e == Completion(c, "Send", IF link[c] = "rst" THEN "none" ELSE "bytes")
<1>1. /\ sending[c] > 0
      /\ sending' = [sending EXCEPT ![c] = sending[c] - 1]
      /\ completionPort' = Append(completionPort, e)
      /\ UNCHANGED <<link, unread, receiving, status, socketContexts, inFlight, messagesToSend, emplaced>>
  BY DEF SendCompletes, Outside, serverVars, sendVars
<1>2. /\ e \in Completions /\ e.key = c /\ e # CloseStatus
      /\ e.operationType = "Send"
      /\ e.result = "none" => link[c] \in Failing
  BY DEF Completion, Completions, Results, CloseStatus, Failing
<1>3. c \in socketContexts /\ status[c] # "none"
  <2>1. c \in socketContexts
    BY <1>1 DEF IOInv, OperationsOK
  <2>. QED  BY <2>1 DEF IOInv, LivesOK
<1>. HIDE DEF e
<1>4. EntryStaysOK(e)
  BY <1>1, <1>2, <1>3 DEF EntryStaysOK, EntryOKIn
<1>5. /\ completionPort' \in Seq(Completions)
      /\ \A k \in 1..Len(completionPort') : EntryStaysOK(completionPort'[k])
      /\ \A d, operation : Count(completionPort', d, operation)
           = Count(completionPort, d, operation) + (IF Names(e, d, operation) THEN 1 ELSE 0)
  BY <1>1, <1>2, <1>4, PortGrows
<1>6. sending' \in [Conns -> Nat]
  BY <1>1 DEF IOInv, TypesOK
<1>7. TypesOK'
  BY <1>1, <1>5, <1>6 DEF IOInv, TypesOK
<1>8. ASSUME NEW d \in socketContexts
      PROVE  /\ (IF d \in receiving THEN 1 ELSE 0) + Count(completionPort', d, "Receive") = 1
             /\ Len(inFlight[d]) = sending'[d] + Count(completionPort', d, "Send")
  <2>1. /\ (IF d \in receiving THEN 1 ELSE 0) + Count(completionPort, d, "Receive") = 1
        /\ Len(inFlight[d]) = sending[d] + Count(completionPort, d, "Send")
        /\ Count(completionPort, d, "Receive") \in Nat /\ d \in Conns
        /\ Count(completionPort, d, "Send") \in Nat /\ sending[d] \in Nat
    BY IOFacts DEF IOInv, OperationsOK
  <2>2. /\ Count(completionPort', d, "Receive") = Count(completionPort, d, "Receive") + 0
        /\ Count(completionPort', d, "Send")
             = Count(completionPort, d, "Send") + (IF d = c THEN 1 ELSE 0)
    BY <1>2, <1>5 DEF Names
  <2>3. sending'[d] = IF d = c THEN sending[d] - 1 ELSE sending[d]
    BY <1>1, <2>1 DEF IOInv, TypesOK
  <2>. QED  BY <2>1, <2>2, <2>3
<1>9. \A d \in Conns \ socketContexts : sending'[d] = 0 /\ inFlight'[d] = <<>>
  BY <1>1, <1>3 DEF IOInv, OperationsOK, TypesOK
<1>. QED  BY <1>1, <1>5, <1>7, <1>8, <1>9, OperationsNext DEF IOInv, OperationsOK

(* A new connection has no operation and no completion; it gets its first  *)
(* receive.                                                                 *)
LEMMA AcceptIO ==
  ASSUME IOInv, [Next]_vars, NEW c \in Conns, Accept(c)
  PROVE  TypesOK' /\ OperationsOK'
<1>1. /\ socketContexts' = socketContexts \cup {c} /\ receiving' = receiving \cup {c}
      /\ UNCHANGED <<unread, sending, completionPort, messagesToSend, inFlight, emplaced>>
  BY DEF Accept, ReceivingAgain, sendVars
<1>2. status[c] = "none" /\ c \notin socketContexts
  BY AcceptLives DEF IOInv, LivesOK
<1>3. \A operation \in {"Receive", "Send"} : Count(completionPort, c, operation) = 0
  <2>. TAKE operation \in {"Receive", "Send"}
  <2>1. \A k \in 1..Len(completionPort) : ~Names(completionPort[k], c, operation)
    BY <1>2 DEF IOInv, OperationsOK, EntryOK, EntryOKIn, Names, CloseStatus
  <2>. QED  BY <2>1, IOFacts, CountType
<1>4. TypesOK'
  BY <1>1 DEF IOInv, TypesOK
<1>5. sending[c] = 0 /\ inFlight[c] = <<>> /\ c \notin receiving
  BY <1>2 DEF IOInv, OperationsOK
<1>6. ASSUME NEW d \in socketContexts'
      PROVE  /\ (IF d \in receiving' THEN 1 ELSE 0) + Count(completionPort, d, "Receive") = 1
             /\ Len(inFlight[d]) = sending[d] + Count(completionPort, d, "Send")
  <2>1. CASE d = c
    BY <2>1, <1>1, <1>3, <1>5
  <2>2. CASE d # c
    BY <2>2, <1>1 DEF IOInv, OperationsOK
  <2>. QED  BY <2>1, <2>2
<1>7. \A k \in 1..Len(completionPort') : EntryStaysOK(completionPort'[k])
  BY <1>1, PortEntries
<1>8. receiving' \subseteq socketContexts'
  BY <1>1 DEF IOInv, OperationsOK
<1>9. \A d \in Conns \ socketContexts' : sending'[d] = 0 /\ inFlight'[d] = <<>>
  BY <1>1 DEF IOInv, OperationsOK
<1>. QED  BY <1>1, <1>4, <1>6, <1>7, <1>8, <1>9, OperationsNext

(* StartWrite on one connection adds one message in flight.                 *)
LEMMA StartsOne ==
  ASSUME IOInv, NEW c \in Conns, NEW q \in Seq(Nat), NEW f \in Seq(Nat), q # <<>>
  PROVE  /\ SendPath!Started(f, SendPath!Last(q)) \in Seq(Nat)
         /\ Len(SendPath!Started(f, SendPath!Last(q))) = Len(f) + 1
<1>1. Len(q) \in Nat \ {0}
  BY EmptySeq
<1>2. q[Len(q)] \in Nat
  BY <1>1, ElementOfSeq
<1>3. SendPath!Last(q) \in Nat
  BY <1>2 DEF SendPath!Last
<1>4. SendPath!Started(f, SendPath!Last(q)) = Append(f, SendPath!Last(q))
  BY DEF SendPath!Started
<1>. QED  BY <1>3, <1>4, AppendProperties

LEMMA ProcessSendIO ==
  ASSUME IOInv, [Next]_vars, ProcessSend
  PROVE  TypesOK' /\ OperationsOK'
<1>. DEFINE starting == {d \in socketContexts : SendPath!CanStartOn(d)}
<1>1. /\ sending' = [d \in Conns |-> IF d \in starting THEN sending[d] + 1 ELSE sending[d]]
      /\ inFlight' = [d \in Conns |->
           IF d \in starting
           THEN SendPath!Started(inFlight[d], SendPath!Last(messagesToSend[d])) ELSE inFlight[d]]
      /\ UNCHANGED <<unread, receiving, completionPort, socketContexts, messagesToSend, emplaced>>
  BY DEF ProcessSend, SendingStarted, Starting, SendPath!ProcessSend
<1>2. \A d \in starting : messagesToSend[d] # <<>>
  BY DEF SendPath!CanStartOn, SendPath!CanStart
<1>3. starting \subseteq socketContexts /\ starting \subseteq Conns
  BY IOFacts
<1>. HIDE DEF starting
<1>4. \A d \in Conns : /\ inFlight'[d] \in Seq(Nat)
                       /\ Len(inFlight'[d]) = IF d \in starting THEN Len(inFlight[d]) + 1
                                                                ELSE Len(inFlight[d])
  <2>. TAKE d \in Conns
  <2>1. inFlight[d] \in Seq(Nat) /\ messagesToSend[d] \in Seq(Nat)
    BY IOFacts
  <2>2. CASE d \in starting
    BY <2>1, <2>2, <1>1, <1>2, StartsOne
  <2>3. CASE d \notin starting
    BY <2>1, <2>3, <1>1
  <2>. QED  BY <2>2, <2>3
<1>5. inFlight' \in [Conns -> Seq(Nat)] /\ sending' \in [Conns -> Nat]
  BY <1>1, <1>4 DEF IOInv, TypesOK
<1>6. TypesOK'
  BY <1>1, <1>5 DEF IOInv, TypesOK
<1>7. ASSUME NEW d \in socketContexts
      PROVE  /\ (IF d \in receiving THEN 1 ELSE 0) + Count(completionPort, d, "Receive") = 1
             /\ Len(inFlight'[d]) = sending'[d] + Count(completionPort, d, "Send")
  <2>1. /\ (IF d \in receiving THEN 1 ELSE 0) + Count(completionPort, d, "Receive") = 1
        /\ Len(inFlight[d]) = sending[d] + Count(completionPort, d, "Send")
        /\ Count(completionPort, d, "Send") \in Nat /\ sending[d] \in Nat /\ d \in Conns
        /\ Len(inFlight[d]) \in Nat
    BY IOFacts DEF IOInv, OperationsOK
  <2>2. sending'[d] = IF d \in starting THEN sending[d] + 1 ELSE sending[d]
    BY <1>1, <2>1
  <2>3. Len(inFlight'[d]) = IF d \in starting THEN Len(inFlight[d]) + 1 ELSE Len(inFlight[d])
    BY <1>4, <2>1
  <2>. QED  BY <2>1, <2>2, <2>3
<1>8. \A k \in 1..Len(completionPort') : EntryStaysOK(completionPort'[k])
  BY <1>1, PortEntries
<1>9. \A d \in Conns \ socketContexts : sending'[d] = 0 /\ inFlight'[d] = <<>>
  BY <1>1, <1>3 DEF IOInv, OperationsOK
<1>. QED  BY <1>1, <1>6, <1>7, <1>8, <1>9, OperationsNext DEF IOInv, OperationsOK

(* A completion that no context has any more, or CloseStatus, changes no   *)
(* count of a context.                                                      *)
LEMMA IgnoredIO ==
  ASSUME IOInv, [Next]_vars, completionPort # <<>>, completionPort' = Tail(completionPort),
         completion = CloseStatus \/ completion.key \notin socketContexts,
         UNCHANGED <<unread, receiving, sending, socketContexts, messagesToSend, inFlight, emplaced>>
  PROVE  TypesOK' /\ OperationsOK'
<1>1. /\ completionPort' \in Seq(Completions)
      /\ \A k \in 1..Len(completionPort') : EntryStaysOK(completionPort'[k])
      /\ \A c, operation : Count(completionPort', c, operation) \in Nat
      /\ \A c, operation : Count(completionPort, c, operation)
           = Count(completionPort', c, operation) + (IF Names(completion, c, operation) THEN 1 ELSE 0)
  BY PortShrinks
<1>2. TypesOK'
  BY <1>1 DEF IOInv, TypesOK
<1>3. \A c \in socketContexts, operation \in {"Receive", "Send"} : ~Names(completion, c, operation)
  BY DEF Names, CloseStatus
<1>4. \A c \in socketContexts, operation \in {"Receive", "Send"} :
        Count(completionPort', c, operation) = Count(completionPort, c, operation)
  BY <1>1, <1>3
<1>. QED  BY <1>1, <1>2, <1>4, OperationsNext DEF IOInv, OperationsOK

(* What closesocket leaves behind names the removed connection.             *)
LEMMA CancelledFacts ==
  ASSUME IOInv, NEW c \in Conns, NEW q \in CancelledOf(c)
  PROVE  /\ q \in Seq(Completions)
         /\ \A k \in 1..Len(q) : q[k] \in Completions /\ q[k].key = c
<1>1. PICK r \in Results \ {"bytes"}, t \in Results :
        q = Repeated(Completion(c, "Receive", r), IF c \in receiving THEN 1 ELSE 0)
              \o Repeated(Completion(c, "Send", t), sending[c])
  BY DEF CancelledOf
<1>. DEFINE own == {e \in Completions : e.key = c}
<1>2. ASSUME NEW e \in own, NEW n \in Nat  PROVE Repeated(e, n) \in Seq(own)
  <2>1. Repeated(e, n) \in [1..n -> own]
    BY DEF Repeated
  <2>. QED  BY <2>1, SeqDef
<1>3. Completion(c, "Receive", r) \in own /\ Completion(c, "Send", t) \in own
  BY DEF Completion, Completions
<1>. HIDE DEF own
<1>4. /\ Repeated(Completion(c, "Receive", r), IF c \in receiving THEN 1 ELSE 0) \in Seq(own)
      /\ Repeated(Completion(c, "Send", t), sending[c]) \in Seq(own)
  BY <1>2, <1>3, IOFacts
<1>5. q \in Seq(own)
  BY <1>1, <1>4, ConcatProperties
<1>6. \A k \in 1..Len(q) : q[k] \in own
  BY <1>5, ElementOfSeq
<1>7. q \in Seq(Completions)
  <2>1. own \subseteq Completions
    BY DEF own
  <2>. QED  BY <1>5, <2>1, SeqMonotonic
<1>. QED  BY <1>6, <1>7 DEF own

LEMMA RemoveIO ==
  ASSUME IOInv, [Next]_vars, completionPort # <<>>,
         NEW c \in socketContexts, completion # CloseStatus,
         completion.key = c \/ completion.key \notin socketContexts,
         RemoveConnection(c)
  PROVE  TypesOK' /\ OperationsOK'
<1>1. PICK q \in CancelledOf(c) : completionPort' = Tail(completionPort) \o q
  BY DEF RemoveConnection
<1>2. /\ socketContexts' = socketContexts \ {c}
      /\ receiving' = receiving \ {c}
      /\ sending' = [sending EXCEPT ![c] = 0]
      /\ inFlight' = [d \in Conns |-> IF d \in {c} THEN <<>> ELSE inFlight[d]]
      /\ UNCHANGED <<unread, messagesToSend, emplaced>>
      /\ Server!ChangeStateToClose({c})
  BY DEF RemoveConnection, SendPath!DropWrites, Disconnected
<1>3. c \in Conns
  BY IOFacts
<1>. DEFINE p == Tail(completionPort)
<1>4. /\ completionPort \in Seq(Completions) /\ p \in Seq(Completions)
      /\ \A k \in 1..Len(p) : EntryStaysOK(p[k])
  BY TailEntries, IOFacts
<1>5. q \in Seq(Completions) /\ \A k \in 1..Len(q) : q[k] \in Completions /\ q[k].key = c
  BY <1>3, CancelledFacts
<1>6. \A d, operation : Count(completionPort, d, operation)
        = Count(p, d, operation) + (IF Names(completion, d, operation) THEN 1 ELSE 0)
  BY <1>4, CountTail DEF completion
<1>. HIDE DEF p
<1>7. ASSUME NEW d \in socketContexts', NEW operation \in {"Receive", "Send"}
      PROVE  Count(completionPort', d, operation) = Count(completionPort, d, operation)
  <2>1. d # c /\ d \in socketContexts /\ d \in Conns
    BY <1>2, IOFacts
  <2>2. /\ ~Names(completion, d, operation)
        /\ \A k \in 1..Len(q) : ~Names(q[k], d, operation)
    BY <1>5, <2>1 DEF Names
  <2>3. Count(p \o q, d, operation) = Count(p, d, operation)
    BY <1>4, <1>5, <2>2, CountConcat
  <2>4. Count(p, d, operation) \in Nat
    BY <1>4, CountType
  <2>. QED  BY <1>1, <1>6, <2>2, <2>3, <2>4 DEF p
<1>8. status'[c] # "none" /\ c \notin socketContexts'
  BY <1>2, <1>3 DEF Server!ChangeStateToClose
<1>9. \A k \in 1..Len(q) : EntryStaysOK(q[k])
  BY <1>5, <1>8 DEF EntryStaysOK, EntryOKIn
<1>10. /\ p \o q \in Seq(Completions)
       /\ \A k \in 1..Len(p \o q) : EntryStaysOK((p \o q)[k])
  <2>1. /\ Len(p) \in Nat /\ Len(q) \in Nat
        /\ p \o q \in Seq(Completions)
        /\ Len(p \o q) = Len(p) + Len(q)
        /\ \A i \in 1..Len(p) + Len(q) :
             (p \o q)[i] = IF i <= Len(p) THEN p[i] ELSE q[i - Len(p)]
    BY <1>4, <1>5, ConcatProperties, LenProperties
  <2>2. ASSUME NEW k \in 1..Len(p) + Len(q)  PROVE EntryStaysOK((p \o q)[k])
    <3>1. CASE k <= Len(p)
      <4>1. k \in 1..Len(p) /\ (p \o q)[k] = p[k]
        BY <2>1, <3>1
      <4>. QED  BY <4>1, <1>4
    <3>2. CASE ~(k <= Len(p))
      <4>1. k - Len(p) \in 1..Len(q) /\ (p \o q)[k] = q[k - Len(p)]
        BY <2>1, <3>2
      <4>. QED  BY <4>1, <1>9
    <3>. QED  BY <3>1, <3>2
  <2>. QED  BY <2>1, <2>2
<1>11. TypesOK'
  <2>1. completionPort' \in Seq(Completions)
    BY <1>1, <1>10 DEF p
  <2>2. sending' \in [Conns -> Nat]
    BY <1>2 DEF IOInv, TypesOK
  <2>3. inFlight' \in [Conns -> Seq(Nat)]
    <3>1. <<>> \in Seq(Nat) /\ \A d \in Conns : inFlight[d] \in Seq(Nat)
      BY EmptySeq, IOFacts
    <3>. QED  BY <3>1, <1>2
  <2>. QED  BY <1>2, <2>1, <2>2, <2>3 DEF IOInv, TypesOK
<1>12. \A k \in 1..Len(completionPort') : EntryStaysOK(completionPort'[k])
  BY <1>1, <1>10 DEF p
<1>13. receiving' \subseteq socketContexts'
  BY <1>2 DEF IOInv, OperationsOK
<1>14. \A d \in Conns \ socketContexts' : sending'[d] = 0 /\ inFlight'[d] = <<>>
  BY <1>2 DEF IOInv, OperationsOK, TypesOK
<1>15. ASSUME NEW d \in socketContexts'
       PROVE  /\ (IF d \in receiving' THEN 1 ELSE 0) + Count(completionPort', d, "Receive") = 1
              /\ Len(inFlight'[d]) = sending'[d] + Count(completionPort', d, "Send")
  <2>1. d # c /\ d \in socketContexts /\ d \in Conns
    BY <1>2, IOFacts
  <2>2. /\ sending'[d] = sending[d] /\ inFlight'[d] = inFlight[d]
        /\ d \in receiving' <=> d \in receiving
    BY <1>2, <2>1 DEF IOInv, TypesOK
  <2>. QED  BY <2>1, <2>2, <1>7 DEF IOInv, OperationsOK
<1>. QED  BY <1>11, <1>12, <1>13, <1>14, <1>15, OperationsNext

LEMMA NothingTransferredIO ==
  ASSUME IOInv, [Next]_vars, NothingTransferred
  PROVE  TypesOK' /\ OperationsOK'
<1>1. completionPort # <<>> /\ completion.operationType \in {"Receive", "Send"}
  BY DEF NothingTransferred, DequeuesOf, Dequeues
<1>2. completion # CloseStatus
  BY <1>1 DEF CloseStatus
<1>3. ASSUME NEW c \in Found(completion.key), RemoveConnection(c)
      PROVE  TypesOK' /\ OperationsOK'
  <2>1. /\ c \in socketContexts
        /\ completion.key = c \/ completion.key \notin socketContexts
    BY DEF Found, IOInv, LivesOK
  <2>. QED  BY <1>1, <1>2, <1>3, <2>1, RemoveIO
<1>4. CASE Found(completion.key) = {}
  <2>1. /\ completionPort' = Tail(completionPort)
        /\ UNCHANGED <<unread, receiving, sending, socketContexts, messagesToSend, inFlight, emplaced>>
    BY <1>4 DEF NothingTransferred, sendVars
  <2>2. completion.key \notin socketContexts
    BY <1>4 DEF Found
  <2>. QED  BY <1>1, <2>1, <2>2, IgnoredIO
<1>. QED  BY <1>3, <1>4 DEF NothingTransferred

(* Read consumes the one receive of its context and posts the next one.    *)
LEMMA ReadIO ==
  ASSUME IOInv, [Next]_vars, NEW chunk, Read(chunk)
  PROVE  TypesOK' /\ OperationsOK'
<1>. DEFINE c == completion.key
<1>1. /\ completionPort # <<>> /\ completion.operationType = "Receive"
      /\ c \in socketContexts
  BY DEF Read, DequeuesOf, Dequeues
<1>2. CASE Halt
  <2>1. UNCHANGED <<unread, sending, receiving, completionPort, inFlight, socketContexts,
                    messagesToSend, emplaced>>
    BY <1>2 DEF Halt, ControlOnly, netVars, sendVars
  <2>2. TypesOK'
    BY <2>1 DEF IOInv, TypesOK
  <2>. QED  BY <2>1, <2>2, QuietSteps
<1>3. CASE ~Halt
  <2>1. /\ receiving' = receiving \cup {c}
        /\ completionPort' = Tail(completionPort)
        /\ UNCHANGED <<unread, sending, inFlight, socketContexts, messagesToSend, emplaced>>
    BY <1>3 DEF Read, ReceivingAgain, sendVars
  <2>2. /\ completionPort' \in Seq(Completions)
        /\ \A k \in 1..Len(completionPort') : EntryStaysOK(completionPort'[k])
        /\ \A d, operation : Count(completionPort', d, operation) \in Nat
        /\ \A d, operation : Count(completionPort, d, operation)
             = Count(completionPort', d, operation)
                 + (IF Names(completion, d, operation) THEN 1 ELSE 0)
    BY <1>1, <2>1, PortShrinks
  <2>3. TypesOK'
    BY <2>1, <2>2 DEF IOInv, TypesOK
  <2>4. ASSUME NEW d \in socketContexts
        PROVE  /\ (IF d \in receiving' THEN 1 ELSE 0) + Count(completionPort', d, "Receive") = 1
               /\ Len(inFlight[d]) = sending[d] + Count(completionPort', d, "Send")
    <3>1. /\ (IF d \in receiving THEN 1 ELSE 0) + Count(completionPort, d, "Receive") = 1
          /\ Len(inFlight[d]) = sending[d] + Count(completionPort, d, "Send")
          /\ Count(completionPort', d, "Receive") \in Nat
          /\ Count(completionPort', d, "Send") \in Nat
      BY <2>2 DEF IOInv, OperationsOK
    <3>2. /\ Count(completionPort, d, "Send") = Count(completionPort', d, "Send") + 0
          /\ Count(completionPort, d, "Receive")
               = Count(completionPort', d, "Receive") + (IF d = c THEN 1 ELSE 0)
      BY <1>1, <2>2 DEF Names
    <3>3. d \in receiving' <=> d \in receiving \/ d = c
      BY <2>1
    <3>. HIDE DEF c
    <3>4. CASE d = c
      BY <3>1, <3>2, <3>3, <3>4
    <3>5. CASE d # c
      BY <3>1, <3>2, <3>3, <3>5
    <3>. QED  BY <3>4, <3>5
  <2>5. receiving' \subseteq socketContexts
    BY <1>1, <2>1 DEF IOInv, OperationsOK
  <2>. QED  BY <2>1, <2>2, <2>3, <2>4, <2>5, OperationsNext DEF IOInv, OperationsOK
<1>. QED  BY <1>2, <1>3

(* Write consumes one send of its context, and pops for it.                 *)
LEMMA WriteIO ==
  ASSUME IOInv, [Next]_vars, Write, ~Halt
  PROVE  /\ TypesOK' /\ OperationsOK'
         /\ inFlight[completion.key] # <<>>
<1>. DEFINE c == completion.key
            rest == SendPath!RestOfQueue(messagesToSend[c])
            left == SendPath!Pop(inFlight[c])
            restarts == SendPath!RestartsOnWrite(c)
<1>1. /\ completionPort # <<>> /\ completion.operationType = "Send"
      /\ c \in socketContexts /\ c \in Conns
      /\ completionPort' = Tail(completionPort)
      /\ UNCHANGED <<unread, receiving, socketContexts>>
      /\ SendPath!Write(c)
      /\ sending' = [d \in Conns |-> IF d \in Restarted(c) THEN sending[d] + 1 ELSE sending[d]]
  BY IOFacts DEF Write, DequeuesOf, Dequeues, SendingStarted
<1>2. /\ completionPort' \in Seq(Completions)
      /\ \A k \in 1..Len(completionPort') : EntryStaysOK(completionPort'[k])
      /\ \A d, operation : Count(completionPort', d, operation) \in Nat
      /\ \A d, operation : Count(completionPort, d, operation)
           = Count(completionPort', d, operation)
               + (IF Names(completion, d, operation) THEN 1 ELSE 0)
  BY <1>1, PortShrinks
<1>3. /\ inFlight[c] \in Seq(Nat) /\ messagesToSend[c] \in Seq(Nat)
      /\ Len(inFlight[c]) \in Nat /\ Len(messagesToSend[c]) \in Nat
  BY <1>1, IOFacts, LenProperties
<1>4. Len(inFlight[c]) >= 1 /\ inFlight[c] # <<>>
  <2>1. Count(completionPort, c, "Send") = Count(completionPort', c, "Send") + 1
    BY <1>1, <1>2 DEF Names
  <2>2. Len(inFlight[c]) = sending[c] + Count(completionPort, c, "Send") /\ sending[c] \in Nat
    BY <1>1, IOFacts DEF IOInv, OperationsOK
  <2>3. Count(completionPort', c, "Send") \in Nat
    BY <1>2
  <2>4. Len(inFlight[c]) >= 1
    BY <2>1, <2>2, <2>3
  <2>. QED  BY <2>4
<1>5. /\ left \in Seq(Nat) /\ Len(left) = Len(inFlight[c]) - 1
      /\ rest \in Seq(Nat)
  <2>1. ASSUME NEW q \in Seq(Nat)
        PROVE  /\ SendPath!Pop(q) \in Seq(Nat)
               /\ Len(q) >= 1 => Len(SendPath!Pop(q)) = Len(q) - 1
    <3>1. Len(q) \in Nat /\ \A k \in 2..Len(q) : q[k] \in Nat
      <4>1. Len(q) \in Nat
        BY LenProperties
      <4>. QED  BY <4>1, ElementOfSeq
    <3>. DEFINE r == SubSeq(q, 2, Len(q))
                m == Len(q)
    <3>2. r \in Seq(Nat) /\ Len(r) = IF 2 <= m THEN m - 2 + 1 ELSE 0
      BY <3>1, SubSeqProperties
    <3>3. SendPath!Pop(q) = r
      BY DEF SendPath!Pop
    <3>4. m \in Nat
      BY <3>1
    <3>. HIDE DEF r, m
    <3>5. m >= 1 => Len(r) = m - 1
      BY <3>2, <3>4
    <3>6. /\ SendPath!Pop(q) \in Seq(Nat)
          /\ m >= 1 => Len(SendPath!Pop(q)) = m - 1
      BY <3>2, <3>3, <3>4, <3>5
    <3>. QED  BY <3>6 DEF m
  <2>. QED  BY <2>1, <1>3, <1>4 DEF SendPath!RestOfQueue
<1>6. restarts => rest # <<>>
  BY DEF SendPath!RestartsOnWrite, SendPath!CanStart
<1>7. /\ messagesToSend' = [messagesToSend EXCEPT ![c] = rest]
      /\ emplaced' = emplaced
      /\ inFlight' = [inFlight EXCEPT ![c] =
           IF restarts THEN SendPath!Started(left, SendPath!Last(rest)) ELSE left]
  BY <1>1 DEF SendPath!Write
<1>8. /\ \A d \in Conns : d # c => sending'[d] = sending[d]
      /\ sending'[c] = sending[c] + (IF restarts THEN 1 ELSE 0)
      /\ sending[c] \in Nat
  <2>1. Restarted(c) = IF restarts THEN {c} ELSE {}
    BY DEF Restarted
  <2>2. sending[c] \in Nat
    BY <1>1, IOFacts
  <2>. QED  BY <1>1, <2>1, <2>2
<1>. HIDE DEF c, rest, left, restarts
<1>9. /\ inFlight'[c] \in Seq(Nat)
      /\ Len(inFlight'[c]) = Len(inFlight[c]) - 1 + (IF restarts THEN 1 ELSE 0)
      /\ \A d \in Conns : d # c => inFlight'[d] = inFlight[d]
  <2>1. inFlight'[c] = IF restarts THEN SendPath!Started(left, SendPath!Last(rest)) ELSE left
    BY <1>1, <1>7 DEF IOInv, TypesOK
  <2>2. CASE restarts
    <3>1. /\ SendPath!Started(left, SendPath!Last(rest)) \in Seq(Nat)
          /\ Len(SendPath!Started(left, SendPath!Last(rest))) = Len(left) + 1
      BY <1>1, <1>5, <1>6, <2>2, StartsOne
    <3>. QED  BY <1>3, <1>5, <1>7, <2>1, <2>2, <3>1
  <2>3. CASE ~restarts
    BY <1>3, <1>5, <1>7, <2>1, <2>3
  <2>. QED  BY <2>2, <2>3
<1>10. TypesOK'
  <2>1. sending' \in [Conns -> Nat]
    BY <1>1 DEF IOInv, TypesOK
  <2>2. messagesToSend' \in [Conns -> Seq(Nat)]
    BY <1>5, <1>7 DEF IOInv, TypesOK
  <2>3. inFlight' \in [Conns -> Seq(Nat)]
    BY <1>7, <1>9 DEF IOInv, TypesOK
  <2>. QED  BY <1>1, <1>2, <1>7, <2>1, <2>2, <2>3 DEF IOInv, TypesOK
<1>11. ASSUME NEW d \in socketContexts
       PROVE  /\ (IF d \in receiving THEN 1 ELSE 0) + Count(completionPort', d, "Receive") = 1
              /\ Len(inFlight'[d]) = sending'[d] + Count(completionPort', d, "Send")
  <2>1. /\ (IF d \in receiving THEN 1 ELSE 0) + Count(completionPort, d, "Receive") = 1
        /\ Len(inFlight[d]) = sending[d] + Count(completionPort, d, "Send")
        /\ Count(completionPort', d, "Receive") \in Nat
        /\ Count(completionPort', d, "Send") \in Nat
        /\ d \in Conns
    BY <1>2, IOFacts DEF IOInv, OperationsOK
  <2>2. /\ Count(completionPort, d, "Receive") = Count(completionPort', d, "Receive") + 0
        /\ Count(completionPort, d, "Send")
             = Count(completionPort', d, "Send") + (IF d = c THEN 1 ELSE 0)
    BY <1>1, <1>2 DEF Names, c
  <2>3. CASE d = c
    <3>. DEFINE more == IF restarts THEN 1 ELSE 0
                queued == Count(completionPort', c, "Send")
    <3>1. more \in Nat /\ queued \in Nat /\ sending[c] \in Nat
      BY <1>2, <1>8
    <3>2. Len(inFlight[c]) = sending[c] + (queued + 1)
      BY <2>1, <2>2, <2>3
    <3>3. Len(inFlight'[c]) = Len(inFlight[c]) - 1 + more /\ sending'[c] = sending[c] + more
      BY <1>8, <1>9
    <3>. HIDE DEF more, queued
    <3>4. Len(inFlight'[c]) = sending'[c] + queued
      BY <3>1, <3>2, <3>3, SMTT(30)
    <3>. QED  BY <2>1, <2>2, <2>3, <3>4 DEF queued
  <2>4. CASE d # c
    BY <2>1, <2>2, <2>4, <1>8, <1>9
  <2>. QED  BY <2>3, <2>4
<1>12. \A d \in Conns \ socketContexts : sending'[d] = 0 /\ inFlight'[d] = <<>>
  BY <1>1, <1>8, <1>9 DEF IOInv, OperationsOK
<1>13. OperationsOK'
  BY <1>1, <1>2, <1>11, <1>12, OperationsNext DEF IOInv, OperationsOK
<1>. QED  BY <1>4, <1>10, <1>13 DEF c

LEMMA DisconnectAllIO ==
  ASSUME IOInv, [Next]_vars, DisconnectAll
  PROVE  TypesOK' /\ OperationsOK'
<1>1. /\ completionPort' = Append(completionPort, CloseStatus)
      /\ UNCHANGED <<unread, receiving, sending, socketContexts, messagesToSend, inFlight, emplaced>>
  BY DEF DisconnectAll, sendVars
<1>2. CloseStatus \in Completions /\ EntryStaysOK(CloseStatus)
  BY DEF Completions, EntryStaysOK, EntryOKIn
<1>3. \A c : ~Names(CloseStatus, c, "Receive") /\ ~Names(CloseStatus, c, "Send")
  BY DEF Names, CloseStatus
<1>4. /\ completionPort' \in Seq(Completions)
      /\ \A k \in 1..Len(completionPort') : EntryStaysOK(completionPort'[k])
      /\ \A c \in Conns : /\ Count(completionPort', c, "Receive") = Count(completionPort, c, "Receive")
                          /\ Count(completionPort', c, "Send") = Count(completionPort, c, "Send")
  BY <1>1, <1>2, <1>3, PortGrows, IOFacts
<1>5. TypesOK'
  BY <1>1, <1>4 DEF IOInv, TypesOK
<1>. QED  BY <1>1, <1>4, <1>5, IOFacts, OperationsNext DEF IOInv, OperationsOK

LEMMA ClearIO ==
  ASSUME IOInv, [Next]_vars, Clear
  PROVE  TypesOK' /\ OperationsOK'
<1>1. /\ socketContexts' = {} /\ receiving' = {} /\ completionPort' = <<>>
      /\ sending' = [c \in Conns |-> 0]
      /\ inFlight' = [c \in Conns |-> IF c \in socketContexts THEN <<>> ELSE inFlight[c]]
      /\ UNCHANGED <<unread, messagesToSend, emplaced>>
  BY DEF Clear, SendPath!DropWrites
<1>2. completionPort' \in Seq(Completions) /\ Len(completionPort') = 0
  BY <1>1, EmptySeq
<1>3. \A c \in Conns : inFlight'[c] = <<>>
  BY <1>1 DEF IOInv, OperationsOK
<1>4. inFlight' \in [Conns -> Seq(Nat)]
  <2>1. <<>> \in Seq(Nat) /\ \A c \in Conns : inFlight[c] \in Seq(Nat)
    BY EmptySeq, IOFacts
  <2>. QED  BY <2>1, <1>1
<1>5. TypesOK'
  BY <1>1, <1>2, <1>4 DEF IOInv, TypesOK
<1>6. \A k \in 1..Len(completionPort') : EntryStaysOK(completionPort'[k])
  BY <1>2
<1>. QED  BY <1>1, <1>3, <1>5, <1>6, OperationsNext

LEMMA SendIO ==
  ASSUME IOInv, [Next]_vars, NEW c \in Conns, Send(c)
  PROVE  TypesOK' /\ OperationsOK'
<1>1. /\ emplaced' = [emplaced EXCEPT ![c] = emplaced[c] + 1]
      /\ messagesToSend' = [messagesToSend EXCEPT ![c] = Append(messagesToSend[c], emplaced[c] + 1)]
      /\ UNCHANGED <<unread, sending, receiving, completionPort, inFlight, socketContexts>>
  BY DEF Send, SendPath!Emplace, netVars
<1>2. emplaced[c] + 1 \in Nat /\ messagesToSend[c] \in Seq(Nat)
  BY DEF IOInv, TypesOK
<1>3. Append(messagesToSend[c], emplaced[c] + 1) \in Seq(Nat)
  BY <1>2, AppendProperties
<1>4. TypesOK'
  BY <1>1, <1>2, <1>3 DEF IOInv, TypesOK
<1>. QED  BY <1>1, <1>4, QuietSteps

LEMMA IOStep == IOInv /\ [Next]_vars => IOInv'
<1>. SUFFICES ASSUME IOInv, [Next]_vars  PROVE TypesOK' /\ OperationsOK'
  BY LivesStep DEF IOInv
<1>1. ASSUME UNCHANGED <<unread, sending, receiving, completionPort, inFlight, socketContexts,
                         messagesToSend, emplaced>>
      PROVE  TypesOK' /\ OperationsOK'
  <2>1. TypesOK'
    BY <1>1 DEF IOInv, TypesOK
  <2>. QED  BY <1>1, <2>1, QuietSteps
<1>2. CASE PeerStep
  <2>1. PICK c \in Conns :
          \/ /\ \/ Peers!Connects(c) \/ Peers!Closes(c) \/ Peers!Breaks(c, "rst") \/ Peers!Sends(c)
             /\ UNCHANGED <<receiving, sending, completionPort>>
          \/ ReceiveCompletes(c) \/ SendCompletes(c)
    BY <1>2 DEF PeerStep
  <2>2. Outside
    BY <1>2 DEF PeerStep
  <2>3. CASE /\ \/ Peers!Connects(c) \/ Peers!Closes(c) \/ Peers!Breaks(c, "rst") \/ Peers!Sends(c)
             /\ UNCHANGED <<receiving, sending, completionPort>>
    <3>1. UNCHANGED <<sending, receiving, completionPort, inFlight, socketContexts,
                      messagesToSend, emplaced>>
      BY <2>2, <2>3 DEF Outside, sendVars
    <3>2. unread' \in [Conns -> Nat]
      BY <2>3 DEF Peers!Connects, Peers!Closes, Peers!Breaks, Peers!Sends, IOInv, TypesOK
    <3>3. TypesOK'
      BY <3>1, <3>2 DEF IOInv, TypesOK
    <3>. QED  BY <3>1, <3>3, QuietSteps
  <2>4. CASE ReceiveCompletes(c)
    BY <2>2, <2>4, ReceiveCompletesIO
  <2>5. CASE SendCompletes(c)
    BY <2>2, <2>5, SendCompletesIO
  <2>. QED  BY <2>1, <2>3, <2>4, <2>5
<1>3. CASE UNCHANGED vars
  BY <1>1, <1>3 DEF vars, netVars, sendVars
<1>4. CASE ServerStep
  <2>1. CASE \/ AcceptNothing \/ (\E c \in Conns : AcceptedIsReset(c)) \/ ProcessSendFails
             \/ WaitTimesOut \/ WaitFails \/ ErasedContextIsUsed \/ NotDue
    <3>1. ControlOnly
      BY <2>1 DEF AcceptNothing, AcceptedIsReset, ProcessSendFails, WaitTimesOut, WaitFails,
           ErasedContextIsUsed, NotDue, Halt
    <3>. QED  BY <1>1, <3>1 DEF ControlOnly, netVars, sendVars
  <2>2. CASE \E c \in Conns : Accept(c)
    BY <2>2, AcceptIO
  <2>3. CASE ProcessSend
    BY <2>3, ProcessSendIO
  <2>4. CASE CloseStatusArrives
    <3>1. /\ completionPort # <<>> /\ completion.operationType = "Close"
          /\ completionPort' = Tail(completionPort)
          /\ UNCHANGED <<unread, receiving, sending, socketContexts, messagesToSend, inFlight, emplaced>>
      BY <2>4 DEF CloseStatusArrives, Dequeues, sendVars
    <3>2. completion = CloseStatus
      BY <3>1, TailEntries DEF completion, Completions
    <3>. QED  BY <3>1, <3>2, IgnoredIO
  <2>5. CASE NothingTransferred
    BY <2>5, NothingTransferredIO
  <2>6. CASE \E chunk \in ReceivePath!Kinds : Read(chunk)
    BY <2>6, ReadIO
  <2>7. CASE Write
    <3>1. CASE Halt
      BY <1>1, <3>1 DEF Halt, ControlOnly, netVars, sendVars
    <3>. QED  BY <2>7, <3>1, WriteIO
  <2>8. CASE Update \/ Destroy
    BY <2>8, <1>1 DEF Update, Destroy, netVars, sendVars
  <2>9. CASE \E c \in Conns : Send(c)
    BY <2>9, SendIO
  <2>10. CASE DisconnectAll
    BY <2>10, DisconnectAllIO
  <2>11. CASE Clear
    BY <2>11, ClearIO
  <2>. QED  BY <1>4, <2>1, <2>2, <2>3, <2>4, <2>5, <2>6, <2>7, <2>8, <2>9, <2>10, <2>11
            DEF ServerStep
<1>. QED  BY <1>2, <1>3, <1>4 DEF Next, Terminated

LEMMA IOHolds == Spec => []IOInv
<1>1. Init => IOInv
  BY LivesInit, IOInit DEF IOInv
<1>. QED  BY <1>1, IOStep, PTL DEF Spec

LEMMA QueuedIsAt ==
  ASSUME IOInv, NEW c, NEW operation
  PROVE  Queued(c, operation) = At(completionPort, c, operation)
<1>1. DOMAIN completionPort = 1..Len(completionPort)
  BY IOFacts, LenProperties
<1>. QED  BY <1>1 DEF Queued, At, Names

(* Every context has exactly one receive, outstanding or completed and     *)
(* queued: none writes into a buffer that Read is looking at, and no client *)
(* is left unread.                                                          *)
THEOREM OneReceive == Spec => []OneReceivePerContext
<1>1. IOInv => OneReceivePerContext
  <2>. SUFFICES ASSUME IOInv, NEW c \in socketContexts
                PROVE  Cardinality({c} \cap receiving) + Cardinality(Queued(c, "Receive")) = 1
    BY DEF OneReceivePerContext
  <2>1. (IF c \in receiving THEN 1 ELSE 0) + Count(completionPort, c, "Receive") = 1
    BY DEF IOInv, OperationsOK
  <2>2. Cardinality({c} \cap receiving) = IF c \in receiving THEN 1 ELSE 0
    <3>1. CASE c \in receiving
      <4>1. {c} \cap receiving = {c}
        BY <3>1
      <4>. QED  BY <3>1, <4>1, FS_Singleton
    <3>2. CASE c \notin receiving
      <4>1. {c} \cap receiving = {}
        BY <3>2
      <4>. QED  BY <3>2, <4>1, FS_EmptySet
    <3>. QED  BY <3>1, <3>2
  <2>. QED  BY <2>1, <2>2, QueuedIsAt DEF Count
<1>. QED  BY <1>1, IOHolds, PTL

(* Each message that StartWrite marked is with the kernel or in the queue  *)
(* of completions until Write pops for it.                                  *)
THEOREM StartedComplete == Spec => []StartedMessagesComplete
<1>1. IOInv => StartedMessagesComplete
  BY QueuedIsAt DEF StartedMessagesComplete, IOInv, OperationsOK, Count
<1>. QED  BY <1>1, IOHolds, PTL

(* HandleNetEvents removes a connection only when its client is gone (what *)
(* a completion without bytes says of a client was true when it was queued, *)
(* and stays true), or when the completion it handles is that of a context *)
(* which was erased and whose address the connection's own has now.         *)
THEOREM OnlyGone == Spec => OnlyGoneUnlessAddressReused
<1>. DEFINE Gone(c) == link[c] \in Failing \/ pc = "Clear"
            Reused(c) == \E d \in Conns \ socketContexts :
                           /\ address[d] = address[c]
                           /\ Queued(d, "Receive") \cup Queued(d, "Send") # {}
<1>1. ASSUME IOInv, [Next]_vars, NEW c \in Conns,
             status[c] = "Init", status'[c] = "MarkForClose"
      PROVE  Gone(c) \/ Reused(c)
  <2>1. CASE PeerStep \/ UNCHANGED vars \/ OtherStep
    BY <1>1, <2>1 DEF PeerStep, Outside, vars, serverVars, OtherStep
  <2>2. CASE \E d \in Conns : Accept(d)
    BY <1>1, <2>2 DEF Accept, Server!AddConnection, IOInv, LivesOK
  <2>3. CASE NothingTransferred
    <3>. DEFINE key == completion.key
    <3>1. /\ completionPort # <<>> /\ completion.result = "none"
          /\ completion.operationType \in {"Receive", "Send"}
      BY <2>3 DEF NothingTransferred, DequeuesOf, Dequeues
    <3>2. /\ EntryOK(completion) /\ completion # CloseStatus
          /\ key \in Conns
      BY <1>1, <3>1, TailEntries DEF completion, CloseStatus, Completions
    <3>3. PICK d \in socketContexts :
            /\ key = d \/ key \notin socketContexts
            /\ address[key] = address[d] /\ Server!ChangeStateToClose({d})
      BY <1>1, <2>3, RemoveLives DEF IOInv
    <3>4. c = d
      BY <1>1, <3>3 DEF Server!ChangeStateToClose
    <3>5. CASE key = d
      BY <3>1, <3>2, <3>4, <3>5 DEF EntryOK, EntryOKIn
    <3>6. CASE key \notin socketContexts
      <4>1. 1 \in DOMAIN completionPort /\ completion = completionPort[1]
        BY <1>1, <3>1, IOFacts, EmptySeq, HeadTailProperties, LenProperties DEF completion
      <4>2. Queued(key, completion.operationType) # {}
        BY <4>1 DEF Queued
      <4>. QED  BY <3>1, <3>2, <3>3, <3>4, <3>6, <4>2
    <3>. QED  BY <3>3, <3>5, <3>6
  <2>4. CASE Update
    BY <1>1, <2>4, UpdateLives DEF Server!Update, IOInv
  <2>5. CASE Clear
    BY <2>5 DEF Clear
  <2>6. CASE Destroy
    BY <1>1, <2>6 DEF Destroy, Server!Destroy
  <2>. QED  BY <1>1, <2>1, <2>2, <2>3, <2>4, <2>5, <2>6, StepCases
<1>2. IOInv /\ [Next]_vars =>
        [\A c \in Conns : status[c] = "Init" /\ status'[c] = "MarkForClose"
           => \/ link[c] \in Failing \/ pc = "Clear"
              \/ \E d \in Conns \ socketContexts :
                   /\ address[d] = address[c]
                   /\ Queued(d, "Receive") \cup Queued(d, "Send") # {}]_vars
  BY <1>1
<1>. QED  BY <1>2, IOHolds, PTL DEF Spec, OnlyGoneUnlessAddressReused

-----------------------------------------------------------------------------
(* Each step is one of NetSendPath's, or leaves its variables alone: Write *)
(* is called only at the end of a message that was started.                 *)
LEMMA SendsStep ==
  ASSUME IOInv, [Next]_vars
  PROVE  [SendPath!SendNext]_(SendPath!sendVars)
<1>. USE DEF SendPath!SendNext, SendPath!sendVars, sendVars
<1>1. CASE UNCHANGED sendVars
  BY <1>1
<1>2. CASE ProcessSend
  <2>1. socketContexts \in SUBSET Conns
    BY IOFacts
  <2>. QED  BY <1>2, <2>1 DEF ProcessSend
<1>3. CASE NothingTransferred
  <2>1. ASSUME NEW c \in Found(completion.key), RemoveConnection(c)
        PROVE  [SendPath!SendNext]_(SendPath!sendVars)
    <3>1. SendPath!DropWrites({c}) /\ {c} \in SUBSET Conns
      BY <2>1, IOFacts DEF RemoveConnection, Found
    <3>. QED  BY <3>1
  <2>. QED  BY <1>1, <1>3, <2>1 DEF NothingTransferred
<1>4. CASE Write
  <2>1. CASE Halt
    BY <1>1, <2>1 DEF Halt, ControlOnly
  <2>2. CASE ~Halt
    <3>1. SendPath!Write(completion.key) /\ completion.key \in Conns
      BY <1>4, <2>2, IOFacts DEF Write
    <3>. QED  BY <1>4, <2>2, <3>1, WriteIO
  <2>. QED  BY <2>1, <2>2
<1>5. CASE \E c \in Conns : Send(c)
  BY <1>5 DEF Send
<1>6. CASE Clear
  <2>1. SendPath!DropWrites(socketContexts) /\ socketContexts \in SUBSET Conns
    BY <1>6, IOFacts DEF Clear
  <2>. QED  BY <2>1
<1>7. CASE \/ AcceptNothing \/ (\E c \in Conns : AcceptedIsReset(c)) \/ ProcessSendFails
           \/ WaitTimesOut \/ WaitFails \/ ErasedContextIsUsed \/ NotDue
  BY <1>7 DEF AcceptNothing, AcceptedIsReset, ProcessSendFails, WaitTimesOut, WaitFails,
       ErasedContextIsUsed, NotDue, Halt, ControlOnly
<1>8. CASE \/ (\E c \in Conns : Accept(c)) \/ CloseStatusArrives
           \/ (\E chunk \in ReceivePath!Kinds : Read(chunk)) \/ Update \/ DisconnectAll \/ Destroy
  BY <1>8 DEF Accept, CloseStatusArrives, Read, Halt, ControlOnly, Update, DisconnectAll, Destroy
<1>9. CASE PeerStep
  BY <1>9 DEF PeerStep, Outside
<1>10. CASE UNCHANGED vars
  BY <1>10 DEF vars
<1>. QED  BY <1>1, <1>2, <1>3, <1>4, <1>5, <1>6, <1>7, <1>8, <1>9, <1>10
          DEF Next, ServerStep, Terminated

(* The IOCP server calls the send path as NetSendPath requires, although   *)
(* completions of sends come in any order with those of receives and with   *)
(* removals.                                                                *)
THEOREM Sends == Spec => SendPath!Spec
<1>1. Init => SendPath!SendInit
  BY DEF Init
<1>. QED  BY <1>1, IOHolds, SendsStep, PTL DEF Spec, SendPath!Spec

SendFacts == INSTANCE NetSendPathProofs WITH Overlapped <- TRUE

(* Both instances of NetSendPath say the same.                              *)
LEMMA SameSend == SendPath!Spec <=> SendFacts!Spec
<1>1. SendPath!SendInit <=> SendFacts!SendInit
  BY DEF SendPath!SendInit, SendFacts!SendInit
<1>2. [SendPath!SendNext]_(SendPath!sendVars) <=> [SendFacts!SendNext]_(SendFacts!sendVars)
  BY DEF SendPath!SendNext, SendPath!sendVars, SendPath!Emplace, SendPath!ProcessSend,
       SendPath!Write, SendPath!DropWrites, SendPath!CanStartOn, SendPath!CanStart,
       SendPath!RestartsOnWrite, SendPath!RestOfQueue, SendPath!Pop, SendPath!Mark,
       SendPath!Started, SendPath!Reported, SendPath!Last,
       SendFacts!SendNext, SendFacts!sendVars, SendFacts!Emplace, SendFacts!ProcessSend,
       SendFacts!Write, SendFacts!DropWrites, SendFacts!CanStartOn, SendFacts!CanStart,
       SendFacts!RestartsOnWrite, SendFacts!RestOfQueue, SendFacts!Pop, SendFacts!Mark,
       SendFacts!Started, SendFacts!Reported, SendFacts!Last
<1>. QED  BY <1>1, <1>2, PTL DEF SendPath!Spec, SendFacts!Spec

(* The kernel never reads from a message that Write has popped, and no     *)
(* message goes out twice or after a newer one, on the IOCP server with any *)
(* number of clients.                                                       *)
THEOREM SendsInOrder ==
  ASSUME MaxMessages \in Nat
  PROVE  Spec => [](SendPath!InFlightIsQueued /\ SendPath!WireInOrderWithoutRepeats)
<1>1. SendFacts!SendAssumption
  BY DEF SendFacts!SendAssumption
<1>2. SendFacts!Spec => []SendFacts!InFlightIsQueued
  BY <1>1, SendFacts!PointersStayValid
<1>3. SendFacts!Spec => []SendFacts!WireInOrderWithoutRepeats
  BY <1>1, SendFacts!MessagesGoOutInOrder
<1>4. SendPath!InFlightIsQueued <=> SendFacts!InFlightIsQueued
  BY DEF SendPath!InFlightIsQueued, SendFacts!InFlightIsQueued, SendPath!ToSet, SendFacts!ToSet
<1>5. SendPath!WireInOrderWithoutRepeats <=> SendFacts!WireInOrderWithoutRepeats
  BY DEF SendPath!WireInOrderWithoutRepeats, SendFacts!WireInOrderWithoutRepeats,
       SendPath!Increasing, SendFacts!Increasing
<1>. QED  BY <1>2, <1>3, <1>4, <1>5, SameSend, Sends, PTL

-----------------------------------------------------------------------------
(* The receiving half.  A connection has a list of buffers while it has a  *)
(* context, and the pool never creates more buffers than the connections    *)
(* accepted so far have taken: with room for all of them (BuffersSuffice),  *)
(* the bound of the model is never in the way.  A chunk that waits in the   *)
(* queue of completions is one that its client has sent and Read has not    *)
(* counted yet.                                                             *)
ReceiveFacts == INSTANCE NetReceivePathProofs

BuffersSuffice == ReceiveFacts!ReceiveAssumption /\ ReceiveFacts!PoolSuffices

Accepted == {c \in Conns : status[c] # "none"}

IsChunkOf(e, c) == Names(e, c, "Receive") /\ e.result = "bytes"

ChunkWaits(p, c) == \E k \in 1..Len(p) : IsChunkOf(p[k], c)

ChunksOK ==
  /\ \A c \in Conns : chunks[c] + unread[c] <= MaxChunks
  /\ \A c \in socketContexts :
       ChunkWaits(completionPort, c) => chunks[c] + unread[c] < MaxChunks

ListsOK ==
  /\ \A c \in Conns : buffers[c] # <<>> <=> c \in socketContexts
  /\ ReceiveFacts!PoolBounded(pool, Accepted, chunks)

(* Both instances of NetReceivePath say the same.                           *)
LEMMA SameReceive ==
  /\ ReceivePath!Kinds = ReceiveFacts!Kinds
  /\ \A c : ReceivePath!StartRead(c) <=> ReceiveFacts!StartRead(c)
  /\ \A c, chunk : ReceivePath!Read(c, chunk) <=> ReceiveFacts!Read(c, chunk)
  /\ \A S : ReceivePath!HandOver(S) <=> ReceiveFacts!HandOver(S)
  /\ \A S : ReceivePath!DropReads(S) <=> ReceiveFacts!DropReads(S)
<1>1. ReceivePath!Kinds = ReceiveFacts!Kinds
  BY DEF ReceivePath!Kinds, ReceiveFacts!Kinds
<1>2. \A c : ReceivePath!StartRead(c) <=> ReceiveFacts!StartRead(c)
  BY DEF ReceivePath!StartRead, ReceiveFacts!StartRead, ReceivePath!TakenBuffer,
     ReceiveFacts!TakenBuffer, ReceivePath!AfterTake, ReceiveFacts!AfterTake
<1>3. \A c, chunk : ReceivePath!Read(c, chunk) <=> ReceiveFacts!Read(c, chunk)
  BY DEF ReceivePath!Read, ReceiveFacts!Read, ReceivePath!TakenBuffer, ReceiveFacts!TakenBuffer,
     ReceivePath!AfterTake, ReceiveFacts!AfterTake, ReceivePath!NetBuffer, ReceiveFacts!NetBuffer,
     ReceivePath!Filled, ReceiveFacts!Filled, ReceivePath!PoolAfterRead, ReceiveFacts!PoolAfterRead,
     ReceivePath!ReturnBuffers, ReceiveFacts!ReturnBuffers, ReceivePath!ListAfterRead,
     ReceiveFacts!ListAfterRead, ReceivePath!Message, ReceiveFacts!Message,
     ReceivePath!Last, ReceiveFacts!Last
<1>4. \A S : ReceivePath!HandOver(S) <=> ReceiveFacts!HandOver(S)
  BY DEF ReceivePath!HandOver, ReceiveFacts!HandOver, ReceivePath!HandedOver,
     ReceiveFacts!HandedOver, ReceivePath!Last, ReceiveFacts!Last
<1>5. \A S : ReceivePath!DropReads(S) <=> ReceiveFacts!DropReads(S)
  BY DEF ReceivePath!DropReads, ReceiveFacts!DropReads
<1>. QED  BY <1>1, <1>2, <1>3, <1>4, <1>5

LEMMA SameReceiveSpec ==
  /\ ReceivePath!ReceiveInit <=> ReceiveFacts!ReceiveInit
  /\ [ReceivePath!ReceiveNext]_(ReceivePath!receiveVars)
       <=> [ReceiveFacts!ReceiveNext]_(ReceiveFacts!receiveVars)
<1>1. ReceivePath!ReceiveInit <=> ReceiveFacts!ReceiveInit
  BY DEF ReceivePath!ReceiveInit, ReceiveFacts!ReceiveInit, ReceivePath!NewPool,
     ReceiveFacts!NewPool, ReceivePath!Buffers, ReceiveFacts!Buffers
<1>2. \A p : ReceivePath!MayTake(p) <=> ReceiveFacts!MayTake(p)
  BY DEF ReceivePath!MayTake, ReceiveFacts!MayTake, ReceivePath!TakenBuffer,
     ReceiveFacts!TakenBuffer
<1>3. \A p, list, chunk :
        ReceivePath!PoolAfterRead(p, list, chunk) = ReceiveFacts!PoolAfterRead(p, list, chunk)
  BY DEF ReceivePath!PoolAfterRead, ReceiveFacts!PoolAfterRead, ReceivePath!ReturnBuffers,
     ReceiveFacts!ReturnBuffers
<1>4. ReceivePath!ReceiveNext <=> ReceiveFacts!ReceiveNext
  BY <1>2, <1>3, SameReceive DEF ReceivePath!ReceiveNext, ReceiveFacts!ReceiveNext
<1>5. UNCHANGED ReceivePath!receiveVars <=> UNCHANGED ReceiveFacts!receiveVars
  BY DEF ReceivePath!receiveVars, ReceiveFacts!receiveVars
<1>. QED  BY <1>1, <1>4, <1>5

(* What waits in a queue that lost its front, or gained one completion, or  *)
(* several of another connection                                            *)
LEMMA WaitsTail ==
  ASSUME NEW p \in Seq(Completions), p # <<>>, NEW c, ChunkWaits(Tail(p), c)
  PROVE  ChunkWaits(p, c)
<1>1. /\ Len(p) \in Nat \ {0} /\ Len(Tail(p)) = Len(p) - 1
      /\ \A k \in 1..Len(Tail(p)) : Tail(p)[k] = p[k + 1]
  BY EmptySeq, HeadTailProperties
<1>2. PICK k \in 1..Len(Tail(p)) : IsChunkOf(Tail(p)[k], c)
  BY DEF ChunkWaits
<1>3. k + 1 \in 1..Len(p) /\ IsChunkOf(p[k + 1], c)
  BY <1>1, <1>2
<1>. QED  BY <1>3 DEF ChunkWaits

LEMMA WaitsAppend ==
  ASSUME NEW p \in Seq(Completions), NEW e \in Completions, NEW c, ChunkWaits(Append(p, e), c)
  PROVE  ChunkWaits(p, c) \/ IsChunkOf(e, c)
<1>1. /\ Len(p) \in Nat /\ Len(Append(p, e)) = Len(p) + 1
      /\ \A k \in 1..Len(p) : Append(p, e)[k] = p[k]
      /\ Append(p, e)[Len(p) + 1] = e
  BY AppendProperties, LenProperties
<1>2. PICK k \in 1..Len(Append(p, e)) : IsChunkOf(Append(p, e)[k], c)
  BY DEF ChunkWaits
<1>3. k \in 1..Len(p) \/ k = Len(p) + 1
  BY <1>1
<1>. QED  BY <1>1, <1>2, <1>3 DEF ChunkWaits

LEMMA WaitsConcat ==
  ASSUME NEW p \in Seq(Completions), NEW q \in Seq(Completions), NEW c,
         \A k \in 1..Len(q) : q[k].key # c, ChunkWaits(p \o q, c)
  PROVE  ChunkWaits(p, c)
<1>1. /\ Len(p) \in Nat /\ Len(q) \in Nat /\ Len(p \o q) = Len(p) + Len(q)
      /\ \A j \in 1..Len(p) + Len(q) :
           (p \o q)[j] = IF j <= Len(p) THEN p[j] ELSE q[j - Len(p)]
  BY ConcatProperties, LenProperties
<1>2. PICK k \in 1..Len(p \o q) : IsChunkOf((p \o q)[k], c)
  BY DEF ChunkWaits
<1>3. CASE k <= Len(p)
  <2>1. k \in 1..Len(p) /\ (p \o q)[k] = p[k]
    BY <1>1, <1>3
  <2>. QED  BY <1>2, <2>1 DEF ChunkWaits
<1>4. CASE ~(k <= Len(p))
  <2>1. k - Len(p) \in 1..Len(q) /\ (p \o q)[k] = q[k - Len(p)]
    BY <1>1, <1>4
  <2>. QED  BY <1>2, <2>1 DEF IsChunkOf, Names
<1>. QED  BY <1>3, <1>4

(* A context without a completed receive has no chunk that waits.           *)
LEMMA NoneWaits ==
  ASSUME NEW p \in Seq(Completions), NEW c, Count(p, c, "Receive") = 0
  PROVE  ~ChunkWaits(p, c)
<1>1. \A k \in 1..Len(p) : ~Names(p[k], c, "Receive")
  BY CountType
<1>. QED  BY <1>1 DEF ChunkWaits, IsChunkOf

ReadsInv == ChunksOK /\ ListsOK /\ ReceiveFacts!ReceiveInv

LEMMA ReadsTypes ==
  ASSUME BuffersSuffice, ReadsInv, IOInv
  PROVE  /\ chunks \in [Conns -> Nat] /\ buffers \in [Conns -> Seq(Nat)]
         /\ unread \in [Conns -> Nat] /\ MaxChunks \in Nat
         /\ \A c \in Conns : chunks[c] + unread[c] <= MaxChunks
         /\ \A c \in socketContexts :
              ChunkWaits(completionPort, c) => chunks[c] + unread[c] < MaxChunks
         /\ \A c \in Conns : buffers[c] # <<>> <=> c \in socketContexts
         /\ ReceiveFacts!PoolBounded(pool, Accepted, chunks)
         /\ completionPort \in Seq(Completions) /\ socketContexts \subseteq Conns
BY DEF ReadsInv, ChunksOK, ListsOK, ReceiveFacts!ReceiveInv, ReceiveFacts!ReceiveTypeOK, IOInv,
   TypesOK, LivesOK, BuffersSuffice, ReceiveFacts!ReceiveAssumption

LEMMA ReadsInit == ASSUME BuffersSuffice  PROVE Init => ReadsInv
<1>. SUFFICES ASSUME Init  PROVE ReadsInv
  OBVIOUS
<1>1. /\ unread = [c \in Conns |-> 0] /\ chunks = [c \in Conns |-> 0]
      /\ buffers = [c \in Conns |-> <<>>] /\ socketContexts = {}
      /\ pool.buffers = InitialBuffers
      /\ ReceiveFacts!ReceiveInit
  BY SameReceiveSpec DEF Init, Peers!PeersInit, ReceivePath!ReceiveInit, ReceivePath!NewPool
<1>2. ReceiveFacts!ReceiveInv
  BY <1>1, ReceiveFacts!ReceiveInvInit DEF BuffersSuffice
<1>3. ReceiveFacts!PoolBounded(pool, Accepted, chunks)
  <2>. DEFINE n == ReceiveFacts!Cardinality(ReceiveFacts!Taken(Accepted, chunks))
  <2>1. n \in Nat /\ InitialBuffers \in Nat
    BY ReceiveFacts!TakenBound DEF BuffersSuffice, ReceiveFacts!ReceiveAssumption
  <2>. HIDE DEF n
  <2>2. pool.buffers <= InitialBuffers + n
    BY <1>1, <2>1
  <2>. QED  BY <2>2 DEF ReceiveFacts!PoolBounded, n
<1>4. 0 <= MaxChunks
  BY DEF BuffersSuffice, ReceiveFacts!ReceiveAssumption
<1>. QED  BY <1>1, <1>2, <1>3, <1>4 DEF ReadsInv, ChunksOK, ListsOK

(* The chunks of a step that takes no new one from a client and reads none: *)
(* none comes to wait.                                                      *)
LEMMA ChunksStay ==
  ASSUME BuffersSuffice, IOInv, ReadsInv, UNCHANGED <<unread, chunks>>,
         \A c \in socketContexts' : ChunkWaits(completionPort', c)
           => c \in socketContexts /\ ChunkWaits(completionPort, c)
  PROVE  ChunksOK'
<1>1. \A c \in Conns : chunks'[c] + unread'[c] <= MaxChunks
  BY ReadsTypes
<1>2. \A c \in socketContexts' :
        ChunkWaits(completionPort', c) => chunks'[c] + unread'[c] < MaxChunks
  BY ReadsTypes
<1>. QED  BY <1>1, <1>2 DEF ChunksOK, ChunkWaits, IsChunkOf, Names

(* A client sends no more than MaxChunks, and what completes a receive is   *)
(* counted as waiting and no longer as unread.                              *)
LEMMA SendsChunks ==
  ASSUME BuffersSuffice, IOInv, ReadsInv, NEW c \in Conns,
         chunks[c] + unread[c] + Cardinality(Queued(c, "Receive")) < MaxChunks,
         unread' = [unread EXCEPT ![c] = unread[c] + 1],
         UNCHANGED <<chunks, completionPort, socketContexts>>
  PROVE  ChunksOK'
<1>. DEFINE n == Count(completionPort, c, "Receive")
<1>1. n = Cardinality(Queued(c, "Receive")) /\ n \in Nat
  BY QueuedIsAt, IOFacts DEF Count
<1>2. n = 0 => ~ChunkWaits(completionPort, c)
  BY NoneWaits, ReadsTypes
<1>. HIDE DEF n
<1>3. ASSUME NEW d \in Conns
      PROVE  /\ chunks[d] + unread'[d] <= MaxChunks
             /\ d \in socketContexts /\ ChunkWaits(completionPort, d)
                  => chunks[d] + unread'[d] < MaxChunks
  <2>1. CASE d = c
    <3>1. /\ unread'[d] = unread[c] + 1 /\ chunks[c] \in Nat /\ unread[c] \in Nat
          /\ MaxChunks \in Nat
      BY <2>1, ReadsTypes
    <3>2. chunks[c] + unread[c] + n < MaxChunks
      BY <1>1
    <3>. QED  BY <1>1, <1>2, <2>1, <3>1, <3>2
  <2>2. CASE d # c
    BY <2>2, ReadsTypes
  <2>. QED  BY <2>1, <2>2
<1>4. \A d \in socketContexts : d \in Conns
  BY ReadsTypes
<1>. QED  BY <1>3, <1>4 DEF ChunksOK, ChunkWaits, IsChunkOf, Names

LEMMA CompletesChunks ==
  ASSUME BuffersSuffice, IOInv, ReadsInv, NEW c \in Conns, ReceiveCompletes(c),
         UNCHANGED <<chunks, socketContexts>>
  PROVE  ChunksOK'
<1>. DEFINE e == Completion(c, "Receive", IF unread[c] > 0 THEN "bytes" ELSE "none")
<1>1. /\ c \in receiving
      /\ unread' = [unread EXCEPT ![c] = IF unread[c] > 0 THEN unread[c] - 1 ELSE 0]
      /\ completionPort' = Append(completionPort, e)
  BY DEF ReceiveCompletes
<1>2. e \in Completions /\ \A d : IsChunkOf(e, d) => d = c /\ unread[c] > 0
  BY DEF Completion, Completions, Results, IsChunkOf, Names
<1>. HIDE DEF e
<1>3. \A d : ChunkWaits(completionPort', d) => ChunkWaits(completionPort, d) \/ IsChunkOf(e, d)
  BY <1>1, <1>2, WaitsAppend, ReadsTypes
<1>4. ~ChunkWaits(completionPort, c)
  <2>1. c \in socketContexts /\ Count(completionPort, c, "Receive") \in Nat
    BY <1>1, IOFacts DEF IOInv, OperationsOK
  <2>2. Count(completionPort, c, "Receive") = 0
    BY <1>1, <2>1 DEF IOInv, OperationsOK
  <2>. QED  BY <2>2, NoneWaits, ReadsTypes
<1>5. ASSUME NEW d \in Conns
      PROVE  /\ chunks[d] + unread'[d] <= MaxChunks
             /\ d \in socketContexts /\ ChunkWaits(completionPort', d)
                  => chunks[d] + unread'[d] < MaxChunks
  <2>1. CASE d = c
    <3>1. /\ unread'[d] = IF unread[c] > 0 THEN unread[c] - 1 ELSE 0
          /\ chunks[c] \in Nat /\ unread[c] \in Nat /\ MaxChunks \in Nat
          /\ chunks[c] + unread[c] <= MaxChunks
      BY <1>1, <2>1, ReadsTypes
    <3>2. ChunkWaits(completionPort', d) => unread[c] > 0
      BY <1>2, <1>3, <1>4, <2>1
    <3>. QED  BY <2>1, <3>1, <3>2
  <2>2. CASE d # c
    BY <1>1, <1>2, <1>3, <2>2, ReadsTypes
  <2>. QED  BY <2>1, <2>2
<1>6. \A d \in socketContexts : d \in Conns
  BY ReadsTypes
<1>. QED  BY <1>5, <1>6 DEF ChunksOK, ChunkWaits, IsChunkOf, Names

LEMMA PeersChunks ==
  ASSUME BuffersSuffice, IOInv, ReadsInv, PeerStep
  PROVE  ChunksOK'
<1>1. UNCHANGED <<chunks, socketContexts>>
  BY DEF PeerStep, Outside, receiveVars
<1>2. PICK c \in Conns :
        \/ /\ \/ Peers!Connects(c) \/ Peers!Closes(c) \/ Peers!Breaks(c, "rst")
              \/ /\ chunks[c] + unread[c] + Cardinality(Queued(c, "Receive")) < MaxChunks
                 /\ Peers!Sends(c)
           /\ UNCHANGED <<receiving, sending, completionPort>>
        \/ ReceiveCompletes(c) \/ SendCompletes(c)
  BY DEF PeerStep
<1>3. CASE UNCHANGED <<unread, completionPort>>
  BY <1>1, <1>3, ChunksStay
<1>4. CASE UNCHANGED completionPort /\ Peers!Breaks(c, "rst")
  <2>1. unread' = [unread EXCEPT ![c] = 0]
    BY <1>4 DEF Peers!Breaks
  <2>2. ASSUME NEW d \in Conns
        PROVE  /\ chunks[d] \in Nat /\ unread[d] \in Nat /\ unread'[d] \in {0, unread[d]}
               /\ MaxChunks \in Nat /\ chunks[d] + unread[d] <= MaxChunks
    BY <2>1, ReadsTypes
  <2>3. \A d \in Conns : chunks[d] + unread'[d] <= MaxChunks
    BY <2>2
  <2>4. \A d \in socketContexts :
          ChunkWaits(completionPort, d) => chunks[d] + unread'[d] < MaxChunks
    <3>1. \A d \in socketContexts : d \in Conns /\
            (ChunkWaits(completionPort, d) => chunks[d] + unread[d] < MaxChunks)
      BY ReadsTypes
    <3>. QED  BY <2>2, <3>1
  <2>. QED  BY <1>1, <1>4, <2>3, <2>4 DEF ChunksOK, ChunkWaits, IsChunkOf, Names
<1>5. CASE /\ UNCHANGED completionPort
           /\ chunks[c] + unread[c] + Cardinality(Queued(c, "Receive")) < MaxChunks
           /\ Peers!Sends(c)
  BY <1>1, <1>5, SendsChunks DEF Peers!Sends
<1>6. CASE ReceiveCompletes(c)
  BY <1>1, <1>6, CompletesChunks
<1>7. CASE SendCompletes(c)
  <2>. DEFINE e == Completion(c, "Send", IF link[c] = "rst" THEN "none" ELSE "bytes")
  <2>1. completionPort' = Append(completionPort, e) /\ UNCHANGED unread
    BY <1>7 DEF SendCompletes
  <2>2. e \in Completions /\ \A d : ~IsChunkOf(e, d)
    BY DEF Completion, Completions, Results, IsChunkOf, Names
  <2>. HIDE DEF e
  <2>3. \A d : ChunkWaits(completionPort', d) => ChunkWaits(completionPort, d)
    BY <2>1, <2>2, WaitsAppend, ReadsTypes
  <2>. QED  BY <1>1, <2>1, <2>3, ChunksStay
<1>. QED  BY <1>2, <1>3, <1>4, <1>5, <1>6, <1>7 DEF Peers!Connects, Peers!Closes

(* The same of the steps that call StartRead, Read, HandOver and DropReads  *)
LEMMA AcceptReads ==
  ASSUME BuffersSuffice, IOInv, ReadsInv, NEW c \in Conns, Accept(c)
  PROVE  ChunksOK' /\ ListsOK' /\ ReceiveFacts!ReceiveNext
<1>1. /\ status[c] = "none" /\ status' = [status EXCEPT ![c] = "Init"]
      /\ socketContexts' = socketContexts \cup {c} /\ c \notin socketContexts
      /\ UNCHANGED <<unread, completionPort>>
      /\ ReceiveFacts!StartRead(c)
  BY AcceptLives, SameReceive DEF Accept, FirstRead, Server!AddConnection, IOInv, LivesOK
<1>2. Accepted' = Accepted \cup {c} /\ c \notin Accepted
  BY <1>1 DEF Accepted, IOInv, LivesOK
<1>3. /\ ReceiveFacts!MayTake(pool)
      /\ ReceiveFacts!PoolBounded(pool', Accepted \cup {c}, chunks')
  BY <1>1, <1>2, ReadsTypes, ReceiveFacts!BoundedStartRead DEF BuffersSuffice, ReadsInv
<1>4. buffers[c] = <<>>
  BY <1>1, ReadsTypes
<1>5. /\ chunks' = chunks
      /\ buffers' = [buffers EXCEPT ![c] = <<ReceiveFacts!TakenBuffer(pool)>>]
  BY <1>1 DEF ReceiveFacts!StartRead
<1>6. \A d \in Conns : buffers'[d] # <<>> <=> d \in socketContexts \cup {c}
  <2>. DEFINE b == ReceiveFacts!TakenBuffer(pool)
  <2>1. <<b>> # <<>>
    OBVIOUS
  <2>. HIDE DEF b
  <2>2. buffers' = [buffers EXCEPT ![c] = <<b>>]
    BY <1>5 DEF b
  <2>. QED  BY <2>1, <2>2, ReadsTypes
<1>7. ReceiveFacts!PoolBounded(pool, Accepted, chunks)'
  BY <1>2, <1>3 DEF ReceiveFacts!PoolBounded, ReceiveFacts!Taken
<1>8. ~ChunkWaits(completionPort, c)
  BY <1>1 DEF ChunkWaits, IsChunkOf, Names, IOInv, OperationsOK, EntryOK, EntryOKIn, CloseStatus
<1>9. ChunksOK'
  BY <1>1, <1>5, <1>8, ChunksStay
<1>. QED  BY <1>1, <1>3, <1>4, <1>6, <1>7, <1>9 DEF ListsOK, ReceiveFacts!ReceiveNext

LEMMA ReadReads ==
  ASSUME BuffersSuffice, IOInv, ReadsInv, NEW chunk \in ReceivePath!Kinds, Read(chunk), ~Halt
  PROVE  ChunksOK' /\ ListsOK' /\ ReceiveFacts!ReceiveNext
<1>. DEFINE c == completion.key
<1>1. /\ completionPort # <<>> /\ completion.operationType = "Receive"
      /\ completion.result = "bytes" /\ c \in socketContexts
      /\ completionPort' = Tail(completionPort)
      /\ ReceiveFacts!Read(c, chunk) /\ chunk \in ReceiveFacts!Kinds
      /\ UNCHANGED <<unread, status, socketContexts>>
  BY SameReceive DEF Read, DequeuesOf, Dequeues, serverVars
<1>2. c \in Conns /\ c \in Accepted
  BY <1>1 DEF Accepted, IOInv, LivesOK
<1>3. ChunkWaits(completionPort, c)
  <2>1. 1 \in 1..Len(completionPort) /\ completion = completionPort[1]
    BY <1>1, EmptySeq, HeadTailProperties, ReadsTypes DEF completion
  <2>. QED  BY <1>1, <2>1 DEF ChunkWaits, IsChunkOf, Names
<1>4. ~ChunkWaits(completionPort', c)
  <2>1. /\ Count(completionPort', c, "Receive") \in Nat
        /\ Count(completionPort, c, "Receive") = Count(completionPort', c, "Receive") + 1
    <3>1. Names(completion, c, "Receive")
      BY <1>1 DEF Names
    <3>2. Count(Tail(completionPort), c, "Receive") \in Nat
      BY <1>1, HeadTailProperties, CountType, ReadsTypes
    <3>. QED  BY <1>1, <3>1, <3>2, CountTail, ReadsTypes DEF completion
  <2>2. \/ Count(completionPort, c, "Receive") = 0
        \/ Count(completionPort, c, "Receive") = 1
    BY <1>1, <1>2, IOFacts DEF IOInv, OperationsOK
  <2>3. Count(completionPort', c, "Receive") = 0
    BY <2>1, <2>2
  <2>4. completionPort' \in Seq(Completions)
    BY <1>1, HeadTailProperties, ReadsTypes
  <2>. QED  BY <2>3, <2>4, NoneWaits
<1>5. \A d : ChunkWaits(completionPort', d) => ChunkWaits(completionPort, d)
  BY <1>1, WaitsTail, ReadsTypes
<1>. HIDE DEF c
<1>6. chunks[c] + unread[c] < MaxChunks
  BY <1>1, <1>3, ReadsTypes
<1>7. /\ chunks[c] \in Nat /\ unread[c] \in Nat /\ MaxChunks \in Nat
  BY <1>2, ReadsTypes
<1>8. chunks[c] < MaxChunks /\ chunks[c] + 1 + unread[c] <= MaxChunks
  BY <1>6, <1>7
<1>9. chunks' = [chunks EXCEPT ![c] = chunks[c] + 1]
  BY <1>1 DEF ReceiveFacts!Read
<1>10. /\ ReceiveFacts!MayTake(ReceiveFacts!PoolAfterRead(pool, buffers[c], chunk))
       /\ ReceiveFacts!PoolBounded(pool', Accepted, chunks')
  BY <1>1, <1>2, <1>8, ReadsTypes, ReceiveFacts!BoundedRead DEF BuffersSuffice, ReadsInv
<1>11. buffers[c] # <<>>
  BY <1>1, <1>2, ReadsTypes
<1>12. \A d \in Conns : buffers'[d] # <<>> <=> d \in socketContexts
  <2>. DEFINE list == ReceiveFacts!ListAfterRead(buffers[c], chunk)
              b == ReceiveFacts!TakenBuffer(ReceiveFacts!PoolAfterRead(pool, buffers[c], chunk))
  <2>1. list \in Seq(Nat)
    BY <1>2, ReadsTypes DEF ReceiveFacts!ListAfterRead
  <2>2. buffers' = [buffers EXCEPT ![c] = Append(list, b)]
    BY <1>1 DEF ReceiveFacts!Read
  <2>. HIDE DEF list, b
  <2>3. Append(list, b) # <<>>
    <3>1. list \in Seq(Nat \cup {b})
      <4>1. Nat \subseteq Nat \cup {b}
        OBVIOUS
      <4>. QED  BY <2>1, <4>1, SeqMonotonic
    <3>. QED  BY <3>1, AppendProperties, EmptySeq
  <2>. QED  BY <1>1, <1>2, <2>2, <2>3, ReadsTypes
<1>13. \A d \in Conns : chunks'[d] = IF d = c THEN chunks[c] + 1 ELSE chunks[d]
  BY <1>9, ReadsTypes
<1>14. ASSUME NEW d \in Conns
       PROVE  /\ chunks'[d] + unread'[d] <= MaxChunks
              /\ d \in socketContexts' /\ ChunkWaits(completionPort', d)
                   => chunks'[d] + unread'[d] < MaxChunks
  <2>1. CASE d = c
    BY <1>1, <1>4, <1>7, <1>8, <1>13, <2>1
  <2>2. CASE d # c
    BY <1>1, <1>5, <1>13, <2>2, ReadsTypes
  <2>. QED  BY <2>1, <2>2
<1>15. ChunksOK'
  <2>1. socketContexts' \subseteq Conns
    BY <1>1, ReadsTypes
  <2>. QED  BY <1>14, <2>1 DEF ChunksOK, ChunkWaits, IsChunkOf, Names
<1>16. ReceiveFacts!PoolBounded(pool, Accepted, chunks)'
  <2>1. Accepted' = Accepted
    BY <1>1 DEF Accepted
  <2>. QED  BY <1>10, <2>1 DEF ReceiveFacts!PoolBounded, ReceiveFacts!Taken
<1>. QED  BY <1>1, <1>2, <1>8, <1>10, <1>11, <1>12, <1>15, <1>16
          DEF ListsOK, ReceiveFacts!ReceiveNext

LEMMA DropsReads ==
  ASSUME BuffersSuffice, IOInv, ReadsInv, NEW S \in SUBSET Conns, ReceivePath!DropReads(S),
         Accepted' = Accepted, socketContexts' = socketContexts \ S
  PROVE  ListsOK' /\ ReceiveFacts!ReceiveNext
<1>1. /\ buffers' = [c \in Conns |-> IF c \in S THEN <<>> ELSE buffers[c]]
      /\ UNCHANGED <<pool, chunks>>
      /\ ReceiveFacts!DropReads(S)
  BY SameReceive DEF ReceivePath!DropReads
<1>2. \A c \in Conns : buffers'[c] # <<>> <=> c \in socketContexts \ S
  BY <1>1, ReadsTypes
<1>3. ReceiveFacts!PoolBounded(pool, Accepted, chunks)'
  BY <1>1, ReadsTypes DEF ReceiveFacts!PoolBounded, ReceiveFacts!Taken
<1>. QED  BY <1>1, <1>2, <1>3, ReadsTypes DEF ListsOK, ReceiveFacts!ReceiveNext

LEMMA RemoveReads ==
  ASSUME BuffersSuffice, IOInv, ReadsInv, completionPort # <<>>,
         NEW c \in socketContexts, RemoveConnection(c)
  PROVE  ChunksOK' /\ ListsOK' /\ ReceiveFacts!ReceiveNext
<1>1. PICK q \in CancelledOf(c) : completionPort' = Tail(completionPort) \o q
  BY DEF RemoveConnection
<1>2. /\ socketContexts' = socketContexts \ {c} /\ ReceivePath!DropReads({c})
      /\ UNCHANGED unread /\ Server!ChangeStateToClose({c}) /\ chunks' = chunks
  BY DEF RemoveConnection, Disconnected, ReceivePath!DropReads
<1>3. c \in Conns /\ Accepted' = Accepted
  BY <1>2 DEF Server!ChangeStateToClose, Accepted, IOInv, LivesOK
<1>4. q \in Seq(Completions) /\ \A k \in 1..Len(q) : q[k].key = c
  BY <1>3, CancelledFacts
<1>5. Tail(completionPort) \in Seq(Completions)
  BY HeadTailProperties, ReadsTypes
<1>6. \A d \in socketContexts' : ChunkWaits(completionPort', d) => ChunkWaits(completionPort, d)
  <2>. TAKE d \in socketContexts'
  <2>1. \A k \in 1..Len(q) : q[k].key # d
    BY <1>2, <1>4
  <2>2. ChunkWaits(Tail(completionPort) \o q, d) => ChunkWaits(Tail(completionPort), d)
    BY <1>4, <1>5, <2>1, WaitsConcat
  <2>. QED  BY <1>1, <2>2, WaitsTail, ReadsTypes
<1>7. ChunksOK'
  BY <1>2, <1>6, ChunksStay
<1>. QED  BY <1>2, <1>3, <1>7, DropsReads

LEMMA ClearReads ==
  ASSUME BuffersSuffice, IOInv, ReadsInv, Clear
  PROVE  ChunksOK' /\ ListsOK' /\ ReceiveFacts!ReceiveNext
<1>1. /\ ReceivePath!DropReads(socketContexts) /\ Server!ChangeStateToClose(socketContexts)
      /\ UNCHANGED unread /\ socketContexts' = {} /\ chunks' = chunks
  BY DEF Clear, ReceivePath!DropReads
<1>2. Accepted' = Accepted
  BY <1>1 DEF Server!ChangeStateToClose, Accepted, IOInv, LivesOK
<1>3. ChunksOK'
  BY <1>1, ChunksStay
<1>4. socketContexts \in SUBSET Conns /\ socketContexts' = socketContexts \ socketContexts
  BY <1>1, ReadsTypes
<1>. QED  BY <1>1, <1>2, <1>3, <1>4, DropsReads

LEMMA UpdateReads ==
  ASSUME BuffersSuffice, IOInv, ReadsInv, Update
  PROVE  ChunksOK' /\ ListsOK' /\ ReceiveFacts!ReceiveNext
<1>1. /\ ReceivePath!HandOver(connections) /\ Server!Update
      /\ UNCHANGED <<unread, completionPort, socketContexts>>
  BY DEF Update, netVars
<1>2. ReceiveFacts!HandOver(connections) /\ UNCHANGED <<pool, buffers, chunks>>
  BY <1>1, SameReceive DEF ReceivePath!HandOver
<1>3. Accepted' = Accepted
  BY <1>1 DEF Server!Update, Server!ClosingConnections, Accepted, IOInv, LivesOK
<1>4. ReceiveFacts!PoolBounded(pool, Accepted, chunks)'
  BY <1>2, <1>3, ReadsTypes DEF ReceiveFacts!PoolBounded, ReceiveFacts!Taken
<1>5. connections \in SUBSET Conns
  BY DEF IOInv, LivesOK
<1>6. ChunksOK'
  BY <1>1, <1>2, ChunksStay
<1>. QED  BY <1>1, <1>2, <1>4, <1>5, <1>6, ReadsTypes DEF ListsOK, ReceiveFacts!ReceiveNext

(* A step that takes no buffer, no chunk and no context                     *)
LEMMA OtherReads ==
  ASSUME BuffersSuffice, IOInv, ReadsInv,
         UNCHANGED <<receiveVars, socketContexts, status>>
  PROVE  ListsOK' /\ UNCHANGED ReceivePath!receiveVars
<1>1. UNCHANGED <<pool, buffers, content, chunks, receivedMessages, handedOver>>
  BY DEF receiveVars
<1>2. ReceiveFacts!PoolBounded(pool, Accepted, chunks)'
        = ReceiveFacts!PoolBounded(pool, Accepted, chunks)
  BY <1>1 DEF ReceiveFacts!PoolBounded, ReceiveFacts!Taken, Accepted
<1>. QED  BY <1>1, <1>2, ReadsTypes DEF ListsOK, ReceivePath!receiveVars

LEMMA ReadsStep ==
  ASSUME BuffersSuffice, IOInv, ReadsInv, [Next]_vars
  PROVE  ReadsInv' /\ [ReceiveFacts!ReceiveNext]_(ReceiveFacts!receiveVars)
<1>. DEFINE Step == [ReceiveFacts!ReceiveNext]_(ReceiveFacts!receiveVars)
<1>. SUFFICES ChunksOK' /\ ListsOK' /\ Step
  <2>. HIDE DEF Step
  <2>1. ChunksOK' /\ ListsOK' /\ Step
    OBVIOUS
  <2>2. Step => ReceiveFacts!ReceiveInv'
    BY ReceiveFacts!ReceiveInvStep DEF Step, BuffersSuffice, ReadsInv
  <2>. QED  BY <2>1, <2>2 DEF ReadsInv, Step
<1>1. UNCHANGED ReceivePath!receiveVars => Step
  BY DEF ReceivePath!receiveVars, ReceiveFacts!receiveVars
<1>2. ReceiveFacts!ReceiveNext => Step
  OBVIOUS
<1>. HIDE DEF Step
<1>3. ASSUME UNCHANGED <<receiveVars, unread, status, socketContexts>>,
             \A c \in socketContexts :
               ChunkWaits(completionPort', c) => ChunkWaits(completionPort, c)
      PROVE  ChunksOK' /\ ListsOK' /\ Step
  <2>1. UNCHANGED chunks
    BY <1>3 DEF receiveVars
  <2>. QED  BY <1>1, <1>3, <2>1, ChunksStay, OtherReads
<1>4. ASSUME UNCHANGED <<receiveVars, unread, status, socketContexts>>,
             completionPort # <<>>, completionPort' = Tail(completionPort)
      PROVE  ChunksOK' /\ ListsOK' /\ Step
  BY <1>3, <1>4, WaitsTail, ReadsTypes
<1>5. CASE PeerStep
  <2>1. UNCHANGED <<receiveVars, status, socketContexts>>
    BY <1>5 DEF PeerStep, Outside, serverVars
  <2>. QED  BY <1>1, <1>5, <2>1, PeersChunks, OtherReads
<1>6. CASE UNCHANGED vars \/ ControlOnly
  BY <1>3, <1>6 DEF vars, ControlOnly, netVars, serverVars
<1>7. CASE \/ AcceptNothing \/ (\E c \in Conns : AcceptedIsReset(c)) \/ ProcessSendFails
           \/ WaitTimesOut \/ WaitFails \/ ErasedContextIsUsed \/ NotDue
  BY <1>6, <1>7 DEF AcceptNothing, AcceptedIsReset, ProcessSendFails, WaitTimesOut, WaitFails,
     ErasedContextIsUsed, NotDue, Halt
<1>8. CASE \E c \in Conns : Accept(c)
  BY <1>2, <1>8, AcceptReads
<1>9. CASE ProcessSend \/ (\E c \in Conns : Send(c))
  BY <1>3, <1>9 DEF ProcessSend, Send, netVars, serverVars
<1>10. CASE CloseStatusArrives \/ Write
  BY <1>4, <1>6, <1>10 DEF CloseStatusArrives, Write, Halt, DequeuesOf, Dequeues, serverVars
<1>11. CASE NothingTransferred
  <2>1. completionPort # <<>>
    BY <1>11 DEF NothingTransferred, DequeuesOf, Dequeues
  <2>2. CASE \E c \in Found(completion.key) : RemoveConnection(c)
    BY <1>2, <2>1, <2>2, RemoveReads DEF Found
  <2>3. CASE Found(completion.key) = {}
    BY <1>4, <1>11, <2>1, <2>3 DEF NothingTransferred, serverVars
  <2>. QED  BY <1>11, <2>2, <2>3 DEF NothingTransferred
<1>12. CASE \E chunk \in ReceivePath!Kinds : Read(chunk)
  <2>1. CASE Halt
    BY <1>6, <2>1 DEF Halt
  <2>2. CASE ~Halt
    BY <1>2, <1>12, <2>2, ReadReads
  <2>. QED  BY <2>1, <2>2
<1>13. CASE Update
  BY <1>2, <1>13, UpdateReads
<1>14. CASE DisconnectAll
  <2>1. /\ completionPort' = Append(completionPort, CloseStatus)
        /\ UNCHANGED <<receiveVars, unread, status, socketContexts>>
    BY <1>14 DEF DisconnectAll, serverVars
  <2>2. CloseStatus \in Completions /\ \A c : ~IsChunkOf(CloseStatus, c)
    BY DEF Completions, CloseStatus, IsChunkOf, Names
  <2>3. \A c : ChunkWaits(completionPort', c) => ChunkWaits(completionPort, c)
    BY <2>1, <2>2, WaitsAppend, ReadsTypes
  <2>. QED  BY <1>3, <2>1, <2>3
<1>15. CASE Clear
  BY <1>2, <1>15, ClearReads
<1>16. CASE Destroy
  <2>1. UNCHANGED <<receiveVars, unread, status, socketContexts, completionPort>>
    BY <1>16 DEF Destroy, netVars, Server!Destroy
  <2>. QED  BY <1>3, <2>1
<1>. QED  BY <1>5, <1>6, <1>7, <1>8, <1>9, <1>10, <1>11, <1>12, <1>13, <1>14, <1>15, <1>16
          DEF Next, ServerStep, Terminated

LEMMA ReadsHold == ASSUME BuffersSuffice  PROVE Spec => []ReadsInv
<1>1. Init => ReadsInv
  BY ReadsInit
<1>2. IOInv /\ ReadsInv /\ [Next]_vars => ReadsInv'
  BY ReadsStep
<1>. QED  BY <1>1, <1>2, IOHolds, PTL DEF Spec

(* StartRead is called once for a context and Read only for a context that *)
(* exists, with the chunk its one receive brought, in whatever order the    *)
(* completions come: the server implements NetReceivePath.                  *)
THEOREM Receives == ASSUME BuffersSuffice  PROVE Spec => ReceivesAsSpecified
<1>1. Init => ReceivePath!ReceiveInit
  BY DEF Init
<1>2. IOInv /\ ReadsInv /\ [Next]_vars
        => [ReceivePath!ReceiveNext]_(ReceivePath!receiveVars)
  BY ReadsStep, SameReceiveSpec
<1>. QED  BY <1>1, <1>2, IOHolds, ReadsHold, PTL
          DEF Spec, ReceivesAsSpecified, ReceivePath!Spec

(* A buffer that an outstanding WSARecv may write into has one context and *)
(* is not free, through every accept, read, removal and end of the server.  *)
THEOREM OneUser == ASSUME BuffersSuffice  PROVE Spec => []ReceivePath!BuffersHaveOneUser
<1>1. ReadsInv => ReceivePath!BuffersHaveOneUser
  <2>1. ReceiveFacts!ReceiveInv => ReceiveFacts!BuffersHaveOneUser
    BY ReceiveFacts!InvFacts DEF BuffersSuffice
  <2>2. ReceiveFacts!BuffersHaveOneUser => ReceivePath!BuffersHaveOneUser
    BY DEF ReceiveFacts!BuffersHaveOneUser, ReceivePath!BuffersHaveOneUser,
       ReceiveFacts!IsInjective, ReceivePath!IsInjective, ReceiveFacts!ToSet, ReceivePath!ToSet
  <2>. QED  BY <2>1, <2>2 DEF ReadsInv
<1>. QED  BY <1>1, ReadsHold, PTL

(* At the server every message is led by an unbroken run of the chunks of  *)
(* its own client, and one that is queued starts after those before it,     *)
(* however the completions split what the clients send.                     *)
THEOREM ChunksOwn ==
  ASSUME BuffersSuffice  PROVE Spec => []ReceivePath!ChunksAreTheClientsOwn
<1>1. Spec => ReceiveFacts!Spec
  <2>1. ReceivePath!Spec => ReceiveFacts!Spec
    BY SameReceiveSpec, PTL DEF ReceivePath!Spec, ReceiveFacts!Spec
  <2>. QED  BY <2>1, Receives DEF ReceivesAsSpecified
<1>2. ReceiveFacts!Spec => []ReceiveFacts!ChunksAreTheClientsOwn
  BY ReceiveFacts!ChunksOwn DEF BuffersSuffice
<1>3. ReceiveFacts!ChunksAreTheClientsOwn <=> ReceivePath!ChunksAreTheClientsOwn
  BY DEF ReceiveFacts!ChunksAreTheClientsOwn, ReceivePath!ChunksAreTheClientsOwn,
     ReceiveFacts!IsLedByRunOf, ReceivePath!IsLedByRunOf, ReceiveFacts!InOrder,
     ReceivePath!InOrder, ReceiveFacts!Last, ReceivePath!Last,
     ReceiveFacts!ToSet, ReceivePath!ToSet
<1>. QED  BY <1>1, <1>2, <1>3, PTL

-----------------------------------------------------------------------------
(* The shape of the state.  What the layers above do not say already:       *)
Labels == {"Accept", "ProcessSend", "Wait", "Update", "Send", "Clear", "Destroy",
           "Exit", "Dead", "Undefined"}

ShapeOK ==
  /\ closing \in BOOLEAN
  /\ pc \in Labels
  /\ \A c \in Conns : emplaced[c] <= MaxMessages

LEMMA ShapeStep ==
  ASSUME MaxMessages \in Nat, IOInv, ShapeOK, [Next]_vars
  PROVE  ShapeOK'
<1>. USE DEF ShapeOK, Labels
<1>1. CASE UNCHANGED vars
  BY <1>1 DEF vars, loopVars, sendVars
<1>2. CASE PeerStep
  BY <1>2 DEF PeerStep, Outside, loopVars, sendVars
<1>3. CASE ControlOnly /\ closing' = closing /\ pc' \in Labels
  BY <1>3 DEF ControlOnly, sendVars
<1>. USE DEF GoTo
<1>4. CASE Halt
  BY <1>3, <1>4 DEF Halt
<1>5. CASE \/ AcceptNothing \/ (\E c \in Conns : AcceptedIsReset(c)) \/ ProcessSendFails
           \/ WaitTimesOut \/ WaitFails \/ ErasedContextIsUsed \/ NotDue
  BY <1>3, <1>4, <1>5 DEF AcceptNothing, AcceptedIsReset, ProcessSendFails, WaitTimesOut, WaitFails,
     ErasedContextIsUsed, NotDue, HandleNetEventsReturns
<1>6. CASE (\E c \in Conns : Accept(c)) \/ ProcessSend \/ CloseStatusArrives
  BY <1>6 DEF Accept, ProcessSend, CloseStatusArrives, HandleNetEventsReturns, sendVars,
     SendPath!ProcessSend
<1>7. CASE NothingTransferred
  BY <1>7 DEF NothingTransferred, RemoveConnection, HandleNetEventsReturns, sendVars,
     SendPath!DropWrites
<1>8. CASE (\E chunk \in ReceivePath!Kinds : Read(chunk)) \/ Write
  BY <1>4, <1>8 DEF Read, Write, HandleNetEventsReturns, sendVars, SendPath!Write
<1>9. CASE Update \/ DisconnectAll \/ Clear \/ Destroy
  BY <1>9 DEF Update, DisconnectAll, Clear, Destroy, sendVars, SendPath!DropWrites
<1>10. CASE \E c \in Conns : Send(c)
  <2>1. PICK c \in Conns : Send(c)
    BY <1>10
  <2>2. /\ emplaced' = [emplaced EXCEPT ![c] = emplaced[c] + 1] /\ emplaced[c] < MaxMessages
        /\ closing' = closing /\ pc' = "Accept"
    BY <2>1 DEF Send, SendPath!Emplace
  <2>3. emplaced \in [Conns -> Nat]
    BY DEF IOInv, TypesOK
  <2>4. \A d \in Conns : emplaced'[d] = emplaced[d] \/ emplaced'[d] = emplaced[c] + 1
    BY <2>2, <2>3
  <2>5. emplaced[c] + 1 <= MaxMessages
    BY <2>2, <2>3
  <2>6. \A d \in Conns : emplaced'[d] <= MaxMessages
    BY <2>4, <2>5
  <2>. QED  BY <2>2, <2>6
<1>. QED  BY <1>1, <1>2, <1>5, <1>6, <1>7, <1>8, <1>9, <1>10 DEF Next, ServerStep, Terminated

(* Every variable keeps its shape; there are never more operations with    *)
(* the kernel than messages were emplaced.                                  *)
THEOREM Types ==
  ASSUME BuffersSuffice, MaxMessages \in Nat
  PROVE  Spec => []TypeOK
<1>1. Init => ShapeOK
  <2>1. 0 <= MaxMessages
    OBVIOUS
  <2>2. Init => closing = FALSE /\ pc = "Accept" /\ \A c \in Conns : emplaced[c] = 0
    BY DEF Init, SendPath!SendInit
  <2>. QED  BY <2>1, <2>2 DEF ShapeOK, Labels
<1>2. Spec => []ShapeOK
  BY <1>1, ShapeStep, IOHolds, PTL DEF Spec
<1>3. Spec => []ServerFacts!ServerTypeOK
  <2>1. ServerFacts!Spec => []ServerFacts!ServerInv
    BY ServerFacts!ServerInvHolds
  <2>2. ServerFacts!ServerInv => ServerFacts!ServerTypeOK
    BY DEF ServerFacts!ServerInv
  <2>3. Spec => Server!Spec
    BY Serves DEF ServesAsSpecified
  <2>. QED  BY <2>1, <2>2, <2>3, SameServer, PTL
<1>4. SendFacts!SendAssumption
  BY DEF SendFacts!SendAssumption
<1>5. Spec => []SendFacts!SendInv
  <2>1. SendFacts!Spec => []SendFacts!SendInv
    BY <1>4, SendFacts!SendInvHolds
  <2>. QED  BY <2>1, Sends, SameSend, PTL
<1>6. Spec => []SendFacts!SendTypeOK
  <2>1. SendFacts!Spec => []SendFacts!SendTypeOK
    BY <1>4, SendFacts!TypeCorrect
  <2>. QED  BY <2>1, Sends, SameSend, PTL
<1>7. IOInv /\ ReadsInv /\ ShapeOK /\ ServerFacts!ServerTypeOK /\ SendFacts!SendInv
        /\ SendFacts!SendTypeOK => TypeOK
  <2>. SUFFICES ASSUME IOInv, ReadsInv, ShapeOK, ServerFacts!ServerTypeOK,
                       SendFacts!SendInv, SendFacts!SendTypeOK
                PROVE  TypeOK
    OBVIOUS
  <2>1. unread \in [Conns -> 0..MaxChunks]
    <3>1. \A c \in Conns : /\ unread[c] \in Nat /\ chunks[c] \in Nat /\ MaxChunks \in Nat
                           /\ chunks[c] + unread[c] <= MaxChunks
      BY ReadsTypes
    <3>2. \A c \in Conns : unread[c] \in 0..MaxChunks
      BY <3>1
    <3>. QED  BY <3>2, ReadsTypes
  <2>2. sending \in [Conns -> 0..MaxMessages]
    <3>1. ASSUME NEW c \in Conns  PROVE sending[c] \in 0..MaxMessages
      <4>1. /\ sending[c] \in Nat /\ Count(completionPort, c, "Send") \in Nat
            /\ Len(inFlight[c]) \in Nat
        BY IOFacts
      <4>2. /\ emplaced[c] \in Nat /\ Len(inFlight[c]) <= emplaced[c]
            /\ emplaced[c] <= MaxMessages
        BY <1>4, SendFacts!FlightBound DEF ShapeOK
      <4>3. \/ sending[c] = 0
            \/ Len(inFlight[c]) = sending[c] + Count(completionPort, c, "Send")
        BY DEF IOInv, OperationsOK
      <4>. QED  BY <4>1, <4>2, <4>3
    <3>. QED  BY <3>1 DEF IOInv, TypesOK
  <2>3. \A k \in DOMAIN completionPort :
          \/ completionPort[k] = CloseStatus
          \/ completionPort[k] \in
               [key : Conns, operationType : {"Receive", "Send"}, result : Results]
    BY ReadsTypes, LenProperties, ElementOfSeq DEF Completions
  <2>4. ReceivePath!ReceiveTypeOK
    BY DEF ReadsInv, ReceiveFacts!ReceiveInv, ReceiveFacts!ReceiveTypeOK, ReceivePath!ReceiveTypeOK,
       ReceiveFacts!ToSet, ReceivePath!ToSet, ReceiveFacts!Buffers, ReceivePath!Buffers,
       ReceiveFacts!Chunks, ReceivePath!Chunks
  <2>5. Server!ServerTypeOK /\ SendPath!SendTypeOK
    BY DEF ServerFacts!ServerTypeOK, Server!ServerTypeOK, SendFacts!SendTypeOK, SendPath!SendTypeOK
  <2>6. receiving \subseteq Conns /\ socketContexts \subseteq Conns
    BY IOFacts
  <2>. QED  BY <2>1, <2>2, <2>3, <2>4, <2>5, <2>6 DEF TypeOK, IOInv, LivesOK, ShapeOK, Labels
<1>. QED  BY <1>2, <1>3, <1>5, <1>6, <1>7, IOHolds, ReadsHold, PTL

=============================================================================
