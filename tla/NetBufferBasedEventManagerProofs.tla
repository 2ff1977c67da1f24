------------------ MODULE NetBufferBasedEventManagerProofs ------------------
(***************************************************************************)
(* Proofs about a server built on NetBufferBasedEventManager, for any      *)
(* number of clients, both event buffers, any faults, any pool and any     *)
(* number of chunks and messages.                                           *)
(***************************************************************************)
EXTENDS NetBufferBasedEventManager, SequenceTheorems, FiniteSetTheorems, FunctionTheorems, TLAPS

ServerFacts == INSTANCE NetServerProofs

-----------------------------------------------------------------------------
(* The two sequences of sockets.  From(q, j) is the set of those at the    *)
(* indices from j on, which a scan at index j has before it.                *)
From(q, j) == {q[k] : k \in j..Len(q)}

Distinct(q) == \A j, k \in 1..Len(q) : q[j] = q[k] => j = k

LEMMA AppendedSocket ==
  ASSUME NEW q \in Seq(Conns), NEW c \in Conns
  PROVE  /\ Append(q, c) \in Seq(Conns)
         /\ Len(q) \in Nat /\ Len(Append(q, c)) = Len(q) + 1
         /\ From(Append(q, c), 1) = From(q, 1) \cup {c}
         /\ Distinct(q) /\ c \notin From(q, 1) => Distinct(Append(q, c))
<1>. DEFINE r == Append(q, c)
            n == Len(q)
<1>1. /\ r \in Seq(Conns) /\ n \in Nat /\ Len(r) = n + 1
      /\ \A k \in 1..n : r[k] = q[k]
      /\ r[n + 1] = c
  BY AppendProperties, LenProperties
<1>2. From(q, 1) = {q[k] : k \in 1..n} /\ From(r, 1) = {r[k] : k \in 1..Len(r)}
  BY DEF From
<1>3. Distinct(q) <=> \A j, k \in 1..n : q[j] = q[k] => j = k
  BY DEF Distinct
<1>4. Distinct(r) <=> \A j, k \in 1..Len(r) : r[j] = r[k] => j = k
  BY DEF Distinct
<1>. HIDE DEF r, n
<1>5. \A k : k \in 1..Len(r) <=> k \in 1..n \/ k = n + 1
  BY <1>1
<1>6. From(r, 1) = From(q, 1) \cup {c}
  BY <1>1, <1>2, <1>5
<1>7. Distinct(q) /\ c \notin From(q, 1) => Distinct(r)
  BY <1>1, <1>2, <1>3, <1>4, <1>5
<1>. QED  BY <1>1, <1>6, <1>7 DEF r, n

LEMMA RemovedIndex ==
  ASSUME NEW q \in Seq(Conns), NEW n \in 1..Len(q)
  PROVE  /\ RemoveAt(q, n) \in Seq(Conns)
         /\ Len(q) \in Nat /\ Len(RemoveAt(q, n)) = Len(q) - 1
         /\ \A k \in 1..Len(RemoveAt(q, n)) :
              RemoveAt(q, n)[k] = IF k < n THEN q[k] ELSE q[k + 1]
<1>. DEFINE m == Len(q)
            a == SubSeq(q, 1, n - 1)
            b == SubSeq(q, n + 1, Len(q))
            r == RemoveAt(q, n)
<1>1. m \in Nat /\ n \in Nat /\ 1 <= n /\ n <= m
  BY LenProperties
<1>2. \A k \in 1..m : q[k] \in Conns
  BY ElementOfSeq
<1>3. /\ a \in Seq(Conns) /\ Len(a) = IF 1 <= n - 1 THEN (n - 1) - 1 + 1 ELSE 0
      /\ \A k \in 1..(n - 1) - 1 + 1 : a[k] = q[1 + k - 1]
  <2>1. 1 \in Int /\ n - 1 \in Int /\ \A k \in 1..n - 1 : q[k] \in Conns
    BY <1>1, <1>2
  <2>. QED  BY <2>1, SubSeqProperties
<1>4. /\ b \in Seq(Conns) /\ Len(b) = IF n + 1 <= m THEN m - (n + 1) + 1 ELSE 0
      /\ \A k \in 1..m - (n + 1) + 1 : b[k] = q[n + 1 + k - 1]
  <2>1. n + 1 \in Int /\ m \in Int /\ \A k \in n + 1..m : q[k] \in Conns
    BY <1>1, <1>2
  <2>. QED  BY <2>1, SubSeqProperties
<1>5. r = a \o b
  BY DEF RemoveAt
<1>. HIDE DEF a, b, r, m
<1>6. /\ r \in Seq(Conns) /\ Len(r) = Len(a) + Len(b)
      /\ \A k \in 1..Len(a) + Len(b) : r[k] = IF k <= Len(a) THEN a[k] ELSE b[k - Len(a)]
  BY <1>3, <1>4, <1>5, ConcatProperties
<1>7. Len(a) = n - 1
  BY <1>1, <1>3
<1>8. Len(b) = m - n
  BY <1>1, <1>4
<1>9. Len(r) = m - 1
  BY <1>1, <1>6, <1>7, <1>8
<1>10. ASSUME NEW k \in 1..Len(r)
       PROVE  r[k] = IF k < n THEN q[k] ELSE q[k + 1]
  <2>1. k \in Nat /\ 1 <= k /\ k <= m - 1
    BY <1>1, <1>9
  <2>2. CASE k < n
    <3>1. k \in 1..(n - 1) - 1 + 1 /\ k <= Len(a) /\ 1 + k - 1 = k
      BY <1>1, <1>7, <2>1, <2>2
    <3>2. r[k] = a[k] /\ a[k] = q[k]
      BY <1>3, <1>6, <3>1
    <3>. QED  BY <2>2, <3>2
  <2>3. CASE ~(k < n)
    <3>. DEFINE l == k - Len(a)
    <3>1. l \in 1..m - (n + 1) + 1 /\ ~(k <= Len(a)) /\ n + 1 + l - 1 = k + 1
      BY <1>1, <1>7, <2>1, <2>3
    <3>2. r[k] = b[l] /\ b[l] = q[n + 1 + l - 1]
      BY <1>4, <1>6, <3>1
    <3>. QED  BY <2>3, <3>1, <3>2
  <2>. QED  BY <2>2, <2>3
<1>. QED  BY <1>1, <1>6, <1>9, <1>10 DEF r, m

LEMMA RemovedSocket ==
  ASSUME NEW q \in Seq(Conns), Distinct(q), NEW n \in 1..Len(q)
  PROVE  /\ Distinct(RemoveAt(q, n))
         /\ q[n] \in Conns
         /\ From(RemoveAt(q, n), 1) = From(q, 1) \ {q[n]}
         /\ From(RemoveAt(q, n), n + 1) \subseteq From(q, n + 1)
         /\ q[n] \notin From(q, n + 1)
<1>. DEFINE r == RemoveAt(q, n)
            m == Len(q)
<1>1. /\ r \in Seq(Conns) /\ m \in Nat /\ Len(r) = m - 1
      /\ \A k \in 1..Len(r) : r[k] = IF k < n THEN q[k] ELSE q[k + 1]
  BY RemovedIndex
<1>2. n \in Nat /\ 1 <= n /\ n <= m
  BY <1>1
<1>3. \A j, k \in 1..m : q[j] = q[k] => j = k
  BY DEF Distinct
<1>4. /\ Distinct(r) <=> \A j, k \in 1..Len(r) : r[j] = r[k] => j = k
      /\ From(q, 1) = {q[k] : k \in 1..m} /\ From(r, 1) = {r[k] : k \in 1..Len(r)}
      /\ From(q, n + 1) = {q[k] : k \in n + 1..m}
      /\ From(r, n + 1) = {r[k] : k \in n + 1..Len(r)}
  BY DEF Distinct, From
<1>. HIDE DEF r, m
<1>5. ASSUME NEW j \in 1..Len(r), NEW k \in 1..Len(r), r[j] = r[k]
      PROVE  j = k
  <2>. DEFINE f == IF j < n THEN j ELSE j + 1
              g == IF k < n THEN k ELSE k + 1
  <2>1. f \in 1..m /\ g \in 1..m /\ (f = g => j = k)
    BY <1>1, <1>2
  <2>2. r[j] = q[f] /\ r[k] = q[g]
    BY <1>1
  <2>. HIDE DEF f, g
  <2>. QED  BY <1>3, <1>5, <2>1, <2>2
<1>6. \A k \in 1..Len(r) : r[k] \in From(q, 1) \ {q[n]}
  <2>. TAKE k \in 1..Len(r)
  <2>. DEFINE f == IF k < n THEN k ELSE k + 1
  <2>1. f \in 1..m /\ f # n /\ r[k] = q[f]
    BY <1>1, <1>2
  <2>. HIDE DEF f
  <2>. QED  BY <1>2, <1>3, <1>4, <2>1
<1>7. \A k \in 1..m : k # n => q[k] \in From(r, 1)
  <2>. SUFFICES ASSUME NEW k \in 1..m, k # n  PROVE \E l \in 1..Len(r) : r[l] = q[k]
    BY <1>4
  <2>1. CASE k < n
    <3>1. k \in 1..Len(r)
      BY <1>1, <1>2, <2>1
    <3>. QED  BY <1>1, <2>1, <3>1
  <2>2. CASE k > n
    <3>1. k - 1 \in 1..Len(r) /\ ~(k - 1 < n) /\ (k - 1) + 1 = k
      BY <1>1, <1>2, <2>2
    <3>. QED  BY <1>1, <3>1
  <2>. QED  BY <1>2, <2>1, <2>2
<1>8. From(r, 1) = From(q, 1) \ {q[n]}
  BY <1>4, <1>6, <1>7
<1>9. ASSUME NEW k \in n + 1..Len(r)
      PROVE  r[k] \in From(q, n + 1)
  <2>1. k \in 1..Len(r) /\ ~(k < n) /\ k + 1 \in n + 1..m
    BY <1>1, <1>2
  <2>. QED  BY <1>1, <1>4, <2>1
<1>10. \A k \in n + 1..m : q[k] # q[n]
  BY <1>2, <1>3
<1>. QED  BY <1>4, <1>5, <1>8, <1>9, <1>10, ElementOfSeq DEF r, m

-----------------------------------------------------------------------------
(* The life of a connection: its context exists while it is open, once and *)
(* of a client that was neither refused nor dropped; the event buffer never *)
(* has more sockets than there are contexts, so that the index of a scan    *)
(* has a context.                                                           *)
LivesOK ==
  /\ link \in [Conns -> Peers!Links]
  /\ connections \subseteq Conns
  /\ status \in [Conns -> {"none", "Init", "MarkForClose", "Closed"}]
  /\ socketContexts \in Seq(Conns) /\ Distinct(socketContexts)
  /\ netEventBuffer \in Seq(Conns)
  /\ From(socketContexts, 1) = {c \in connections : status[c] = "Init"}
  /\ \A c \in connections : status[c] \in {"Init", "MarkForClose"}
  /\ \A c \in Conns : link[c] \in {"none", "pending"} => status[c] = "none"
  /\ \A c \in From(socketContexts, 1) : link[c] \in {"up"} \cup Failing
  /\ pc = "Destroy" => socketContexts = <<>>
  /\ InLoop => Len(netEventBuffer) <= Len(socketContexts)
  /\ i \in Nat \ {0}
  /\ pc \in {"Write", "Check"} => i <= Len(netEventBuffer)

LEMMA LivesInit == Init => LivesOK
<1>. SUFFICES ASSUME Init  PROVE LivesOK
  OBVIOUS
<1>1. /\ link = [c \in Conns |-> "none"] /\ connections = {}
      /\ status = [c \in Conns |-> "none"]
      /\ socketContexts = <<>> /\ netEventBuffer = <<>> /\ pc = "Accept" /\ i = 1
  BY DEF Init, Peers!PeersInit, Server!ServerInit
<1>2. socketContexts \in Seq(Conns) /\ netEventBuffer \in Seq(Conns) /\ Len(<<>>) = 0
  BY <1>1, EmptySeq
<1>3. From(socketContexts, 1) = {} /\ Distinct(socketContexts)
  BY <1>1, <1>2 DEF From, Distinct
<1>. QED  BY <1>1, <1>2, <1>3 DEF LivesOK, Peers!Links, InLoop

LEMMA LinkSteps ==
  ASSUME PeerStep
  PROVE  \E c \in Conns :
           \/ link' = link
           \/ link[c] = "none" /\ link' = [link EXCEPT ![c] = "pending"]
           \/ link[c] = "up" /\ link' = [link EXCEPT ![c] = "fin"]
           \/ \E how \in {"rst", "lost"} :
                link[c] \in {"up", "fin"} /\ link' = [link EXCEPT ![c] = how]
<1>1. PICK c \in Conns :
        \/ PeerSendsUrgent(c) \/ PeerReads(c) \/ Peers!Connects(c) \/ Peers!Sends(c)
        \/ Peers!Closes(c) \/ Peers!Breaks(c, "rst") \/ Peers!Breaks(c, "lost")
  BY DEF PeerStep
<1>. QED  BY <1>1 DEF PeerSendsUrgent, PeerReads, Peers!Connects, Peers!Sends, Peers!Closes,
          Peers!Breaks

LEMMA LivesPeers ==
  ASSUME LivesOK, PeerStep
  PROVE  LivesOK'
<1>1. UNCHANGED <<connections, status, socketContexts, netEventBuffer, pc, i>>
  BY DEF PeerStep, Outside, serverVars, managerVars, loopVars
<1>2. PICK c \in Conns :
        \/ link' = link
        \/ link[c] = "none" /\ link' = [link EXCEPT ![c] = "pending"]
        \/ link[c] = "up" /\ link' = [link EXCEPT ![c] = "fin"]
        \/ \E how \in {"rst", "lost"} :
             link[c] \in {"up", "fin"} /\ link' = [link EXCEPT ![c] = how]
  BY LinkSteps
<1>3. link' \in [Conns -> Peers!Links]
  BY <1>2 DEF LivesOK, Peers!Links
<1>4. \A d \in Conns : link'[d] \in {"none", "pending"} => link[d] \in {"none", "pending"}
  BY <1>2 DEF LivesOK
<1>5. \A d \in Conns : link[d] \in {"up"} \cup Failing => link'[d] \in {"up"} \cup Failing
  BY <1>2 DEF LivesOK, Failing
<1>6. From(socketContexts, 1) \subseteq Conns
  BY DEF LivesOK
<1>7. UNCHANGED <<From(socketContexts, 1), Distinct(socketContexts), InLoop>>
  BY <1>1 DEF From, Distinct, InLoop
<1>. QED  BY <1>1, <1>3, <1>4, <1>5, <1>6, <1>7 DEF LivesOK

(* The steps of the server.  Added and Refused are the two ends of Accept, *)
(* Removal the end of those that find the client gone.                      *)
Added(c, added) ==
  /\ pc = "Accept" /\ c \in Peers!Pending
  /\ AddConnection(c, added)
  /\ pc' = "ProcessSend" /\ UNCHANGED <<i, kind>>
  /\ added \/ (Debugger /\ "high" \in Faults)

Refused(c) ==
  /\ pc = "Accept" /\ c \in Peers!Pending
  /\ link' = [link EXCEPT ![c] = "closed"]
  /\ pc' = "ProcessSend"
  /\ UNCHANGED <<i, kind, unread, full, urgent, serverVars, managerVars, receiveVars, sendVars>>

Scanning == pc \in {"Read", "Write", "Check"} /\ i <= Len(netEventBuffer)

Removal == Scanning /\ RemoveCurrent /\ UNCHANGED kind

OtherStep ==
  /\ UNCHANGED <<link, connections, status, notified, socketContexts, netEventBuffer>>
  /\ pc # "Destroy" /\ pc' # "Destroy" /\ (InLoop' => InLoop)
  /\ i \in Nat \ {0} => i' \in Nat \ {0}
  /\ pc \in {"Write", "Check"} => i <= Len(netEventBuffer)
  /\ pc' \in {"Write", "Check"} => i' <= Len(netEventBuffer)

LEMMA ControlSteps ==
  ASSUME LivesOK,
         \/ AcceptNothing \/ (\E c \in Conns : Accept(c) /\ Halt)
         \/ (\E c \in Conns : AcceptFails(c) /\ Halt)
         \/ NoSockets \/ WaitForEvents \/ WaitFails \/ NotReadable \/ NotWritable
         \/ (ReadFails \/ WriteFails \/ Exception) /\ Halt
         \/ NothingMore \/ ScanEnds \/ NotDue
  PROVE  OtherStep /\ ControlOnly
<1>. USE DEF ControlOnly, GoTo, Halt, InLoop, netVars, serverVars, managerVars, OtherStep, LivesOK
<1>1. CASE AcceptNothing
  BY <1>1 DEF AcceptNothing
<1>2. CASE \/ (\E c \in Conns : Accept(c) /\ Halt)
           \/ (\E c \in Conns : AcceptFails(c) /\ Halt)
  BY <1>2 DEF Accept, AcceptFails
<1>3. CASE NoSockets
  BY <1>3 DEF NoSockets
<1>4. CASE WaitForEvents
  BY <1>4 DEF WaitForEvents
<1>5. CASE WaitFails
  BY <1>5 DEF WaitFails, LenetError
<1>6. CASE NotReadable
  BY <1>6 DEF NotReadable, InScan
<1>7. CASE ReadFails /\ Halt
  BY <1>7 DEF ReadFails
<1>8. CASE NotWritable
  BY <1>8 DEF NotWritable
<1>9. CASE WriteFails /\ Halt
  BY <1>9 DEF WriteFails
<1>10. CASE Exception /\ Halt
  BY <1>10 DEF Exception
<1>11. CASE NothingMore
  BY <1>11 DEF NothingMore, NextSocket, NextIndex
<1>12. CASE ScanEnds
  BY <1>12 DEF ScanEnds
<1>13. CASE NotDue
  BY <1>13 DEF NotDue
<1>. QED  BY <1>1, <1>2, <1>3, <1>4, <1>5, <1>6, <1>7, <1>8, <1>9, <1>10, <1>11, <1>12, <1>13

LEMMA TrafficSteps ==
  ASSUME LivesOK,
         \/ ProcessSend \/ (\E chunk \in ReceivePath!Kinds : Read(chunk)) \/ Write
         \/ \E c \in Conns : Send(c)
  PROVE  OtherStep
<1>. USE DEF GoTo, InLoop, netVars, serverVars, managerVars, OtherStep, LivesOK
<1>1. CASE ProcessSend
  BY <1>1 DEF ProcessSend
<1>2. CASE \E chunk \in ReceivePath!Kinds : Read(chunk)
  BY <1>2 DEF Read, InScan
<1>3. CASE Write
  BY <1>3 DEF Write
<1>4. CASE \E c \in Conns : Send(c)
  BY <1>4 DEF Send
<1>. QED  BY <1>1, <1>2, <1>3, <1>4

LEMMA AcceptSteps ==
  ASSUME NEW c \in Conns, Accept(c) \/ AcceptFails(c), UNCHANGED kind
  PROVE  \/ Accept(c) /\ Halt
         \/ AcceptFails(c) /\ Halt
         \/ \E added \in BOOLEAN : Added(c, added)
         \/ Refused(c)
<1>1. CASE Accept(c)
  <2>1. \/ Accept(c) /\ Halt
        \/ AddConnection(c, TRUE) /\ GoTo("ProcessSend")
        \/ "high" \in Faults /\ Debugger /\ AddConnection(c, FALSE) /\ GoTo("ProcessSend")
    BY <1>1 DEF Accept, LenetError
  <2>2. pc = "Accept" /\ c \in Peers!Pending
    BY <1>1 DEF Accept
  <2>3. CASE AddConnection(c, TRUE) /\ GoTo("ProcessSend")
    <3>1. Added(c, TRUE)
      BY <2>2, <2>3 DEF Added, GoTo
    <3>. QED  BY <3>1
  <2>4. CASE "high" \in Faults /\ Debugger /\ AddConnection(c, FALSE) /\ GoTo("ProcessSend")
    <3>1. Added(c, FALSE)
      BY <2>2, <2>4 DEF Added, GoTo
    <3>. QED  BY <3>1
  <2>. QED  BY <2>1, <2>3, <2>4
<1>2. CASE AcceptFails(c)
  BY <1>2 DEF AcceptFails, LenetError, Refused, GoTo
<1>. QED  BY <1>1, <1>2

LEMMA RemovalSteps ==
  ASSUME LivesOK, ReadFails \/ WriteFails \/ Disconnection \/ Exception, UNCHANGED kind
  PROVE  \/ (ReadFails \/ WriteFails \/ Exception) /\ Halt
         \/ Removal
<1>1. CASE ReadFails
  BY <1>1 DEF ReadFails, LenetError, Removal, Scanning, InScan
<1>2. CASE WriteFails
  BY <1>2 DEF WriteFails, LenetError, Removal, Scanning, LivesOK
<1>3. CASE Disconnection
  BY <1>3 DEF Disconnection, Removal, Scanning, LivesOK
<1>4. CASE Exception
  BY <1>4 DEF Exception, LenetError, Removal, Scanning, LivesOK
<1>. QED  BY <1>1, <1>2, <1>3, <1>4

LEMMA StepCases ==
  ASSUME LivesOK, [Next]_vars
  PROVE  \/ PeerStep \/ UNCHANGED vars \/ OtherStep
         \/ (\E c \in Conns, added \in BOOLEAN : Added(c, added))
         \/ (\E c \in Conns : Refused(c))
         \/ Removal \/ Update \/ DisconnectAll \/ Destroy
<1>. SUFFICES ASSUME ServerStep
              PROVE  \/ OtherStep
                     \/ (\E c \in Conns, added \in BOOLEAN : Added(c, added))
                     \/ (\E c \in Conns : Refused(c))
                     \/ Removal \/ Update \/ DisconnectAll \/ Destroy
  BY DEF Next, Terminated
<1>1. UNCHANGED kind
  BY DEF ServerStep
<1>2. CASE \/ AcceptNothing \/ NoSockets \/ WaitForEvents \/ WaitFails \/ NotReadable
           \/ NotWritable \/ NothingMore \/ ScanEnds \/ NotDue
  BY <1>2, ControlSteps
<1>3. CASE \/ ProcessSend \/ (\E chunk \in ReceivePath!Kinds : Read(chunk)) \/ Write
           \/ \E c \in Conns : Send(c)
  BY <1>3, TrafficSteps
<1>4. CASE \E c \in Conns : Accept(c) \/ AcceptFails(c)
  <2>1. PICK c \in Conns : Accept(c) \/ AcceptFails(c)
    BY <1>4
  <2>2. \/ Accept(c) /\ Halt
        \/ AcceptFails(c) /\ Halt
        \/ \E added \in BOOLEAN : Added(c, added)
        \/ Refused(c)
    BY <1>1, <2>1, AcceptSteps
  <2>. QED  BY <2>2, ControlSteps
<1>5. CASE ReadFails \/ WriteFails \/ Disconnection \/ Exception
  BY <1>1, <1>5, ControlSteps, RemovalSteps
<1>. QED  BY <1>2, <1>3, <1>4, <1>5 DEF ServerStep

(* What each of them is for NetServer and the contexts.                     *)
LEMMA AddedLives ==
  ASSUME LivesOK, NEW c \in Conns, NEW added, Added(c, added)
  PROVE  /\ LivesOK'
         /\ status[c] = "none" /\ Server!AddConnection(c) /\ c \notin From(socketContexts, 1)
<1>1. /\ link[c] = "pending" /\ pc = "Accept" /\ pc' = "ProcessSend" /\ i' = i
      /\ link' = [link EXCEPT ![c] = "up"]
      /\ connections' = connections \cup {c}
      /\ status' = [status EXCEPT ![c] = "Init"]
      /\ socketContexts' = Append(socketContexts, c)
      /\ netEventBuffer' = IF added THEN Append(netEventBuffer, c) ELSE netEventBuffer
  BY DEF Added, Peers!Pending, AddConnection, Server!AddConnection
<1>2. status[c] = "none" /\ c \notin From(socketContexts, 1)
  BY <1>1 DEF LivesOK
<1>3. /\ socketContexts' \in Seq(Conns) /\ Distinct(Append(socketContexts, c))
      /\ Len(socketContexts') = Len(socketContexts) + 1 /\ Len(socketContexts) \in Nat
      /\ From(Append(socketContexts, c), 1) = From(socketContexts, 1) \cup {c}
  BY <1>1, <1>2, AppendedSocket DEF LivesOK
<1>4. /\ netEventBuffer' \in Seq(Conns)
      /\ Len(netEventBuffer) \in Nat
      /\ Len(netEventBuffer') \in {Len(netEventBuffer), Len(netEventBuffer) + 1}
  BY <1>1, AppendedSocket DEF LivesOK
<1>5. Distinct(socketContexts)' /\ From(socketContexts, 1)' = From(socketContexts, 1) \cup {c}
  BY <1>1, <1>3 DEF Distinct, From
<1>6. Len(netEventBuffer') <= Len(socketContexts')
  BY <1>1, <1>3, <1>4 DEF LivesOK, InLoop
<1>7. link' \in [Conns -> Peers!Links]
  BY <1>1 DEF LivesOK, Peers!Links
<1>8. LivesOK'
  BY <1>1, <1>2, <1>3, <1>4, <1>5, <1>6, <1>7 DEF LivesOK
<1>9. Server!AddConnection(c)
  BY DEF Added, AddConnection
<1>. QED  BY <1>2, <1>8, <1>9

LEMMA RefusedLives ==
  ASSUME LivesOK, NEW c \in Conns, Refused(c)
  PROVE  LivesOK' /\ UNCHANGED <<connections, status, notified>>
<1>1. /\ link[c] = "pending" /\ pc = "Accept" /\ pc' = "ProcessSend" /\ i' = i
      /\ link' = [link EXCEPT ![c] = "closed"]
      /\ UNCHANGED <<connections, status, notified, socketContexts, netEventBuffer>>
  BY DEF Refused, Peers!Pending, serverVars, managerVars
<1>2. c \notin From(socketContexts, 1)
  BY <1>1 DEF LivesOK
<1>3. link' \in [Conns -> Peers!Links]
  BY <1>1 DEF LivesOK, Peers!Links
<1>4. Distinct(socketContexts)' = Distinct(socketContexts)
  BY <1>1 DEF Distinct
<1>5. From(socketContexts, 1)' = From(socketContexts, 1)
  BY <1>1 DEF From
<1>. QED  BY <1>1, <1>2, <1>3, <1>4, <1>5 DEF LivesOK, InLoop

LEMMA RemovalFacts ==
  ASSUME LivesOK, Removal
  PROVE  /\ i \in 1..Len(netEventBuffer) /\ i \in 1..Len(socketContexts)
         /\ current \in Conns /\ current \in From(socketContexts, 1)
         /\ Server!ChangeStateToClose({current})
         /\ link' = [link EXCEPT ![current] = "closed"]
         /\ socketContexts' = RemoveAt(socketContexts, i)
         /\ netEventBuffer' = RemoveAt(netEventBuffer, i)
         /\ pc' = "Read" /\ i' = i + 1 /\ UNCHANGED revents
<1>1. /\ pc \in {"Read", "Write", "Check"} /\ i <= Len(netEventBuffer)
      /\ Server!ChangeStateToClose({current})
      /\ link' = [link EXCEPT ![current] = "closed"]
      /\ socketContexts' = RemoveAt(socketContexts, i)
      /\ netEventBuffer' = RemoveAt(netEventBuffer, i)
      /\ pc' = "Read" /\ i' = i + 1 /\ UNCHANGED revents
  BY DEF Removal, Scanning, RemoveCurrent, RemoveConnection, ContextsAfterRemove,
         BufferAfterRemove, NextSocket, NextIndex, current
<1>2. Len(netEventBuffer) \in Nat /\ Len(socketContexts) \in Nat
  BY LenProperties DEF LivesOK
<1>3. Len(netEventBuffer) <= Len(socketContexts) /\ i \in Nat \ {0}
  BY <1>1 DEF LivesOK, InLoop
<1>4. i \in 1..Len(netEventBuffer) /\ i \in 1..Len(socketContexts)
  BY <1>1, <1>2, <1>3
<1>5. current \in Conns /\ current \in From(socketContexts, 1)
  BY <1>4, ElementOfSeq DEF current, From, LivesOK
<1>. QED  BY <1>1, <1>4, <1>5

LEMMA RemovalLives ==
  ASSUME LivesOK, Removal
  PROVE  LivesOK' /\ status[current] = "Init"
<1>. DEFINE c == current
<1>1. /\ i \in 1..Len(netEventBuffer) /\ i \in 1..Len(socketContexts)
      /\ c \in Conns /\ c \in From(socketContexts, 1) /\ c = socketContexts[i]
      /\ Server!ChangeStateToClose({c})
      /\ link' = [link EXCEPT ![c] = "closed"]
      /\ socketContexts' = RemoveAt(socketContexts, i)
      /\ netEventBuffer' = RemoveAt(netEventBuffer, i)
      /\ pc' = "Read" /\ i' = i + 1
  BY RemovalFacts DEF current
<1>. HIDE DEF c
<1>2. /\ status' = [d \in Conns |-> IF d = c THEN "MarkForClose" ELSE status[d]]
      /\ connections' = connections
  BY <1>1 DEF Server!ChangeStateToClose
<1>3. status[c] = "Init" /\ c \in connections
  BY <1>1 DEF LivesOK
<1>4. /\ socketContexts' \in Seq(Conns) /\ Distinct(RemoveAt(socketContexts, i))
      /\ From(RemoveAt(socketContexts, i), 1) = From(socketContexts, 1) \ {c}
      /\ Len(socketContexts') = Len(socketContexts) - 1 /\ Len(socketContexts) \in Nat
  BY <1>1, RemovedIndex, RemovedSocket DEF LivesOK
<1>5. /\ netEventBuffer' \in Seq(Conns)
      /\ Len(netEventBuffer') = Len(netEventBuffer) - 1 /\ Len(netEventBuffer) \in Nat
  BY <1>1, RemovedIndex DEF LivesOK
<1>6. Distinct(socketContexts)' /\ From(socketContexts, 1)' = From(socketContexts, 1) \ {c}
  BY <1>1, <1>4 DEF Distinct, From
<1>7. Len(netEventBuffer) <= Len(socketContexts)
  BY DEF Removal, Scanning, LivesOK, InLoop
<1>8. Len(netEventBuffer') <= Len(socketContexts') /\ i + 1 \in Nat \ {0}
  BY <1>1, <1>4, <1>5, <1>7
<1>9. link' \in [Conns -> Peers!Links]
  BY <1>1 DEF LivesOK, Peers!Links
<1>10. LivesOK'
  BY <1>1, <1>2, <1>3, <1>4, <1>5, <1>6, <1>8, <1>9 DEF LivesOK, Failing
<1>. QED  BY <1>3, <1>10 DEF c

LEMMA UpdateLives ==
  ASSUME LivesOK, Update
  PROVE  LivesOK' /\ Server!Update
<1>1. /\ Server!Update /\ pc = "Update" /\ pc' = "Send"
      /\ UNCHANGED <<link, socketContexts, netEventBuffer, i>>
  BY DEF Update, GoTo, netVars, managerVars
<1>2. /\ connections' = connections \ {c \in connections : status[c] = "MarkForClose"}
      /\ status' = [c \in Conns |-> IF c \in {d \in connections : status[d] = "MarkForClose"}
                                   THEN "Closed" ELSE status[c]]
  BY <1>1 DEF Server!Update, Server!ClosingConnections
<1>3. Distinct(socketContexts)' = Distinct(socketContexts)
  BY <1>1 DEF Distinct
<1>4. From(socketContexts, 1)' = From(socketContexts, 1)
  BY <1>1 DEF From
<1>5. {c \in connections' : status'[c] = "Init"} = {c \in connections : status[c] = "Init"}
  BY <1>2 DEF LivesOK
<1>. QED  BY <1>1, <1>2, <1>3, <1>4, <1>5 DEF LivesOK, InLoop

LEMMA DisconnectAllLives ==
  ASSUME LivesOK, DisconnectAll
  PROVE  LivesOK' /\ Server!ChangeStateToClose(From(socketContexts, 1))
<1>1. DOMAIN socketContexts = 1..Len(socketContexts)
  BY LenProperties DEF LivesOK
<1>2. ToSet(socketContexts) = From(socketContexts, 1)
  BY <1>1 DEF ToSet, From
<1>3. /\ Server!ChangeStateToClose(From(socketContexts, 1))
      /\ socketContexts' = <<>> /\ pc' = "Destroy"
      /\ link' = [c \in Conns |-> IF c \in From(socketContexts, 1) THEN "closed" ELSE link[c]]
      /\ UNCHANGED <<netEventBuffer, i>>
  BY <1>2 DEF DisconnectAll, GoTo
<1>4. /\ status' = [c \in Conns |-> IF c \in From(socketContexts, 1) THEN "MarkForClose" ELSE status[c]]
      /\ connections' = connections
  BY <1>3 DEF Server!ChangeStateToClose
<1>5. socketContexts' \in Seq(Conns) /\ Len(socketContexts') = 0
  BY <1>3, EmptySeq
<1>6. From(socketContexts, 1)' = {} /\ Distinct(socketContexts)'
  BY <1>5 DEF From, Distinct
<1>7. link' \in [Conns -> Peers!Links]
  BY <1>3 DEF LivesOK, Peers!Links
<1>. QED  BY <1>3, <1>4, <1>5, <1>6, <1>7 DEF LivesOK, InLoop

LEMMA DestroyLives ==
  ASSUME LivesOK, Destroy
  PROVE  /\ LivesOK' /\ Server!Destroy
         /\ \A c \in connections : status[c] = "MarkForClose"
<1>1. /\ Server!Destroy /\ pc = "Destroy" /\ pc' = "Exit"
      /\ UNCHANGED <<link, socketContexts, netEventBuffer, i>>
  BY DEF Destroy, GoTo, netVars, managerVars
<1>2. connections' = {} /\ status' = status
  BY <1>1 DEF Server!Destroy
<1>3. socketContexts = <<>> /\ Len(socketContexts) = 0
  BY <1>1, EmptySeq DEF LivesOK
<1>4. From(socketContexts, 1) = {}
  BY <1>3 DEF From
<1>5. \A c \in connections : status[c] = "MarkForClose"
  BY <1>4 DEF LivesOK
<1>6. Distinct(socketContexts)' = Distinct(socketContexts)
  BY <1>1 DEF Distinct
<1>7. From(socketContexts, 1)' = From(socketContexts, 1)
  BY <1>1 DEF From
<1>8. LivesOK'
  BY <1>1, <1>2, <1>4, <1>6, <1>7 DEF LivesOK, InLoop
<1>. QED  BY <1>1, <1>5, <1>8

LEMMA LivesUnchanged ==
  ASSUME LivesOK,
         UNCHANGED <<link, connections, status, socketContexts, netEventBuffer>>,
         OtherStep \/ UNCHANGED vars
  PROVE  LivesOK'
<1>1. Distinct(socketContexts)' = Distinct(socketContexts)
  BY DEF Distinct
<1>2. From(socketContexts, 1)' = From(socketContexts, 1)
  BY DEF From
<1>. QED  BY <1>1, <1>2 DEF LivesOK, OtherStep, vars, loopVars, InLoop

LEMMA LivesStep == LivesOK /\ [Next]_vars => LivesOK'
<1>. SUFFICES ASSUME LivesOK, [Next]_vars  PROVE LivesOK'
  OBVIOUS
<1>1. CASE PeerStep
  BY <1>1, LivesPeers
<1>2. CASE OtherStep \/ UNCHANGED vars
  BY <1>2, LivesUnchanged DEF OtherStep, vars, netVars, serverVars, managerVars
<1>3. CASE \E c \in Conns, added \in BOOLEAN : Added(c, added)
  BY <1>3, AddedLives
<1>4. CASE \E c \in Conns : Refused(c)
  BY <1>4, RefusedLives
<1>5. CASE Removal
  BY <1>5, RemovalLives
<1>6. CASE Update
  BY <1>6, UpdateLives
<1>7. CASE DisconnectAll
  BY <1>7, DisconnectAllLives
<1>8. CASE Destroy
  BY <1>8, DestroyLives
<1>. QED  BY <1>1, <1>2, <1>3, <1>4, <1>5, <1>6, <1>7, <1>8, StepCases

LEMMA LivesHold == Spec => []LivesOK
BY LivesInit, LivesStep, PTL DEF Spec

LEMMA ContextsAreFrom ==
  ASSUME LivesOK
  PROVE  /\ DOMAIN socketContexts = 1..Len(socketContexts)
         /\ ToSet(socketContexts) = From(socketContexts, 1)
<1>1. DOMAIN socketContexts = 1..Len(socketContexts)
  BY LenProperties DEF LivesOK
<1>. QED  BY <1>1 DEF ToSet, From

(* No SocketContext outlives its NetConnection, no two share one, and no   *)
(* open NetConnection is left without a context, for any number of clients, *)
(* also after a refused socket left the event buffer shorter.               *)
THEOREM ContextsPoint == Spec => []ContextsPointToOpenConnections
<1>1. LivesOK => ContextsPointToOpenConnections
  <2>. SUFFICES ASSUME LivesOK  PROVE ContextsPointToOpenConnections
    OBVIOUS
  <2>1. IsInjective(socketContexts)
    BY ContextsAreFrom DEF LivesOK, Distinct, IsInjective
  <2>. QED  BY <2>1, ContextsAreFrom DEF LivesOK, ContextsPointToOpenConnections
<1>. QED  BY <1>1, LivesHold, PTL

-----------------------------------------------------------------------------
(* Each step is one of NetServer's, or leaves its variables alone.          *)
LEMMA ServesStep ==
  ASSUME LivesOK, [Next]_vars
  PROVE  [Server!ServerNext]_(Server!serverVars)
<1>. USE DEF Server!serverVars, Server!ServerNext
<1>1. CASE PeerStep \/ UNCHANGED vars \/ OtherStep
  BY <1>1 DEF PeerStep, Outside, serverVars, vars, OtherStep
<1>2. CASE \E c \in Conns, added \in BOOLEAN : Added(c, added)
  BY <1>2, AddedLives
<1>3. CASE \E c \in Conns : Refused(c)
  BY <1>3, RefusedLives
<1>4. CASE Removal
  <2>1. Server!ChangeStateToClose({current}) /\ current \in From(socketContexts, 1)
    BY <1>4, RemovalFacts
  <2>2. {current} \in SUBSET {d \in connections : status[d] = "Init"}
    BY <2>1 DEF LivesOK
  <2>. QED  BY <2>1, <2>2
<1>5. CASE Update
  BY <1>5, UpdateLives
<1>6. CASE DisconnectAll
  <2>1. From(socketContexts, 1) \in SUBSET {d \in connections : status[d] = "Init"}
    BY DEF LivesOK
  <2>. QED  BY <1>6, <2>1, DisconnectAllLives
<1>7. CASE Destroy
  BY <1>7, DestroyLives
<1>. QED  BY <1>1, <1>2, <1>3, <1>4, <1>5, <1>6, <1>7, StepCases

(* The readiness server implements NetServer: each NetConnection is        *)
(* disconnected once, before it is erased, and all of them before the end.  *)
THEOREM Serves == Spec => Server!Spec
<1>1. Init => Server!ServerInit
  BY DEF Init
<1>. QED  BY <1>1, LivesHold, ServesStep, PTL DEF Spec, Server!Spec

(* Both instances of NetServer say the same.                                *)
LEMMA SameServer == Server!Spec <=> ServerFacts!Spec
<1>1. Server!ServerInit <=> ServerFacts!ServerInit
  BY DEF Server!ServerInit, ServerFacts!ServerInit
<1>2. [Server!ServerNext]_(Server!serverVars) <=> [ServerFacts!ServerNext]_(ServerFacts!serverVars)
  BY DEF Server!ServerNext, Server!serverVars, Server!AddConnection, Server!ChangeStateToClose,
       Server!Update, Server!Destroy, Server!Notify, Server!ClosingConnections,
       Server!NotifiedByDestructor,
       ServerFacts!ServerNext, ServerFacts!serverVars, ServerFacts!AddConnection,
       ServerFacts!ChangeStateToClose, ServerFacts!Update, ServerFacts!Destroy,
       ServerFacts!Notify, ServerFacts!ClosingConnections, ServerFacts!NotifiedByDestructor
<1>. QED  BY <1>1, <1>2, PTL DEF Server!Spec, ServerFacts!Spec

(* onDisconnect is called exactly once for every accepted client.           *)
THEOREM NotifiedOnce == Spec => []NotifiedExactlyOnce
<1>1. ServerFacts!Spec => []ServerFacts!NotifiedExactlyOnce
  BY ServerFacts!NotifiedOnce
<1>. QED  BY <1>1, SameServer, Serves, PTL
          DEF NotifiedExactlyOnce, Server!NotifiedExactlyOnce, ServerFacts!NotifiedExactlyOnce

-----------------------------------------------------------------------------
(* The scan.  The two sequences agree unless a socket was refused and a    *)
(* debugger let the server go on: HandleNetEvents would then take the event *)
(* of one socket for that of another.                                       *)
NoSocketIsRefused == ~Debugger \/ "high" \notin Faults

(* What was reported of socket s and is still to be looked at stays true   *)
(* until then, whatever the client does: it can be read, or the client is   *)
(* gone; it was asked for writability and has room; and what the last look  *)
(* of the scan would remove it for is so.                                   *)
ReadTrue(s) == "Read" \in revents[s] => unread[s] > 0 \/ link[s] \in Failing

WriteTrue(s) ==
  "Write" \in revents[s] =>
    s \in writeFlags /\ (s \notin full \/ (kind = "Poll" /\ link[s] \in Failing))

GoneTrue(s) ==
  /\ "Disconnect" \in revents[s] => kind = "Poll" /\ link[s] \in Failing
  /\ "Except" \in revents[s] =>
       \/ s \in urgent
       \/ kind = "Poll" /\ link[s] = "lost"
       \/ "Disconnect" \in revents[s]

(* The sockets the scan has still to read from, to write to, and to check  *)
ToRead == From(netEventBuffer, IF pc = "Read" THEN i ELSE i + 1)
ToWrite == From(netEventBuffer, IF pc = "Check" THEN i + 1 ELSE i)
ToCheck == From(netEventBuffer, i)

ReportsOK ==
  pc \in {"Read", "Write", "Check"} =>
    /\ \A s \in ToRead : ReadTrue(s)
    /\ \A s \in ToWrite : WriteTrue(s)
    /\ \A s \in ToCheck : GoneTrue(s)

(* At most one message of a connection is started: what Write leaves of it  *)
(* is empty.                                                                *)
Single(q) == q = <<>> \/ \E m : q = <<m>>

FlagsOK ==
  /\ unread \in [Conns -> Nat]
  /\ DOMAIN inFlight = Conns /\ \A c \in Conns : Single(inFlight[c])
  /\ InLoop => netEventBuffer = socketContexts
  /\ InLoop => writeFlags = {c \in Conns : inFlight[c] # <<>>}

ScanInv == LivesOK /\ FlagsOK /\ ReportsOK

LEMMA KindStays == ASSUME [Next]_vars  PROVE kind' = kind
BY DEF Next, PeerStep, Outside, ServerStep, Terminated, vars

(* The steps once more, those of the scan apart                             *)
LEMMA ScanSteps ==
  ASSUME LivesOK, [Next]_vars
  PROVE  \/ PeerStep \/ UNCHANGED vars
         \/ ControlOnly /\ OtherStep /\ pc' \notin {"Read", "Write", "Check"}
         \/ (WaitForEvents \/ NotReadable \/ NotWritable \/ NothingMore) /\ ControlOnly /\ OtherStep
         \/ ProcessSend \/ (\E chunk \in ReceivePath!Kinds : Read(chunk)) \/ Write
         \/ (\E c \in Conns : Send(c))
         \/ (\E c \in Conns, added \in BOOLEAN : Added(c, added))
         \/ (\E c \in Conns : Refused(c))
         \/ Removal \/ Update \/ DisconnectAll \/ Destroy
<1>. DEFINE Quiet == ControlOnly /\ OtherStep /\ pc' \notin {"Read", "Write", "Check"}
<1>1. ASSUME Halt  PROVE pc' \notin {"Read", "Write", "Check"}
  BY <1>1 DEF Halt
<1>2. ASSUME AcceptNothing \/ NoSockets \/ WaitFails \/ ScanEnds \/ NotDue
      PROVE  Quiet
  <2>1. pc' \notin {"Read", "Write", "Check"}
    BY <1>2 DEF AcceptNothing, NoSockets, WaitFails, ScanEnds, NotDue, GoTo, LenetError, Halt
  <2>. QED  BY <1>2, <2>1, ControlSteps
<1>3. CASE ServerStep
  <2>1. UNCHANGED kind
    BY <1>3 DEF ServerStep
  <2>2. CASE \/ AcceptNothing \/ NoSockets \/ WaitFails \/ ScanEnds \/ NotDue
    BY <1>2, <2>2
  <2>3. CASE WaitForEvents \/ NotReadable \/ NotWritable \/ NothingMore
    BY <2>3, ControlSteps
  <2>4. CASE \E c \in Conns : Accept(c) \/ AcceptFails(c)
    <3>1. PICK c \in Conns : Accept(c) \/ AcceptFails(c)
      BY <2>4
    <3>2. \/ Accept(c) /\ Halt
          \/ AcceptFails(c) /\ Halt
          \/ \E added \in BOOLEAN : Added(c, added)
          \/ Refused(c)
      BY <2>1, <3>1, AcceptSteps
    <3>. QED  BY <1>1, <3>2, ControlSteps
  <2>5. CASE ReadFails \/ WriteFails \/ Disconnection \/ Exception
    BY <1>1, <2>1, <2>5, ControlSteps, RemovalSteps
  <2>. HIDE DEF Quiet
  <2>6. CASE \/ ProcessSend \/ (\E chunk \in ReceivePath!Kinds : Read(chunk)) \/ Write
             \/ (\E c \in Conns : Send(c)) \/ Update \/ DisconnectAll \/ Destroy
    BY <2>6
  <2>. QED  BY <1>3, <2>2, <2>3, <2>4, <2>5, <2>6 DEF ServerStep
<1>. QED  BY <1>3 DEF Next, Terminated

LEMMA PeersKeep ==
  ASSUME LivesOK, FlagsOK, PeerStep
  PROVE  /\ unread' \in [Conns -> Nat]
         /\ \A s \in Conns :
              /\ link[s] \in Failing => link'[s] \in Failing
              /\ link[s] = "lost" => link'[s] = "lost"
              /\ s \in urgent => s \in urgent'
              /\ unread[s] > 0 => unread'[s] > 0 \/ link'[s] \in Failing
              /\ s \in full' => s \in full
<1>1. PICK c \in Conns :
        \/ PeerSendsUrgent(c)
        \/ PeerReads(c)
        \/ /\ \/ Peers!Connects(c) \/ Peers!Sends(c) \/ Peers!Closes(c)
              \/ Peers!Breaks(c, "rst") \/ Peers!Breaks(c, "lost")
           /\ UNCHANGED <<full, urgent>>
  BY DEF PeerStep
<1>. USE DEF LivesOK, FlagsOK, Failing
<1>2. CASE PeerSendsUrgent(c)
  BY <1>2 DEF PeerSendsUrgent
<1>3. CASE PeerReads(c)
  BY <1>3 DEF PeerReads
<1>4. CASE Peers!Connects(c) /\ UNCHANGED <<full, urgent>>
  BY <1>4 DEF Peers!Connects
<1>5. CASE Peers!Sends(c) /\ UNCHANGED <<full, urgent>>
  BY <1>5 DEF Peers!Sends
<1>6. CASE Peers!Closes(c) /\ UNCHANGED <<full, urgent>>
  BY <1>6 DEF Peers!Closes
<1>7. CASE (Peers!Breaks(c, "rst") \/ Peers!Breaks(c, "lost")) /\ UNCHANGED <<full, urgent>>
  BY <1>7 DEF Peers!Breaks
<1>. QED  BY <1>1, <1>2, <1>3, <1>4, <1>5, <1>6, <1>7

(* The sockets of a scan at index i                                         *)
LEMMA ScanFacts ==
  ASSUME ScanInv, pc \in {"Read", "Write", "Check"}
  PROVE  /\ netEventBuffer = socketContexts
         /\ netEventBuffer \in Seq(Conns) /\ Distinct(netEventBuffer)
         /\ Len(netEventBuffer) \in Nat /\ i \in Nat \ {0}
         /\ From(netEventBuffer, i + 1) \subseteq From(netEventBuffer, i)
         /\ From(netEventBuffer, i) \subseteq From(socketContexts, 1)
         /\ From(socketContexts, 1) \subseteq Conns
         /\ i <= Len(netEventBuffer) =>
              /\ netEventBuffer[i] = current /\ current \in Conns
              /\ current \in From(netEventBuffer, i)
              /\ current \notin From(netEventBuffer, i + 1)
<1>1. /\ netEventBuffer = socketContexts /\ i \in Nat \ {0}
      /\ netEventBuffer \in Seq(Conns) /\ Distinct(netEventBuffer)
      /\ From(socketContexts, 1) \subseteq Conns
  BY DEF ScanInv, FlagsOK, LivesOK, InLoop
<1>2. Len(netEventBuffer) \in Nat
  BY <1>1, LenProperties
<1>3. /\ From(netEventBuffer, i + 1) \subseteq From(netEventBuffer, i)
      /\ From(netEventBuffer, i) \subseteq From(netEventBuffer, 1)
  BY <1>1, <1>2 DEF From
<1>4. ASSUME i <= Len(netEventBuffer)
      PROVE  /\ netEventBuffer[i] = current /\ current \in Conns
             /\ current \in From(netEventBuffer, i)
             /\ current \notin From(netEventBuffer, i + 1)
  <2>1. i \in 1..Len(netEventBuffer) /\ i \in i..Len(netEventBuffer)
    BY <1>1, <1>2, <1>4
  <2>2. netEventBuffer[i] = current
    BY <1>1 DEF current
  <2>3. netEventBuffer[i] \notin From(netEventBuffer, i + 1)
    BY <1>1, <2>1, RemovedSocket
  <2>4. netEventBuffer[i] \in Conns
    BY <1>1, <2>1, ElementOfSeq
  <2>5. netEventBuffer[i] \in From(netEventBuffer, i)
    BY <2>1 DEF From
  <2>. QED  BY <2>2, <2>3, <2>4, <2>5
<1>. QED  BY <1>1, <1>2, <1>3, <1>4

(* What was reported stays true of the sockets that are still to be looked *)
(* at.                                                                      *)
LEMMA ReportsKeep ==
  ASSUME ReportsOK, pc \in {"Read", "Write", "Check"}, UNCHANGED <<revents, kind>>,
         ToRead' \subseteq ToRead, ToWrite' \subseteq ToWrite, ToCheck' \subseteq ToCheck,
         \A s \in ToRead' : unread[s] > 0 => unread'[s] > 0 \/ link'[s] \in Failing,
         \A s \in ToRead' \cup ToWrite' \cup ToCheck' :
           /\ link[s] \in Failing => link'[s] \in Failing
           /\ link[s] = "lost" => link'[s] = "lost"
           /\ s \in urgent => s \in urgent',
         \A s \in ToWrite' : s \in writeFlags => s \in writeFlags',
         \A s \in ToWrite' : s \in full' => s \in full
  PROVE  ReportsOK'
<1>1. ASSUME NEW s \in ToRead'  PROVE ReadTrue(s)'
  <2>1. ReadTrue(s)
    BY DEF ReportsOK
  <2>. QED  BY <2>1 DEF ReadTrue
<1>2. ASSUME NEW s \in ToWrite'  PROVE WriteTrue(s)'
  <2>1. WriteTrue(s)
    BY DEF ReportsOK
  <2>. QED  BY <2>1 DEF WriteTrue
<1>3. ASSUME NEW s \in ToCheck'  PROVE GoneTrue(s)'
  <2>1. GoneTrue(s)
    BY DEF ReportsOK
  <2>. QED  BY <2>1 DEF GoneTrue
<1>. QED  BY <1>1, <1>2, <1>3 DEF ReportsOK

LEMMA PeersReports ==
  ASSUME ScanInv, [Next]_vars, PeerStep
  PROVE  ReportsOK'
<1>1. UNCHANGED <<pc, i, netEventBuffer, revents, kind, writeFlags>>
  BY DEF PeerStep, Outside, managerVars, loopVars
<1>. SUFFICES ASSUME pc \in {"Read", "Write", "Check"}  PROVE ReportsOK'
  BY <1>1 DEF ReportsOK
<1>2. ToRead' = ToRead /\ ToWrite' = ToWrite /\ ToCheck' = ToCheck
  BY <1>1 DEF ToRead, ToWrite, ToCheck, From
<1>3. ToRead \subseteq Conns /\ ToWrite \subseteq Conns /\ ToCheck \subseteq Conns
  BY ScanFacts DEF ToRead, ToWrite, ToCheck
<1>4. \A s \in Conns :
        /\ link[s] \in Failing => link'[s] \in Failing
        /\ link[s] = "lost" => link'[s] = "lost"
        /\ s \in urgent => s \in urgent'
        /\ unread[s] > 0 => unread'[s] > 0 \/ link'[s] \in Failing
        /\ s \in full' => s \in full
  BY PeersKeep DEF ScanInv
<1>. QED  BY <1>1, <1>2, <1>3, <1>4, ReportsKeep DEF ScanInv

LEMMA ControlReports ==
  ASSUME ScanInv, [Next]_vars, NotReadable \/ NotWritable \/ NothingMore, ControlOnly
  PROVE  ReportsOK'
<1>1. /\ UNCHANGED <<link, unread, full, urgent, netEventBuffer, writeFlags, revents, kind>>
      /\ \/ pc = "Read" /\ pc' = "Write" /\ i' = i
         \/ pc = "Write" /\ pc' = "Check" /\ i' = i
         \/ pc = "Check" /\ pc' = "Read" /\ i' = i + 1
  BY KindStays DEF ControlOnly, netVars, managerVars, NotReadable, NotWritable, NothingMore,
     GoTo, NextSocket, NextIndex
<1>2. /\ From(netEventBuffer, i + 1) \subseteq From(netEventBuffer, i)
      /\ \A j : From(netEventBuffer, j)' = From(netEventBuffer, j)
  BY <1>1, ScanFacts DEF From
<1>3. /\ ToRead' = From(netEventBuffer, IF pc' = "Read" THEN i' ELSE i' + 1)
      /\ ToWrite' = From(netEventBuffer, IF pc' = "Check" THEN i' + 1 ELSE i')
      /\ ToCheck' = From(netEventBuffer, i')
  BY <1>1 DEF ToRead, ToWrite, ToCheck, From
<1>4. ToRead' \subseteq ToRead /\ ToWrite' \subseteq ToWrite /\ ToCheck' \subseteq ToCheck
  BY <1>1, <1>2, <1>3 DEF ToRead, ToWrite, ToCheck
<1>. QED  BY <1>1, <1>4, ReportsKeep DEF ScanInv

(* A new scan: what WaitForEvents reports is true when it is reported.      *)
LEMMA WaitReports ==
  ASSUME ScanInv, [Next]_vars, WaitForEvents
  PROVE  ReportsOK'
<1>. DEFINE sockets == ToSet(netEventBuffer)
            open == {r \in sockets \X Events : r[2] \in Possible(r[1])}
<1>1. /\ ControlOnly /\ i' = 1 /\ pc' \in {"Update", "Read"}
      /\ UNCHANGED <<link, unread, full, urgent, netEventBuffer, writeFlags, kind>>
  BY KindStays DEF WaitForEvents, ControlOnly, netVars, managerVars
<1>2. PICK extra \in SUBSET open :
        revents' = [s \in Conns |->
          IF s \in sockets THEN Certain(s) \cup {e \in Events : <<s, e>> \in extra} ELSE {}]
  BY DEF WaitForEvents
<1>3. /\ From(netEventBuffer, 1) = sockets
      /\ sockets \subseteq Conns
  <2>1. netEventBuffer \in Seq(Conns)
    BY DEF ScanInv, LivesOK
  <2>2. DOMAIN netEventBuffer = 1..Len(netEventBuffer)
    BY <2>1, LenProperties
  <2>3. \A k \in 1..Len(netEventBuffer) : netEventBuffer[k] \in Conns
    BY <2>1, ElementOfSeq
  <2>. QED  BY <2>2, <2>3 DEF From, ToSet
<1>4. ASSUME NEW s \in sockets, NEW e, e \in revents'[s]
      PROVE  e \in Certain(s) \/ e \in Possible(s)
  <2>1. e \in Certain(s) \/ <<s, e>> \in extra
    BY <1>2, <1>3, <1>4
  <2>2. <<s, e>> \in extra => e \in Possible(s)
    <3>1. SUFFICES ASSUME <<s, e>> \in open  PROVE e \in Possible(s)
      OBVIOUS
    <3>2. \A r \in open : r[2] \in Possible(r[1])
      OBVIOUS
    <3>. QED  BY <3>1, <3>2
  <2>. QED  BY <2>1, <2>2
<1>5. ASSUME NEW s \in sockets
      PROVE  ReadTrue(s)' /\ WriteTrue(s)' /\ GoneTrue(s)'
  <2>. HIDE DEF sockets
  <2>1. "Read" \in revents'[s] => unread[s] > 0 \/ link[s] \in Failing
    BY <1>4, <1>5 DEF Certain, Possible
  <2>2. "Write" \in revents'[s] =>
          s \in writeFlags /\ (s \notin full \/ (kind = "Poll" /\ link[s] \in Failing))
    BY <1>4, <1>5 DEF Certain, Possible
  <2>3. "Disconnect" \in revents'[s] => kind = "Poll" /\ link[s] \in Failing
    BY <1>4, <1>5 DEF Certain, Possible, Failing
  <2>4. "Except" \in revents'[s] =>
          \/ s \in urgent
          \/ kind = "Poll" /\ link[s] = "lost"
          \/ "Disconnect" \in revents'[s]
    <3>1. kind = "Poll" /\ link[s] = "rst" => "Disconnect" \in Certain(s)
      BY DEF Certain, Events
    <3>2. Certain(s) \subseteq revents'[s]
      BY <1>2, <1>3, <1>5
    <3>3. "Except" \in revents'[s] =>
            \/ kind = "Poll" /\ link[s] = "lost"
            \/ kind # "Poll" /\ s \in urgent
            \/ kind = "Poll" /\ link[s] = "rst"
      BY <1>4, <1>5 DEF Certain, Possible
    <3>. QED  BY <3>1, <3>2, <3>3
  <2>. QED  BY <1>1, <2>1, <2>2, <2>3, <2>4 DEF ReadTrue, WriteTrue, GoneTrue
<1>6. pc' = "Read" => ToRead' = sockets /\ ToWrite' = sockets /\ ToCheck' = sockets
  BY <1>1, <1>3 DEF ToRead, ToWrite, ToCheck, From
<1>. QED  BY <1>1, <1>5, <1>6 DEF ReportsOK

(* Read and Write look at the current socket, which the scan then has      *)
(* behind it.                                                               *)
LEMMA ReadReports ==
  ASSUME ScanInv, [Next]_vars, NEW chunk, Read(chunk)
  PROVE  ReportsOK' /\ unread' \in [Conns -> Nat]
<1>1. /\ pc = "Read" /\ pc' = "Write" /\ i <= Len(netEventBuffer)
      /\ unread[current] > 0 /\ unread' = [unread EXCEPT ![current] = unread[current] - 1]
      /\ UNCHANGED <<i, revents, link, full, urgent, kind, writeFlags, netEventBuffer>>
  BY KindStays DEF Read, InScan, CanReceive, managerVars
<1>2. /\ current \in Conns /\ current \notin From(netEventBuffer, i + 1)
      /\ From(netEventBuffer, i + 1) \subseteq From(netEventBuffer, i)
      /\ From(netEventBuffer, i) \subseteq Conns
  BY <1>1, ScanFacts
<1>3. /\ ToRead' = From(netEventBuffer, i + 1) /\ ToRead = From(netEventBuffer, i)
      /\ ToWrite' = ToWrite /\ ToCheck' = ToCheck
  BY <1>1 DEF ToRead, ToWrite, ToCheck, From
<1>4. unread' \in [Conns -> Nat] /\ \A s \in Conns : s # current => unread'[s] = unread[s]
  BY <1>1, <1>2 DEF ScanInv, FlagsOK
<1>. QED  BY <1>1, <1>2, <1>3, <1>4, ReportsKeep DEF ScanInv

LEMMA WriteReports ==
  ASSUME ScanInv, [Next]_vars, Write
  PROVE  /\ ReportsOK'
         /\ current \in Conns /\ current \in writeFlags /\ inFlight[current] # <<>>
<1>1. /\ pc = "Write" /\ pc' = "Check" /\ "Write" \in netEvent
      /\ full' \in {full, full \cup {current}}
      /\ writeFlags' \in {writeFlags, writeFlags \ {netEventBuffer[i]}}
      /\ UNCHANGED <<i, revents, link, unread, urgent, kind, netEventBuffer>>
  BY KindStays DEF Write, WriteDue, GoTo, FlagsAfterWrite
<1>2. /\ current \in Conns /\ current \notin From(netEventBuffer, i + 1)
      /\ current \in From(netEventBuffer, i) /\ netEventBuffer[i] = current
      /\ From(netEventBuffer, i + 1) \subseteq From(netEventBuffer, i)
  BY <1>1, ScanFacts DEF ScanInv, LivesOK
<1>3. /\ ToWrite' = From(netEventBuffer, i + 1) /\ ToWrite = From(netEventBuffer, i)
      /\ ToRead' = ToRead /\ ToCheck' = ToCheck
  BY <1>1 DEF ToRead, ToWrite, ToCheck, From
<1>4. ReportsOK'
  BY <1>1, <1>2, <1>3, ReportsKeep DEF ScanInv
<1>5. WriteTrue(current)
  BY <1>1, <1>2, <1>3 DEF ScanInv, ReportsOK
<1>6. current \in writeFlags
  BY <1>1, <1>2, <1>5 DEF WriteTrue, netEvent
<1>. QED  BY <1>1, <1>2, <1>4, <1>6 DEF ScanInv, FlagsOK, InLoop

LEMMA RemovalReports ==
  ASSUME ScanInv, [Next]_vars, Removal
  PROVE  ReportsOK'
<1>1. /\ pc \in {"Read", "Write", "Check"} /\ i <= Len(netEventBuffer)
      /\ pc' = "Read" /\ i' = i + 1 /\ i \in 1..Len(netEventBuffer)
      /\ link' = [link EXCEPT ![current] = "closed"]
      /\ writeFlags' = writeFlags \ {netEventBuffer[i]}
      /\ netEventBuffer' = RemoveAt(netEventBuffer, i)
      /\ UNCHANGED <<revents, kind, unread, full, urgent>>
  BY RemovalFacts DEF Removal, Scanning, RemoveCurrent, RemoveConnection, FlagsAfterRemove, ScanInv
<1>2. /\ current \in Conns /\ current \notin From(netEventBuffer, i + 1)
      /\ netEventBuffer[i] = current
      /\ From(netEventBuffer, i + 1) \subseteq From(netEventBuffer, i)
      /\ From(netEventBuffer, i) \subseteq Conns
      /\ netEventBuffer \in Seq(Conns) /\ Distinct(netEventBuffer)
  BY <1>1, ScanFacts
<1>3. From(RemoveAt(netEventBuffer, i), i + 1) \subseteq From(netEventBuffer, i + 1)
  BY <1>1, <1>2, RemovedSocket
<1>4. /\ ToRead' = From(RemoveAt(netEventBuffer, i), i + 1)
      /\ ToWrite' = From(RemoveAt(netEventBuffer, i), i + 1)
      /\ ToCheck' = From(RemoveAt(netEventBuffer, i), i + 1)
  BY <1>1 DEF ToRead, ToWrite, ToCheck, From
<1>5. /\ From(netEventBuffer, i + 1) \subseteq ToRead
      /\ From(netEventBuffer, i + 1) \subseteq ToWrite
      /\ From(netEventBuffer, i + 1) \subseteq ToCheck
  BY <1>2 DEF ToRead, ToWrite, ToCheck
<1>6. \A s \in ToRead' \cup ToWrite' \cup ToCheck' : s \in Conns /\ s # current
  BY <1>2, <1>3, <1>4
<1>7. \A s \in Conns : s # current => link'[s] = link[s]
  BY <1>1 DEF ScanInv, LivesOK
<1>. QED  BY <1>1, <1>2, <1>3, <1>4, <1>5, <1>6, <1>7, ReportsKeep DEF ScanInv

LEMMA ScanInit == Init => FlagsOK /\ ReportsOK
<1>. SUFFICES ASSUME Init  PROVE FlagsOK /\ ReportsOK
  OBVIOUS
<1>1. /\ unread = [c \in Conns |-> 0] /\ inFlight = [c \in Conns |-> <<>>]
      /\ socketContexts = <<>> /\ netEventBuffer = <<>> /\ writeFlags = {} /\ pc = "Accept"
  BY DEF Init, Peers!PeersInit, SendPath!SendInit
<1>. QED  BY <1>1 DEF FlagsOK, ReportsOK, Single

(* What StartWrite and Write leave of the started messages                  *)
LEMMA SinglePop ==
  ASSUME NEW q, Single(q)
  PROVE  SendPath!Pop(q) = <<>>
<1>1. CASE q = <<>>
  <2>1. Len(q) = 0
    BY <1>1, EmptySeq
  <2>2. SubSeq(q, 2, 0) = <<>>
    BY SubSeqEmpty
  <2>. QED  BY <2>1, <2>2 DEF SendPath!Pop
<1>2. CASE \E m : q = <<m>>
  <2>1. PICK m : q = <<m>>
    BY <1>2
  <2>2. Len(q) = 1
    BY <2>1
  <2>3. SubSeq(q, 2, 1) = <<>>
    BY SubSeqEmpty
  <2>. QED  BY <2>2, <2>3 DEF SendPath!Pop
<1>. QED  BY <1>1, <1>2 DEF Single

LEMMA SingleStarted ==
  ASSUME NEW q, NEW m
  PROVE  Single(SendPath!Started(q, m)) /\ SendPath!Started(q, m) # <<>>
<1>1. SendPath!Started(q, m) = <<m>>
  BY DEF SendPath!Started
<1>2. Len(<<m>>) = 1 /\ Len(<<>>) = 0
  BY EmptySeq
<1>. QED  BY <1>1, <1>2 DEF Single

LEMMA FlagsUnchanged ==
  ASSUME FlagsOK, unread' \in [Conns -> Nat], InLoop' => InLoop,
         UNCHANGED <<inFlight, socketContexts, netEventBuffer, writeFlags>>
  PROVE  FlagsOK'
BY DEF FlagsOK, Single

LEMMA AddedFlags ==
  ASSUME NoSocketIsRefused, ScanInv, NEW c \in Conns, NEW added \in BOOLEAN, Added(c, added)
  PROVE  FlagsOK'
<1>1. /\ pc = "Accept" /\ added
      /\ socketContexts' = Append(socketContexts, c)
      /\ netEventBuffer' = IF added THEN Append(netEventBuffer, c) ELSE netEventBuffer
      /\ UNCHANGED <<unread, writeFlags, inFlight>>
  BY DEF Added, AddConnection, NoSocketIsRefused, sendVars
<1>. QED  BY <1>1 DEF ScanInv, FlagsOK, InLoop, Single

LEMMA ProcessSendFlags ==
  ASSUME ScanInv, ProcessSend
  PROVE  FlagsOK'
<1>. DEFINE indices == DOMAIN netEventBuffer
            S == {socketContexts[k] : k \in indices}
            starting == {c \in S : SendPath!CanStartOn(c)}
<1>1. /\ pc = "ProcessSend"
      /\ SendPath!ProcessSend(S)
      /\ writeFlags' = writeFlags \cup
           {netEventBuffer[k] : k \in {k \in indices : SendPath!CanStartOn(socketContexts[k])}}
      /\ UNCHANGED <<unread, socketContexts, netEventBuffer>>
  BY DEF ProcessSend, netVars
<1>2. netEventBuffer = socketContexts /\ netEventBuffer \in Seq(Conns)
  BY <1>1 DEF ScanInv, FlagsOK, InLoop, LivesOK
<1>3. \A k \in indices : netEventBuffer[k] \in Conns
  <2>1. indices = 1..Len(netEventBuffer)
    BY <1>2, LenProperties
  <2>. QED  BY <1>2, <2>1, ElementOfSeq
<1>4. /\ writeFlags' = writeFlags \cup starting
      /\ starting \subseteq Conns
  BY <1>1, <1>2, <1>3
<1>5. inFlight' = [c \in Conns |->
        IF c \in starting THEN SendPath!Started(inFlight[c], SendPath!Last(messagesToSend[c]))
                          ELSE inFlight[c]]
  BY <1>1 DEF SendPath!ProcessSend
<1>. HIDE DEF indices, S, starting
<1>6. \A c \in Conns : /\ Single(inFlight'[c])
                       /\ c \in starting => inFlight'[c] # <<>>
                       /\ c \notin starting => inFlight'[c] = inFlight[c]
  BY <1>5, SingleStarted DEF ScanInv, FlagsOK
<1>7. writeFlags = {c \in Conns : inFlight[c] # <<>>}
  BY <1>1 DEF ScanInv, FlagsOK, InLoop
<1>8. writeFlags' = {c \in Conns : inFlight'[c] # <<>>}
  BY <1>4, <1>6, <1>7
<1>9. DOMAIN inFlight' = Conns
  BY <1>5
<1>10. \A c \in Conns : Single(inFlight[c])'
  BY <1>6 DEF Single
<1>. QED  BY <1>1, <1>2, <1>8, <1>9, <1>10 DEF ScanInv, FlagsOK

LEMMA WriteFlagsOK ==
  ASSUME ScanInv, [Next]_vars, Write
  PROVE  FlagsOK'
<1>. DEFINE c == current
            left == SendPath!Pop(inFlight[c])
            rest == SendPath!RestOfQueue(messagesToSend[c])
            restarts == SendPath!RestartsOnWrite(c)
<1>1. /\ pc = "Write"
      /\ SendPath!Write(c)
      /\ writeFlags' = IF restarts THEN writeFlags ELSE writeFlags \ {netEventBuffer[i]}
      /\ UNCHANGED <<unread, socketContexts, netEventBuffer>>
  BY DEF Write, FlagsAfterWrite
<1>2. c \in Conns /\ c \in writeFlags
  BY WriteReports
<1>3. netEventBuffer[i] = c
  BY <1>1 DEF ScanInv, FlagsOK, InLoop, current
<1>4. inFlight' = [inFlight EXCEPT ![c] =
        IF restarts THEN SendPath!Started(left, SendPath!Last(rest)) ELSE left]
  BY <1>1 DEF SendPath!Write
<1>5. left = <<>>
  BY <1>2, SinglePop DEF ScanInv, FlagsOK
<1>. HIDE DEF c, left, rest, restarts
<1>6. /\ DOMAIN inFlight' = Conns
      /\ \A d \in Conns : d # c => inFlight'[d] = inFlight[d]
      /\ Single(inFlight'[c])
      /\ inFlight'[c] = <<>> <=> ~restarts
  <2>1. DOMAIN inFlight = Conns
    BY DEF ScanInv, FlagsOK
  <2>2. Single(<<>>)
    BY DEF Single
  <2>. QED  BY <1>2, <1>4, <1>5, <2>1, <2>2, SingleStarted
<1>7. writeFlags = {d \in Conns : inFlight[d] # <<>>}
  BY <1>1 DEF ScanInv, FlagsOK, InLoop
<1>8. writeFlags' = {d \in Conns : inFlight'[d] # <<>>}
  BY <1>1, <1>2, <1>3, <1>6, <1>7
<1>9. \A d \in Conns : Single(inFlight[d])'
  BY <1>6 DEF ScanInv, FlagsOK, Single
<1>10. InLoop
  BY <1>1 DEF InLoop
<1>. QED  BY <1>1, <1>6, <1>8, <1>9, <1>10 DEF ScanInv, FlagsOK

LEMMA RemovalFlags ==
  ASSUME ScanInv, Removal
  PROVE  FlagsOK'
<1>1. /\ pc \in {"Read", "Write", "Check"} /\ i <= Len(netEventBuffer)
      /\ writeFlags' = writeFlags \ {netEventBuffer[i]}
      /\ inFlight' = [c \in Conns |-> IF c \in {current} THEN <<>> ELSE inFlight[c]]
      /\ socketContexts' = RemoveAt(socketContexts, i)
      /\ netEventBuffer' = RemoveAt(netEventBuffer, i)
      /\ UNCHANGED unread
  BY RemovalFacts DEF Removal, Scanning, RemoveCurrent, RemoveConnection, FlagsAfterRemove,
     SendPath!DropWrites, current, ScanInv
<1>2. netEventBuffer[i] = current /\ netEventBuffer = socketContexts
  BY <1>1, ScanFacts
<1>3. \A c \in Conns : Single(inFlight[c])'
  BY <1>1 DEF ScanInv, FlagsOK, Single
<1>4. writeFlags' = {c \in Conns : inFlight'[c] # <<>>}
  BY <1>1, <1>2 DEF ScanInv, FlagsOK, InLoop
<1>. QED  BY <1>1, <1>2, <1>3, <1>4 DEF ScanInv, FlagsOK

LEMMA DisconnectAllFlags ==
  ASSUME ScanInv, DisconnectAll
  PROVE  FlagsOK'
<1>1. /\ pc' = "Destroy" /\ UNCHANGED unread
      /\ inFlight' = [c \in Conns |-> IF c \in ToSet(socketContexts) THEN <<>> ELSE inFlight[c]]
  BY DEF DisconnectAll, GoTo, SendPath!DropWrites
<1>. QED  BY <1>1 DEF ScanInv, FlagsOK, InLoop, Single

(* Every other step leaves the flags and the sequences alone.               *)
LEMMA OtherFlags ==
  ASSUME ScanInv, [Next]_vars,
         \/ PeerStep \/ UNCHANGED vars
         \/ ControlOnly /\ OtherStep
         \/ (\E chunk \in ReceivePath!Kinds : Read(chunk))
         \/ (\E c \in Conns : Send(c)) \/ (\E c \in Conns : Refused(c))
         \/ Update \/ Destroy
  PROVE  FlagsOK'
<1>1. CASE PeerStep
  <2>1. UNCHANGED <<pc, inFlight, socketContexts, netEventBuffer, writeFlags>>
    BY <1>1 DEF PeerStep, Outside, sendVars, managerVars, loopVars
  <2>. QED  BY <1>1, <2>1, PeersKeep, FlagsUnchanged DEF ScanInv, InLoop
<1>2. CASE UNCHANGED vars
  BY <1>2, FlagsUnchanged DEF vars, netVars, sendVars, managerVars, loopVars, ScanInv, InLoop, FlagsOK
<1>3. CASE ControlOnly /\ OtherStep
  BY <1>3, FlagsUnchanged DEF ControlOnly, OtherStep, netVars, sendVars, managerVars, ScanInv, FlagsOK
<1>4. CASE \E chunk \in ReceivePath!Kinds : Read(chunk)
  <2>1. /\ UNCHANGED <<inFlight, socketContexts, netEventBuffer, writeFlags>>
        /\ pc = "Read"
    BY <1>4 DEF Read, sendVars, managerVars
  <2>. QED  BY <1>4, <2>1, ReadReports, FlagsUnchanged DEF ScanInv, InLoop
<1>5. CASE \E c \in Conns : Send(c)
  BY <1>5, FlagsUnchanged DEF Send, GoTo, SendPath!Emplace, netVars, managerVars, ScanInv, InLoop, FlagsOK
<1>6. CASE \E c \in Conns : Refused(c)
  BY <1>6, FlagsUnchanged DEF Refused, sendVars, managerVars, ScanInv, InLoop, FlagsOK
<1>7. CASE Update
  BY <1>7, FlagsUnchanged DEF Update, GoTo, netVars, managerVars, sendVars, ScanInv, InLoop, FlagsOK
<1>8. CASE Destroy
  BY <1>8, FlagsUnchanged DEF Destroy, GoTo, netVars, managerVars, sendVars, ScanInv, InLoop, FlagsOK
<1>. QED  BY <1>1, <1>2, <1>3, <1>4, <1>5, <1>6, <1>7, <1>8

(* ... and starts no scan.                                                  *)
LEMMA OutsideScan ==
  ASSUME pc' \notin {"Read", "Write", "Check"}
  PROVE  ReportsOK'
BY DEF ReportsOK

LEMMA ScanStep ==
  ASSUME NoSocketIsRefused, ScanInv, [Next]_vars
  PROVE  ScanInv'
<1>. SUFFICES FlagsOK' /\ ReportsOK'
  BY LivesStep DEF ScanInv
<1>1. CASE PeerStep
  BY <1>1, OtherFlags, PeersReports
<1>2. CASE UNCHANGED vars
  <2>1. UNCHANGED <<pc, i, revents, kind, link, unread, full, urgent, netEventBuffer, writeFlags>>
    BY <1>2 DEF vars, netVars, managerVars, loopVars
  <2>2. ToRead' = ToRead /\ ToWrite' = ToWrite /\ ToCheck' = ToCheck
    BY <2>1 DEF ToRead, ToWrite, ToCheck, From
  <2>3. ReportsOK'
    BY <2>1, <2>2, ReportsKeep, OutsideScan DEF ScanInv
  <2>. QED  BY <1>2, <2>3, OtherFlags
<1>3. CASE ControlOnly /\ OtherStep /\ pc' \notin {"Read", "Write", "Check"}
  BY <1>3, OtherFlags, OutsideScan
<1>4. CASE (WaitForEvents \/ NotReadable \/ NotWritable \/ NothingMore) /\ ControlOnly /\ OtherStep
  BY <1>4, OtherFlags, WaitReports, ControlReports
<1>5. CASE ProcessSend
  <2>1. pc' = "WaitForEvents"
    BY <1>5 DEF ProcessSend, GoTo
  <2>. QED  BY <1>5, <2>1, ProcessSendFlags, OutsideScan
<1>6. CASE \E chunk \in ReceivePath!Kinds : Read(chunk)
  BY <1>6, OtherFlags, ReadReports
<1>7. CASE Write
  BY <1>7, WriteFlagsOK, WriteReports
<1>8. CASE (\E c \in Conns : Send(c)) \/ (\E c \in Conns : Refused(c)) \/ Update \/ Destroy
  <2>1. pc' \notin {"Read", "Write", "Check"}
    BY <1>8 DEF Send, Refused, Update, Destroy, GoTo
  <2>. QED  BY <1>8, <2>1, OtherFlags, OutsideScan
<1>9. CASE \E c \in Conns, added \in BOOLEAN : Added(c, added)
  <2>1. pc' = "ProcessSend"
    BY <1>9 DEF Added
  <2>. QED  BY <1>9, <2>1, AddedFlags, OutsideScan
<1>10. CASE Removal
  BY <1>10, RemovalFlags, RemovalReports
<1>11. CASE DisconnectAll
  <2>1. pc' = "Destroy"
    BY <1>11 DEF DisconnectAll, GoTo
  <2>. QED  BY <1>11, <2>1, DisconnectAllFlags, OutsideScan
<1>. QED  BY <1>1, <1>2, <1>3, <1>4, <1>5, <1>6, <1>7, <1>8, <1>9, <1>10, <1>11, ScanSteps
          DEF ScanInv

LEMMA ScanHolds == ASSUME NoSocketIsRefused  PROVE Spec => []ScanInv
<1>1. Init => ScanInv
  BY LivesInit, ScanInit DEF ScanInv
<1>2. ScanInv /\ [Next]_vars => ScanInv'
  BY ScanStep
<1>. QED  BY <1>1, <1>2, PTL DEF Spec

(* The two sequences that HandleNetEvents reaches with the same index are  *)
(* about the same sockets: after every Accept, and after every removal in   *)
(* a scan.                                                                  *)
THEOREM BufferMatches == ASSUME NoSocketIsRefused  PROVE Spec => []EventBufferMatchesContexts
<1>1. ScanInv => EventBufferMatchesContexts
  BY DEF ScanInv, FlagsOK, EventBufferMatchesContexts
<1>. QED  BY <1>1, ScanHolds, PTL

(* A socket is asked for writability exactly while a message was started   *)
(* on it and not sent.                                                      *)
THEOREM FlagsMeanStarted == ASSUME NoSocketIsRefused  PROVE Spec => []WriteFlagMeansStartedMessage
<1>1. ScanInv => WriteFlagMeansStartedMessage
  BY DEF ScanInv, FlagsOK, WriteFlagMeansStartedMessage
<1>. QED  BY <1>1, ScanHolds, PTL

-----------------------------------------------------------------------------
(* Why the scan removes the current connection, or ends in LENET_ERROR.     *)
Removing == ReadFails \/ WriteFails \/ Disconnection \/ Exception

LEMMA CurrentFacts ==
  ASSUME ScanInv, Scanning
  PROVE  /\ netEvent = revents[current] /\ current \in Conns
         /\ link[current] \in {"up"} \cup Failing /\ unread[current] \in Nat
         /\ current \in ToCheck
         /\ pc = "Read" => current \in ToRead
         /\ pc = "Write" => current \in ToWrite
BY ScanFacts DEF Scanning, netEvent, ToCheck, ToRead, ToWrite, ScanInv, LivesOK, FlagsOK

LEMMA RemovingScans ==
  ASSUME LivesOK, Removing
  PROVE  Scanning
BY DEF Removing, ReadFails, WriteFails, Disconnection, Exception, Scanning, InScan, LivesOK

LEMMA RemovalReason ==
  ASSUME ScanInv, Removing
  PROVE  \/ current \in urgent
         \/ /\ link[current] \in Failing
            /\ kind = "Select" /\ link[current] = "fin" => unread[current] = 0
<1>1. Scanning
  BY RemovingScans DEF ScanInv
<1>2. /\ netEvent = revents[current]
      /\ link[current] \in {"up"} \cup Failing /\ unread[current] \in Nat
      /\ GoneTrue(current)
      /\ pc = "Read" => ReadTrue(current)
      /\ pc = "Write" => WriteTrue(current)
  BY <1>1, CurrentFacts DEF Scanning, ScanInv, ReportsOK
<1>. USE DEF Failing
<1>3. CASE ReadFails
  BY <1>2, <1>3 DEF ReadFails, CanReceive, ReadTrue
<1>4. CASE WriteFails
  BY <1>2, <1>4 DEF WriteFails, WriteDue, CanSend, WriteTrue
<1>5. CASE Disconnection
  BY <1>2, <1>5 DEF Disconnection, GoneTrue
<1>6. CASE Exception
  BY <1>2, <1>6 DEF Exception, GoneTrue
<1>. QED  BY <1>3, <1>4, <1>5, <1>6 DEF Removing

LEMMA HaltReason ==
  ASSUME ScanInv, Removing, pc' = "Dead"
  PROVE  link[current] = "lost" \/ current \in urgent
<1>1. CASE ReadFails
  BY <1>1 DEF ReadFails, RemoveCurrent, NextSocket, IsFatal
<1>2. CASE WriteFails
  BY <1>2 DEF WriteFails, RemoveCurrent, NextSocket, IsFatal
<1>3. CASE Disconnection
  BY <1>3 DEF Disconnection, RemoveCurrent, NextSocket
<1>4. CASE Exception
  <2>1. Scanning
    BY RemovingScans DEF ScanInv
  <2>2. netEvent = revents[current] /\ GoneTrue(current)
    BY <2>1, CurrentFacts DEF Scanning, ScanInv, ReportsOK
  <2>. QED  BY <1>4, <2>2 DEF Exception, GoneTrue
<1>. QED  BY <1>1, <1>2, <1>3, <1>4 DEF Removing

LEMMA ClosingSteps ==
  ASSUME ScanInv, [Next]_vars, NEW c \in Conns, status[c] = "Init", status'[c] = "MarkForClose"
  PROVE  pc = "Accept" \/ (c = current /\ Removing)
<1>. USE DEF ScanInv
<1>1. CASE PeerStep \/ UNCHANGED vars
  BY <1>1 DEF PeerStep, Outside, vars, serverVars
<1>2. CASE ServerStep
  <2>1. UNCHANGED kind
    BY <1>2 DEF ServerStep
  <2>2. ~OtherStep
    BY DEF OtherStep
  <2>3. CASE \/ AcceptNothing \/ NoSockets \/ WaitForEvents \/ WaitFails \/ NotReadable
             \/ NotWritable \/ NothingMore \/ ScanEnds \/ NotDue
    BY <2>2, <2>3, ControlSteps
  <2>4. CASE \/ ProcessSend \/ (\E chunk \in ReceivePath!Kinds : Read(chunk)) \/ Write
             \/ \E d \in Conns : Send(d)
    BY <2>2, <2>4, TrafficSteps
  <2>5. CASE \E d \in Conns : Accept(d) \/ AcceptFails(d)
    BY <2>5 DEF Accept, AcceptFails
  <2>6. CASE Removing
    <3>1. Removal
      BY <2>1, <2>2, <2>6, RemovalSteps, ControlSteps DEF Removing
    <3>2. status' = [d \in Conns |-> IF d \in {current} THEN "MarkForClose" ELSE status[d]]
      BY <3>1, RemovalFacts DEF Server!ChangeStateToClose
    <3>. QED  BY <2>6, <3>2
  <2>7. CASE Update
    BY <2>7, UpdateLives DEF Server!Update
  <2>8. CASE DisconnectAll
    BY <2>8 DEF DisconnectAll
  <2>9. CASE Destroy
    BY <2>9, DestroyLives DEF Server!Destroy
  <2>. QED  BY <1>2, <2>3, <2>4, <2>5, <2>6, <2>7, <2>8, <2>9 DEF ServerStep, Removing
<1>. QED  BY <1>1, <1>2 DEF Next, Terminated

(* HandleNetEvents removes a connection only when its client is gone or    *)
(* its socket excepted: what was reported of one socket is never used to    *)
(* disconnect another.                                                      *)
THEOREM OnlyGone == ASSUME NoSocketIsRefused  PROVE Spec => OnlyGoneClientsAreRemoved
<1>1. ScanInv /\ [Next]_vars =>
        [\A c \in Conns : status[c] = "Init" /\ status'[c] = "MarkForClose"
            => link[c] \in Failing \/ c \in urgent \/ pc = "Accept"]_vars
  BY ClosingSteps, RemovalReason
<1>. QED  BY <1>1, ScanHolds, PTL DEF Spec, OnlyGoneClientsAreRemoved

(* With select, a client that sends and then closes in good order is read  *)
(* to the end before it is removed.                                         *)
THEOREM ReadToTheEnd == ASSUME NoSocketIsRefused  PROVE Spec => ClosedClientIsReadToTheEnd
<1>1. ScanInv /\ [Next]_vars =>
        [\A c \in Conns :
           kind = "Select" /\ status[c] = "Init" /\ status'[c] = "MarkForClose" /\ link[c] = "fin"
             => unread[c] = 0 \/ c \in urgent \/ pc = "Accept"]_vars
  BY ClosingSteps, RemovalReason
<1>. QED  BY <1>1, ScanHolds, PTL DEF Spec, ClosedClientIsReadToTheEnd

(* No client that was accepted brings the server to LENET_ERROR by closing  *)
(* or resetting its connection, not even between a report and the call it   *)
(* leads to.                                                                *)
THEOREM ClientsDoNotHalt ==
  ASSUME NoSocketIsRefused  PROVE Spec => AcceptedClientsDoNotHaltTheServer
<1>1. ASSUME ScanInv, [Next]_vars, pc' = "Dead"
      PROVE  \/ pc \in {"Accept", "WaitForEvents", "Dead"}
             \/ link[current] = "lost" \/ current \in urgent
  <2>1. CASE PeerStep \/ UNCHANGED vars
    BY <1>1, <2>1 DEF PeerStep, Outside, vars, loopVars
  <2>2. CASE Removing
    BY <1>1, <2>2, HaltReason
  <2>3. CASE \/ AcceptNothing \/ (\E c \in Conns : Accept(c) \/ AcceptFails(c))
             \/ WaitForEvents \/ WaitFails
    BY <2>3 DEF AcceptNothing, Accept, AcceptFails, WaitForEvents, WaitFails
  <2>4. CASE \/ NoSockets \/ ProcessSend \/ NotReadable \/ (\E chunk \in ReceivePath!Kinds : Read(chunk))
             \/ NotWritable \/ Write \/ NothingMore \/ ScanEnds
    BY <1>1, <2>4 DEF NoSockets, ProcessSend, NotReadable, Read, NotWritable, Write, NothingMore,
       ScanEnds, NextSocket, GoTo
  <2>5. CASE Update \/ (\E c \in Conns : Send(c)) \/ NotDue \/ DisconnectAll \/ Destroy
    BY <1>1, <2>5 DEF Update, Send, NotDue, DisconnectAll, Destroy, GoTo
  <2>. QED  BY <1>1, <2>1, <2>2, <2>3, <2>4, <2>5 DEF Next, ServerStep, Terminated, Removing
<1>2. ScanInv /\ [Next]_vars =>
        [pc' = "Dead" => \/ pc \in {"Accept", "WaitForEvents", "Dead"}
                         \/ link[current] = "lost" \/ current \in urgent]_vars
  BY <1>1
<1>. QED  BY <1>2, ScanHolds, PTL DEF Spec, AcceptedClientsDoNotHaltTheServer

-----------------------------------------------------------------------------
(* Each step is one of NetSendPath's, or leaves its variables alone.        *)
LEMMA SendsStep ==
  ASSUME ScanInv, [Next]_vars
  PROVE  [SendPath!SendNext]_(SendPath!sendVars)
<1>. USE DEF SendPath!SendNext, SendPath!sendVars, sendVars
<1>1. CASE UNCHANGED sendVars
  BY <1>1
<1>2. CASE PeerStep \/ UNCHANGED vars \/ ControlOnly
  BY <1>2 DEF PeerStep, Outside, vars, ControlOnly
<1>3. CASE ProcessSend
  <2>. DEFINE S == {socketContexts[k] : k \in DOMAIN netEventBuffer}
  <2>1. netEventBuffer = socketContexts /\ socketContexts \in Seq(Conns)
    BY <1>3 DEF ProcessSend, ScanInv, FlagsOK, LivesOK, InLoop
  <2>2. DOMAIN netEventBuffer = 1..Len(socketContexts)
    BY <2>1, LenProperties
  <2>3. S \in SUBSET Conns
    BY <2>1, <2>2, ElementOfSeq
  <2>4. SendPath!ProcessSend(S)
    BY <1>3 DEF ProcessSend
  <2>. HIDE DEF S
  <2>. QED  BY <2>3, <2>4
<1>4. CASE Write
  <2>1. SendPath!Write(current)
    BY <1>4 DEF Write
  <2>. QED  BY <1>4, <2>1, WriteReports
<1>5. CASE \E c \in Conns : Send(c)
  BY <1>5 DEF Send
<1>6. CASE Removal
  <2>1. SendPath!DropWrites({current})
    BY <1>6 DEF Removal, RemoveCurrent, RemoveConnection, current
  <2>2. {current} \in SUBSET Conns
    BY <1>6, RemovalFacts DEF ScanInv
  <2>. QED  BY <2>1, <2>2
<1>7. CASE DisconnectAll
  <2>1. SendPath!DropWrites(ToSet(socketContexts))
    BY <1>7 DEF DisconnectAll
  <2>2. ToSet(socketContexts) \in SUBSET Conns
    BY ContextsAreFrom DEF ScanInv, LivesOK
  <2>. QED  BY <2>1, <2>2
<1>8. CASE \/ (\E c \in Conns, added \in BOOLEAN : Added(c, added)) \/ (\E c \in Conns : Refused(c))
           \/ (\E chunk \in ReceivePath!Kinds : Read(chunk)) \/ Update \/ Destroy
  BY <1>8 DEF Added, AddConnection, Refused, Read, Update, Destroy
<1>. QED  BY <1>2, <1>3, <1>4, <1>5, <1>6, <1>7, <1>8, ScanSteps DEF ScanInv

(* The readiness server calls the send path as NetSendPath requires: Write *)
(* only at the end of a message that was started.                           *)
THEOREM Sends == ASSUME NoSocketIsRefused  PROVE Spec => SendsAsSpecified
<1>1. Init => SendPath!SendInit
  BY DEF Init
<1>2. ScanInv /\ [Next]_vars => [SendPath!SendNext]_(SendPath!sendVars)
  BY SendsStep
<1>. QED  BY <1>1, <1>2, ScanHolds, PTL DEF Spec, SendsAsSpecified, SendPath!Spec

SendFacts == INSTANCE NetSendPathProofs WITH Overlapped <- FALSE

(* Both instances of NetSendPath say the same.                              *)
LEMMA SameSend == SendPath!Spec <=> SendFacts!Spec
<1>1. SendPath!SendInit <=> SendFacts!SendInit
  BY DEF SendPath!SendInit, SendFacts!SendInit
<1>2. [SendPath!SendNext]_(SendPath!sendVars) <=> [SendFacts!SendNext]_(SendFacts!sendVars)
  BY DEF SendPath!SendNext, SendPath!sendVars, SendPath!Emplace, SendPath!ProcessSend,
       SendPath!Write, SendPath!DropWrites, SendPath!CanStartOn, SendPath!CanStart,
       SendPath!RestartsOnWrite, SendPath!RestOfQueue, SendPath!Pop, SendPath!Mark,
       SendPath!Started, SendPath!Reported, SendPath!Last,
       SendFacts!SendNext, SendFacts!sendVars, SendFacts!Emplace, SendFacts!ProcessSend,
       SendFacts!Write, SendFacts!DropWrites, SendFacts!CanStartOn, SendFacts!CanStart,
       SendFacts!RestartsOnWrite, SendFacts!RestOfQueue, SendFacts!Pop, SendFacts!Mark,
       SendFacts!Started, SendFacts!Reported, SendFacts!Last
<1>. QED  BY <1>1, <1>2, PTL DEF SendPath!Spec, SendFacts!Spec

(* Write never sends from a message it has popped, and no message goes out *)
(* twice or after a newer one, on the readiness server with any number of   *)
(* clients.                                                                 *)
THEOREM SendsInOrder ==
  ASSUME NoSocketIsRefused, MaxMessages \in Nat
  PROVE  Spec => [](SendPath!InFlightIsQueued /\ SendPath!WireInOrderWithoutRepeats)
<1>1. SendFacts!SendAssumption
  BY DEF SendFacts!SendAssumption
<1>2. SendFacts!Spec => []SendFacts!InFlightIsQueued
  BY <1>1, SendFacts!PointersStayValid
<1>3. SendFacts!Spec => []SendFacts!WireInOrderWithoutRepeats
  BY <1>1, SendFacts!MessagesGoOutInOrder
<1>4. SendPath!InFlightIsQueued <=> SendFacts!InFlightIsQueued
  BY DEF SendPath!InFlightIsQueued, SendFacts!InFlightIsQueued, SendPath!ToSet, SendFacts!ToSet
<1>5. SendPath!WireInOrderWithoutRepeats <=> SendFacts!WireInOrderWithoutRepeats
  BY DEF SendPath!WireInOrderWithoutRepeats, SendFacts!WireInOrderWithoutRepeats,
       SendPath!Increasing, SendFacts!Increasing
<1>6. Spec => SendPath!Spec
  BY Sends DEF SendsAsSpecified
<1>. QED  BY <1>2, <1>3, <1>4, <1>5, <1>6, SameSend, PTL

-----------------------------------------------------------------------------
(* The budget of the scan.  RestOf(q, j, reports): the indices from j on of *)
(* the sockets in q of which something was reported.                        *)
RestOf(q, j, reports) == {k \in j..Len(q) : reports[q[k]] # {}}

(* BudgetCoversTheRest at every step of the scan: the socket at i is        *)
(* counted when it is read from, and a removal at i moves those after it    *)
(* up, so that the scan passes one more.  A socket is in the event buffer   *)
(* once, having been accepted once.                                         *)
BufferOK ==
  /\ Distinct(netEventBuffer)
  /\ \A c \in From(netEventBuffer, 1) : status[c] # "none"

BudgetOK ==
  /\ pollResult \in Nat
  /\ pc = "Read" => pollResult >= Cardinality(RestOf(netEventBuffer, i, revents))
  /\ pc \in {"Write", "Check"} =>
       pollResult >= Cardinality(RestOf(netEventBuffer, i + 1, revents))

LEMMA RestNext ==
  ASSUME NEW q \in Seq(Conns), NEW j \in Nat \ {0}, NEW reports
  PROVE  /\ IsFiniteSet(RestOf(q, j, reports))
         /\ Cardinality(RestOf(q, j, reports)) \in Nat
         /\ Cardinality(RestOf(q, j + 1, reports)) \in Nat
         /\ Cardinality(RestOf(q, j + 1, reports)) <= Cardinality(RestOf(q, j, reports))
         /\ j <= Len(q) /\ reports[q[j]] # {} =>
              Cardinality(RestOf(q, j, reports)) = Cardinality(RestOf(q, j + 1, reports)) + 1
<1>. DEFINE R == RestOf(q, j, reports)
            S == RestOf(q, j + 1, reports)
            n == Len(q)
<1>1. n \in Nat /\ j \in Nat /\ j + 1 \in Nat
  BY LenProperties
<1>2. /\ IsFiniteSet(j..n) /\ R \in SUBSET (j..n)
      /\ S \in SUBSET R /\ j \notin S
      /\ j <= n /\ reports[q[j]] # {} => R = S \cup {j}
  <2>1. IsFiniteSet(j..n)
    BY <1>1, FS_Interval
  <2>2. R = {k \in j..n : reports[q[k]] # {}} /\ S = {k \in j + 1..n : reports[q[k]] # {}}
    BY DEF RestOf
  <2>3. R \in SUBSET (j..n) /\ S \in SUBSET R /\ j \notin S
    BY <1>1, <2>2
  <2>4. ASSUME j <= n, reports[q[j]] # {}  PROVE R = S \cup {j}
    <3>1. \A k : k \in j..n <=> k = j \/ k \in j + 1..n
      BY <1>1, <2>4
    <3>. QED  BY <2>2, <2>4, <3>1
  <2>. QED  BY <2>1, <2>3, <2>4
<1>. HIDE DEF R, S, n
<1>3. IsFiniteSet(R) /\ IsFiniteSet(S) /\ Cardinality(S) <= Cardinality(R)
  BY <1>2, FS_Subset
<1>4. Cardinality(R) \in Nat /\ Cardinality(S) \in Nat
  BY <1>3, FS_CardinalityType
<1>5. j <= n /\ reports[q[j]] # {} => Cardinality(R) = Cardinality(S) + 1
  BY <1>2, <1>3, FS_AddElement
<1>. QED  BY <1>3, <1>4, <1>5 DEF R, S, n

(* A removal at n lets no more sockets follow n than followed it before.    *)
LEMMA RestRemoved ==
  ASSUME NEW q \in Seq(Conns), NEW n \in 1..Len(q), NEW reports
  PROVE  Cardinality(RestOf(RemoveAt(q, n), n + 1, reports))
           <= Cardinality(RestOf(q, n + 1, reports))
<1>. DEFINE r == RemoveAt(q, n)
            R == RestOf(r, n + 1, reports)
            S == RestOf(q, n + 1, reports)
            f == [k \in R |-> k + 1]
            m == Len(q)
<1>1. /\ m \in Nat /\ Len(r) = m - 1 /\ n \in Nat \ {0} /\ n + 1 \in Nat \ {0}
      /\ \A k \in 1..Len(r) : r[k] = IF k < n THEN q[k] ELSE q[k + 1]
  BY RemovedIndex
<1>2. /\ R = {k \in n + 1..Len(r) : reports[r[k]] # {}}
      /\ S = {k \in n + 1..m : reports[q[k]] # {}}
  BY DEF RestOf
<1>. HIDE DEF r, R, S, m
<1>3. ASSUME NEW k \in R  PROVE k + 1 \in S /\ k \in Int
  <2>. HIDE DEF f
  <2>1. k \in n + 1..Len(r) /\ reports[r[k]] # {}
    BY <1>2
  <2>2. k \in Int /\ k \in 1..Len(r) /\ ~(k < n) /\ k + 1 \in n + 1..m
    BY <1>1, <2>1
  <2>3. r[k] = q[k + 1]
    BY <1>1, <2>2
  <2>. QED  BY <1>2, <2>1, <2>2, <2>3
<1>4. f \in [R -> S] /\ \A j, k \in R : f[j] = f[k] => j = k
  BY <1>3
<1>5. f \in Injection(R, S)
  BY <1>4, Fun_IsInj
<1>6. IsFiniteSet(S)
  BY <1>1, RestNext DEF S
<1>. HIDE DEF f
<1>. QED  BY <1>5, <1>6, FS_Injection DEF R, S, r

(* What WaitForEvents counts covers the sockets it reported, whether it     *)
(* counts the sockets or the sets they are in.                              *)
LEMMA RestReported ==
  ASSUME NEW q \in Seq(Conns), Distinct(q), NEW reports \in [Conns -> SUBSET Events],
         \A c \in Conns : reports[c] # {} => c \in From(q, 1)
  PROVE  /\ Count(reports) \in Nat
         /\ Count(reports) >= Cardinality(RestOf(q, 1, reports))
<1>. DEFINE R == RestOf(q, 1, reports)
            C == {c \in Conns : reports[c] # {}}
            P == {r \in Conns \X Events : r[2] \in reports[r[1]]}
            f == [k \in R |-> q[k]]
            g == [k \in R |-> <<q[k], CHOOSE e \in reports[q[k]] : TRUE>>]
            n == Len(q)
<1>1. /\ n \in Nat
      /\ R = {k \in 1..n : reports[q[k]] # {}}
      /\ \A k \in 1..n : q[k] \in Conns
      /\ From(q, 1) = {q[k] : k \in 1..n}
      /\ \A j, k \in 1..n : q[j] = q[k] => j = k
  BY LenProperties, ElementOfSeq DEF RestOf, From, Distinct
<1>2. IsFiniteSet(R)
  BY RestNext
<1>. HIDE DEF R, n
<1>3. f \in [R -> C] /\ (\A j, k \in R : f[j] = f[k] => j = k) /\ \A c \in C : \E k \in R : f[k] = c
  <2>1. ASSUME NEW c \in C  PROVE \E k \in R : q[k] = c
    BY <1>1, <2>1
  <2>. QED  BY <1>1, <2>1
<1>4. g \in [R -> P] /\ \A j, k \in R : g[j] = g[k] => j = k
  <2>1. ASSUME NEW k \in R
        PROVE  /\ q[k] \in Conns
               /\ (CHOOSE e \in reports[q[k]] : TRUE) \in reports[q[k]]
               /\ (CHOOSE e \in reports[q[k]] : TRUE) \in Events
    BY <1>1, <2>1
  <2>2. ASSUME NEW k \in R  PROVE g[k] \in P
    BY <2>1
  <2>3. ASSUME NEW j \in R, NEW k \in R, g[j] = g[k]  PROVE j = k
    BY <1>1, <2>3
  <2>. QED  BY <2>2, <2>3
<1>5. f \in Surjection(R, C) /\ f \in Injection(R, C) /\ g \in Injection(R, P)
  BY <1>3, <1>4, Fun_IsSurj, Fun_IsInj
<1>6. P \in SUBSET (C \X Events)
  OBVIOUS
<1>. HIDE DEF f, g, C, P
<1>7. IsFiniteSet(C)
  BY <1>2, <1>5, FS_Surjection
<1>8. IsFiniteSet(Events)
  <2>1. IsFiniteSet({} \cup {"Read"})
    BY FS_EmptySet, FS_AddElement
  <2>2. IsFiniteSet(({} \cup {"Read"}) \cup {"Write"})
    BY <2>1, FS_AddElement
  <2>3. IsFiniteSet((({} \cup {"Read"}) \cup {"Write"}) \cup {"Except"})
    BY <2>2, FS_AddElement
  <2>4. IsFiniteSet(((({} \cup {"Read"}) \cup {"Write"}) \cup {"Except"}) \cup {"Disconnect"})
    BY <2>3, FS_AddElement
  <2>5. Events = ((({} \cup {"Read"}) \cup {"Write"}) \cup {"Except"}) \cup {"Disconnect"}
    BY DEF Events
  <2>. QED  BY <2>4, <2>5
<1>9. IsFiniteSet(P)
  BY <1>6, <1>7, <1>8, FS_Product, FS_Subset
<1>10. /\ Cardinality(C) \in Nat /\ Cardinality(R) <= Cardinality(C)
       /\ Cardinality(P) \in Nat /\ Cardinality(R) <= Cardinality(P)
       /\ Cardinality(R) \in Nat
  BY <1>2, <1>5, <1>7, <1>9, FS_Injection, FS_CardinalityType
<1>11. Count(reports) = IF kind = "Poll" THEN Cardinality(C) ELSE Cardinality(P)
  BY DEF Count, C, P
<1>. QED  BY <1>10, <1>11 DEF R

LEMMA BufferStep ==
  ASSUME LivesOK, BufferOK, [Next]_vars
  PROVE  BufferOK'
<1>1. \A c \in Conns : status[c] # "none" => status'[c] # "none"
  <2>1. [Server!ServerNext]_(Server!serverVars)
    BY ServesStep
  <2>2. status \in [Conns -> {"none", "Init", "MarkForClose", "Closed"}]
    BY DEF LivesOK
  <2>. QED  BY <2>1, <2>2 DEF Server!ServerNext, Server!serverVars, Server!AddConnection,
            Server!ChangeStateToClose, Server!Update, Server!Destroy
<1>2. netEventBuffer \in Seq(Conns) /\ Len(netEventBuffer) \in Nat
  BY LenProperties DEF LivesOK
<1>3. From(netEventBuffer, 1) \subseteq Conns
  BY <1>2, ElementOfSeq DEF From
<1>4. CASE UNCHANGED netEventBuffer
  <2>1. /\ Distinct(netEventBuffer)' = Distinct(netEventBuffer)
        /\ From(netEventBuffer, 1)' = From(netEventBuffer, 1)
    BY <1>4 DEF Distinct, From
  <2>. QED  BY <1>1, <1>3, <2>1 DEF BufferOK
<1>5. CASE \E c \in Conns, added \in BOOLEAN : Added(c, added)
  <2>1. PICK c \in Conns, added \in BOOLEAN : Added(c, added)
    BY <1>5
  <2>2. CASE added
    <3>1. /\ netEventBuffer' = Append(netEventBuffer, c)
          /\ status' = [status EXCEPT ![c] = "Init"]
          /\ status[c] = "none"
      BY <2>1, <2>2, AddedLives DEF Added, AddConnection, Server!AddConnection
    <3>2. c \notin From(netEventBuffer, 1)
      BY <3>1 DEF BufferOK
    <3>3. /\ From(Append(netEventBuffer, c), 1) = From(netEventBuffer, 1) \cup {c}
          /\ Distinct(Append(netEventBuffer, c))
      BY <1>2, <3>2, AppendedSocket DEF BufferOK
    <3>4. /\ Distinct(netEventBuffer)' = Distinct(Append(netEventBuffer, c))
          /\ From(netEventBuffer, 1)' = From(Append(netEventBuffer, c), 1)
      BY <3>1 DEF Distinct, From
    <3>5. \A d \in From(netEventBuffer, 1) \cup {c} : status'[d] # "none"
      BY <1>1, <1>3, <3>1 DEF BufferOK, LivesOK
    <3>. QED  BY <3>3, <3>4, <3>5 DEF BufferOK
  <2>3. CASE ~added
    BY <1>4, <2>1, <2>3 DEF Added, AddConnection
  <2>. QED  BY <2>2, <2>3
<1>6. CASE Removal
  <2>1. i \in 1..Len(netEventBuffer) /\ netEventBuffer' = RemoveAt(netEventBuffer, i)
    BY <1>6, RemovalFacts
  <2>2. /\ Distinct(RemoveAt(netEventBuffer, i))
        /\ From(RemoveAt(netEventBuffer, i), 1) \subseteq From(netEventBuffer, 1)
    BY <1>2, <2>1, RemovedSocket DEF BufferOK
  <2>3. /\ Distinct(netEventBuffer)' = Distinct(RemoveAt(netEventBuffer, i))
        /\ From(netEventBuffer, 1)' = From(RemoveAt(netEventBuffer, i), 1)
    BY <2>1 DEF Distinct, From
  <2>. QED  BY <1>1, <1>3, <2>2, <2>3 DEF BufferOK
<1>7. CASE \/ PeerStep \/ UNCHANGED vars \/ OtherStep \/ (\E c \in Conns : Refused(c))
           \/ Update \/ DisconnectAll \/ Destroy
  <2>1. UNCHANGED netEventBuffer
    BY <1>7 DEF PeerStep, Outside, vars, managerVars, OtherStep, Refused, Update, DisconnectAll,
       Destroy
  <2>. QED  BY <1>4, <2>1
<1>. QED  BY <1>5, <1>6, <1>7, StepCases

(* The steps once more, for the loop's own variables                        *)
LoopStep ==
  \/ UNCHANGED <<pc, i, pollResult, revents, netEventBuffer>>
  \/ pc' \notin {"Read", "Write", "Check"} /\ pollResult' \in {pollResult, 0}
  \/ WaitForEvents /\ UNCHANGED <<kind, netEventBuffer>>
  \/ /\ pc = "Read" /\ i <= Len(netEventBuffer) /\ pollResult # 0
     /\ pollResult' = AfterIsChanged(pollResult)
     /\ \/ pc' = "Write" /\ UNCHANGED <<i, revents, netEventBuffer>>
        \/ Removal
  \/ pc = "Write" /\ pc' = "Check" /\ UNCHANGED <<i, pollResult, revents, netEventBuffer>>
  \/ /\ pc = "Check" /\ pc' = "Read" /\ i' = i + 1
     /\ UNCHANGED <<pollResult, revents, netEventBuffer>>
  \/ pc \in {"Write", "Check"} /\ UNCHANGED pollResult /\ Removal

LEMMA LoopCases ==
  ASSUME LivesOK, [Next]_vars
  PROVE  LoopStep
<1>. USE DEF LoopStep, ControlOnly, GoTo, Halt, managerVars, loopVars
<1>1. CASE PeerStep \/ Terminated \/ UNCHANGED vars
  BY <1>1 DEF PeerStep, Outside, Terminated, vars
<1>2. CASE ServerStep
  <2>1. UNCHANGED kind
    BY <1>2 DEF ServerStep
  <2>2. CASE \/ AcceptNothing \/ (\E c \in Conns : Accept(c) \/ AcceptFails(c))
             \/ NoSockets \/ ProcessSend \/ WaitFails \/ ScanEnds
             \/ Update \/ (\E c \in Conns : Send(c)) \/ NotDue \/ DisconnectAll \/ Destroy
    BY <2>2 DEF AcceptNothing, Accept, AcceptFails, LenetError, NoSockets, ProcessSend, WaitFails,
       ScanEnds, Update, Send, NotDue, DisconnectAll, Destroy
  <2>3. CASE WaitForEvents
    BY <2>1, <2>3 DEF WaitForEvents
  <2>4. CASE NotReadable
    BY <2>4 DEF NotReadable, InScan
  <2>5. CASE \E chunk \in ReceivePath!Kinds : Read(chunk)
    BY <2>5 DEF Read, InScan
  <2>6. CASE ReadFails
    <3>1. CASE Halt
      BY <3>1
    <3>2. CASE ~Halt
      BY <2>1, <2>6, <3>2 DEF ReadFails, LenetError, InScan, Removal, Scanning
    <3>. QED  BY <3>1, <3>2
  <2>7. CASE NotWritable
    BY <2>7 DEF NotWritable
  <2>8. CASE Write
    BY <2>8 DEF Write
  <2>9. CASE WriteFails \/ Disconnection \/ Exception
    <3>1. CASE Halt
      BY <3>1
    <3>2. CASE ~Halt
      BY <2>1, <2>9, <3>2 DEF WriteFails, Disconnection, Exception, LenetError, Removal, Scanning,
         LivesOK
    <3>. QED  BY <3>1, <3>2
  <2>10. CASE NothingMore
    BY <2>10 DEF NothingMore, NextSocket, NextIndex
  <2>. QED  BY <1>2, <2>2, <2>3, <2>4, <2>5, <2>6, <2>7, <2>8, <2>9, <2>10 DEF ServerStep
<1>. QED  BY <1>1, <1>2 DEF Next

(* A new scan starts with a budget for all the sockets reported.            *)
LEMMA WaitBudget ==
  ASSUME LivesOK, BufferOK, WaitForEvents, UNCHANGED <<kind, netEventBuffer>>
  PROVE  BudgetOK'
<1>. DEFINE sockets == ToSet(netEventBuffer)
            open == {r \in sockets \X Events : r[2] \in Possible(r[1])}
<1>1. PICK extra \in SUBSET open :
        LET reports == [s \in Conns |->
              IF s \in sockets THEN Certain(s) \cup {e \in Events : <<s, e>> \in extra} ELSE {}]
        IN
        /\ pollResult' = Count(reports)
        /\ revents' = reports
        /\ pc' = IF pollResult' = 0 THEN "Update" ELSE "Read"
  BY DEF WaitForEvents
<1>2. i' = 1
  BY DEF WaitForEvents
<1>3. /\ netEventBuffer \in Seq(Conns) /\ Distinct(netEventBuffer)
      /\ From(netEventBuffer, 1) = sockets
  <2>1. netEventBuffer \in Seq(Conns)
    BY DEF LivesOK
  <2>2. DOMAIN netEventBuffer = 1..Len(netEventBuffer)
    BY <2>1, LenProperties
  <2>. QED  BY <2>1, <2>2 DEF From, ToSet, BufferOK
<1>4. /\ revents' \in [Conns -> SUBSET Events]
      /\ \A c \in Conns : revents'[c] # {} => c \in sockets
  <2>1. \A s : Certain(s) \subseteq Events
    BY DEF Certain
  <2>. HIDE DEF sockets, open
  <2>. QED  BY <1>1, <2>1
<1>5. pollResult' = Count(revents') /\ pc' \in {"Update", "Read"}
  BY <1>1
<1>6. /\ Count(revents') \in Nat
      /\ Count(revents') >= Cardinality(RestOf(netEventBuffer, 1, revents'))
  <2>. DEFINE reports == revents'
  <2>1. reports \in [Conns -> SUBSET Events] /\ \A c \in Conns : reports[c] # {} => c \in From(netEventBuffer, 1)
    BY <1>3, <1>4
  <2>. HIDE DEF reports
  <2>2. /\ Count(reports) \in Nat
        /\ Count(reports) >= Cardinality(RestOf(netEventBuffer, 1, reports))
    BY <1>3, <2>1, RestReported
  <2>. QED  BY <2>2 DEF reports
<1>. QED  BY <1>2, <1>5, <1>6 DEF BudgetOK, RestOf

(* The socket at i is counted when it was reported, at the latest when it  *)
(* is removed, and not twice.                                               *)
LEMMA BudgetStep ==
  ASSUME LivesOK, BufferOK, BudgetOK, [Next]_vars
  PROVE  BudgetOK'
<1>. DEFINE q == netEventBuffer
            Rest(j) == Cardinality(RestOf(q, j, revents))
            Scans == pc' \in {"Read", "Write", "Check"}
<1>1. /\ q \in Seq(Conns) /\ i \in Nat \ {0} /\ i + 1 \in Nat \ {0}
      /\ pollResult \in Nat /\ Len(q) \in Nat
  BY LenProperties DEF LivesOK, BudgetOK
<1>2. /\ Rest(i) \in Nat /\ Rest(i + 1) \in Nat /\ Rest(i + 1) <= Rest(i)
      /\ i <= Len(q) /\ netEvent # {} => Rest(i) = Rest(i + 1) + 1
  BY <1>1, RestNext DEF netEvent
<1>3. /\ pc = "Read" => pollResult >= Rest(i)
      /\ pc \in {"Write", "Check"} => pollResult >= Rest(i + 1)
  BY DEF BudgetOK
<1>4. /\ BudgetOK' <=> /\ pollResult' \in Nat
                       /\ pc' = "Read" => pollResult' >= Cardinality(RestOf(q', i', revents'))
                       /\ pc' \in {"Write", "Check"} =>
                            pollResult' >= Cardinality(RestOf(q', i' + 1, revents'))
  BY DEF BudgetOK, RestOf
<1>5. ASSUME Removal
      PROVE  /\ i \in 1..Len(q) /\ pc' = "Read"
             /\ Cardinality(RestOf(q', i', revents')) \in Nat
             /\ Cardinality(RestOf(q', i', revents')) <= Rest(i + 1)
  <2>1. i \in 1..Len(q) /\ q' = RemoveAt(q, i) /\ i' = i + 1 /\ revents' = revents /\ pc' = "Read"
    BY <1>5, RemovalFacts
  <2>2. Cardinality(RestOf(RemoveAt(q, i), i + 1, revents)) <= Rest(i + 1)
    BY <1>1, <2>1, RestRemoved
  <2>3. Cardinality(RestOf(RemoveAt(q, i), i + 1, revents)) \in Nat
    BY <1>1, <2>1, RemovedIndex, RestNext
  <2>. QED  BY <2>1, <2>2, <2>3
<1>6. ASSUME pc = "Read", i <= Len(q), pollResult # 0, pollResult' = AfterIsChanged(pollResult)
      PROVE  pollResult' \in Nat /\ pollResult' >= Rest(i + 1)
  <2>. HIDE DEF Rest, q
  <2>1. CASE netEvent # {}
    <3>1. pollResult' = pollResult - 1
      BY <1>6, <2>1 DEF AfterIsChanged
    <3>2. Rest(i) = Rest(i + 1) + 1 /\ pollResult >= Rest(i)
      BY <1>2, <1>3, <1>6, <2>1
    <3>. QED  BY <1>1, <1>2, <3>1, <3>2
  <2>2. CASE netEvent = {}
    <3>1. pollResult' = pollResult /\ pollResult >= Rest(i)
      BY <1>3, <1>6, <2>2 DEF AfterIsChanged
    <3>. QED  BY <1>1, <1>2, <3>1
  <2>. QED  BY <2>1, <2>2
<1>7. CASE UNCHANGED <<pc, i, pollResult, revents, netEventBuffer>>
  BY <1>1, <1>3, <1>4, <1>7
<1>8. CASE pc' \notin {"Read", "Write", "Check"} /\ pollResult' \in {pollResult, 0}
  BY <1>1, <1>4, <1>8
<1>9. CASE WaitForEvents /\ UNCHANGED <<kind, netEventBuffer>>
  BY <1>9, WaitBudget
<1>10. CASE /\ pc = "Read" /\ i <= Len(netEventBuffer) /\ pollResult # 0
            /\ pollResult' = AfterIsChanged(pollResult)
            /\ pc' = "Write" /\ UNCHANGED <<i, revents, netEventBuffer>>
  <2>1. pollResult' \in Nat /\ pollResult' >= Rest(i + 1)
    BY <1>6, <1>10
  <2>. QED  BY <1>4, <1>10, <2>1
<1>11. CASE /\ pc = "Read" /\ i <= Len(netEventBuffer) /\ pollResult # 0
            /\ pollResult' = AfterIsChanged(pollResult)
            /\ Removal
  <2>1. pollResult' \in Nat /\ pollResult' >= Rest(i + 1)
    BY <1>6, <1>11
  <2>2. /\ pc' = "Read"
        /\ Cardinality(RestOf(q', i', revents')) \in Nat
        /\ Cardinality(RestOf(q', i', revents')) <= Rest(i + 1)
    BY <1>5, <1>11
  <2>. HIDE DEF Rest, q
  <2>. QED  BY <1>2, <1>4, <2>1, <2>2
<1>12. CASE pc = "Write" /\ pc' = "Check" /\ UNCHANGED <<i, pollResult, revents, netEventBuffer>>
  BY <1>1, <1>3, <1>4, <1>12
<1>13. CASE /\ pc = "Check" /\ pc' = "Read" /\ i' = i + 1
            /\ UNCHANGED <<pollResult, revents, netEventBuffer>>
  BY <1>1, <1>3, <1>4, <1>13
<1>14. CASE pc \in {"Write", "Check"} /\ UNCHANGED pollResult /\ Removal
  <2>1. /\ pc' = "Read"
        /\ Cardinality(RestOf(q', i', revents')) \in Nat
        /\ Cardinality(RestOf(q', i', revents')) <= Rest(i + 1)
    BY <1>5, <1>14
  <2>2. pollResult' \in Nat /\ pollResult' >= Rest(i + 1)
    BY <1>1, <1>3, <1>14
  <2>. HIDE DEF Rest, q
  <2>. QED  BY <1>2, <1>4, <2>1, <2>2
<1>. QED  BY <1>7, <1>8, <1>9, <1>10, <1>11, <1>12, <1>13, <1>14, LoopCases DEF LoopStep

LEMMA BudgetHolds == Spec => []BudgetOK
<1>1. Init => BufferOK /\ BudgetOK
  <2>. SUFFICES ASSUME Init  PROVE BufferOK /\ BudgetOK
    OBVIOUS
  <2>1. netEventBuffer = <<>> /\ pc = "Accept" /\ pollResult = 0 /\ Len(<<>>) = 0
    BY DEF Init
  <2>2. From(netEventBuffer, 1) = {} /\ Distinct(netEventBuffer)
    BY <2>1 DEF From, Distinct
  <2>. QED  BY <2>1, <2>2 DEF BufferOK, BudgetOK
<1>2. LivesOK /\ BufferOK /\ BudgetOK /\ [Next]_vars => BufferOK' /\ BudgetOK'
  BY BufferStep, BudgetStep
<1>. QED  BY <1>1, <1>2, LivesHold, PTL DEF Spec

(* `if (pollResult == 0) break` never ends the scan before a socket that   *)
(* was reported, although removals move and skip sockets and select counts  *)
(* a socket once for each set it is in.                                     *)
THEOREM BudgetCovers == Spec => []BudgetCoversTheRest
<1>1. BudgetOK => BudgetCoversTheRest
  BY DEF BudgetOK, BudgetCoversTheRest, RestOf
<1>. QED  BY <1>1, BudgetHolds, PTL

-----------------------------------------------------------------------------
(* The receiving half.  A connection has a list of buffers while its        *)
(* context exists, and the pool never creates more buffers than the         *)
(* connections accepted so far have taken: with room for all of them        *)
(* (BuffersSuffice), the bound of the model is never in the way, and every  *)
(* call of StartRead and Read is one that NetReceivePath allows.            *)
ReceiveFacts == INSTANCE NetReceivePathProofs

BuffersSuffice == ReceiveFacts!ReceiveAssumption /\ ReceiveFacts!PoolSuffices

Accepted == {c \in Conns : status[c] # "none"}

ListsOK ==
  /\ unread \in [Conns -> Nat]
  /\ \A c \in Conns : chunks[c] + unread[c] <= MaxChunks
  /\ \A c \in Conns : buffers[c] # <<>> <=> c \in From(socketContexts, 1)
  /\ ReceiveFacts!PoolBounded(pool, Accepted, chunks)

(* Both instances of NetReceivePath say the same.                           *)
LEMMA SameReceive ==
  /\ ReceivePath!Kinds = ReceiveFacts!Kinds
  /\ \A c : ReceivePath!StartRead(c) <=> ReceiveFacts!StartRead(c)
  /\ \A c, chunk : ReceivePath!Read(c, chunk) <=> ReceiveFacts!Read(c, chunk)
  /\ \A S : ReceivePath!HandOver(S) <=> ReceiveFacts!HandOver(S)
  /\ \A S : ReceivePath!DropReads(S) <=> ReceiveFacts!DropReads(S)
<1>1. ReceivePath!Kinds = ReceiveFacts!Kinds
  BY DEF ReceivePath!Kinds, ReceiveFacts!Kinds
<1>2. \A c : ReceivePath!StartRead(c) <=> ReceiveFacts!StartRead(c)
  BY DEF ReceivePath!StartRead, ReceiveFacts!StartRead, ReceivePath!TakenBuffer,
     ReceiveFacts!TakenBuffer, ReceivePath!AfterTake, ReceiveFacts!AfterTake
<1>3. \A c, chunk : ReceivePath!Read(c, chunk) <=> ReceiveFacts!Read(c, chunk)
  BY DEF ReceivePath!Read, ReceiveFacts!Read, ReceivePath!TakenBuffer, ReceiveFacts!TakenBuffer,
     ReceivePath!AfterTake, ReceiveFacts!AfterTake, ReceivePath!NetBuffer, ReceiveFacts!NetBuffer,
     ReceivePath!Filled, ReceiveFacts!Filled, ReceivePath!PoolAfterRead, ReceiveFacts!PoolAfterRead,
     ReceivePath!ReturnBuffers, ReceiveFacts!ReturnBuffers, ReceivePath!ListAfterRead,
     ReceiveFacts!ListAfterRead, ReceivePath!Message, ReceiveFacts!Message,
     ReceivePath!Last, ReceiveFacts!Last
<1>4. \A S : ReceivePath!HandOver(S) <=> ReceiveFacts!HandOver(S)
  BY DEF ReceivePath!HandOver, ReceiveFacts!HandOver, ReceivePath!HandedOver,
     ReceiveFacts!HandedOver, ReceivePath!Last, ReceiveFacts!Last
<1>5. \A S : ReceivePath!DropReads(S) <=> ReceiveFacts!DropReads(S)
  BY DEF ReceivePath!DropReads, ReceiveFacts!DropReads
<1>. QED  BY <1>1, <1>2, <1>3, <1>4, <1>5

LEMMA SameReceiveSpec ==
  /\ ReceivePath!ReceiveInit <=> ReceiveFacts!ReceiveInit
  /\ [ReceivePath!ReceiveNext]_(ReceivePath!receiveVars)
       <=> [ReceiveFacts!ReceiveNext]_(ReceiveFacts!receiveVars)
<1>1. ReceivePath!ReceiveInit <=> ReceiveFacts!ReceiveInit
  BY DEF ReceivePath!ReceiveInit, ReceiveFacts!ReceiveInit, ReceivePath!NewPool,
     ReceiveFacts!NewPool, ReceivePath!Buffers, ReceiveFacts!Buffers
<1>2. \A p : ReceivePath!MayTake(p) <=> ReceiveFacts!MayTake(p)
  BY DEF ReceivePath!MayTake, ReceiveFacts!MayTake, ReceivePath!TakenBuffer,
     ReceiveFacts!TakenBuffer
<1>3. \A p, list, chunk :
        ReceivePath!PoolAfterRead(p, list, chunk) = ReceiveFacts!PoolAfterRead(p, list, chunk)
  BY DEF ReceivePath!PoolAfterRead, ReceiveFacts!PoolAfterRead, ReceivePath!ReturnBuffers,
     ReceiveFacts!ReturnBuffers
<1>4. ReceivePath!ReceiveNext <=> ReceiveFacts!ReceiveNext
  BY <1>2, <1>3, SameReceive DEF ReceivePath!ReceiveNext, ReceiveFacts!ReceiveNext
<1>5. UNCHANGED ReceivePath!receiveVars <=> UNCHANGED ReceiveFacts!receiveVars
  BY DEF ReceivePath!receiveVars, ReceiveFacts!receiveVars
<1>. QED  BY <1>1, <1>4, <1>5

ReadsInv == ListsOK /\ ReceiveFacts!ReceiveInv

LEMMA ReadsInit == ASSUME BuffersSuffice  PROVE Init => ReadsInv
<1>. SUFFICES ASSUME Init  PROVE ReadsInv
  OBVIOUS
<1>1. /\ unread = [c \in Conns |-> 0] /\ chunks = [c \in Conns |-> 0]
      /\ buffers = [c \in Conns |-> <<>>] /\ socketContexts = <<>>
      /\ pool.buffers = InitialBuffers
      /\ ReceiveFacts!ReceiveInit
  BY SameReceiveSpec DEF Init, Peers!PeersInit, ReceivePath!ReceiveInit, ReceivePath!NewPool
<1>2. ReceiveFacts!ReceiveInv
  BY <1>1, ReceiveFacts!ReceiveInvInit DEF BuffersSuffice
<1>3. From(socketContexts, 1) = {}
  BY <1>1 DEF From
<1>4. ReceiveFacts!PoolBounded(pool, Accepted, chunks)
  <2>. DEFINE n == ReceiveFacts!Cardinality(ReceiveFacts!Taken(Accepted, chunks))
  <2>1. n \in Nat /\ InitialBuffers \in Nat
    BY ReceiveFacts!TakenBound DEF BuffersSuffice, ReceiveFacts!ReceiveAssumption
  <2>. HIDE DEF n
  <2>2. pool.buffers <= InitialBuffers + n
    BY <1>1, <2>1
  <2>. QED  BY <2>2 DEF ReceiveFacts!PoolBounded, n
<1>5. 0 <= MaxChunks
  BY DEF BuffersSuffice, ReceiveFacts!ReceiveAssumption
<1>. QED  BY <1>1, <1>2, <1>3, <1>4, <1>5 DEF ReadsInv, ListsOK

(* The receiving half of a step that leaves it alone                        *)
LEMMA ReadsUnchanged ==
  ASSUME ReadsInv, UNCHANGED receiveVars,
         unread' \in [Conns -> Nat], \A c \in Conns : chunks[c] + unread'[c] <= MaxChunks,
         Accepted' = Accepted, From(socketContexts, 1)' = From(socketContexts, 1)
  PROVE  ListsOK' /\ UNCHANGED ReceivePath!receiveVars
<1>1. UNCHANGED <<pool, buffers, content, chunks, receivedMessages, handedOver>>
  BY DEF receiveVars
<1>2. ReceiveFacts!PoolBounded(pool, Accepted, chunks)'
        = ReceiveFacts!PoolBounded(pool, Accepted, chunks)
  BY <1>1 DEF ReceiveFacts!PoolBounded, ReceiveFacts!Taken
<1>. QED  BY <1>1, <1>2 DEF ReadsInv, ListsOK, ReceivePath!receiveVars

LEMMA PeersReads ==
  ASSUME BuffersSuffice, ReadsInv, PeerStep
  PROVE  /\ unread' \in [Conns -> Nat]
         /\ \A c \in Conns : chunks[c] + unread'[c] <= MaxChunks
<1>1. PICK c \in Conns :
        \/ UNCHANGED unread
        \/ chunks[c] + unread[c] < MaxChunks /\ unread' = [unread EXCEPT ![c] = unread[c] + 1]
        \/ unread' = [unread EXCEPT ![c] = 0]
  <2>1. PICK c \in Conns :
          \/ PeerSendsUrgent(c) \/ PeerReads(c)
          \/ Peers!Connects(c)
          \/ chunks[c] + unread[c] < MaxChunks /\ Peers!Sends(c)
          \/ Peers!Closes(c) \/ Peers!Breaks(c, "rst") \/ Peers!Breaks(c, "lost")
    BY DEF PeerStep
  <2>. QED  BY <2>1 DEF PeerSendsUrgent, PeerReads, Peers!Connects, Peers!Sends, Peers!Closes,
            Peers!Breaks
<1>2. /\ unread \in [Conns -> Nat] /\ chunks \in [Conns -> Nat]
      /\ \A d \in Conns : chunks[d] + unread[d] <= MaxChunks
  BY DEF ReadsInv, ListsOK, ReceiveFacts!ReceiveInv, ReceiveFacts!ReceiveTypeOK
<1>3. unread' \in [Conns -> Nat]
  BY <1>1, <1>2
<1>4. ASSUME NEW d \in Conns  PROVE chunks[d] + unread'[d] <= MaxChunks
  <2>1. /\ chunks[d] \in Nat /\ unread[d] \in Nat /\ unread'[d] \in Nat
        /\ MaxChunks \in Nat /\ chunks[d] + unread[d] <= MaxChunks
    BY <1>2, <1>3 DEF BuffersSuffice, ReceiveFacts!ReceiveAssumption
  <2>2. \/ unread'[d] = unread[d]
        \/ chunks[d] + unread[d] < MaxChunks /\ unread'[d] = unread[d] + 1
        \/ unread'[d] = 0
    BY <1>1, <1>2
  <2>. QED  BY <2>1, <2>2
<1>. QED  BY <1>3, <1>4

LEMMA ReadsTypes ==
  ASSUME ReadsInv
  PROVE  /\ chunks \in [Conns -> Nat] /\ buffers \in [Conns -> Seq(Nat)]
         /\ unread \in [Conns -> Nat]
         /\ \A c \in Conns : chunks[c] + unread[c] <= MaxChunks
         /\ \A c \in Conns : buffers[c] # <<>> <=> c \in From(socketContexts, 1)
         /\ ReceiveFacts!PoolBounded(pool, Accepted, chunks)
BY DEF ReadsInv, ListsOK, ReceiveFacts!ReceiveInv, ReceiveFacts!ReceiveTypeOK

(* The same of the steps that call StartRead, Read, HandOver and DropReads  *)
LEMMA AddedReads ==
  ASSUME BuffersSuffice, LivesOK, ReadsInv, NEW c \in Conns, NEW added, Added(c, added)
  PROVE  ListsOK' /\ ReceiveFacts!ReceiveNext
<1>1. /\ status[c] = "none" /\ status' = [status EXCEPT ![c] = "Init"]
      /\ c \notin From(socketContexts, 1)
      /\ socketContexts' = Append(socketContexts, c)
      /\ unread' = unread
      /\ ReceivePath!StartRead(c)
  BY AddedLives DEF Added, AddConnection, FirstRead, Server!AddConnection
<1>2. Accepted' = Accepted \cup {c} /\ c \notin Accepted
  BY <1>1 DEF Accepted, LivesOK
<1>3. ReceiveFacts!StartRead(c)
  BY <1>1, SameReceive
<1>4. /\ ReceiveFacts!MayTake(pool)
      /\ ReceiveFacts!PoolBounded(pool', Accepted \cup {c}, chunks')
  BY <1>2, <1>3, ReadsTypes, ReceiveFacts!BoundedStartRead DEF BuffersSuffice, ReadsInv
<1>5. buffers[c] = <<>>
  BY <1>1, ReadsTypes
<1>6. /\ chunks' = chunks
      /\ buffers' = [buffers EXCEPT ![c] = <<ReceiveFacts!TakenBuffer(pool)>>]
  BY <1>3 DEF ReceiveFacts!StartRead
<1>7. From(socketContexts, 1)' = From(socketContexts, 1) \cup {c}
  <2>1. From(Append(socketContexts, c), 1) = From(socketContexts, 1) \cup {c}
    BY AppendedSocket DEF LivesOK
  <2>. QED  BY <1>1, <2>1 DEF From
<1>8. \A d \in Conns : buffers'[d] # <<>> <=> d \in From(socketContexts, 1) \cup {c}
  <2>. DEFINE b == ReceiveFacts!TakenBuffer(pool)
  <2>1. <<b>> # <<>>
    OBVIOUS
  <2>. HIDE DEF b
  <2>2. buffers' = [buffers EXCEPT ![c] = <<b>>]
    BY <1>6 DEF b
  <2>. QED  BY <2>1, <2>2, ReadsTypes
<1>9. ReceiveFacts!PoolBounded(pool, Accepted, chunks)'
  BY <1>2, <1>4 DEF ReceiveFacts!PoolBounded, ReceiveFacts!Taken
<1>. QED  BY <1>1, <1>3, <1>4, <1>5, <1>6, <1>7, <1>8, <1>9, ReadsTypes
          DEF ListsOK, ReceiveFacts!ReceiveNext

LEMMA ReadReads ==
  ASSUME BuffersSuffice, LivesOK, ReadsInv, NEW chunk \in ReceivePath!Kinds, Read(chunk)
  PROVE  ListsOK' /\ ReceiveFacts!ReceiveNext
<1>. DEFINE c == current
<1>1. /\ pc = "Read" /\ i <= Len(netEventBuffer) /\ unread[c] > 0
      /\ unread' = [unread EXCEPT ![c] = unread[c] - 1]
      /\ ReceiveFacts!Read(c, chunk) /\ chunk \in ReceiveFacts!Kinds
      /\ UNCHANGED <<status, socketContexts>>
  BY SameReceive DEF Read, InScan, CanReceive, serverVars, managerVars
<1>2. c \in Conns /\ c \in From(socketContexts, 1) /\ c \in Accepted
  <2>1. /\ Len(socketContexts) \in Nat /\ Len(netEventBuffer) \in Nat
        /\ i \in Nat \ {0} /\ Len(netEventBuffer) <= Len(socketContexts)
    BY <1>1, LenProperties DEF LivesOK, InLoop
  <2>2. i \in 1..Len(socketContexts)
    BY <1>1, <2>1
  <2>3. c \in From(socketContexts, 1)
    BY <2>2 DEF From, current
  <2>. QED  BY <2>3 DEF LivesOK, Accepted
<1>. HIDE DEF c
<1>3. /\ chunks[c] \in Nat /\ unread[c] \in Nat /\ MaxChunks \in Nat
      /\ chunks[c] + unread[c] <= MaxChunks
  BY <1>2, ReadsTypes DEF BuffersSuffice, ReceiveFacts!ReceiveAssumption
<1>4. chunks[c] < MaxChunks
  BY <1>1, <1>3
<1>5. buffers[c] # <<>>
  BY <1>2, ReadsTypes
<1>6. /\ ReceiveFacts!MayTake(ReceiveFacts!PoolAfterRead(pool, buffers[c], chunk))
      /\ ReceiveFacts!PoolBounded(pool', Accepted, chunks')
  BY <1>1, <1>2, <1>4, ReadsTypes, ReceiveFacts!BoundedRead DEF BuffersSuffice, ReadsInv
<1>7. chunks' = [chunks EXCEPT ![c] = chunks[c] + 1]
  BY <1>1 DEF ReceiveFacts!Read
<1>8. \A d \in Conns : buffers'[d] # <<>> <=> d \in From(socketContexts, 1)
  <2>. DEFINE list == ReceiveFacts!ListAfterRead(buffers[c], chunk)
              b == ReceiveFacts!TakenBuffer(ReceiveFacts!PoolAfterRead(pool, buffers[c], chunk))
  <2>1. list \in Seq(Nat)
    BY <1>2, ReadsTypes DEF ReceiveFacts!ListAfterRead
  <2>2. buffers' = [buffers EXCEPT ![c] = Append(list, b)]
    BY <1>1 DEF ReceiveFacts!Read
  <2>. HIDE DEF list, b
  <2>3. Append(list, b) # <<>>
    <3>1. list \in Seq(Nat \cup {b})
      <4>1. Len(list) \in Nat /\ \A k \in 1..Len(list) : list[k] \in Nat
        BY <2>1, LenProperties, ElementOfSeq
      <4>2. list \in [1..Len(list) -> Nat \cup {b}]
        BY <2>1, <4>1, LenProperties
      <4>. QED  BY <4>1, <4>2, SeqDef
    <3>. QED  BY <3>1, AppendProperties, EmptySeq
  <2>. QED  BY <1>2, <2>2, <2>3, ReadsTypes
<1>9. \A d \in Conns : chunks'[d] + unread'[d] <= MaxChunks
  <2>. SUFFICES ASSUME NEW d \in Conns  PROVE chunks'[d] + unread'[d] <= MaxChunks
    OBVIOUS
  <2>1. CASE d = c
    <3>1. chunks'[d] = chunks[c] + 1 /\ unread'[d] = unread[c] - 1
      BY <1>1, <1>7, <2>1, ReadsTypes
    <3>. QED  BY <1>3, <3>1
  <2>2. CASE d # c
    BY <1>1, <1>7, <2>2, ReadsTypes
  <2>. QED  BY <2>1, <2>2
<1>10. unread' \in [Conns -> Nat]
  <2>1. unread[c] - 1 \in Nat
    BY <1>1, <1>3
  <2>. QED  BY <1>1, <2>1, ReadsTypes
<1>11. /\ From(socketContexts, 1)' = From(socketContexts, 1)
       /\ Accepted' = Accepted
  BY <1>1 DEF From, Accepted
<1>12. ReceiveFacts!PoolBounded(pool, Accepted, chunks)'
  BY <1>6, <1>11 DEF ReceiveFacts!PoolBounded, ReceiveFacts!Taken
<1>. QED  BY <1>1, <1>2, <1>4, <1>5, <1>6, <1>8, <1>9, <1>10, <1>11, <1>12
          DEF ListsOK, ReceiveFacts!ReceiveNext

LEMMA DropsReads ==
  ASSUME ReadsInv, NEW S \in SUBSET Conns, ReceivePath!DropReads(S), UNCHANGED unread,
         Accepted' = Accepted, From(socketContexts, 1)' = From(socketContexts, 1) \ S
  PROVE  ListsOK' /\ ReceiveFacts!ReceiveNext
<1>1. /\ buffers' = [c \in Conns |-> IF c \in S THEN <<>> ELSE buffers[c]]
      /\ UNCHANGED <<pool, chunks>>
      /\ ReceiveFacts!DropReads(S)
  BY SameReceive DEF ReceivePath!DropReads
<1>2. \A c \in Conns : buffers'[c] # <<>> <=> c \in From(socketContexts, 1) \ S
  BY <1>1, ReadsTypes
<1>3. ReceiveFacts!PoolBounded(pool, Accepted, chunks)'
  BY <1>1, ReadsTypes DEF ReceiveFacts!PoolBounded, ReceiveFacts!Taken
<1>. QED  BY <1>1, <1>2, <1>3, ReadsTypes DEF ListsOK, ReceiveFacts!ReceiveNext

LEMMA UpdateReads ==
  ASSUME LivesOK, ReadsInv, Update
  PROVE  ListsOK' /\ ReceiveFacts!ReceiveNext
<1>1. /\ ReceivePath!HandOver(connections) /\ Server!Update
      /\ UNCHANGED <<unread, socketContexts>>
  BY DEF Update, netVars, managerVars
<1>2. ReceiveFacts!HandOver(connections) /\ UNCHANGED <<pool, buffers, chunks>>
  BY <1>1, SameReceive DEF ReceivePath!HandOver
<1>3. Accepted' = Accepted /\ From(socketContexts, 1)' = From(socketContexts, 1)
  BY <1>1 DEF Server!Update, Server!ClosingConnections, Accepted, From, LivesOK
<1>4. ReceiveFacts!PoolBounded(pool, Accepted, chunks)'
  BY <1>2, <1>3, ReadsTypes DEF ReceiveFacts!PoolBounded, ReceiveFacts!Taken
<1>5. connections \in SUBSET Conns
  BY DEF LivesOK
<1>. QED  BY <1>1, <1>2, <1>3, <1>4, <1>5, ReadsTypes DEF ListsOK, ReceiveFacts!ReceiveNext

LEMMA ReadsStep ==
  ASSUME BuffersSuffice, LivesOK, ReadsInv, [Next]_vars
  PROVE  ReadsInv' /\ [ReceiveFacts!ReceiveNext]_(ReceiveFacts!receiveVars)
<1>. DEFINE Step == [ReceiveFacts!ReceiveNext]_(ReceiveFacts!receiveVars)
<1>. SUFFICES ListsOK' /\ Step
  <2>. HIDE DEF Step
  <2>1. ListsOK' /\ Step
    OBVIOUS
  <2>2. Step => ReceiveFacts!ReceiveInv'
    BY ReceiveFacts!ReceiveInvStep DEF Step, BuffersSuffice, ReadsInv
  <2>. QED  BY <2>1, <2>2 DEF ReadsInv, Step
<1>1. UNCHANGED ReceivePath!receiveVars => Step
  BY DEF ReceivePath!receiveVars, ReceiveFacts!receiveVars
<1>2. ReceiveFacts!ReceiveNext => Step
  OBVIOUS
<1>. HIDE DEF Step
<1>3. ASSUME UNCHANGED <<receiveVars, unread, status, socketContexts>>
      PROVE  ListsOK' /\ Step
  <2>1. Accepted' = Accepted /\ From(socketContexts, 1)' = From(socketContexts, 1)
    BY <1>3 DEF Accepted, From
  <2>2. unread' \in [Conns -> Nat] /\ \A c \in Conns : chunks[c] + unread'[c] <= MaxChunks
    BY <1>3, ReadsTypes
  <2>. QED  BY <1>1, <1>3, <2>1, <2>2, ReadsUnchanged
<1>4. CASE PeerStep
  <2>1. UNCHANGED <<receiveVars, status, socketContexts>>
    BY <1>4 DEF PeerStep, Outside, serverVars, managerVars
  <2>2. Accepted' = Accepted /\ From(socketContexts, 1)' = From(socketContexts, 1)
    BY <2>1 DEF Accepted, From
  <2>. QED  BY <1>1, <1>4, <2>1, <2>2, PeersReads, ReadsUnchanged
<1>5. CASE UNCHANGED vars \/ ControlOnly
  BY <1>3, <1>5 DEF vars, ControlOnly, netVars, serverVars, managerVars
<1>6. CASE ProcessSend \/ Write \/ (\E c \in Conns : Send(c)) \/ (\E c \in Conns : Refused(c))
  BY <1>3, <1>6 DEF ProcessSend, Write, Send, Refused, netVars, serverVars, managerVars
<1>7. CASE \E chunk \in ReceivePath!Kinds : Read(chunk)
  BY <1>2, <1>7, ReadReads
<1>8. CASE \E c \in Conns, added \in BOOLEAN : Added(c, added)
  BY <1>2, <1>8, AddedReads
<1>9. CASE Removal
  <2>1. /\ current \in Conns /\ current \in From(socketContexts, 1)
        /\ i \in 1..Len(socketContexts) /\ current = socketContexts[i]
        /\ Server!ChangeStateToClose({current})
        /\ socketContexts' = RemoveAt(socketContexts, i)
    BY <1>9, RemovalFacts DEF current
  <2>2. UNCHANGED unread /\ ReceivePath!DropReads({current})
    BY <1>9 DEF Removal, RemoveCurrent, RemoveConnection, current
  <2>3. From(socketContexts, 1)' = From(socketContexts, 1) \ {current}
    <3>1. From(RemoveAt(socketContexts, i), 1) = From(socketContexts, 1) \ {current}
      BY <2>1, RemovedSocket DEF LivesOK
    <3>. QED  BY <2>1, <3>1 DEF From
  <2>4. Accepted' = Accepted
    BY <2>1 DEF Server!ChangeStateToClose, Accepted, LivesOK
  <2>. QED  BY <1>2, <2>1, <2>2, <2>3, <2>4, DropsReads
<1>10. CASE Update
  BY <1>2, <1>10, UpdateReads
<1>11. CASE DisconnectAll
  <2>. DEFINE S == From(socketContexts, 1)
  <2>1. /\ ReceivePath!DropReads(S) /\ Server!ChangeStateToClose(S)
        /\ UNCHANGED unread /\ socketContexts' = <<>>
    BY <1>11, DisconnectAllLives, ContextsAreFrom DEF DisconnectAll
  <2>2. S \in SUBSET {d \in connections : status[d] = "Init"} /\ S \in SUBSET Conns
    BY DEF LivesOK
  <2>3. From(socketContexts, 1)' = S \ S
    BY <2>1 DEF From
  <2>. HIDE DEF S
  <2>4. Accepted' = Accepted
    BY <2>1, <2>2 DEF Server!ChangeStateToClose, Accepted, LivesOK
  <2>. QED  BY <1>2, <2>1, <2>2, <2>3, <2>4, DropsReads DEF S
<1>12. CASE Destroy
  <2>1. UNCHANGED <<receiveVars, unread, status, socketContexts>>
    BY <1>12 DEF Destroy, netVars, managerVars, Server!Destroy
  <2>. QED  BY <1>3, <2>1
<1>. QED  BY <1>4, <1>5, <1>6, <1>7, <1>8, <1>9, <1>10, <1>11, <1>12, ScanSteps

LEMMA ReadsHold == ASSUME BuffersSuffice  PROVE Spec => []ReadsInv
<1>1. Init => ReadsInv
  BY ReadsInit
<1>2. LivesOK /\ ReadsInv /\ [Next]_vars => ReadsInv'
  BY ReadsStep
<1>. QED  BY <1>1, <1>2, LivesHold, PTL DEF Spec

(* The server calls StartRead once for a context and Read only with a       *)
(* buffer, also of a connection whose event was another's: it implements    *)
(* NetReceivePath.                                                          *)
THEOREM Receives == ASSUME BuffersSuffice  PROVE Spec => ReceivesAsSpecified
<1>1. Init => ReceivePath!ReceiveInit
  BY DEF Init
<1>2. LivesOK /\ ReadsInv /\ [Next]_vars
        => [ReceivePath!ReceiveNext]_(ReceivePath!receiveVars)
  BY ReadsStep, SameReceiveSpec
<1>. QED  BY <1>1, <1>2, LivesHold, ReadsHold, PTL
          DEF Spec, ReceivesAsSpecified, ReceivePath!Spec

(* A buffer of the server's pool is free or in the list of one context,     *)
(* once, through every accept, read, removal and DisconnectAll.             *)
THEOREM OneUser == ASSUME BuffersSuffice  PROVE Spec => []ReceivePath!BuffersHaveOneUser
<1>1. ReadsInv => ReceivePath!BuffersHaveOneUser
  <2>1. ReceiveFacts!ReceiveInv => ReceiveFacts!BuffersHaveOneUser
    BY ReceiveFacts!InvFacts DEF BuffersSuffice
  <2>2. ReceiveFacts!BuffersHaveOneUser => ReceivePath!BuffersHaveOneUser
    BY DEF ReceiveFacts!BuffersHaveOneUser, ReceivePath!BuffersHaveOneUser,
       ReceiveFacts!IsInjective, ReceivePath!IsInjective, ReceiveFacts!ToSet, ReceivePath!ToSet
  <2>. QED  BY <2>1, <2>2 DEF ReadsInv
<1>. QED  BY <1>1, ReadsHold, PTL

(* At the server every message is led by an unbroken run of the chunks of   *)
(* its own client, and one that is queued starts after those before it,     *)
(* however recv splits what the clients send.                               *)
THEOREM ChunksOwn ==
  ASSUME BuffersSuffice  PROVE Spec => []ReceivePath!ChunksAreTheClientsOwn
<1>1. Spec => ReceiveFacts!Spec
  <2>1. ReceivePath!Spec => ReceiveFacts!Spec
    BY SameReceiveSpec, PTL DEF ReceivePath!Spec, ReceiveFacts!Spec
  <2>. QED  BY <2>1, Receives DEF ReceivesAsSpecified
<1>2. ReceiveFacts!Spec => []ReceiveFacts!ChunksAreTheClientsOwn
  BY ReceiveFacts!ChunksOwn DEF BuffersSuffice
<1>3. ReceiveFacts!ChunksAreTheClientsOwn <=> ReceivePath!ChunksAreTheClientsOwn
  BY DEF ReceiveFacts!ChunksAreTheClientsOwn, ReceivePath!ChunksAreTheClientsOwn,
     ReceiveFacts!IsLedByRunOf, ReceivePath!IsLedByRunOf, ReceiveFacts!InOrder,
     ReceivePath!InOrder, ReceiveFacts!Last, ReceivePath!Last,
     ReceiveFacts!ToSet, ReceivePath!ToSet
<1>. QED  BY <1>1, <1>2, <1>3, PTL

-----------------------------------------------------------------------------
(* The shape of the state.  What the layers above do not say already:       *)
Labels == {"Accept", "ProcessSend", "WaitForEvents", "Read", "Write", "Check",
           "Update", "Send", "Destroy", "Exit", "Dead"}

ShapeOK ==
  /\ kind \in EventBuffers
  /\ full \subseteq Conns /\ urgent \subseteq Conns /\ writeFlags \subseteq Conns
  /\ revents \in [Conns -> SUBSET Events]
  /\ pc \in Labels

LEMMA WaitRevents ==
  ASSUME WaitForEvents
  PROVE  revents' \in [Conns -> SUBSET Events]
<1>. DEFINE sockets == ToSet(netEventBuffer)
            open == {r \in sockets \X Events : r[2] \in Possible(r[1])}
<1>1. PICK extra \in SUBSET open :
        revents' = [s \in Conns |->
          IF s \in sockets THEN Certain(s) \cup {e \in Events : <<s, e>> \in extra} ELSE {}]
  BY DEF WaitForEvents
<1>2. \A s : Certain(s) \subseteq Events
  BY DEF Certain
<1>. HIDE DEF sockets, open
<1>. QED  BY <1>1, <1>2

LEMMA ShapeStep ==
  ASSUME LivesOK, ShapeOK, [Next]_vars
  PROVE  ShapeOK'
<1>. USE DEF ShapeOK, Labels
<1>1. kind' = kind
  BY KindStays
<1>2. CASE UNCHANGED vars
  BY <1>2 DEF vars, netVars, managerVars, loopVars
<1>3. CASE PeerStep
  <2>1. UNCHANGED <<writeFlags, revents, pc>>
    BY <1>3 DEF PeerStep, Outside, managerVars, loopVars
  <2>2. PICK c \in Conns : PeerSendsUrgent(c) \/ PeerReads(c) \/ UNCHANGED <<full, urgent>>
    BY <1>3 DEF PeerStep
  <2>. QED  BY <1>1, <2>1, <2>2 DEF PeerSendsUrgent, PeerReads
<1>4. CASE ControlOnly /\ UNCHANGED revents /\ pc' \in Labels
  BY <1>1, <1>4 DEF ControlOnly, netVars, managerVars
<1>5. CASE Halt
  BY <1>4, <1>5 DEF Halt
<1>. USE DEF GoTo
<1>6. CASE AcceptNothing \/ NoSockets \/ WaitFails \/ NotReadable \/ NotWritable \/ NothingMore \/ NotDue
  BY <1>4, <1>5, <1>6 DEF AcceptNothing, NoSockets, WaitFails, LenetError, NotReadable, NotWritable,
     NothingMore, NextSocket, NotDue
<1>7. CASE ScanEnds
  BY <1>1, <1>7 DEF ScanEnds, ControlOnly, netVars, managerVars
<1>8. CASE WaitForEvents
  <2>1. pc' \in {"Update", "Read"} /\ ControlOnly
    BY <1>8 DEF WaitForEvents
  <2>. QED  BY <1>1, <1>8, <2>1, WaitRevents DEF ControlOnly, netVars, managerVars
<1>9. CASE \E c \in Conns : Accept(c) \/ AcceptFails(c)
  <2>1. PICK c \in Conns : Accept(c) \/ AcceptFails(c)
    BY <1>9
  <2>2. \/ Halt
        \/ (\E added \in BOOLEAN : AddConnection(c, added)) /\ GoTo("ProcessSend")
        \/ UNCHANGED <<full, urgent, managerVars>> /\ GoTo("ProcessSend")
    BY <2>1 DEF Accept, AcceptFails, LenetError
  <2>. QED  BY <1>1, <1>5, <2>2 DEF AddConnection, managerVars
<1>10. CASE ProcessSend
  <2>1. \A k \in DOMAIN netEventBuffer : netEventBuffer[k] \in Conns
    BY LenProperties, ElementOfSeq DEF LivesOK
  <2>. QED  BY <1>1, <1>10, <2>1 DEF ProcessSend, netVars
<1>11. CASE \E chunk \in ReceivePath!Kinds : Read(chunk)
  BY <1>1, <1>11 DEF Read, managerVars
<1>12. CASE Write
  <2>1. /\ Len(socketContexts) \in Nat /\ Len(netEventBuffer) \in Nat /\ i \in Nat \ {0}
        /\ i <= Len(netEventBuffer) /\ Len(netEventBuffer) <= Len(socketContexts)
    BY <1>12, LenProperties DEF Write, LivesOK, InLoop
  <2>2. current \in Conns
    <3>1. i \in 1..Len(socketContexts)
      BY <2>1
    <3>. QED  BY <3>1, ElementOfSeq DEF LivesOK, current
  <2>. QED  BY <1>1, <1>12, <2>2 DEF Write, FlagsAfterWrite
<1>13. CASE RemoveCurrent
  BY <1>1, <1>13 DEF RemoveCurrent, RemoveConnection, FlagsAfterRemove, NextSocket
<1>14. CASE ReadFails \/ WriteFails \/ Disconnection \/ Exception
  BY <1>5, <1>13, <1>14 DEF ReadFails, WriteFails, Disconnection, Exception, LenetError
<1>15. CASE Update \/ (\E c \in Conns : Send(c)) \/ DisconnectAll \/ Destroy
  BY <1>1, <1>15 DEF Update, Send, DisconnectAll, Destroy, netVars, managerVars
<1>. QED  BY <1>2, <1>3, <1>6, <1>7, <1>8, <1>9, <1>10, <1>11, <1>12, <1>14, <1>15
          DEF Next, ServerStep, Terminated

(* Every variable keeps its shape.                                          *)
THEOREM Types ==
  ASSUME NoSocketIsRefused, BuffersSuffice, MaxMessages \in Nat
  PROVE  Spec => []TypeOK
<1>1. Init => ShapeOK
  BY DEF Init, ShapeOK, Labels
<1>2. Spec => []ShapeOK
  BY <1>1, ShapeStep, LivesHold, PTL DEF Spec
<1>3. Spec => []BudgetOK
  BY BudgetHolds
<1>4. Spec => []ServerFacts!ServerTypeOK
  <2>1. ServerFacts!Spec => []ServerFacts!ServerInv
    BY ServerFacts!ServerInvHolds
  <2>2. ServerFacts!ServerInv => ServerFacts!ServerTypeOK
    BY DEF ServerFacts!ServerInv
  <2>. QED  BY <2>1, <2>2, Serves, SameServer, PTL
<1>5. Spec => []SendFacts!SendTypeOK
  <2>1. SendFacts!SendAssumption
    BY DEF SendFacts!SendAssumption
  <2>2. SendFacts!Spec => []SendFacts!SendTypeOK
    BY <2>1, SendFacts!TypeCorrect
  <2>3. Spec => SendPath!Spec
    BY Sends DEF SendsAsSpecified
  <2>. QED  BY <2>2, <2>3, SameSend, PTL
<1>6. LivesOK /\ ReadsInv /\ ShapeOK /\ BudgetOK /\ ServerFacts!ServerTypeOK /\ SendFacts!SendTypeOK
        => TypeOK
  <2>. SUFFICES ASSUME LivesOK, ReadsInv, ShapeOK, BudgetOK, ServerFacts!ServerTypeOK,
                       SendFacts!SendTypeOK
                PROVE  TypeOK
    OBVIOUS
  <2>1. unread \in [Conns -> 0..MaxChunks]
    <3>1. \A c \in Conns : unread[c] \in Nat /\ chunks[c] \in Nat /\ chunks[c] + unread[c] <= MaxChunks
      BY ReadsTypes
    <3>2. MaxChunks \in Nat
      BY DEF BuffersSuffice, ReceiveFacts!ReceiveAssumption
    <3>3. \A c \in Conns : unread[c] \in 0..MaxChunks
      BY <3>1, <3>2
    <3>. QED  BY <3>3, ReadsTypes
  <2>2. ReceivePath!ReceiveTypeOK
    BY DEF ReadsInv, ReceiveFacts!ReceiveInv, ReceiveFacts!ReceiveTypeOK, ReceivePath!ReceiveTypeOK,
       ReceiveFacts!ToSet, ReceivePath!ToSet, ReceiveFacts!Buffers, ReceivePath!Buffers,
       ReceiveFacts!Chunks, ReceivePath!Chunks
  <2>3. Server!ServerTypeOK /\ SendPath!SendTypeOK
    BY DEF ServerFacts!ServerTypeOK, Server!ServerTypeOK, SendFacts!SendTypeOK, SendPath!SendTypeOK
  <2>. QED  BY <2>1, <2>2, <2>3 DEF TypeOK, LivesOK, ShapeOK, Labels, BudgetOK
<1>. QED  BY <1>2, <1>3, <1>4, <1>5, <1>6, LivesHold, ReadsHold, PTL

=============================================================================
