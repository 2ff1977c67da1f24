----------------------------- MODULE MainProofs -----------------------------
(***************************************************************************)
(* The process with any number of clients, managers, handles, buffers and  *)
(* messages.  Server and client share the sockets, and what was proved of   *)
(* the server alone holds in the process because the client touches only    *)
(* the objects of its vector.  What the client logs is put in order by one  *)
(* fragment: the one at the start of the buffer that the chain of Receive   *)
(* owns (ChainHead).                                                             *)
(***************************************************************************)
EXTENDS Main, NetServerManagersProofs, WellFoundedInduction

Piece == Nat \X Nat \X {1, 2}

(* Where a fragment is in its stream                                        *)
Place(f) == 2 * f[2] + f[3]

(* The first fragment of the buffer that Receive took first                 *)
ChainHead == content[bufferChain[1]][1]

(* The vector: current is one of its elements, and once the loop that      *)
(* receives runs it has all of them; nothing outside it holds a handle.     *)
VectorInv ==
  /\ storage \in Storages
  /\ clientCount \in 1..MaxClients /\ clients \in 0..clientCount /\ current \in 1..clientCount
  /\ clientPhase \in {"none", "Connect", "Receive", "More", "Task", "Dead"}
  /\ clientPhase = "none" => clients = 0 /\ current = 1
  /\ clientPhase \in {"Receive", "More", "Task"} => clients = clientCount
  /\ \A where \in Storages, i \in Sockets :
       where # storage \/ i > clients => sockets.handle[Element(where, i)] = INVALID_SOCKET

PoolOK(p) ==
  /\ p \in [buffersQueue : Seq(Nat), buffers : 0..MaxBuffers]
  /\ ToSet(p.buffersQueue) \subseteq 1..p.buffers
  /\ IsInjective(p.buffersQueue)

GivenOut(p, b) == b \in (1..p.buffers) \ ToSet(p.buffersQueue)

(* A buffer the pool has given out to Receive is not in its queue; the     *)
(* chain owns one buffer while a message comes in pieces, and none          *)
(* otherwise.                                                               *)
PoolInv ==
  /\ PoolOK(bufferPool)
  /\ \/ bufferChain = <<>> /\ clientPhase # "More"
     \/ /\ clientPhase \in {"More", "Dead"}
        /\ \E b : GivenOut(bufferPool, b) /\ bufferChain = <<b>>
  /\ content \in [1..MaxBuffers -> Seq(Piece)]
  /\ \A b \in 1..MaxBuffers : Len(content[b]) = BufferSize

(* The stream to socket i, to which n messages were sent: its own          *)
(* fragments, in order.                                                     *)
StreamOK(s, i, n) ==
  /\ s \in Seq(Piece)
  /\ \A k \in 1..Len(s) :
       /\ s[k][1] = i /\ Place(s[k]) <= 2 * n + 2
       /\ \A j \in 1..(k - 1) : Place(s[j]) < Place(s[k])

(* f is of that stream, and everything under way comes after it.            *)
Precedes(f, s, i, n) ==
  /\ f \in Piece /\ f[1] = i /\ Place(f) <= 2 * n + 2
  /\ \A k \in 1..Len(s) : Place(f) < Place(s[k])

(* f comes after all that the log l holds.                                  *)
After(f, l) == \A k \in 1..Len(l) : Place(l[k][1]) < Place(f)

(* The log of socket i: messages that begin with earlier fragments of its  *)
(* stream, in order                                                         *)
LogOK(l, s, i, n) ==
  /\ l \in Seq(Seq(Piece) \ {<<>>})
  /\ \A k \in 1..Len(l) :
       /\ Precedes(l[k][1], s, i, n)
       /\ \A j \in 1..(k - 1) : Place(l[j][1]) < Place(l[k][1])

StreamInv ==
  /\ sent \in [Sockets -> Nat] /\ stream \in [Sockets -> Seq(Piece)]
  /\ logged \in [Sockets -> Seq(Seq(Piece) \ {<<>>})]
  /\ \A i \in Sockets :
       StreamOK(stream[i], i, sent[i]) /\ LogOK(logged[i], stream[i], i, sent[i])

(* f was taken from the stream of socket i after all that is logged.        *)
Fresh(f, i) == Precedes(f, stream[i], i, sent[i]) /\ After(f, logged[i])

(* What a Receive that goes on has begun with is new.                       *)
HeadInv == clientPhase = "More" => Fresh(ChainHead, current)

ClientInv == VectorInv /\ PoolInv /\ StreamInv /\ HeadInv

(* The cursor keeps its place when the managers are gone.                   *)
BoundsInv ==
  /\ availableServerIndex \in 1..MaxManagers /\ Len(netEventManagers) <= MaxManagers
  /\ program \in {"main", "server", "client", "aborted"}
  /\ program = "main" => clientPhase = "none"
  /\ serverTypeOption \in 1..3 /\ args \in Seq(Texts)

MainInv == ManagersInv /\ LoadInv /\ ClientInv /\ BoundsInv

-----------------------------------------------------------------------------
(* TakeBuffer hands out a buffer that nobody has.                           *)
LEMMA TakeFacts ==
  ASSUME NEW p, PoolOK(p), TakenBuffer(p) <= MaxBuffers
  PROVE  /\ PoolOK(AfterTake(p))
         /\ GivenOut(AfterTake(p), TakenBuffer(p))
         /\ TakenBuffer(p) \in 1..MaxBuffers
         /\ ~GivenOut(p, TakenBuffer(p))
         /\ \A b : GivenOut(p, b) => GivenOut(AfterTake(p), b)
  <1> DEFINE q == p.buffersQueue
  <1>1. /\ q \in Seq(Nat) /\ Len(q) \in Nat /\ DOMAIN q = 1..Len(q) /\ p.buffers \in 0..MaxBuffers
        /\ p = [buffersQueue |-> q, buffers |-> p.buffers]
        /\ \A i \in 1..Len(q) : q[i] \in 1..p.buffers
        /\ \A i, j \in 1..Len(q) : q[i] = q[j] => i = j
    BY DEF PoolOK, ToSet, IsInjective
  <1> HIDE DEF q
  <1>2. CASE q = <<>>
    <2>1. /\ TakenBuffer(p) = p.buffers + 1
          /\ AfterTake(p) = [buffersQueue |-> q, buffers |-> p.buffers + 1]
      BY <1>1, <1>2 DEF TakenBuffer, AfterTake, q
    <2>2. MaxBuffers \in Nat /\ p.buffers + 1 \in 1..MaxBuffers
      BY <1>1, <2>1, ClientAssumption
    <2> QED BY <1>1, <1>2, <2>1, <2>2 DEF PoolOK, GivenOut, ToSet, IsInjective, q
  <1>3. CASE q # <<>>
    <2>1. /\ TakenBuffer(p) = Head(q)
          /\ AfterTake(p) = [buffersQueue |-> Tail(q), buffers |-> p.buffers]
      BY <1>1, <1>3 DEF TakenBuffer, AfterTake, q
    <2>2. /\ Tail(q) \in Seq(Nat) /\ Len(Tail(q)) = Len(q) - 1 /\ Head(q) = q[1] /\ 1 \in 1..Len(q)
          /\ DOMAIN Tail(q) = 1..(Len(q) - 1)
          /\ \A i \in 1..(Len(q) - 1) : Tail(q)[i] = q[i + 1] /\ i + 1 \in 1..Len(q)
      BY <1>1, <1>3, HeadTailProperties, EmptySeq
    <2>3. PoolOK(AfterTake(p))
      <3>1. ToSet(Tail(q)) \subseteq 1..p.buffers
        BY <1>1, <2>2 DEF ToSet
      <3>2. IsInjective(Tail(q))
        BY <1>1, <2>2 DEF IsInjective
      <3> QED BY <1>1, <2>1, <2>2, <3>1, <3>2 DEF PoolOK
    <2>4. Head(q) \notin ToSet(Tail(q)) /\ Head(q) \in ToSet(q) /\ ToSet(Tail(q)) \subseteq ToSet(q)
      BY <1>1, <2>2 DEF ToSet
    <2>5. Head(q) \in 1..p.buffers /\ Head(q) \in 1..MaxBuffers
      BY <1>1, <2>2, ClientAssumption
    <2> QED BY <2>1, <2>3, <2>4, <2>5 DEF GivenOut, q
  <1> QED BY <1>2, <1>3

(* ReturnBuffers, of one buffer that was given out                          *)
LEMMA ReturnFacts ==
  ASSUME NEW p, NEW b, PoolOK(p), GivenOut(p, b)
  PROVE  PoolOK(ReturnBuffers(p, <<b>>))
  <1> DEFINE q == p.buffersQueue
  <1>1. /\ q \in Seq(Nat) /\ Len(q) \in Nat /\ p.buffers \in 0..MaxBuffers /\ b \in Nat
        /\ p = [buffersQueue |-> q, buffers |-> p.buffers]
        /\ \A i \in 1..Len(q) : q[i] \in 1..p.buffers /\ q[i] # b
        /\ \A i, j \in 1..Len(q) : q[i] = q[j] => i = j
    BY DEF PoolOK, GivenOut, ToSet, IsInjective
  <1>2. ReturnBuffers(p, <<b>>) = [buffersQueue |-> q \o <<b>>, buffers |-> p.buffers]
    <2>1. p \in [buffersQueue : Seq(Nat), buffers : 0..MaxBuffers]
      BY DEF PoolOK
    <2>2. \A s : [p EXCEPT !.buffersQueue = s] = [buffersQueue |-> s, buffers |-> p.buffers]
      BY <2>1
    <2> QED BY <2>2 DEF ReturnBuffers
  <1> DEFINE r == q \o <<b>>
  <1> HIDE DEF q
  <1>3. /\ r \in Seq(Nat) /\ DOMAIN r = 1..(Len(q) + 1)
        /\ \A i \in 1..(Len(q) + 1) : r[i] = IF i <= Len(q) THEN q[i] ELSE b
    BY <1>1
  <1> HIDE DEF r
  <1>4. ToSet(r) \subseteq 1..p.buffers
    <2>1. b \in 1..p.buffers
      BY DEF GivenOut
    <2>2. \A i \in 1..(Len(q) + 1) : r[i] \in 1..p.buffers
      BY <1>1, <1>3, <2>1
    <2> QED BY <1>3, <2>2 DEF ToSet
  <1>5. IsInjective(r)
    <2>1. \A i \in 1..Len(q) : r[i] = q[i]
      BY <1>1, <1>3
    <2>2. r[Len(q) + 1] = b
      <3>1. Len(q) + 1 \in 1..(Len(q) + 1) /\ ~(Len(q) + 1 <= Len(q))
        BY <1>1
      <3> QED BY <1>3, <3>1
    <2>3. \A i \in 1..(Len(q) + 1) : i \in 1..Len(q) \/ i = Len(q) + 1
      BY <1>1
    <2>4. \A i, j \in 1..(Len(q) + 1) : r[i] = r[j] => i = j
      BY <1>1, <2>1, <2>2, <2>3
    <2> QED BY <1>3, <2>4 DEF IsInjective
  <1>6. ReturnBuffers(p, <<b>>) = [buffersQueue |-> r, buffers |-> p.buffers]
    BY <1>2 DEF r
  <1> QED BY <1>1, <1>3, <1>4, <1>5, <1>6 DEF PoolOK

(* What FiniteSetsExt's Min is of numbers                                   *)
LEMMA SmallestNumber ==
  ASSUME NEW S \in SUBSET Nat, S # {}
  PROVE  Min(S) \in S
  <1>1. PICK x \in S : \A y \in S : <<y, x>> \notin OpToRel(<, Nat)
    BY NatLessThanWellFounded, WFMin
  <1>2. \A y \in S : ~(y < x)
    BY <1>1 DEF OpToRel
  <1>3. \A y \in S : x =< y
    BY <1>2
  <1> QED BY <1>3 DEF Min

(* A buffer read as a C string begins with what is at its start.            *)
LEMMA TextOfBuffer ==
  ASSUME NEW bytes \in Seq(Piece), Len(bytes) = BufferSize
  PROVE  /\ UpToNul(bytes) \in Seq(Piece) \ {<<>>}
         /\ UpToNul(bytes)[1] = bytes[1]
  <1> DEFINE ends == {Len(bytes)} \cup {k \in DOMAIN bytes : EndsInNul(bytes[k])}
             m == Min(ends)
  <1>1. BufferSize \in Nat /\ BufferSize > 0 /\ DOMAIN bytes = 1..BufferSize
    BY ClientAssumption
  <1>2. ends \subseteq 1..BufferSize /\ ends # {}
    BY <1>1
  <1>3. m \in 1..BufferSize
    <2>1. ends \in SUBSET Nat /\ ends # {}
      BY <1>1, <1>2
    <2> HIDE DEF ends
    <2>2. m \in ends
      BY <2>1, SmallestNumber
    <2> QED BY <1>2, <2>2
  <1>4. UpToNul(bytes) = SubSeq(bytes, 1, m)
    BY DEF UpToNul
  <1> HIDE DEF m
  <1>5. /\ SubSeq(bytes, 1, m) \in Seq(Piece) /\ Len(SubSeq(bytes, 1, m)) = m
        /\ SubSeq(bytes, 1, m)[1] = bytes[1]
    BY <1>1, <1>3
  <1> QED BY <1>3, <1>4, <1>5, EmptySeq

(* A chain of one buffer                                                    *)
LEMMA ConcatOne ==
  ASSUME NEW b, NEW bytes, UpToNul(bytes[b]) \in Seq(Piece)
  PROVE  Concat(<<b>>, bytes) = UpToNul(bytes[b])
  <1>1. Last(<<b>>) = b /\ Len(<<b>>) = 1
    BY DEF Last
  <1> DEFINE front == [k \in 1..(Len(<<b>>) - 1) |-> bytes[<<b>>[k]]]
  <1>2. front = <<>> /\ Len(front) = 0
    BY <1>1
  <1>3. Concat(<<b>>, bytes) = FlattenSeq(front) \o UpToNul(bytes[b])
    BY <1>1 DEF Concat
  <1> HIDE DEF front
  <1>4. FlattenSeq(front) = front
    BY <1>2, Zenon DEF FlattenSeq
  <1> QED BY <1>2, <1>3, <1>4, ConcatEmptySeq


-----------------------------------------------------------------------------
(* The objects of the vector are others than the server's.                  *)
LEMMA ElementsDiffer ==
  /\ \A where \in Storages, i \in Sockets : Element(where, i) \in Objects
  /\ \A where, there \in Storages, i, j \in Sockets :
       Element(where, i) = Element(there, j) => where = there /\ i = j
  /\ \A where \in Storages, i \in Sockets :
       /\ Element(where, i) # Listener /\ Element(where, i) # ClientSocket
       /\ \A c \in Conns : Element(where, i) # ContextSocket(c)
  BY ClientAssumption DEF Element, Storages, Listener, ClientSocket, ContextSocket

(* When the vector grows, each socket is moved to its place in the new     *)
(* storage: every handle still has one owner.                               *)
LEMMA GrownKeeps ==
  ASSUME NEW s, Owned(s), NEW to \in Storages, storage \in Storages, to # storage,
         clients \in 0..MaxClients,
         \A i \in 1..clients : s.handle[Element(to, i)] = INVALID_SOCKET
  PROVE  /\ Owned(Grown(s, to))
         /\ \A i \in 1..clients : Grown(s, to).handle[Element(storage, i)] = INVALID_SOCKET
         /\ \A o \in Objects :
              (\A i \in 1..clients : o # Element(storage, i) /\ o # Element(to, i))
                => Grown(s, to).handle[o] = s.handle[o]
  <1> DEFINE old == {Element(storage, i) : i \in 1..clients}
             new == {Element(to, i) : i \in 1..clients}
             handle == [o \in Objects |->
                          IF o \in old THEN INVALID_SOCKET
                          ELSE IF o \in new THEN s.handle[Element(storage, o[2])] ELSE s.handle[o]]
             moved == [s EXCEPT !.handle = handle]
  <1>1. 1..clients \subseteq Sockets /\ old \subseteq Objects /\ new \subseteq Objects
    BY ElementsDiffer, ClientAssumption DEF Sockets
  <1>2. \A i \in 1..clients : /\ Element(to, i) \notin old /\ Element(to, i) \in new
                              /\ Element(to, i)[2] = i /\ Element(storage, i) \in old
                              /\ Element(storage, i) \in Objects /\ Element(to, i) \in Objects
    BY <1>1, ElementsDiffer DEF Element
  <1>3. /\ s = [handle |-> s.handle, open |-> s.open] /\ s.open \in SUBSET Handles
        /\ s.handle \in [Objects -> Handles \cup {INVALID_SOCKET}]
    BY DEF Owned
  <1>4. moved = [handle |-> handle, open |-> s.open]
    BY <1>3
  <1>5. /\ \A i \in 1..clients : handle[Element(to, i)] = s.handle[Element(storage, i)]
        /\ \A o \in old : handle[o] = INVALID_SOCKET
        /\ \A o \in Objects : o \notin old /\ o \notin new => handle[o] = s.handle[o]
    BY <1>1, <1>2
  <1>6. handle \in [Objects -> Handles \cup {INVALID_SOCKET}]
    <2> SUFFICES ASSUME NEW o \in Objects PROVE handle[o] \in Handles \cup {INVALID_SOCKET}
      OBVIOUS
    <2>1. CASE o \in old
      BY <2>1, <1>5
    <2>2. CASE o \in new
      <3>1. PICK i \in 1..clients : o = Element(to, i)
        BY <2>2
      <3>2. handle[o] = s.handle[Element(storage, i)] /\ Element(storage, i) \in Objects
        BY <1>2, <1>5, <3>1
      <3> QED BY <1>3, <3>2
    <2>3. CASE o \notin old /\ o \notin new
      BY <2>3, <1>3, <1>5
    <2> QED BY <2>1, <2>2, <2>3
  <1>7. Grown(s, to) = Closed(moved, old)
    BY DEF Grown
  <1> HIDE DEF handle, moved
  <1>8. \A o \in Objects : handle[o] # INVALID_SOCKET =>
          \/ /\ o \notin old /\ o \notin new /\ handle[o] = s.handle[o]
          \/ \E i \in 1..clients : o = Element(to, i) /\ handle[o] = s.handle[Element(storage, i)]
    BY <1>5
  <1>9. \A o, p \in Objects : handle[o] = handle[p] /\ handle[o] # INVALID_SOCKET => o = p
    <2> SUFFICES ASSUME NEW o \in Objects, NEW p \in Objects,
                        handle[o] = handle[p], handle[o] # INVALID_SOCKET
                 PROVE  o = p
      OBVIOUS
    <2>1. \A a, b \in Objects : s.handle[a] = s.handle[b] /\ s.handle[a] # INVALID_SOCKET => a = b
      BY DEF Owned
    <2>2. CASE o \notin new /\ p \notin new
      BY <1>2, <1>8, <2>1, <2>2
    <2>3. CASE o \in new /\ p \in new
      <3>1. PICK i \in 1..clients : o = Element(to, i) /\ handle[o] = s.handle[Element(storage, i)]
        BY <1>8, <2>3
      <3>2. PICK j \in 1..clients : p = Element(to, j) /\ handle[p] = s.handle[Element(storage, j)]
        BY <1>8, <2>3
      <3>3. Element(storage, i) = Element(storage, j)
        <4>1. Element(storage, i) \in Objects /\ Element(storage, j) \in Objects
          BY <1>2
        <4>2. /\ s.handle[Element(storage, i)] = s.handle[Element(storage, j)]
              /\ s.handle[Element(storage, i)] # INVALID_SOCKET
          BY <3>1, <3>2
        <4> HIDE DEF old, new
        <4> QED BY <2>1, <4>1, <4>2, Zenon
      <3>4. i \in Sockets /\ j \in Sockets
        BY <1>1
      <3>5. i = j
        BY <3>3, <3>4, ElementsDiffer
      <3> QED BY <3>1, <3>2, <3>5
    <2>4. ASSUME NEW a \in Objects, NEW b \in Objects, a \in new, b \notin new,
                 handle[a] = handle[b], handle[a] # INVALID_SOCKET
          PROVE  FALSE
      <3>1. PICK i \in 1..clients : a = Element(to, i) /\ handle[a] = s.handle[Element(storage, i)]
        BY <1>8, <2>4
      <3>2. b \notin old /\ handle[b] = s.handle[b]
        BY <1>2, <1>8, <2>4, ZenonT(40)
      <3>3. s.handle[Element(storage, i)] = s.handle[b] /\ s.handle[b] # INVALID_SOCKET
        BY <2>4, <3>1, <3>2
      <3>4. Element(storage, i) = b
        <4>1. Element(storage, i) \in Objects /\ s.handle[Element(storage, i)] # INVALID_SOCKET
          BY <1>2, <3>3
        <4> QED BY <2>1, <3>3, <4>1, Zenon
      <3> QED BY <1>2, <3>2, <3>4
    <2> QED BY <2>2, <2>3, <2>4
  <1>10. {handle[o] : o \in Objects} \ {INVALID_SOCKET} = s.open
    <2>1. {s.handle[o] : o \in Objects} \ {INVALID_SOCKET} = s.open
      BY DEF Owned
    <2>2. ASSUME NEW o \in Objects, handle[o] # INVALID_SOCKET PROVE handle[o] \in s.open
      <3>1. \A p \in Objects : s.handle[p] # INVALID_SOCKET => s.handle[p] \in s.open
        BY <2>1
      <3>2. PICK p \in Objects : handle[o] = s.handle[p]
        BY <1>2, <1>8, <2>2
      <3> QED BY <2>2, <3>1, <3>2
    <2>3. ASSUME NEW o \in Objects, s.handle[o] # INVALID_SOCKET
          PROVE  \E p \in Objects : handle[p] = s.handle[o]
      <3>1. CASE o \in old
        <4>1. PICK i \in 1..clients : o = Element(storage, i)
          BY <3>1
        <4>2. handle[Element(to, i)] = s.handle[o] /\ Element(to, i) \in Objects
          BY <1>2, <1>5, <4>1
        <4> QED BY <4>2
      <3>2. CASE o \in new
        <4>1. PICK i \in 1..clients : o = Element(to, i)
          BY <3>2
        <4> QED BY <2>3, <4>1
      <3>3. CASE o \notin old /\ o \notin new
        BY <1>5, <3>3
      <3> QED BY <3>1, <3>2, <3>3
    <2>4. INVALID_SOCKET \notin s.open
      BY <1>3, SocketAssumption
    <2>5. {handle[o] : o \in Objects} \ {INVALID_SOCKET} \subseteq s.open
      BY <2>2
    <2>6. s.open \subseteq {handle[o] : o \in Objects} \ {INVALID_SOCKET}
      BY <2>1, <2>3, <2>4
    <2> QED BY <2>5, <2>6
  <1>11. Owned(moved)
    BY <1>3, <1>4, <1>6, <1>9, <1>10 DEF Owned
  <1>12. /\ Owned(Closed(moved, old))
         /\ \A o \in old : Closed(moved, old).handle[o] = INVALID_SOCKET
    BY <1>1, <1>11, ClosedKeeps
  <1>13. \A o \in Objects : o \notin old => Closed(moved, old).handle[o] = handle[o]
    BY <1>4 DEF Closed
  <1> DEFINE grown == Grown(s, to)
  <1>14. /\ Owned(grown) /\ \A o \in old : grown.handle[o] = INVALID_SOCKET
         /\ \A o \in Objects : o \notin old => grown.handle[o] = handle[o]
    BY <1>7, <1>12, <1>13
  <1> HIDE DEF grown
  <1>15. \A i \in 1..clients : grown.handle[Element(storage, i)] = INVALID_SOCKET
    BY <1>14
  <1>16. ASSUME NEW o \in Objects, \A i \in 1..clients : o # Element(storage, i) /\ o # Element(to, i)
         PROVE  grown.handle[o] = s.handle[o]
    <2>1. o \notin old /\ o \notin new
      BY <1>16
    <2> QED BY <1>5, <1>14, <2>1
  <1> QED BY <1>14, <1>15, <1>16 DEF grown


-----------------------------------------------------------------------------
(* The steps that fill the vector                                           *)
LEMMA ConnectKeeps ==
  ASSUME VectorInv, Owned(sockets), Connect
  PROVE  /\ VectorInv' /\ Owned(sockets')
         /\ \A o \in Objects :
              (\A where \in Storages, i \in Sockets : o # Element(where, i))
                => sockets'.handle[o] = sockets.handle[o]
  <1>1. PICK h \in FreeHandles, where \in Storages :
          /\ sockets' = IF where = storage THEN Opened(sockets, Element(where, clients'), h)
                        ELSE Grown(Opened(sockets, Element(where, clients'), h), where)
          /\ storage' = where
    BY DEF Connect
  <1> DEFINE e == Element(where, clients')
             opened == Opened(sockets, e, h)
  <1>2. /\ MaxClients \in Nat /\ clients \in 0..MaxClients /\ clients' = clients + 1
        /\ clients' \in 1..MaxClients /\ clients' \in 0..clientCount
        /\ clientCount' = clientCount /\ current' = current
        /\ clientPhase = "Connect" /\ clientPhase' = "Connect"
    BY ClientAssumption DEF Connect, VectorInv, receiveVars
  <1>3. /\ e \in Objects /\ Sockets = 1..MaxClients
        /\ \A there \in Storages, i \in Sockets : i <= clients => Element(there, i) # e
    BY <1>2, ElementsDiffer DEF Sockets
  <1>4. /\ Owned(opened)
        /\ \A o \in Objects : o # e => opened.handle[o] = sockets.handle[o]
    <2>1. Owned(opened)
      BY <1>3, OpenedKeeps DEF FreeHandles
    <2> QED BY <1>3, <2>1 DEF Opened, Closed, Owned
  <1> HIDE DEF e, opened
  <1>5. CASE where = storage
    <2>1. sockets' = opened
      BY <1>1, <1>5 DEF opened, e
    <2>2. \A there \in Storages, i \in Sockets :
            there # storage \/ i > clients' =>
              Element(there, i) # e /\ sockets.handle[Element(there, i)] = INVALID_SOCKET
      BY <1>2, <1>3, <1>5, ElementsDiffer DEF VectorInv, e
    <2>3. \A there \in Storages, i \in Sockets :
            there # storage' \/ i > clients' => sockets'.handle[Element(there, i)] = INVALID_SOCKET
      BY <1>1, <1>4, <1>5, <2>1, <2>2, ElementsDiffer
    <2>4. \A o \in Objects : (\A there \in Storages, i \in Sockets : o # Element(there, i)) => o # e
      BY <1>2, <1>3 DEF e
    <2> QED BY <1>1, <1>2, <1>4, <2>1, <2>3, <2>4 DEF VectorInv
  <1>6. CASE where # storage
    <2> DEFINE grown == Grown(opened, where)
    <2>1. sockets' = grown
      BY <1>1, <1>6 DEF opened, e
    <2>2. \A i \in 1..clients : opened.handle[Element(where, i)] = INVALID_SOCKET
      BY <1>2, <1>3, <1>4, <1>6, ElementsDiffer DEF VectorInv
    <2>3. /\ Owned(grown)
          /\ \A i \in 1..clients : grown.handle[Element(storage, i)] = INVALID_SOCKET
          /\ \A o \in Objects :
               (\A i \in 1..clients : o # Element(storage, i) /\ o # Element(where, i))
                 => grown.handle[o] = opened.handle[o]
      BY <1>2, <1>4, <1>6, <2>2, GrownKeeps DEF VectorInv
    <2> HIDE DEF grown
    <2>4. ASSUME NEW there \in Storages, NEW i \in Sockets, there # where \/ i > clients'
          PROVE  grown.handle[Element(there, i)] = INVALID_SOCKET
      <3>1. Element(there, i) \in Objects /\ Element(there, i) # e
        BY <1>2, <1>3, <2>4, ElementsDiffer DEF e
      <3>2. CASE there = storage /\ i <= clients
        BY <1>2, <1>3, <2>3, <3>2
      <3>3. CASE ~(there = storage /\ i <= clients)
        <4>1. sockets.handle[Element(there, i)] = INVALID_SOCKET
          BY <1>2, <1>3, <3>3 DEF VectorInv
        <4>2. there = storage \/ there = where
          BY <1>6 DEF Storages, VectorInv
        <4>3. \A j \in 1..clients : Element(there, i) # Element(storage, j)
                                      /\ Element(there, i) # Element(where, j)
          BY <1>2, <1>3, <1>6, <2>4, <3>3, <4>2, ElementsDiffer DEF VectorInv
        <4> QED BY <1>4, <2>3, <3>1, <4>1, <4>3
      <3> QED BY <3>2, <3>3
    <2>5. ASSUME NEW o \in Objects, \A there \in Storages, i \in Sockets : o # Element(there, i)
          PROVE  grown.handle[o] = sockets.handle[o]
      <3>1. o # e /\ \A i \in 1..clients : o # Element(storage, i) /\ o # Element(where, i)
        BY <1>2, <1>3, <2>5 DEF e, VectorInv
      <3> QED BY <1>4, <2>3, <3>1
    <2>6. VectorInv'
      BY <1>1, <1>2, <2>1, <2>4 DEF VectorInv
    <2> QED BY <2>1, <2>3, <2>5, <2>6
  <1> QED BY <1>5, <1>6

-----------------------------------------------------------------------------
LEMMA PieceFacts ==
  /\ \A f \in Piece : Place(f) \in Nat
  /\ \A i, n \in Nat, part \in {1, 2} :
       <<i, n, part>> \in Piece /\ Place(<<i, n, part>>) = 2 * n + part
  BY DEF Piece, Place

(* A message more for socket i: it comes after all that is there.          *)
LEMMA SentOne ==
  ASSUME NEW i \in Nat, NEW n \in Nat, NEW s, StreamOK(s, i, n)
  PROVE  LET t == s \o << <<i, n + 1, 1>>, <<i, n + 1, 2>> >> IN
         /\ StreamOK(t, i, n + 1)
         /\ \A f : Precedes(f, s, i, n) => Precedes(f, t, i, n + 1)
  <1> DEFINE t == s \o << <<i, n + 1, 1>>, <<i, n + 1, 2>> >>
             a == Len(s) + 1
             b == Len(s) + 2
  <1>1. /\ s \in Seq(Piece) /\ Len(s) \in Nat
        /\ \A k \in 1..Len(s) : s[k] \in Piece /\ Place(s[k]) \in Nat
    BY PieceFacts DEF StreamOK
  <1>2. /\ <<i, n + 1, 1>> \in Piece /\ Place(<<i, n + 1, 1>>) = 2 * n + 3
        /\ <<i, n + 1, 2>> \in Piece /\ Place(<<i, n + 1, 2>>) = 2 * n + 4
    <2>1. n + 1 \in Nat /\ 2 * (n + 1) + 1 = 2 * n + 3 /\ 2 * (n + 1) + 2 = 2 * n + 4
      OBVIOUS
    <2> QED BY <2>1, PieceFacts
  <1>3. /\ t \in Seq(Piece) /\ Len(t) = b
        /\ \A k \in 1..Len(s) : t[k] = s[k]
        /\ t[a] = <<i, n + 1, 1>> /\ t[b] = <<i, n + 1, 2>>
    BY <1>1, <1>2
  <1>4. Place(t[a]) = 2 * n + 3 /\ t[a][1] = i /\ Place(t[b]) = 2 * n + 4 /\ t[b][1] = i
    BY <1>2, <1>3
  <1> HIDE DEF t
  <1>5. \A k \in 1..b : k \in 1..Len(s) \/ k = a \/ k = b
    BY <1>1
  <1>6. ASSUME NEW f, Precedes(f, s, i, n)
        PROVE  Precedes(f, t, i, n + 1)
    <2>1. /\ f \in Piece /\ f[1] = i /\ Place(f) \in Nat /\ Place(f) <= 2 * n + 2
          /\ \A k \in 1..Len(s) : Place(f) < Place(s[k])
      BY <1>6, PieceFacts DEF Precedes
    <2>2. Place(f) <= 2 * (n + 1) + 2 /\ Place(f) < 2 * n + 3 /\ Place(f) < 2 * n + 4
      BY <2>1
    <2>3. \A k \in 1..b : Place(f) < Place(t[k])
      BY <1>3, <1>4, <1>5, <2>1, <2>2
    <2> QED BY <1>3, <2>1, <2>2, <2>3 DEF Precedes
  <1>7. \A k \in 1..Len(s) : Place(t[k]) \in Nat /\ Place(t[k]) <= 2 * n + 2 /\ t[k][1] = i
    BY <1>1, <1>3 DEF StreamOK
  <1>8. ASSUME NEW k \in 1..b
        PROVE  /\ t[k][1] = i /\ Place(t[k]) <= 2 * (n + 1) + 2
               /\ \A j \in 1..(k - 1) : Place(t[j]) < Place(t[k])
    <2>1. CASE k \in 1..Len(s)
      <3>1. \A j \in 1..(k - 1) : j \in 1..Len(s)
        BY <1>1, <2>1
      <3> QED BY <1>3, <1>7, <2>1, <3>1 DEF StreamOK
    <2>2. CASE k = a
      <3>1. \A j \in 1..(k - 1) : j \in 1..Len(s)
        BY <1>1, <2>2
      <3> QED BY <1>4, <1>7, <2>2, <3>1
    <2>3. CASE k = b
      <3>1. \A j \in 1..(k - 1) : j \in 1..Len(s) \/ j = a
        BY <1>1, <2>3
      <3> QED BY <1>4, <1>7, <2>3, <3>1
    <2> QED BY <1>5, <2>1, <2>2, <2>3
  <1> QED BY <1>3, <1>6, <1>8 DEF StreamOK, t

(* recv takes k fragments: what came before the stream comes before the    *)
(* rest, and so does the first of them.                                     *)
LEMMA Received ==
  ASSUME NEW i \in Nat, NEW n \in Nat, NEW s, StreamOK(s, i, n), NEW k \in 1..Len(s)
  PROVE  LET rest == SubSeq(s, k + 1, Len(s)) IN
         /\ StreamOK(rest, i, n)
         /\ \A f : Precedes(f, s, i, n) => Precedes(f, rest, i, n)
         /\ Precedes(s[1], rest, i, n)
         /\ \A f : Precedes(f, s, i, n) => Place(f) < Place(s[1])
  <1> DEFINE rest == SubSeq(s, k + 1, Len(s))
  <1>1. /\ s \in Seq(Piece) /\ Len(s) \in Nat /\ 1 \in 1..Len(s)
        /\ \A m \in 1..Len(s) : s[m] \in Piece
    BY DEF StreamOK
  <1>2. /\ rest \in Seq(Piece) /\ Len(rest) = Len(s) - k
        /\ \A m \in 1..(Len(s) - k) : rest[m] = s[m + k] /\ m + k \in 1..Len(s)
    BY <1>1
  <1> HIDE DEF rest
  <1>3. ASSUME NEW m \in 1..(Len(s) - k)
        PROVE  /\ rest[m][1] = i /\ Place(rest[m]) <= 2 * n + 2 /\ Place(s[1]) < Place(rest[m])
               /\ \A j \in 1..(m - 1) : Place(rest[j]) < Place(rest[m])
    <2>1. rest[m] = s[m + k] /\ m + k \in 1..Len(s) /\ 1 \in 1..((m + k) - 1)
      BY <1>1, <1>2
    <2>2. ASSUME NEW j \in 1..(m - 1) PROVE Place(rest[j]) < Place(rest[m])
      <3>1. j \in 1..(Len(s) - k) /\ j + k \in 1..((m + k) - 1)
        BY <1>1
      <3>2. rest[j] = s[j + k]
        BY <1>2, <3>1
      <3> QED BY <2>1, <3>1, <3>2 DEF StreamOK
    <2> QED BY <2>1, <2>2 DEF StreamOK
  <1>4. StreamOK(rest, i, n)
    BY <1>2, <1>3 DEF StreamOK
  <1>5. \A f : Precedes(f, s, i, n) => Precedes(f, rest, i, n)
    BY <1>2 DEF Precedes
  <1>6. Precedes(s[1], rest, i, n)
    BY <1>1, <1>2, <1>3 DEF Precedes, StreamOK
  <1> QED BY <1>1, <1>4, <1>5, <1>6 DEF Precedes, rest

(* A message that begins with something new is logged.                      *)
LEMMA Logged ==
  ASSUME NEW i, NEW n, NEW s, NEW l, LogOK(l, s, i, n),
         NEW m \in Seq(Piece) \ {<<>>}, Precedes(m[1], s, i, n), After(m[1], l)
  PROVE  LogOK(Append(l, m), s, i, n)
  <1> DEFINE S == Seq(Piece) \ {<<>>}
             L == Append(l, m)
  <1>1. l \in Seq(S) /\ m \in S /\ Len(l) \in Nat
    BY DEF LogOK
  <1> HIDE DEF S
  <1>2. /\ L \in Seq(S) /\ Len(L) = Len(l) + 1
        /\ \A k \in 1..Len(l) : L[k] = l[k]
        /\ L[Len(l) + 1] = m
    BY <1>1, AppendProperties
  <1> HIDE DEF L
  <1>3. ASSUME NEW k \in 1..(Len(l) + 1)
        PROVE  /\ Precedes(L[k][1], s, i, n)
               /\ \A j \in 1..(k - 1) : Place(L[j][1]) < Place(L[k][1])
    <2>1. \A j \in 1..(k - 1) : j \in 1..Len(l)
      BY <1>1
    <2>2. CASE k \in 1..Len(l)
      BY <1>2, <2>1, <2>2 DEF LogOK
    <2>3. CASE k = Len(l) + 1
      BY <1>2, <2>1, <2>3 DEF After
    <2> QED BY <1>1, <2>2, <2>3
  <1> QED BY <1>2, <1>3 DEF LogOK, S, L

(* Nothing of a log comes later when its stream goes on.                    *)
LEMMA StillLogged ==
  ASSUME NEW i, NEW n, NEW s, NEW l, LogOK(l, s, i, n), NEW t, NEW m,
         \A f : Precedes(f, s, i, n) => Precedes(f, t, i, m)
  PROVE  LogOK(l, t, i, m)
  BY DEF LogOK


-----------------------------------------------------------------------------
(* The steps of the client                                                  *)
LEMMA ServerSendsKeeps ==
  ASSUME ClientInv, NEW i \in Sockets, ServerSends(i)
  PROVE  ClientInv'
  <1> DEFINE n == sent[i]
             s == stream[i]
             t == s \o << <<i, n + 1, 1>>, <<i, n + 1, 2>> >>
  <1>1. /\ n \in Nat /\ i \in Nat /\ sent \in [Sockets -> Nat] /\ stream \in [Sockets -> Seq(Piece)]
        /\ StreamOK(s, i, n)
    BY ClientAssumption DEF ClientInv, StreamInv, Sockets
  <1>2. /\ sent'[i] = n + 1 /\ \A j \in Sockets : j # i => sent'[j] = sent[j]
        /\ sent' \in [Sockets -> Nat]
    BY <1>1 DEF ServerSends
  <1>3. /\ stream'[i] = t /\ \A j \in Sockets : j # i => stream'[j] = stream[j]
        /\ stream' = [stream EXCEPT ![i] = t]
    BY <1>1, <1>2 DEF ServerSends
  <1>4. UNCHANGED <<sockets, storage, clients, clientCount>>
        /\ UNCHANGED <<current, bufferPool, content, bufferChain, msg, logged, clientPhase>>
    BY DEF ServerSends, vectorVars, receiveVars
  <1> HIDE DEF n, s
  <1>5. /\ StreamOK(t, i, n + 1)
        /\ \A f : Precedes(f, s, i, n) => Precedes(f, t, i, n + 1)
    BY <1>1, SentOne
  <1> HIDE DEF t
  <1>6. StreamInv'
    <2> SUFFICES ASSUME NEW j \in Sockets
                 PROVE  /\ StreamOK(stream'[j], j, sent'[j])
                        /\ LogOK(logged'[j], stream'[j], j, sent'[j])
      <3>1. stream' \in [Sockets -> Seq(Piece)]
        BY <1>1, <1>3, <1>5 DEF StreamOK
      <3> QED BY <1>2, <1>4, <3>1 DEF ClientInv, StreamInv
    <2>1. CASE j = i
      <3>1. LogOK(logged[i], s, i, n)
        BY DEF ClientInv, StreamInv, s, n
      <3>2. LogOK(logged[i], t, i, n + 1)
        BY <1>5, <3>1, StillLogged
      <3> QED BY <1>2, <1>3, <1>4, <1>5, <2>1, <3>2
    <2>2. CASE j # i
      BY <1>2, <1>3, <1>4, <2>2 DEF ClientInv, StreamInv
    <2> QED BY <2>1, <2>2
  <1>7. HeadInv'
    <2> SUFFICES ASSUME clientPhase = "More" PROVE Fresh(ChainHead, current)'
      BY <1>4 DEF HeadInv
    <2>1. current \in Sockets /\ Fresh(ChainHead, current)
      BY ClientAssumption DEF ClientInv, VectorInv, Sockets, HeadInv
    <2>2. ChainHead' = ChainHead
      BY <1>4 DEF ChainHead
    <2>3. Precedes(ChainHead, stream'[current], current, sent'[current])
      BY <1>2, <1>3, <1>5, <2>1 DEF Fresh, s, n
    <2> QED BY <1>4, <2>1, <2>2, <2>3 DEF Fresh
  <1> QED BY <1>4, <1>6, <1>7 DEF ClientInv, VectorInv, PoolInv

(* The steps that leave what was received alone                             *)
LEMMA QuietStepKeeps ==
  ASSUME PoolInv, StreamInv, clientPhase' # "More", clientPhase = "More" => clientPhase' = "Dead",
         bufferChain # <<>> => clientPhase' = "Dead",
         UNCHANGED <<netVars, bufferPool, content, bufferChain, logged>>
  PROVE  PoolInv' /\ StreamInv' /\ HeadInv'
  BY DEF PoolInv, StreamInv, HeadInv, netVars

LEMMA ConnectedKeeps ==
  ASSUME ClientInv, Connected
  PROVE  ClientInv'
  <1>1. PoolInv' /\ StreamInv' /\ HeadInv'
    BY QuietStepKeeps DEF Connected, ClientInv, PoolInv, netVars, receiveVars
  <1> QED BY <1>1 DEF ClientInv, VectorInv, Connected, vectorVars, receiveVars

LEMMA ClientFailsKeeps ==
  ASSUME ClientInv, ClientFails
  PROVE  ClientInv'
  <1>1. PoolInv' /\ StreamInv' /\ HeadInv'
    BY QuietStepKeeps DEF ClientFails, ClientInv, PoolInv, netVars, receiveVars
  <1> QED BY <1>1 DEF ClientInv, VectorInv, ClientFails, vectorVars, receiveVars

LEMMA TaskKeeps ==
  ASSUME ClientInv, Task
  PROVE  ClientInv'
  <1>1. PoolInv' /\ StreamInv' /\ HeadInv'
    BY QuietStepKeeps DEF Task, ClientInv, PoolInv, netVars
  <1>2. (current % clients) + 1 \in 1..clientCount
    <2>1. clients = clientCount /\ clientCount \in Nat /\ current \in 1..clients
      BY ClientAssumption DEF ClientInv, VectorInv, Task
    <2> QED BY <2>1, NextInRange
  <1> QED BY <1>1, <1>2 DEF ClientInv, VectorInv, Task, vectorVars

(* The buffer taken last, and the chain                                     *)
LEMMA ChainFacts ==
  ASSUME ClientInv, Receiving
  PROVE  /\ PoolOK(AfterTake(bufferPool)) /\ NextBuffer \in 1..MaxBuffers
         /\ \E b : /\ GivenOut(AfterTake(bufferPool), b) /\ ChainAfterTake = <<b>>
                   /\ b \in 1..MaxBuffers
                   /\ \/ clientPhase = "Receive" /\ b = NextBuffer
                      \/ clientPhase = "More" /\ bufferChain = <<b>> /\ b # NextBuffer
  <1>1. PoolOK(bufferPool) /\ TakenBuffer(bufferPool) <= MaxBuffers
    BY DEF ClientInv, PoolInv, Receiving
  <1>2. /\ PoolOK(AfterTake(bufferPool)) /\ GivenOut(AfterTake(bufferPool), NextBuffer)
        /\ NextBuffer \in 1..MaxBuffers /\ ~GivenOut(bufferPool, NextBuffer)
        /\ \A b : GivenOut(bufferPool, b) => GivenOut(AfterTake(bufferPool), b)
    BY <1>1, TakeFacts DEF NextBuffer
  <1>3. CASE clientPhase = "Receive"
    BY <1>2, <1>3 DEF ChainAfterTake
  <1>4. CASE clientPhase = "More"
    <2>1. PICK b : GivenOut(bufferPool, b) /\ bufferChain = <<b>>
      BY <1>4 DEF ClientInv, PoolInv
    <2>2. b \in 1..MaxBuffers
      BY <1>1, <2>1, ClientAssumption DEF GivenOut, PoolOK
    <2> QED BY <1>2, <1>4, <2>1, <2>2 DEF ChainAfterTake
  <1> QED BY <1>2, <1>3, <1>4 DEF Receiving

LEMMA ReceivesNothingKeeps ==
  ASSUME ClientInv, ReceivesNothing
  PROVE  ClientInv'
  <1>1. /\ UNCHANGED <<sockets, stream, sent, storage, clients, clientCount, current, content, logged>>
        /\ bufferPool' = ReturnBuffers(AfterTake(bufferPool), ChainAfterTake)
        /\ bufferChain' = <<>> /\ clientPhase' = "Task"
    <2>1. logged' = logged
      <3>1. logged' = [logged EXCEPT ![current] = @]
        BY DEF ReceivesNothing, ReceiveReturns, Log
      <3> QED BY <3>1 DEF ClientInv, StreamInv
    <2> QED BY <2>1 DEF ReceivesNothing, ReceiveReturns, netVars, vectorVars
  <1>2. PoolInv'
    <2>1. PICK b : GivenOut(AfterTake(bufferPool), b) /\ ChainAfterTake = <<b>>
      BY ChainFacts DEF ReceivesNothing
    <2>2. PoolOK(bufferPool')
      BY <1>1, <2>1, ChainFacts, ReturnFacts DEF ReceivesNothing
    <2> QED BY <1>1, <2>2 DEF ClientInv, PoolInv, PoolOK
  <1> QED BY <1>1, <1>2 DEF ClientInv, VectorInv, StreamInv, HeadInv, ReceivesNothing, Receiving


(* recv's piece is at the start of a buffer that nobody else has, and the  *)
(* first buffer of the chain begins with something new.                     *)
LEMMA ReceiveFacts ==
  ASSUME ClientInv, NEW n \in 1..BufferSize, Receive(n)
  PROVE  /\ current \in Sockets /\ UNCHANGED <<sockets, sent, storage, clients, clientCount, current>>
         /\ stream' \in [Sockets -> Seq(Piece)] /\ content' \in [1..MaxBuffers -> Seq(Piece)]
         /\ \A b \in 1..MaxBuffers : Len(content'[b]) = BufferSize
         /\ \A i \in Sockets :
              StreamOK(stream'[i], i, sent[i]) /\ LogOK(logged[i], stream'[i], i, sent[i])
         /\ \E b \in 1..MaxBuffers :
              /\ ChainAfterTake = <<b>> /\ GivenOut(AfterTake(bufferPool), b)
              /\ Precedes(content'[b][1], stream'[current], current, sent[current])
              /\ After(content'[b][1], logged[current])
  <1> DEFINE s == stream[current]
             m == sent[current]
             taken == SubSeq(s, 1, n)
             rest == SubSeq(s, n + 1, Len(s))
             end == SubSeq(content[NextBuffer], n + 1, BufferSize)
  <1>1. /\ current \in Sockets /\ current \in Nat
        /\ UNCHANGED <<sockets, sent, storage, clients, clientCount, current>>
    BY ClientAssumption DEF ClientInv, VectorInv, Sockets, Receive, vectorVars
  <1>2. /\ BufferSize \in Nat /\ n \in Nat /\ n <= Len(s) /\ s \in Seq(Piece) /\ m \in Nat
        /\ StreamOK(s, current, m) /\ LogOK(logged[current], s, current, m)
        /\ Len(s) \in Nat /\ n \in 1..Len(s) /\ n <= BufferSize /\ 1 <= n
    BY <1>1, ClientAssumption DEF ClientInv, StreamInv, Receive
  <1>3. NextBuffer \in 1..MaxBuffers
    BY ChainFacts DEF Receive
  <1>4. /\ content \in [1..MaxBuffers -> Seq(Piece)]
        /\ \A b \in 1..MaxBuffers : Len(content[b]) = BufferSize
    BY DEF ClientInv, PoolInv
  <1>5. /\ stream' = [stream EXCEPT ![current] = rest]
        /\ content' = [content EXCEPT ![NextBuffer] = taken \o end]
    BY DEF Receive
  <1> HIDE DEF s, m
  <1>6. taken \in Seq(Piece) /\ Len(taken) = n /\ taken[1] = s[1]
    BY <1>2
  <1>7. end \in Seq(Piece) /\ Len(end) = BufferSize - n
    <2>1. content[NextBuffer] \in Seq(Piece) /\ Len(content[NextBuffer]) = BufferSize
      BY <1>3, <1>4
    <2> QED BY <1>2, <2>1
  <1> HIDE DEF taken, end, rest
  <1>8. taken \o end \in Seq(Piece) /\ Len(taken \o end) = BufferSize /\ (taken \o end)[1] = s[1]
    BY <1>2, <1>6, <1>7
  <1>9. /\ content' \in [1..MaxBuffers -> Seq(Piece)]
        /\ content'[NextBuffer] = taken \o end
        /\ \A b \in 1..MaxBuffers : b # NextBuffer => content'[b] = content[b]
    BY <1>3, <1>4, <1>5, <1>8
  <1>10. \A b \in 1..MaxBuffers : Len(content'[b]) = BufferSize
    <2>1. Len(content'[NextBuffer]) = BufferSize
      BY <1>8, <1>9
    <2>2. \A b \in 1..MaxBuffers : b # NextBuffer => Len(content'[b]) = BufferSize
      BY <1>4, <1>9
    <2> QED BY <2>1, <2>2
  <1>11. /\ StreamOK(rest, current, m)
         /\ \A f : Precedes(f, s, current, m) => Precedes(f, rest, current, m)
         /\ Precedes(s[1], rest, current, m)
         /\ \A f : Precedes(f, s, current, m) => Place(f) < Place(s[1])
    BY <1>1, <1>2, Received DEF rest
  <1>12. LogOK(logged[current], rest, current, m)
    BY <1>2, <1>11, StillLogged
  <1>13. /\ stream' \in [Sockets -> Seq(Piece)] /\ stream'[current] = rest
         /\ \A i \in Sockets : i # current => stream'[i] = stream[i]
    BY <1>1, <1>5, <1>11 DEF ClientInv, StreamInv, StreamOK
  <1>14. ASSUME NEW i \in Sockets
         PROVE  StreamOK(stream'[i], i, sent[i]) /\ LogOK(logged[i], stream'[i], i, sent[i])
    <2>1. CASE i = current
      BY <1>11, <1>12, <1>13, <2>1 DEF m
    <2>2. CASE i # current
      BY <1>13, <2>2 DEF ClientInv, StreamInv
    <2> QED BY <2>1, <2>2
  <1>15. PICK b : /\ GivenOut(AfterTake(bufferPool), b) /\ ChainAfterTake = <<b>> /\ b \in 1..MaxBuffers
                  /\ \/ clientPhase = "Receive" /\ b = NextBuffer
                     \/ clientPhase = "More" /\ bufferChain = <<b>> /\ b # NextBuffer
    BY ChainFacts DEF Receive
  <1>16. /\ Precedes(content'[b][1], rest, current, m)
         /\ After(content'[b][1], logged[current])
    <2>1. CASE b = NextBuffer
      <3>1. content'[b][1] = s[1]
        BY <1>8, <1>9, <2>1
      <3>2. After(s[1], logged[current])
        BY <1>2, <1>11 DEF LogOK, After
      <3> QED BY <1>11, <3>1, <3>2
    <2>2. CASE clientPhase = "More" /\ bufferChain = <<b>> /\ b # NextBuffer
      <3>1. content'[b][1] = ChainHead
        BY <1>9, <1>15, <2>2 DEF ChainHead
      <3>2. Precedes(ChainHead, s, current, m) /\ After(ChainHead, logged[current])
        BY <2>2 DEF ClientInv, HeadInv, Fresh, s, m
      <3> QED BY <1>11, <3>1, <3>2
    <2> QED BY <1>15, <2>1, <2>2
  <1> QED BY <1>1, <1>9, <1>10, <1>13, <1>14, <1>15, <1>16 DEF m

LEMMA ReceiveKeeps ==
  ASSUME ClientInv, NEW n \in 1..BufferSize, Receive(n)
  PROVE  ClientInv'
  <1> DEFINE pool == AfterTake(bufferPool)
  <1>1. PICK b \in 1..MaxBuffers :
          /\ ChainAfterTake = <<b>> /\ GivenOut(pool, b)
          /\ Precedes(content'[b][1], stream'[current], current, sent[current])
          /\ After(content'[b][1], logged[current])
    BY ReceiveFacts
  <1>2. /\ current \in Sockets
        /\ UNCHANGED <<sockets, sent, storage, clients, clientCount, current>>
        /\ stream' \in [Sockets -> Seq(Piece)]
        /\ content' \in [1..MaxBuffers -> Seq(Piece)]
        /\ \A d \in 1..MaxBuffers : Len(content'[d]) = BufferSize
        /\ \A i \in Sockets :
             StreamOK(stream'[i], i, sent[i]) /\ LogOK(logged[i], stream'[i], i, sent[i])
    BY ReceiveFacts
  <1>3. PoolOK(pool) /\ clientPhase \in {"Receive", "More"}
    BY ChainFacts DEF Receive, Receiving
  <1> HIDE DEF pool
  <1>4. CASE bufferChain' = ChainAfterTake /\ bufferPool' = pool /\ clientPhase' = "More"
             /\ UNCHANGED <<msg, logged>>
    <2>1. PoolInv'
      BY <1>1, <1>2, <1>3, <1>4 DEF PoolInv, PoolOK, GivenOut
    <2>2. StreamInv'
      BY <1>2, <1>4 DEF ClientInv, StreamInv
    <2>3. HeadInv'
      <3>1. ChainHead' = content'[b][1]
        BY <1>1, <1>4 DEF ChainHead
      <3> QED BY <1>1, <1>2, <1>4, <3>1 DEF HeadInv, Fresh
    <2>4. VectorInv'
      BY <1>2, <1>3, <1>4 DEF ClientInv, VectorInv
    <2> QED BY <2>1, <2>2, <2>3, <2>4 DEF ClientInv
  <1>5. CASE msg' = Concat(ChainAfterTake, content') /\ ReceiveReturns(TRUE)
    <2> DEFINE text == UpToNul(content'[b])
    <2>1. /\ text \in Seq(Piece) \ {<<>>} /\ text[1] = content'[b][1]
      BY <1>2, TextOfBuffer
    <2>2. msg' = text
      BY <1>1, <1>5, <2>1, ConcatOne
    <2> HIDE DEF text
    <2>3. /\ logged' = [logged EXCEPT ![current] = Append(@, text)]
          /\ bufferPool' = ReturnBuffers(pool, <<b>>) /\ bufferChain' = <<>> /\ clientPhase' = "Task"
      BY <1>1, <1>5, <2>2 DEF ReceiveReturns, Log, pool
    <2>4. PoolInv'
      <3>1. PoolOK(bufferPool')
        BY <1>1, <1>3, <2>3, ReturnFacts
      <3> QED BY <1>2, <2>3, <3>1 DEF PoolInv, PoolOK
    <2>5. LogOK(Append(logged[current], text), stream'[current], current, sent[current])
      BY <1>1, <1>2, <2>1, Logged
    <2>6. StreamInv'
      <3>1. /\ logged'[current] = Append(logged[current], text)
            /\ \A i \in Sockets : i # current => logged'[i] = logged[i]
            /\ logged' \in [Sockets -> Seq(Seq(Piece) \ {<<>>})]
        BY <1>2, <2>3, <2>5 DEF ClientInv, StreamInv, LogOK
      <3>2. \A i \in Sockets : LogOK(logged'[i], stream'[i], i, sent[i])
        BY <1>2, <2>5, <3>1
      <3> QED BY <1>2, <3>1, <3>2 DEF ClientInv, StreamInv
    <2>7. HeadInv' /\ VectorInv'
      BY <1>2, <1>3, <2>3 DEF ClientInv, VectorInv, HeadInv
    <2> QED BY <2>4, <2>6, <2>7 DEF ClientInv
  <1> QED BY <1>4, <1>5 DEF Receive, pool


LEMMA ClientStepKeeps ==
  ASSUME ClientInv, Owned(sockets), ClientNext
  PROVE  /\ ClientInv' /\ Owned(sockets')
         /\ \A o \in Objects :
              (\A where \in Storages, i \in Sockets : o # Element(where, i))
                => sockets'.handle[o] = sockets.handle[o]
  <1>1. CASE Connect
    <2>1. /\ VectorInv' /\ Owned(sockets')
          /\ \A o \in Objects :
               (\A where \in Storages, i \in Sockets : o # Element(where, i))
                 => sockets'.handle[o] = sockets.handle[o]
      BY <1>1, ConnectKeeps DEF ClientInv
    <2>2. PoolInv' /\ StreamInv' /\ HeadInv'
      BY <1>1, QuietStepKeeps DEF Connect, ClientInv, PoolInv, netVars, receiveVars
    <2> QED BY <2>1, <2>2 DEF ClientInv
  <1>2. CASE \E i \in Sockets : ServerSends(i)
    <2>1. sockets' = sockets
      BY <1>2 DEF ServerSends
    <2> QED BY <1>2, <2>1, ServerSendsKeeps
  <1>3. CASE Connected
    <2>1. sockets' = sockets
      BY <1>3 DEF Connected
    <2> QED BY <1>3, <2>1, ConnectedKeeps
  <1>4. CASE ClientFails
    <2>1. sockets' = sockets
      BY <1>4 DEF ClientFails
    <2> QED BY <1>4, <2>1, ClientFailsKeeps
  <1>5. CASE ReceivesNothing
    <2>1. sockets' = sockets
      BY <1>5 DEF ReceivesNothing
    <2> QED BY <1>5, <2>1, ReceivesNothingKeeps
  <1>6. CASE \E n \in 1..BufferSize : Receive(n)
    <2>1. sockets' = sockets
      BY <1>6 DEF Receive
    <2> QED BY <1>6, <2>1, ReceiveKeeps
  <1>7. CASE Task
    <2>1. sockets' = sockets
      BY <1>7 DEF Task
    <2> QED BY <1>7, <2>1, TaskKeeps
  <1> QED BY <1>1, <1>2, <1>3, <1>4, <1>5, <1>6, <1>7 DEF ClientNext

(* Before the client is started                                             *)
LEMMA ClientIdleHolds ==
  ASSUME ClientIdle, SocketsInit
  PROVE  ClientInv
  <1>1. VectorInv
    <2>1. \A where \in Storages, i \in Sockets : sockets.handle[Element(where, i)] = INVALID_SOCKET
      BY ElementsDiffer DEF SocketsInit
    <2> QED BY <2>1, ClientAssumption, MainAssumption DEF ClientIdle, VectorInv, Storages
  <1>2. PoolInv
    <2>1. PoolOK(NewPool(InitialBuffers))
      <3> DEFINE q == [i \in 1..InitialBuffers |-> i]
      <3>1. InitialBuffers \in Nat /\ InitialBuffers \in 0..MaxBuffers
        BY ClientAssumption
      <3>2. q \in Seq(Nat) /\ ToSet(q) \subseteq 1..InitialBuffers /\ IsInjective(q)
        BY <3>1 DEF ToSet, IsInjective
      <3>3. NewPool(InitialBuffers) = [buffersQueue |-> q, buffers |-> InitialBuffers]
        BY DEF NewPool
      <3> HIDE DEF q
      <3> QED BY <3>1, <3>2, <3>3 DEF PoolOK
    <2>2. [k \in 1..BufferSize |-> Zero] \in Seq(Piece)
          /\ Len([k \in 1..BufferSize |-> Zero]) = BufferSize
      <3>1. Zero \in Piece /\ BufferSize \in Nat
        BY ClientAssumption DEF Zero, Piece
      <3> QED BY <3>1
    <2> QED BY <2>1, <2>2 DEF ClientIdle, PoolInv
  <1>3. StreamInv
    <2>1. <<>> \in Seq(Piece) /\ <<>> \in Seq(Seq(Piece) \ {<<>>}) /\ Len(<<>>) = 0
      OBVIOUS
    <2>2. \A i \in Sockets : StreamOK(<<>>, i, 0) /\ LogOK(<<>>, <<>>, i, 0)
      BY <2>1 DEF StreamOK, LogOK
    <2> QED BY <2>1, <2>2 DEF ClientIdle, StreamInv
  <1> QED BY <1>1, <1>2, <1>3 DEF ClientInv, HeadInv, ClientIdle

-----------------------------------------------------------------------------
(* The server leaves the client's sockets alone, and the client the         *)
(* server's.                                                                *)
LEMMA ServerLeavesOthers ==
  ASSUME ManagersInv, [ManagersNext]_<<serverVars, sockets, managersVars>>,
         NEW e \in Objects, e # Listener, e # ClientSocket, \A c \in Conns : e # ContextSocket(c)
  PROVE  sockets'.handle[e] = sockets.handle[e]
  <1>1. Owned(sockets)
    BY DEF ManagersInv, SocketInv
  <1>2. ASSUME NEW S \in SUBSET Contexts, RemoveConnections(S)
        PROVE  sockets'.handle[e] = sockets.handle[e]
    <2>1. S \subseteq Conns
      BY DEF ManagersInv, ConnectionsHaveOneManager
    <2>2. e \notin {ContextSocket(c) : c \in S}
      BY <2>1
    <2> QED BY <1>2, <2>2 DEF RemoveConnections, Closed
  <1>3. CASE Construct
    BY <1>1, <1>3 DEF Construct, Opened, Closed, Owned
  <1>4. CASE \E c \in Conns : Accept(c)
    <2>1. PICK c \in Conns, h \in FreeHandles :
            /\ status[c] = "none"
            /\ sockets' = Closed(Moved(Opened(sockets, ClientSocket, h), ContextSocket(c), ClientSocket),
                                 {ClientSocket})
      BY <1>4 DEF Accept
    <2>2. sockets.handle[ContextSocket(c)] = INVALID_SOCKET
      BY <2>1 DEF ManagersInv, StatusInv, ConnectionsHaveOneManager
    <2> QED BY <1>1, <2>1, <2>2, AcceptedSocket DEF ManagersInv, SocketInv, FreeHandles
  <1>5. CASE HandleNetEvents
    BY <1>2, <1>5 DEF HandleNetEvents
  <1>6. CASE DisconnectAll
    BY <1>2, <1>6 DEF DisconnectAll
  <1>7. CASE Destruct
    BY <1>7 DEF Destruct, Closed
  <1>8. CASE AddEventHandler \/ EnterLoop \/ UpdateConnections
             \/ UNCHANGED <<serverVars, sockets, managersVars>>
    BY <1>8 DEF AddEventHandler, EnterLoop, UpdateConnections
  <1> QED BY <1>3, <1>4, <1>5, <1>6, <1>7, <1>8 DEF ManagersNext

LEMMA ClientLeavesServer ==
  ASSUME ManagersInv, ClientInv, ClientNext, UNCHANGED <<serverVars, managersVars>>
  PROVE  ManagersInv'
  <1>1. /\ Owned(sockets') /\ sockets'.handle[ClientSocket] = sockets.handle[ClientSocket]
        /\ \A c \in Conns : sockets'.handle[ContextSocket(c)] = sockets.handle[ContextSocket(c)]
    <2>1. /\ Owned(sockets')
          /\ \A o \in Objects :
               (\A where \in Storages, i \in Sockets : o # Element(where, i))
                 => sockets'.handle[o] = sockets.handle[o]
      BY ClientStepKeeps DEF ManagersInv, SocketInv
    <2> QED BY <2>1, ObjectsDiffer, ElementsDiffer
  <1>2. Contexts' = Contexts
    BY DEF Contexts, managersVars
  <1>3. ShapeInv' /\ StatusInv'
    BY <1>2 DEF ManagersInv, ShapeInv, StatusInv, ServerTypeOK, serverVars, managersVars
  <1>4. SocketInv'
    BY <1>1 DEF ManagersInv, SocketInv
  <1>5. ConnectionsHaveOneManager'
    BY <1>1, <1>2 DEF ManagersInv, ConnectionsHaveOneManager, serverVars, managersVars
  <1> QED BY <1>3, <1>4, <1>5 DEF ManagersInv


-----------------------------------------------------------------------------
(* The number of sockets that a command line asks for                       *)
LEMMA CountBounds ==
  ASSUME CountText \subseteq DOMAIN stoi
  PROVE  Count \in 1..MaxClients
  <1> DEFINE S == {1} \cup {stoi[text] : text \in CountText}
  <1>1. \A text \in DOMAIN stoi : stoi[text] \in {0, 2}
    <2>1. DOMAIN stoi = {"0", "2"} /\ stoi["0"] = 0 /\ stoi["2"] = 2
      BY DEF stoi
    <2> QED BY <2>1
  <1>2. S \subseteq 0..2 /\ 1 \in S
    BY <1>1
  <1> HIDE DEF S
  <1>3. \E x \in S : \A y \in S : x >= y
    <2>1. CASE 2 \in S
      BY <1>2, <2>1
    <2>2. CASE 2 \notin S
      BY <1>2, <2>2
    <2> QED BY <2>1, <2>2
  <1>4. Max(S) \in S /\ \A y \in S : Max(S) >= y
    BY <1>3 DEF Max
  <1>5. Max(S) \in 1..2
    <2>1. Max(S) \in 0..2 /\ Max(S) >= 1
      BY <1>2, <1>4
    <2> QED BY <2>1
  <1>6. Count = Max(S)
    BY DEF Count, S
  <1> QED BY <1>5, <1>6, ClientAssumption, MainAssumption

LEMMA MainInitHolds == Init => MainInv
  <1> SUFFICES ASSUME Init PROVE MainInv
    OBVIOUS
  <1>1. ManagersInv /\ LoadInv
    BY InitHolds DEF Init, LoadInv, ManagersIdle
  <1>2. ClientInv
    BY ClientIdleHolds DEF Init
  <1>3. BoundsInv
    <2>1. args \in Seq(Texts)
      <3>1. PICK n \in 0..MaxArgs : args \in [1..n -> Texts]
        BY DEF Init
      <3>2. n \in Nat
        BY MainAssumption
      <3> QED BY <3>1, <3>2
    <2>2. netEventManagers = <<>> /\ availableServerIndex = 1 /\ program = "main"
          /\ serverTypeOption = 3 /\ clientPhase = "none"
      BY DEF Init, ManagersIdle, ClientIdle
    <2> QED BY <2>1, <2>2, ManagersAssumption DEF BoundsInv
  <1> QED BY <1>1, <1>2, <1>3 DEF MainInv

LEMMA ServerRunsKeeps ==
  ASSUME MainInv, ServerRuns
  PROVE  MainInv'
  <1>1. ManagersNext /\ UNCHANGED <<clientVars, args, serverTypeOption, program>>
    BY DEF ServerRuns
  <1>2. ManagersInv'
    BY <1>1, ManagersStepKeeps DEF MainInv
  <1>3. LoadInv'
    BY <1>1, <1>2, LoadInvStep DEF MainInv
  <1>4. ClientInv'
    <2>1. UNCHANGED <<storage, clients, clientCount, clientPhase, stream, sent>>
          /\ UNCHANGED <<current, bufferPool, content, bufferChain, msg, logged>>
      BY <1>1 DEF clientVars, netVars, vectorVars, receiveVars
    <2>2. \A where \in Storages, i \in Sockets :
            sockets'.handle[Element(where, i)] = sockets.handle[Element(where, i)]
      BY <1>1, ServerLeavesOthers, ElementsDiffer DEF MainInv
    <2>3. VectorInv'
      BY <2>1, <2>2 DEF MainInv, ClientInv, VectorInv
    <2>4. PoolInv' /\ StreamInv' /\ HeadInv'
      BY <2>1 DEF MainInv, ClientInv, PoolInv, StreamInv, HeadInv, Fresh, ChainHead
    <2> QED BY <2>3, <2>4 DEF ClientInv
  <1>5. BoundsInv'
    <2>1. /\ program' = program /\ args' = args /\ serverTypeOption' = serverTypeOption
          /\ clientPhase' = clientPhase
      BY <1>1 DEF clientVars
    <2>2. MaxManagers \in Nat \ {0}
      BY ManagersAssumption
    <2>3. Len(netEventManagers') <= MaxManagers
      <3>1. CASE Construct
        BY <2>2, <3>1 DEF Construct
      <3>2. CASE AddEventHandler
        BY <2>2, <3>2 DEF AddEventHandler, MainInv, ManagersInv, ShapeInv
      <3>3. CASE \E c \in Conns : Accept(c)
        BY <3>3, AcceptedContext DEF MainInv, BoundsInv
      <3>4. ASSUME NEW S, RemoveConnections(S) PROVE Len(netEventManagers') <= MaxManagers
        <4>1. netEventManagers \in Seq(SUBSET Conns)
          BY DEF MainInv, ManagersInv, ShapeInv
        <4>2. Len(netEventManagers') = Len(netEventManagers)
          BY <3>4, <4>1 DEF RemoveConnections, Remaining
        <4> QED BY <4>2 DEF MainInv, BoundsInv
      <3>5. CASE HandleNetEvents
        BY <3>4, <3>5 DEF HandleNetEvents
      <3>6. CASE DisconnectAll
        BY <3>4, <3>6 DEF DisconnectAll
      <3>7. CASE Destruct
        BY <2>2, <3>7 DEF Destruct
      <3>8. CASE EnterLoop \/ UpdateConnections
        BY <3>8 DEF EnterLoop, UpdateConnections, managersVars, MainInv, BoundsInv
      <3> QED BY <1>1, <3>1, <3>2, <3>3, <3>5, <3>6, <3>7, <3>8 DEF ManagersNext
    <2>4. availableServerIndex' \in 1..MaxManagers
      <3>1. CASE \E c \in Conns : Accept(c)
        <4>1. availableServerIndex' \in 1..Len(netEventManagers') /\ Len(netEventManagers') \in Nat
          BY <1>2, <3>1 DEF ManagersInv, ShapeInv, Accept
        <4> QED BY <2>2, <2>3, <4>1
      <3>2. CASE ~\E c \in Conns : Accept(c)
        BY <1>1, <3>2 DEF ManagersNext, Construct, AddEventHandler, EnterLoop, HandleNetEvents,
             UpdateConnections, DisconnectAll, RemoveConnections, Destruct, managersVars,
             MainInv, BoundsInv
      <3> QED BY <3>1, <3>2
    <2> QED BY <2>1, <2>3, <2>4 DEF MainInv, BoundsInv
  <1> QED BY <1>2, <1>3, <1>4, <1>5 DEF MainInv

LEMMA ClientRunsKeeps ==
  ASSUME MainInv, ClientRuns
  PROVE  MainInv'
  <1>1. /\ ClientNext /\ program = "client"
        /\ UNCHANGED <<serverVars, managersVars, args, serverTypeOption, program>>
    BY DEF ClientRuns
  <1>2. ManagersInv'
    BY <1>1, ClientLeavesServer DEF MainInv
  <1>3. ClientInv'
    BY <1>1, ClientStepKeeps DEF MainInv, ManagersInv, SocketInv
  <1>4. LoadInv'
    BY <1>1 DEF MainInv, LoadInv, NobodyLeft, Loads, serverVars, managersVars
  <1>5. BoundsInv'
    BY <1>1 DEF MainInv, BoundsInv, managersVars
  <1> QED BY <1>2, <1>3, <1>4, <1>5 DEF MainInv

LEMMA StartsKeep ==
  ASSUME MainInv, StartServer \/ StartClient \/ CountThrows
  PROVE  MainInv'
  <1>1. UNCHANGED <<serverVars, sockets, managersVars>>
    BY DEF StartServer, StartClient, CountThrows
  <1>2. ManagersInv' /\ LoadInv'
    <2>1. [ManagersNext]_<<serverVars, sockets, managersVars>>
      BY <1>1
    <2>2. ManagersInv'
      BY <2>1, ManagersStepKeeps DEF MainInv
    <2> QED BY <2>1, <2>2, LoadInvStep DEF MainInv
  <1>3. args' = <<>> /\ <<>> \in Seq(Texts)
    BY DEF StartServer, StartClient, CountThrows
  <1>4. CASE StartServer \/ CountThrows
    <2>1. UNCHANGED clientVars
      BY <1>4 DEF StartServer, CountThrows
    <2>2. ClientInv'
      BY <1>1, <2>1 DEF MainInv, ClientInv, VectorInv, PoolInv, StreamInv, HeadInv, Fresh, ChainHead,
           clientVars, netVars, vectorVars, receiveVars
    <2>3. BoundsInv'
      BY <1>1, <1>3, <1>4, <2>1
      DEF MainInv, BoundsInv, StartServer, CountThrows, ServerType, managersVars, clientVars
    <2> QED BY <1>2, <2>2, <2>3 DEF MainInv
  <1>5. CASE StartClient
    <2>1. /\ UNCHANGED <<sockets, storage, clients, netVars, receiveVars>>
          /\ clientPhase = "none" /\ clientPhase' = "Connect" /\ clientCount' = Count
          /\ program' = "client" /\ serverTypeOption' = serverTypeOption
      BY <1>5 DEF StartClient, MainInv, BoundsInv
    <2>2. clientCount' \in 1..MaxClients
      BY <1>5, <2>1, CountBounds DEF StartClient
    <2>3. VectorInv'
      BY <2>1, <2>2, ClientAssumption DEF MainInv, ClientInv, VectorInv, receiveVars
    <2>4. PoolInv' /\ StreamInv' /\ HeadInv'
      <3>1. UNCHANGED <<netVars, bufferPool, content, bufferChain, logged>>
        BY <2>1 DEF receiveVars
      <3> QED BY <2>1, <3>1, QuietStepKeeps DEF MainInv, ClientInv, PoolInv
    <2>5. BoundsInv'
      BY <1>1, <1>3, <2>1 DEF MainInv, BoundsInv, managersVars
    <2> QED BY <1>2, <2>3, <2>4, <2>5 DEF MainInv, ClientInv
  <1> QED BY <1>4, <1>5

LEMMA MainInvHolds == MainSpec => []MainInv
  <1>1. MainInv /\ [Next]_vars => MainInv'
    <2> SUFFICES ASSUME MainInv, [Next]_vars PROVE MainInv'
      OBVIOUS
    <2>1. CASE StartServer \/ StartClient \/ CountThrows
      BY <2>1, StartsKeep
    <2>2. CASE ServerRuns
      BY <2>2, ServerRunsKeeps
    <2>3. CASE ClientRuns
      BY <2>3, ClientRunsKeeps
    <2>4. CASE UNCHANGED vars
      <3>1. [ManagersNext]_<<serverVars, sockets, managersVars>>
        BY <2>4 DEF vars
      <3>2. ManagersInv'
        BY <3>1, ManagersStepKeeps DEF MainInv
      <3>3. LoadInv'
        BY <3>1, <3>2, LoadInvStep DEF MainInv
      <3>4. ClientInv'
        BY <2>4 DEF MainInv, ClientInv, VectorInv, PoolInv, StreamInv, HeadInv, Fresh, ChainHead,
             vars, clientVars, netVars, vectorVars, receiveVars
      <3>5. BoundsInv'
        BY <2>4 DEF MainInv, BoundsInv, vars, managersVars, clientVars
      <3> QED BY <3>2, <3>3, <3>4, <3>5 DEF MainInv
    <2> QED BY <2>1, <2>2, <2>3, <2>4 DEF Next
  <1> QED BY <1>1, MainInitHolds, PTL DEF MainSpec


-----------------------------------------------------------------------------
(* The process has a shape its driver can work with, for any bounds that   *)
(* leave room for the two sockets a command line may ask for.              *)
THEOREM ProcessTypes == MainSpec => []MainTypeOK
  <1>1. MainInv => MainTypeOK
    <2> SUFFICES ASSUME MainInv PROVE MainTypeOK
      OBVIOUS
    <2>1. ManagersTypeOK
      BY DEF MainInv, ManagersInv, ShapeInv, StatusInv, BoundsInv, ManagersTypeOK
    <2>2. SocketsTypeOK
      BY DEF MainInv, ManagersInv, SocketInv, Owned, SocketsTypeOK
    <2>3. ToSet(bufferPool.buffersQueue \o bufferChain) \subseteq 1..bufferPool.buffers
      <3> DEFINE q == bufferPool.buffersQueue
      <3>1. /\ q \in Seq(Nat) /\ Len(q) \in Nat /\ bufferPool.buffers \in Nat
            /\ \A k \in 1..Len(q) : q[k] \in 1..bufferPool.buffers
        BY ClientAssumption DEF MainInv, ClientInv, PoolInv, PoolOK, ToSet
      <3>2. CASE bufferChain = <<>>
        BY <3>1, <3>2, ConcatEmptySeq DEF MainInv, ClientInv, PoolInv, PoolOK
      <3>3. CASE bufferChain # <<>>
        <4>1. PICK b \in 1..bufferPool.buffers : bufferChain = <<b>>
          BY <3>3 DEF MainInv, ClientInv, PoolInv, GivenOut
        <4> HIDE DEF q
        <4>2. /\ b \in Nat /\ DOMAIN (q \o <<b>>) = 1..(Len(q) + 1)
              /\ \A k \in 1..(Len(q) + 1) : (q \o <<b>>)[k] = IF k <= Len(q) THEN q[k] ELSE b
          BY <3>1
        <4>3. \A k \in 1..(Len(q) + 1) : (q \o <<b>>)[k] \in 1..bufferPool.buffers
          BY <3>1, <4>2
        <4> QED BY <4>1, <4>2, <4>3 DEF ToSet, q
      <3> QED BY <3>2, <3>3
    <2>4. ClientTypeOK
      BY <2>3 DEF MainInv, ClientInv, VectorInv, PoolInv, PoolOK, ClientTypeOK
    <2> QED BY <2>1, <2>2, <2>4 DEF MainTypeOK, MainInv, BoundsInv
  <1> QED BY <1>1, MainInvHolds, PTL

(* Whichever driver runs, no handle is held twice and none is left open,   *)
(* although the vector of the client moves its sockets when it grows.       *)
THEOREM ProcessHandlesHaveOneOwner == MainSpec => []HandlesHaveOneOwner
  <1>1. MainInv => HandlesHaveOneOwner
    BY DEF MainInv, ManagersInv, SocketInv, Owned, HandlesHaveOneOwner
  <1> QED BY <1>1, MainInvHolds, PTL

(* In the process, too, a connection has one manager, and a socket and a   *)
(* place in the list as long as it has one.                                 *)
THEOREM ProcessOneManager == MainSpec => []ConnectionsHaveOneManager
  <1>1. MainInv => ConnectionsHaveOneManager
    BY DEF MainInv, ManagersInv
  <1> QED BY <1>1, MainInvHolds, PTL

(* The managers that a command line leads to share the clients as any       *)
(* number of managers does.                                                 *)
THEOREM ProcessLoads == MainSpec => []LoadsDifferByTwo
  <1>1. MainInv => LoadsDifferByTwo
    BY LoadInvSuffices DEF MainInv
  <1> QED BY <1>1, MainInvHolds, PTL

(* The process keeps NetServer's obligations, whatever the command line is. *)
THEOREM ProcessServesAsSpecified == MainSpec => Spec
  <1>1. Init => ServerInit
    BY DEF Init, ManagersIdle
  <1>2. MainInv /\ [Next]_vars => [ServerNext]_serverVars
    <2> SUFFICES ASSUME MainInv, [Next]_vars PROVE [ServerNext]_serverVars
      OBVIOUS
    <2>1. CASE ServerRuns
      BY <2>1, ManagersStepServes DEF ServerRuns, MainInv
    <2>2. CASE ~ServerRuns
      BY <2>2 DEF Next, StartServer, StartClient, CountThrows, ClientRuns, vars
    <2> QED BY <2>1, <2>2
  <1> QED BY <1>1, <1>2, MainInvHolds, PTL DEF MainSpec, Spec

(* Each client the process accepts is reported disconnected exactly once.   *)
THEOREM ProcessNotifiesOnce == MainSpec => []NotifiedExactlyOnce
  BY ProcessServesAsSpecified, NotifiedOnce, PTL

(* The client never fills a buffer that the pool could hand out again, and *)
(* none is queued twice, although only the first buffer of a Receive is     *)
(* ever given back.                                                         *)
THEOREM ClientOneUser == MainSpec => []ClientBuffersHaveOneUser
  <1>1. MainInv => ClientBuffersHaveOneUser
    <2> SUFFICES ASSUME MainInv PROVE ClientBuffersHaveOneUser
      OBVIOUS
    <2>1. ToSet(<<>>) = {} /\ \A b : ToSet(<<b>>) = {b}
      BY DEF ToSet
    <2> QED BY <2>1 DEF MainInv, ClientInv, PoolInv, PoolOK, GivenOut, ClientBuffersHaveOneUser
  <1> QED BY <1>1, MainInvHolds, PTL

(* However the stream is cut into pieces, each message the client logs     *)
(* begins with something new of its own socket, in the order it was sent.   *)
THEOREM ClientLogsInOrder == MainSpec => []LoggedInOrder
  <1>1. MainInv => LoggedInOrder
    <2> SUFFICES ASSUME MainInv, NEW i \in Sockets, NEW k \in DOMAIN logged[i]
                 PROVE  /\ logged[i][k] # <<>> /\ logged[i][k][1][1] = i
                        /\ k > 1 => Place(logged[i][k - 1][1]) < Place(logged[i][k][1])
      BY DEF LoggedInOrder, Place
    <2>1. LogOK(logged[i], stream[i], i, sent[i])
      BY DEF MainInv, ClientInv, StreamInv
    <2> DEFINE S == Seq(Piece) \ {<<>>}
    <2>2. logged[i] \in Seq(S)
      BY <2>1 DEF LogOK
    <2> HIDE DEF S
    <2>3. k \in 1..Len(logged[i]) /\ Len(logged[i]) \in Nat /\ logged[i][k] \in S
      BY <2>2
    <2>4. k > 1 => k - 1 \in 1..(k - 1)
      BY <2>3
    <2> QED BY <2>1, <2>3, <2>4 DEF LogOK, Precedes, S
  <1> QED BY <1>1, MainInvHolds, PTL

=============================================================================
