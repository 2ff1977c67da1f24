------------------------ MODULE NetReceivePathProofs ------------------------
(***************************************************************************)
(* Proofs about NetReceivePath, for any connections, any pool and any      *)
(* order of calls its event managers may produce.                           *)
(*                                                                         *)
(* What makes a buffer have one user is a property of the pool p and of    *)
(* all lists B together, kept by the three things the code does to them:   *)
(* take a buffer for one list, return a list, forget lists.                 *)
(***************************************************************************)
EXTENDS NetReceivePath, SequenceTheorems, FiniteSetTheorems, TLAPS

Pools == [buffersQueue : Seq(Nat), buffers : Nat]

PoolOK(p) ==
  /\ p \in Pools
  /\ ToSet(p.buffersQueue) \subseteq 1..p.buffers
  /\ IsInjective(p.buffersQueue)

ListOK(p, list) ==
  /\ list \in Seq(Nat)
  /\ ToSet(list) \subseteq 1..p.buffers
  /\ IsInjective(list)
  /\ ToSet(list) \cap ToSet(p.buffersQueue) = {}

UsersOK(p, B) ==
  /\ PoolOK(p)
  /\ B \in [Conns -> Seq(Nat)]
  /\ \A c \in Conns : ListOK(p, B[c])
  /\ \A c, d \in Conns : c # d => ToSet(B[c]) \cap ToSet(B[d]) = {}

-----------------------------------------------------------------------------
(* Sets of elements, lengths and injectivity of the sequences the pool's   *)
(* operators build.                                                         *)
LEMMA ToSetFacts ==
  ASSUME NEW s \in Seq(Nat)
  PROVE  /\ Len(s) \in Nat
         /\ \A x : x \in ToSet(s) <=> \E i \in 1..Len(s) : s[i] = x
         /\ IsInjective(s) <=> \A i, j \in 1..Len(s) : s[i] = s[j] => i = j
<1>1. DOMAIN s = 1..Len(s) /\ Len(s) \in Nat
  BY LenProperties
<1>2. \A x : x \in ToSet(s) <=> \E i \in 1..Len(s) : s[i] = x
  BY <1>1 DEF ToSet
<1>3. IsInjective(s) <=> \A i, j \in 1..Len(s) : s[i] = s[j] => i = j
  BY <1>1 DEF IsInjective
<1>. QED  BY <1>1, <1>2, <1>3

LEMMA EmptyFacts ==
  /\ <<>> \in Seq(Nat)
  /\ ToSet(<<>>) = {}
  /\ IsInjective(<<>>)
<1>1. <<>> \in Seq(Nat) /\ DOMAIN <<>> = {}
  BY EmptySeq
<1>. QED  BY <1>1 DEF ToSet, IsInjective

LEMMA TailFacts ==
  ASSUME NEW s \in Seq(Nat), s # <<>>
  PROVE  /\ Tail(s) \in Seq(Nat) /\ Head(s) \in Nat
         /\ Head(s) \in ToSet(s)
         /\ ToSet(Tail(s)) \subseteq ToSet(s)
         /\ IsInjective(s) => IsInjective(Tail(s)) /\ Head(s) \notin ToSet(Tail(s))
<1>1. Len(s) \in Nat \ {0} /\ Head(s) = s[1]
  BY EmptySeq
<1>2. /\ Tail(s) \in Seq(Nat) /\ Head(s) \in Nat
      /\ Len(Tail(s)) = Len(s) - 1
      /\ \A i \in 1..Len(Tail(s)) : Tail(s)[i] = s[i + 1]
  BY HeadTailProperties
<1>3. Head(s) \in ToSet(s)
  BY <1>1, ToSetFacts
<1>4. ToSet(Tail(s)) \subseteq ToSet(s)
  <2>. SUFFICES ASSUME NEW x \in ToSet(Tail(s))  PROVE x \in ToSet(s)
    OBVIOUS
  <2>1. PICK i \in 1..Len(Tail(s)) : Tail(s)[i] = x
    BY <1>2, ToSetFacts
  <2>2. i + 1 \in 1..Len(s) /\ s[i + 1] = x
    BY <2>1, <1>1, <1>2
  <2>. QED  BY <2>2, ToSetFacts
<1>5. ASSUME IsInjective(s)  PROVE IsInjective(Tail(s)) /\ Head(s) \notin ToSet(Tail(s))
  <2>1. \A i, j \in 1..Len(s) : s[i] = s[j] => i = j
    BY <1>5, ToSetFacts
  <2>2. \A i, j \in 1..Len(Tail(s)) : Tail(s)[i] = Tail(s)[j] => i = j
    <3>. TAKE i, j \in 1..Len(Tail(s))
    <3>1. i + 1 \in 1..Len(s) /\ j + 1 \in 1..Len(s)
      BY <1>1, <1>2
    <3>. QED  BY <3>1, <2>1, <1>2
  <2>3. ASSUME Head(s) \in ToSet(Tail(s))  PROVE FALSE
    <3>1. PICK i \in 1..Len(Tail(s)) : Tail(s)[i] = Head(s)
      BY <2>3, <1>2, ToSetFacts
    <3>2. i + 1 \in 1..Len(s) /\ 1 \in 1..Len(s) /\ i + 1 # 1 /\ s[i + 1] = s[1]
      BY <3>1, <1>1, <1>2
    <3>. QED  BY <3>2, <2>1
  <2>. QED  BY <2>2, <2>3, <1>2, ToSetFacts
<1>. QED  BY <1>2, <1>3, <1>4, <1>5

LEMMA ConcatFacts ==
  ASSUME NEW s \in Seq(Nat), NEW t \in Seq(Nat)
  PROVE  /\ s \o t \in Seq(Nat)
         /\ ToSet(s \o t) = ToSet(s) \cup ToSet(t)
         /\ IsInjective(s) /\ IsInjective(t) /\ ToSet(s) \cap ToSet(t) = {}
              => IsInjective(s \o t)
<1>1. /\ Len(s) \in Nat /\ Len(t) \in Nat
      /\ s \o t \in Seq(Nat)
      /\ Len(s \o t) = Len(s) + Len(t)
      /\ \A i \in 1..Len(s) + Len(t) :
           (s \o t)[i] = IF i <= Len(s) THEN s[i] ELSE t[i - Len(s)]
  BY ConcatProperties, LenProperties
<1>2. \A i \in 1..Len(s) : i \in 1..Len(s \o t) /\ (s \o t)[i] = s[i]
  BY <1>1
<1>3. \A i \in 1..Len(t) : Len(s) + i \in 1..Len(s \o t) /\ (s \o t)[Len(s) + i] = t[i]
  BY <1>1
<1>4. \A i \in 1..Len(s \o t) :
        i \notin 1..Len(s) => i - Len(s) \in 1..Len(t) /\ (s \o t)[i] = t[i - Len(s)]
  BY <1>1
<1>5. \A x : x \in ToSet(s \o t) <=> x \in ToSet(s) \cup ToSet(t)
  <2>1. \A x : x \in ToSet(s \o t) <=> \E i \in 1..Len(s \o t) : (s \o t)[i] = x
    BY <1>1, ToSetFacts
  <2>2. /\ \A x : x \in ToSet(s) <=> \E i \in 1..Len(s) : s[i] = x
        /\ \A x : x \in ToSet(t) <=> \E i \in 1..Len(t) : t[i] = x
    BY ToSetFacts
  <2>. QED  BY <1>2, <1>3, <1>4, <2>1, <2>2, ZenonT(40)
<1>6. ASSUME IsInjective(s), IsInjective(t), ToSet(s) \cap ToSet(t) = {}
      PROVE  IsInjective(s \o t)
  <2>1. /\ \A i, j \in 1..Len(s) : s[i] = s[j] => i = j
        /\ \A i, j \in 1..Len(t) : t[i] = t[j] => i = j
        /\ \A i \in 1..Len(s), j \in 1..Len(t) : s[i] # t[j]
    BY <1>6, ToSetFacts
  <2>2. ASSUME NEW i \in 1..Len(s \o t), NEW j \in 1..Len(s \o t), (s \o t)[i] = (s \o t)[j]
        PROVE  i = j
    <3>1. CASE i \in 1..Len(s) /\ j \in 1..Len(s)
      BY <3>1, <2>1, <2>2, <1>2
    <3>2. CASE i \in 1..Len(s) /\ j \notin 1..Len(s)
      BY <3>2, <2>1, <2>2, <1>2, <1>4
    <3>3. CASE i \notin 1..Len(s) /\ j \in 1..Len(s)
      BY <3>3, <2>1, <2>2, <1>2, <1>4
    <3>4. CASE i \notin 1..Len(s) /\ j \notin 1..Len(s)
      <4>1. i - Len(s) = j - Len(s)
        BY <3>4, <2>1, <2>2, <1>4
      <4>. QED  BY <4>1, <1>1
    <3>. QED  BY <3>1, <3>2, <3>3, <3>4
  <2>. QED  BY <2>2, <1>1, ToSetFacts
<1>. QED  BY <1>1, <1>5, <1>6

LEMMA SnocFacts ==
  ASSUME NEW s \in Seq(Nat), NEW e \in Nat
  PROVE  /\ Append(s, e) \in Seq(Nat)
         /\ ToSet(Append(s, e)) = ToSet(s) \cup {e}
         /\ IsInjective(s) /\ e \notin ToSet(s) => IsInjective(Append(s, e))
<1>1. /\ Append(s, e) \in Seq(Nat) /\ Len(s) \in Nat
      /\ Len(Append(s, e)) = Len(s) + 1
      /\ \A i \in 1..Len(s) : Append(s, e)[i] = s[i]
      /\ Append(s, e)[Len(s) + 1] = e
  BY AppendProperties, LenProperties
<1>2. \A i \in 1..Len(Append(s, e)) : i \in 1..Len(s) \/ i = Len(s) + 1
  BY <1>1
<1>3. \A x : x \in ToSet(Append(s, e)) <=> x \in ToSet(s) \cup {e}
  <2>1. \A x : x \in ToSet(Append(s, e)) <=> \E i \in 1..Len(Append(s, e)) : Append(s, e)[i] = x
    BY <1>1, ToSetFacts
  <2>2. \A x : x \in ToSet(s) <=> \E i \in 1..Len(s) : s[i] = x
    BY ToSetFacts
  <2>3. Len(s) + 1 \in 1..Len(Append(s, e)) /\ \A i \in 1..Len(s) : i \in 1..Len(Append(s, e))
    BY <1>1
  <2>. QED  BY <1>1, <1>2, <2>1, <2>2, <2>3
<1>4. ASSUME IsInjective(s), e \notin ToSet(s)  PROVE IsInjective(Append(s, e))
  <2>1. /\ \A i, j \in 1..Len(s) : s[i] = s[j] => i = j
        /\ \A i \in 1..Len(s) : s[i] # e
    BY <1>4, ToSetFacts
  <2>2. \A i, j \in 1..Len(Append(s, e)) : Append(s, e)[i] = Append(s, e)[j] => i = j
    BY <2>1, <1>1, <1>2
  <2>. QED  BY <2>2, <1>1, ToSetFacts
<1>. QED  BY <1>1, <1>3, <1>4

-----------------------------------------------------------------------------
(* TakeBuffer hands out a buffer that nobody has, and returning a list      *)
(* nobody else has leaves a pool that is whole.                             *)
LEMMA TakeFacts ==
  ASSUME NEW p, PoolOK(p)
  PROVE  /\ PoolOK(AfterTake(p))
         /\ TakenBuffer(p) \in 1..AfterTake(p).buffers
         /\ p.buffers \in Nat /\ AfterTake(p).buffers \in Nat
         /\ p.buffers <= AfterTake(p).buffers
         /\ AfterTake(p).buffers \in {p.buffers, TakenBuffer(p)}
         /\ TakenBuffer(p) \in ToSet(p.buffersQueue) \/ TakenBuffer(p) \notin 1..p.buffers
         /\ ToSet(AfterTake(p).buffersQueue) \subseteq ToSet(p.buffersQueue)
         /\ TakenBuffer(p) \notin ToSet(AfterTake(p).buffersQueue)
<1>1. /\ p \in Pools /\ p.buffersQueue \in Seq(Nat) /\ p.buffers \in Nat
      /\ ToSet(p.buffersQueue) \subseteq 1..p.buffers
      /\ IsInjective(p.buffersQueue)
  BY DEF PoolOK, Pools
<1>2. CASE p.buffersQueue = <<>>
  <2>1. /\ TakenBuffer(p) = p.buffers + 1
        /\ AfterTake(p) = [p EXCEPT !.buffers = @ + 1]
    BY <1>2 DEF TakenBuffer, AfterTake
  <2>2. /\ AfterTake(p) \in Pools
        /\ AfterTake(p).buffersQueue = p.buffersQueue
        /\ AfterTake(p).buffers = p.buffers + 1
    BY <2>1, <1>1 DEF Pools
  <2>. QED  BY <1>1, <1>2, <2>1, <2>2, EmptyFacts DEF PoolOK
<1>3. CASE p.buffersQueue # <<>>
  <2>1. /\ TakenBuffer(p) = Head(p.buffersQueue)
        /\ AfterTake(p) = [p EXCEPT !.buffersQueue = Tail(@)]
    BY <1>3 DEF TakenBuffer, AfterTake
  <2>2. /\ Tail(p.buffersQueue) \in Seq(Nat)
        /\ Head(p.buffersQueue) \in ToSet(p.buffersQueue)
        /\ ToSet(Tail(p.buffersQueue)) \subseteq ToSet(p.buffersQueue)
        /\ IsInjective(Tail(p.buffersQueue))
        /\ Head(p.buffersQueue) \notin ToSet(Tail(p.buffersQueue))
    BY <1>1, <1>3, TailFacts
  <2>3. /\ AfterTake(p) \in Pools
        /\ AfterTake(p).buffersQueue = Tail(p.buffersQueue)
        /\ AfterTake(p).buffers = p.buffers
    BY <2>1, <2>2, <1>1 DEF Pools
  <2>. QED  BY <1>1, <2>1, <2>2, <2>3 DEF PoolOK
<1>. QED  BY <1>2, <1>3

LEMMA ReturnFacts ==
  ASSUME NEW p, NEW list, PoolOK(p), ListOK(p, list)
  PROVE  /\ PoolOK(ReturnBuffers(p, list))
         /\ ReturnBuffers(p, list).buffers = p.buffers
         /\ ToSet(ReturnBuffers(p, list).buffersQueue) = ToSet(p.buffersQueue) \cup ToSet(list)
<1>1. /\ p \in Pools /\ p.buffersQueue \in Seq(Nat) /\ p.buffers \in Nat
      /\ ToSet(p.buffersQueue) \subseteq 1..p.buffers
      /\ IsInjective(p.buffersQueue)
  BY DEF PoolOK, Pools
<1>2. /\ list \in Seq(Nat) /\ IsInjective(list)
      /\ ToSet(list) \subseteq 1..p.buffers
      /\ ToSet(p.buffersQueue) \cap ToSet(list) = {}
  BY DEF ListOK
<1>3. /\ p.buffersQueue \o list \in Seq(Nat)
      /\ ToSet(p.buffersQueue \o list) = ToSet(p.buffersQueue) \cup ToSet(list)
      /\ IsInjective(p.buffersQueue \o list)
  BY <1>1, <1>2, ConcatFacts
<1>4. ReturnBuffers(p, list) = [p EXCEPT !.buffersQueue = @ \o list]
  BY DEF ReturnBuffers
<1>5. /\ ReturnBuffers(p, list) \in Pools
      /\ ReturnBuffers(p, list).buffersQueue = p.buffersQueue \o list
      /\ ReturnBuffers(p, list).buffers = p.buffers
  BY <1>1, <1>3, <1>4 DEF Pools
<1>. QED  BY <1>1, <1>2, <1>3, <1>5 DEF PoolOK

(* The three things that are done to a pool and all lists.                  *)
LEMMA TakeKeepsUsers ==
  ASSUME NEW p, NEW B, NEW c \in Conns, UsersOK(p, B)
  PROVE  UsersOK(AfterTake(p), [B EXCEPT ![c] = Append(B[c], TakenBuffer(p))])
<1>. DEFINE q == AfterTake(p)
            e == TakenBuffer(p)
            D == [B EXCEPT ![c] = Append(B[c], e)]
<1>1. /\ PoolOK(p) /\ B \in [Conns -> Seq(Nat)]
      /\ \A d \in Conns : ListOK(p, B[d])
      /\ \A d, f \in Conns : d # f => ToSet(B[d]) \cap ToSet(B[f]) = {}
  BY DEF UsersOK
<1>2. /\ PoolOK(q)
      /\ p.buffers \in Nat /\ q.buffers \in Nat
      /\ p.buffers <= q.buffers
      /\ e \in 1..q.buffers
      /\ e \in ToSet(p.buffersQueue) \/ e \notin 1..p.buffers
      /\ ToSet(q.buffersQueue) \subseteq ToSet(p.buffersQueue)
      /\ e \notin ToSet(q.buffersQueue)
  BY <1>1, TakeFacts
<1>. HIDE DEF q, e
<1>2a. e \in Nat /\ 1..p.buffers \subseteq 1..q.buffers
  BY <1>2
<1>3. \A d \in Conns : /\ B[d] \in Seq(Nat) /\ IsInjective(B[d])
                       /\ ToSet(B[d]) \subseteq 1..p.buffers
                       /\ ToSet(B[d]) \cap ToSet(p.buffersQueue) = {}
                       /\ e \notin ToSet(B[d])
  BY <1>1, <1>2 DEF ListOK
<1>4. \A d \in Conns : ListOK(q, B[d])
  <2>. TAKE d \in Conns
  <2>1. ToSet(B[d]) \subseteq 1..q.buffers
    BY <1>2a, <1>3
  <2>. QED  BY <1>2, <1>3, <2>1 DEF ListOK
<1>5. /\ Append(B[c], e) \in Seq(Nat)
      /\ ToSet(Append(B[c], e)) = ToSet(B[c]) \cup {e}
      /\ IsInjective(Append(B[c], e))
  BY <1>2a, <1>3, SnocFacts
<1>6. ListOK(q, Append(B[c], e))
  BY <1>2, <1>4, <1>5 DEF ListOK
<1>7. D \in [Conns -> Seq(Nat)] /\ D[c] = Append(B[c], e) /\ \A d \in Conns : d # c => D[d] = B[d]
  BY <1>1, <1>5
<1>. HIDE DEF D
<1>8. \A d \in Conns : ListOK(q, D[d])
  BY <1>4, <1>6, <1>7
<1>9. \A d, f \in Conns : d # f => ToSet(D[d]) \cap ToSet(D[f]) = {}
  <2>. TAKE d, f \in Conns
  <2>1. CASE d = c
    BY <2>1, <1>1, <1>3, <1>5, <1>7
  <2>2. CASE f = c
    BY <2>2, <1>1, <1>3, <1>5, <1>7
  <2>3. CASE d # c /\ f # c
    BY <2>3, <1>1, <1>7
  <2>. QED  BY <2>1, <2>2, <2>3
<1>. QED  BY <1>2, <1>7, <1>8, <1>9 DEF UsersOK, q, e, D

LEMMA ReturnKeepsUsers ==
  ASSUME NEW p, NEW B, NEW c \in Conns, UsersOK(p, B)
  PROVE  UsersOK(ReturnBuffers(p, B[c]), [B EXCEPT ![c] = <<>>])
<1>. DEFINE q == ReturnBuffers(p, B[c])
            D == [B EXCEPT ![c] = <<>>]
<1>1. /\ PoolOK(p) /\ B \in [Conns -> Seq(Nat)]
      /\ \A d \in Conns : ListOK(p, B[d])
      /\ \A d, f \in Conns : d # f => ToSet(B[d]) \cap ToSet(B[f]) = {}
  BY DEF UsersOK
<1>2. /\ PoolOK(q)
      /\ q.buffers = p.buffers
      /\ ToSet(q.buffersQueue) = ToSet(p.buffersQueue) \cup ToSet(B[c])
  BY <1>1, ReturnFacts
<1>. HIDE DEF q
<1>3. /\ D \in [Conns -> Seq(Nat)] /\ D[c] = <<>> /\ \A d \in Conns : d # c => D[d] = B[d]
  BY <1>1, EmptyFacts
<1>. HIDE DEF D
<1>4. \A d \in Conns : ListOK(q, D[d])
  <2>1. ListOK(q, D[c])
    BY <1>3, EmptyFacts DEF ListOK
  <2>2. ASSUME NEW d \in Conns, d # c  PROVE ListOK(q, D[d])
    BY <2>2, <1>1, <1>2, <1>3 DEF ListOK
  <2>. QED  BY <2>1, <2>2
<1>5. \A d, f \in Conns : d # f => ToSet(D[d]) \cap ToSet(D[f]) = {}
  BY <1>1, <1>3, EmptyFacts
<1>. QED  BY <1>2, <1>3, <1>4, <1>5 DEF UsersOK, q, D

LEMMA DropKeepsUsers ==
  ASSUME NEW p, NEW B, NEW S, UsersOK(p, B)
  PROVE  UsersOK(p, [c \in Conns |-> IF c \in S THEN <<>> ELSE B[c]])
<1>. DEFINE D == [c \in Conns |-> IF c \in S THEN <<>> ELSE B[c]]
<1>1. /\ PoolOK(p) /\ B \in [Conns -> Seq(Nat)]
      /\ \A d \in Conns : ListOK(p, B[d])
      /\ \A d, f \in Conns : d # f => ToSet(B[d]) \cap ToSet(B[f]) = {}
  BY DEF UsersOK
<1>2. /\ D \in [Conns -> Seq(Nat)]
      /\ \A d \in Conns : D[d] = B[d] \/ D[d] = <<>>
  BY <1>1, EmptyFacts
<1>. HIDE DEF D
<1>3. ListOK(p, <<>>)
  BY EmptyFacts DEF ListOK
<1>4. \A d \in Conns : ListOK(p, D[d])
  BY <1>1, <1>2, <1>3
<1>5. \A d, f \in Conns : d # f => ToSet(D[d]) \cap ToSet(D[f]) = {}
  BY <1>1, <1>2, EmptyFacts
<1>. QED  BY <1>1, <1>2, <1>4, <1>5 DEF UsersOK, D

-----------------------------------------------------------------------------
ReceiveInv == ReceiveTypeOK /\ UsersOK(pool, buffers)

(* What ChunksAreTheClientsOwn rests on.                                    *)
(* The chunks of the message being collected are the newest of the         *)
(* connection; each is all that its buffer holds, since no other list has  *)
(* that buffer and only the last buffer of a list is written.               *)
Collecting(list) == IF list = <<>> THEN 0 ELSE Len(list) - 1

CollectedOK(c, list, n, bytes) ==
  /\ Collecting(list) <= n
  /\ \A i \in 1..Collecting(list) : bytes[list[i]][1] = <<c, n - Collecting(list) + i>>

(* m is led by the run of chunks a, a + 1, ... of connection c.             *)
RunFrom(c, m, a) ==
  /\ m \in Seq(Seq(Chunks)) /\ m # <<>> /\ a \in Nat
  /\ \A i \in 1..Len(m) : m[i][1] = <<c, a + i - 1>>

(* Every message of q is a run of c that ends at chunk n or before, and    *)
(* after all earlier ones.                                                  *)
QueueOK(c, q, n) ==
  /\ \A k \in 1..Len(q) : \E a \in Nat : RunFrom(c, q[k], a) /\ a + Len(q[k]) - 1 <= n
  /\ InOrder(q)

HandedOK(c, h) == \A k \in 1..Len(h) : \E a \in Nat : RunFrom(c, h[k], a)

MessagesInv ==
  \A c \in Conns :
    /\ CollectedOK(c, buffers[c], chunks[c], content)
    /\ QueueOK(c, receivedMessages[c], chunks[c] - Collecting(buffers[c]))
    /\ HandedOK(c, handedOver[c])

-----------------------------------------------------------------------------
(* Types of the sequences Read and Update build.                            *)
LEMMA FunctionIsSeq ==
  ASSUME NEW T, NEW n \in Nat, NEW f \in [1..n -> T]
  PROVE  f \in Seq(T) /\ Len(f) = n
<1>1. f \in Seq(T)
  BY SeqDef
<1>2. DOMAIN f = 1..n /\ DOMAIN f = 1..Len(f) /\ Len(f) \in Nat
  BY <1>1, LenProperties
<1>. QED  BY <1>1, <1>2

LEMMA LastFacts ==
  ASSUME NEW T, NEW s \in Seq(T), s # <<>>
  PROVE  /\ Len(s) \in Nat /\ Len(s) \in 1..Len(s)
         /\ Last(s) = s[Len(s)] /\ Last(s) \in T
<1>1. Len(s) \in Nat \ {0}
  BY EmptySeq
<1>2. Len(s) \in 1..Len(s)
  BY <1>1
<1>. QED  BY <1>1, <1>2, ElementOfSeq DEF Last

LEMMA NetBufferFacts ==
  ASSUME NEW s \in Seq(Nat), s # <<>>
  PROVE  Last(s) \in ToSet(s)
BY LastFacts, ToSetFacts

(* filled has no empty buffer where Message reads one.                      *)
LEMMA MessageType ==
  ASSUME NEW list \in Seq(Nat), list # <<>>, ToSet(list) \subseteq Buffers,
         NEW bytes \in [Buffers -> Seq(Chunks)], bytes[Last(list)] # <<>>
  PROVE  /\ Message(list, bytes) \in Seq(Seq(Chunks))
         /\ Len(Message(list, bytes)) = Len(list)
         /\ \A i \in 1..Len(list) : Message(list, bytes)[i] =
              IF i < Len(list) THEN bytes[list[i]] ELSE <<Head(bytes[list[i]])>>
<1>1. Len(list) \in Nat /\ DOMAIN list = 1..Len(list) /\ Last(list) = list[Len(list)]
  BY LenProperties, LastFacts
<1>2. \A i \in 1..Len(list) : list[i] \in Buffers
  BY ToSetFacts
<1>3. \A i \in 1..Len(list) : ~(i < Len(list)) => i = Len(list)
  <2>1. \A n \in Nat : \A i \in 1..n : ~(i < n) => i = n
    OBVIOUS
  <2>. QED  BY <2>1, <1>1
<1>4. \A i \in 1..Len(list) :
        (IF i < Len(list) THEN bytes[list[i]] ELSE <<Head(bytes[list[i]])>>) \in Seq(Chunks)
  <2>. TAKE i \in 1..Len(list)
  <2>1. bytes[list[i]] \in Seq(Chunks)
    BY <1>2
  <2>2. CASE i < Len(list)
    BY <2>1, <2>2
  <2>3. CASE ~(i < Len(list))
    <3>1. bytes[list[i]] # <<>>
      BY <2>3, <1>1, <1>3
    <3>2. Head(bytes[list[i]]) \in Chunks
      BY <3>1, <2>1, HeadTailProperties
    <3>. QED  BY <3>2, <2>3
  <2>. QED  BY <2>2, <2>3
<1>5. Message(list, bytes) \in [1..Len(list) -> Seq(Chunks)]
  BY <1>1, <1>4 DEF Message
<1>. QED  BY <1>1, <1>5, FunctionIsSeq DEF Message

LEMMA HandedOverType ==
  ASSUME NEW T, NEW q \in Seq(T)
  PROVE  /\ HandedOver(q) \in Seq(T) /\ Len(HandedOver(q)) = Len(q)
         /\ \A k \in 1..Len(q) : HandedOver(q)[k] = q[Len(q)]
<1>1. Len(q) \in Nat /\ DOMAIN q = 1..Len(q)
  BY LenProperties
<1>2. \A k \in 1..Len(q) : Last(q) = q[Len(q)] /\ Last(q) \in T
  <2>. TAKE k \in 1..Len(q)
  <2>1. Len(q) \in 1..Len(q)
    BY <1>1
  <2>. QED  BY <2>1, ElementOfSeq DEF Last
<1>3. HandedOver(q) \in [1..Len(q) -> T]
  BY <1>1, <1>2 DEF HandedOver
<1>. QED  BY <1>1, <1>2, <1>3, FunctionIsSeq DEF HandedOver

LEMMA FilledType ==
  ASSUME NEW old \in Seq(Chunks), NEW chunk \in Chunks, NEW kind
  PROVE  /\ Filled(old, chunk, kind) \in Seq(Chunks)
         /\ Filled(old, chunk, kind) # <<>>
         /\ Head(Filled(old, chunk, kind)) = chunk
<1>1. <<chunk>> \in Seq(Chunks) /\ Len(<<chunk>>) = 1 /\ <<chunk>>[1] = chunk
  OBVIOUS
<1>2. /\ <<chunk>> \o old \in Seq(Chunks)
      /\ Len(<<chunk>> \o old) = 1 + Len(old) /\ Len(old) \in Nat
      /\ (<<chunk>> \o old)[1] = chunk
  BY <1>1, ConcatProperties, LenProperties
<1>3. ASSUME NEW s \in Seq(Chunks), Len(s) \in Nat \ {0}, s[1] = chunk
      PROVE  s # <<>> /\ Head(s) = chunk
  BY <1>3, EmptySeq
<1>. QED  BY <1>1, <1>2, <1>3 DEF Filled

-----------------------------------------------------------------------------
(* The pool of a typed state, and back                                      *)
LEMMA InvFacts ==
  ASSUME ReceiveInv
  PROVE  /\ pool \in Pools /\ pool.buffers \in 0..MaxBuffers
         /\ \A c \in Conns : /\ buffers[c] \in Seq(Nat)
                             /\ ToSet(buffers[c]) \subseteq Buffers
         /\ BuffersHaveOneUser
<1>1. pool \in Pools /\ pool.buffers \in 0..MaxBuffers
  BY DEF ReceiveInv, ReceiveTypeOK, UsersOK, PoolOK
<1>2. 1..pool.buffers \subseteq Buffers
  BY <1>1, ReceiveAssumption DEF ReceiveAssumption, Buffers
<1>3. \A c \in Conns : /\ buffers[c] \in Seq(Nat)
                       /\ ToSet(buffers[c]) \subseteq Buffers
  BY <1>2 DEF ReceiveInv, ReceiveTypeOK
<1>4. BuffersHaveOneUser
  BY DEF ReceiveInv, UsersOK, PoolOK, ListOK, BuffersHaveOneUser
<1>. QED  BY <1>1, <1>3, <1>4

LEMMA PoolType ==
  ASSUME NEW p, NEW B, UsersOK(p, B), p.buffers <= MaxBuffers
  PROVE  /\ p \in [buffersQueue : Seq(Nat), buffers : 0..MaxBuffers]
         /\ ToSet(p.buffersQueue) \subseteq 1..p.buffers
         /\ B \in [Conns -> Seq(Nat)]
         /\ \A c \in Conns : ToSet(B[c]) \subseteq 1..p.buffers
<1>1. p \in Pools /\ p.buffers \in Nat
  BY DEF UsersOK, PoolOK, Pools
<1>2. p.buffers \in 0..MaxBuffers
  BY <1>1, ReceiveAssumption DEF ReceiveAssumption
<1>3. p \in [buffersQueue : Seq(Nat), buffers : 0..MaxBuffers]
  BY <1>1, <1>2 DEF Pools
<1>. QED  BY <1>3 DEF UsersOK, PoolOK, ListOK

LEMMA ReceiveInvInit == ReceiveInit => ReceiveInv
<1>. SUFFICES ASSUME ReceiveInit  PROVE ReceiveInv
  OBVIOUS
<1>. DEFINE f == [i \in 1..InitialBuffers |-> i]
<1>1. f \in Seq(Nat) /\ Len(f) = InitialBuffers
  <2>1. f \in [1..InitialBuffers -> Nat] /\ InitialBuffers \in Nat
    BY ReceiveAssumption DEF ReceiveAssumption
  <2>. QED  BY <2>1, FunctionIsSeq
<1>2. IsInjective(f) /\ ToSet(f) \subseteq 1..InitialBuffers
  BY DEF IsInjective, ToSet
<1>3. pool = [buffersQueue |-> f, buffers |-> InitialBuffers]
  BY DEF ReceiveInit, NewPool
<1>4. PoolOK(pool) /\ pool.buffers <= MaxBuffers
  BY <1>1, <1>2, <1>3, ReceiveAssumption DEF ReceiveAssumption, PoolOK, Pools
<1>5. UsersOK(pool, buffers)
  <2>1. buffers = [c \in Conns |-> <<>>]
    BY DEF ReceiveInit
  <2>2. ListOK(pool, <<>>)
    BY EmptyFacts DEF ListOK
  <2>. QED  BY <1>4, <2>1, <2>2, EmptyFacts DEF UsersOK
<1>6. /\ content \in [Buffers -> Seq(Chunks)]
      /\ chunks \in [Conns -> Nat]
      /\ receivedMessages \in [Conns -> Seq(Seq(Seq(Chunks)))]
      /\ handedOver \in [Conns -> Seq(Seq(Seq(Chunks)))]
  BY DEF ReceiveInit
<1>. QED  BY <1>4, <1>5, <1>6, PoolType DEF ReceiveInv, ReceiveTypeOK

LEMMA ReceiveInvStartRead ==
  ASSUME ReceiveInv, NEW c \in Conns, buffers[c] = <<>>, MayTake(pool), StartRead(c)
  PROVE  ReceiveInv'
<1>1. UsersOK(pool, buffers) /\ buffers \in [Conns -> Seq(Nat)] /\ PoolOK(pool)
  BY DEF ReceiveInv, UsersOK
<1>2. /\ pool' = AfterTake(pool)
      /\ buffers' = [buffers EXCEPT ![c] = Append(buffers[c], TakenBuffer(pool))]
  <2>1. <<TakenBuffer(pool)>> = Append(<<>>, TakenBuffer(pool))
    OBVIOUS
  <2>. QED  BY <2>1 DEF StartRead
<1>3. UsersOK(pool', buffers')
  BY <1>1, <1>2, TakeKeepsUsers
<1>4. pool'.buffers <= MaxBuffers
  BY <1>1, <1>2, TakeFacts, InvFacts DEF MayTake
<1>. QED  BY <1>3, <1>4, PoolType DEF ReceiveInv, ReceiveTypeOK, StartRead

(* What Read does to the pool and the lists is a return, for a chunk that  *)
(* completes a message, and a take.                                         *)
LEMMA ReadTakes ==
  ASSUME ReceiveInv, NEW c \in Conns, NEW kind \in Kinds, Read(c, kind),
         MayTake(PoolAfterRead(pool, buffers[c], kind))
  PROVE  /\ UsersOK(pool', buffers')
         /\ pool'.buffers <= MaxBuffers
         /\ buffers' = [buffers EXCEPT ![c] =
              Append(ListAfterRead(buffers[c], kind),
                     TakenBuffer(PoolAfterRead(pool, buffers[c], kind)))]
<1>. DEFINE kept == PoolAfterRead(pool, buffers[c], kind)
            left == [buffers EXCEPT ![c] = ListAfterRead(buffers[c], kind)]
<1>1. /\ UsersOK(pool, buffers) /\ buffers \in [Conns -> Seq(Nat)] /\ PoolOK(pool)
      /\ ListOK(pool, buffers[c])
  BY DEF ReceiveInv, UsersOK
<1>2. /\ pool' = AfterTake(kept)
      /\ buffers' = [buffers EXCEPT ![c] =
           Append(ListAfterRead(buffers[c], kind), TakenBuffer(kept))]
  BY DEF Read
<1>3. UsersOK(kept, left) /\ kept.buffers = pool.buffers
  <2>1. CASE kind = "end"
    BY <2>1, <1>1, ReturnKeepsUsers, ReturnFacts DEF PoolAfterRead, ListAfterRead
  <2>2. CASE kind # "end"
    <3>1. left = buffers /\ kept = pool
      BY <2>2, <1>1 DEF PoolAfterRead, ListAfterRead
    <3>. QED  BY <3>1, <1>1
  <2>. QED  BY <2>1, <2>2
<1>4. /\ left[c] = ListAfterRead(buffers[c], kind)
      /\ buffers' = [left EXCEPT ![c] = Append(left[c], TakenBuffer(kept))]
  BY <1>1, <1>2
<1>5. PoolOK(kept)
  BY <1>3 DEF UsersOK
<1>. HIDE DEF left, kept
<1>6. UsersOK(pool', buffers')
  <2>1. UsersOK(AfterTake(kept), [left EXCEPT ![c] = Append(left[c], TakenBuffer(kept))])
    BY <1>3, TakeKeepsUsers
  <2>. QED  BY <2>1, <1>2, <1>4
<1>7. pool'.buffers <= MaxBuffers
  BY <1>2, <1>3, <1>5, TakeFacts, InvFacts DEF MayTake, kept
<1>. QED  BY <1>2, <1>6, <1>7 DEF kept

(* What a chunk leaves in the buffers                                       *)
LEMMA ReadFills ==
  ASSUME ReceiveInv, NEW c \in Conns, NEW kind \in Kinds, Read(c, kind),
         buffers[c] # <<>>
  PROVE  /\ NetBuffer(c) \in Buffers
         /\ content' = [content EXCEPT ![NetBuffer(c)] =
              Filled(content[NetBuffer(c)], <<c, chunks[c] + 1>>, kind)]
         /\ content' \in [Buffers -> Seq(Chunks)]
         /\ content'[NetBuffer(c)] # <<>>
         /\ Head(content'[NetBuffer(c)]) = <<c, chunks[c] + 1>>
         /\ receivedMessages' = [receivedMessages EXCEPT ![c] =
              IF kind = "end" THEN Append(receivedMessages[c], Message(buffers[c], content'))
                              ELSE receivedMessages[c]]
         /\ kind = "end" =>
              /\ Message(buffers[c], content') \in Seq(Seq(Chunks))
              /\ Len(Message(buffers[c], content')) = Len(buffers[c])
              /\ \A i \in 1..Len(buffers[c]) : Message(buffers[c], content')[i] =
                   IF i < Len(buffers[c]) THEN content'[buffers[c][i]]
                   ELSE <<Head(content'[buffers[c][i]])>>
<1>1. /\ buffers[c] \in Seq(Nat) /\ ToSet(buffers[c]) \subseteq Buffers
      /\ content \in [Buffers -> Seq(Chunks)]
  BY InvFacts DEF ReceiveInv, ReceiveTypeOK
<1>2. NetBuffer(c) \in Buffers
  BY <1>1, NetBufferFacts DEF NetBuffer
<1>3. <<c, chunks[c] + 1>> \in Chunks
  BY DEF ReceiveInv, ReceiveTypeOK, Chunks
<1>4. /\ content' = [content EXCEPT ![NetBuffer(c)] =
           Filled(content[NetBuffer(c)], <<c, chunks[c] + 1>>, kind)]
      /\ receivedMessages' = [receivedMessages EXCEPT ![c] =
           IF kind = "end" THEN Append(receivedMessages[c], Message(buffers[c], content'))
                           ELSE receivedMessages[c]]
  BY DEF Read
<1>5. /\ content' \in [Buffers -> Seq(Chunks)]
      /\ content'[NetBuffer(c)] # <<>>
      /\ Head(content'[NetBuffer(c)]) = <<c, chunks[c] + 1>>
  <2>1. content[NetBuffer(c)] \in Seq(Chunks)
    BY <1>1, <1>2
  <2>. QED  BY <1>1, <1>2, <1>3, <1>4, <2>1, FilledType
<1>. QED  BY <1>1, <1>2, <1>4, <1>5, MessageType DEF NetBuffer

LEMMA ReceiveInvRead ==
  ASSUME ReceiveInv, NEW c \in Conns, NEW kind \in Kinds, Read(c, kind),
         buffers[c] # <<>>, MayTake(PoolAfterRead(pool, buffers[c], kind))
  PROVE  ReceiveInv'
<1>1. UsersOK(pool', buffers') /\ pool'.buffers <= MaxBuffers
  BY ReadTakes
<1>2. content' \in [Buffers -> Seq(Chunks)]
  BY ReadFills
<1>3. chunks' \in [Conns -> Nat]
  BY DEF ReceiveInv, ReceiveTypeOK, Read
<1>4. receivedMessages' \in [Conns -> Seq(Seq(Seq(Chunks)))]
  <2>1. receivedMessages \in [Conns -> Seq(Seq(Seq(Chunks)))]
    BY DEF ReceiveInv, ReceiveTypeOK
  <2>2. kind = "end" =>
          Append(receivedMessages[c], Message(buffers[c], content')) \in Seq(Seq(Seq(Chunks)))
    BY <2>1, ReadFills, AppendProperties
  <2>3. receivedMessages' = [receivedMessages EXCEPT ![c] =
          IF kind = "end" THEN Append(receivedMessages[c], Message(buffers[c], content'))
                          ELSE receivedMessages[c]]
    BY ReadFills
  <2>. QED  BY <2>1, <2>2, <2>3
<1>5. handedOver' \in [Conns -> Seq(Seq(Seq(Chunks)))]
  BY DEF ReceiveInv, ReceiveTypeOK, Read
<1>. QED  BY <1>1, <1>2, <1>3, <1>4, <1>5, PoolType DEF ReceiveInv, ReceiveTypeOK

LEMMA ReceiveInvHandOver ==
  ASSUME ReceiveInv, NEW S \in SUBSET Conns, HandOver(S)
  PROVE  ReceiveInv'
<1>1. /\ receivedMessages \in [Conns -> Seq(Seq(Seq(Chunks)))]
      /\ handedOver \in [Conns -> Seq(Seq(Seq(Chunks)))]
  BY DEF ReceiveInv, ReceiveTypeOK
<1>2. receivedMessages' \in [Conns -> Seq(Seq(Seq(Chunks)))]
  BY <1>1 DEF HandOver
<1>3. \A c \in Conns : handedOver[c] \o HandedOver(receivedMessages[c]) \in Seq(Seq(Seq(Chunks)))
  BY <1>1, HandedOverType, ConcatProperties
<1>4. handedOver' \in [Conns -> Seq(Seq(Seq(Chunks)))]
  BY <1>1, <1>3 DEF HandOver
<1>. QED  BY <1>2, <1>4 DEF ReceiveInv, ReceiveTypeOK, HandOver

LEMMA ReceiveInvDropReads ==
  ASSUME ReceiveInv, NEW S \in SUBSET Conns, DropReads(S)
  PROVE  ReceiveInv'
<1>1. UsersOK(pool, buffers) /\ pool.buffers <= MaxBuffers
  BY InvFacts, ReceiveAssumption DEF ReceiveInv, ReceiveAssumption
<1>2. UsersOK(pool', buffers') /\ pool'.buffers <= MaxBuffers
  BY <1>1, DropKeepsUsers DEF DropReads
<1>. QED  BY <1>2, PoolType DEF ReceiveInv, ReceiveTypeOK, DropReads

LEMMA ReceiveInvStep == ReceiveInv /\ [ReceiveNext]_receiveVars => ReceiveInv'
<1>. SUFFICES ASSUME ReceiveInv, [ReceiveNext]_receiveVars  PROVE ReceiveInv'
  OBVIOUS
<1>1. ASSUME NEW c \in Conns, buffers[c] = <<>>, MayTake(pool), StartRead(c)
      PROVE  ReceiveInv'
  BY <1>1, ReceiveInvStartRead
<1>2. ASSUME NEW c \in Conns, NEW kind \in Kinds, buffers[c] # <<>>,
             MayTake(PoolAfterRead(pool, buffers[c], kind)), Read(c, kind)
      PROVE  ReceiveInv'
  BY <1>2, ReceiveInvRead
<1>3. ASSUME NEW S \in SUBSET Conns, HandOver(S)  PROVE ReceiveInv'
  BY <1>3, ReceiveInvHandOver
<1>4. ASSUME NEW S \in SUBSET Conns, DropReads(S)  PROVE ReceiveInv'
  BY <1>4, ReceiveInvDropReads
<1>5. CASE UNCHANGED receiveVars
  BY <1>5 DEF receiveVars, ReceiveInv, ReceiveTypeOK, UsersOK, PoolOK, ListOK
<1>. QED  BY <1>1, <1>2, <1>3, <1>4, <1>5 DEF ReceiveNext

(* The state keeps its shape: pool and lists speak only of buffers that    *)
(* were created, queues hold messages made of chunks (BufferPool.hpp,      *)
(* NetContext.hpp, NetConnection.hpp).                                      *)
THEOREM ReceiveTypes == Spec => []ReceiveTypeOK
<1>1. ReceiveInv => ReceiveTypeOK
  BY DEF ReceiveInv
<1>. QED  BY <1>1, ReceiveInvInit, ReceiveInvStep, PTL DEF Spec

(* A buffer of the pool has one user, whatever the number of clients, the  *)
(* size of the pool and the order of StartRead, Read and disconnections.    *)
THEOREM OneUser == Spec => []BuffersHaveOneUser
<1>1. ReceiveInv => BuffersHaveOneUser
  BY InvFacts
<1>. QED  BY <1>1, ReceiveInvInit, ReceiveInvStep, PTL DEF Spec

-----------------------------------------------------------------------------
(* Runs of chunks and queues of them                                        *)
Queues == Seq(Seq(Seq(Chunks)))

LEMMA RunFacts ==
  ASSUME NEW c, NEW m, NEW a, RunFrom(c, m, a)
  PROVE  /\ Len(m) \in Nat /\ Len(m) >= 1
         /\ m[1][1][2] = a
         /\ Last(m)[1][2] = a + Len(m) - 1
         /\ IsLedByRunOf(c, m)
<1>1. /\ m \in Seq(Seq(Chunks)) /\ m # <<>> /\ a \in Nat
      /\ \A i \in 1..Len(m) : m[i][1] = <<c, a + i - 1>>
  BY DEF RunFrom
<1>2. Len(m) \in Nat \ {0} /\ DOMAIN m = 1..Len(m)
  BY <1>1, EmptySeq, LenProperties
<1>3. 1 \in 1..Len(m) /\ Len(m) \in 1..Len(m)
  BY <1>2
<1>4. m[1][1] = <<c, a>>
  <2>1. a + 1 - 1 = a
    BY <1>1
  <2>. QED  BY <1>1, <1>3, <2>1
<1>5. m[Len(m)][1] = <<c, a + Len(m) - 1>>
  BY <1>1, <1>3
<1>6. m[1][1][2] = a
  BY <1>4
<1>7. Last(m)[1][2] = a + Len(m) - 1
  BY <1>5 DEF Last
<1>8. IsLedByRunOf(c, m)
  BY <1>1, <1>2, <1>6 DEF IsLedByRunOf
<1>. QED  BY <1>2, <1>6, <1>7, <1>8

LEMMA QueueGrows ==
  ASSUME NEW c, NEW q \in Queues, NEW n \in Nat, NEW m, QueueOK(c, q, n), RunFrom(c, m, n + 1)
  PROVE  QueueOK(c, Append(q, m), n + Len(m))
<1>1. m \in Seq(Seq(Chunks)) /\ Len(m) \in Nat
  BY RunFacts DEF RunFrom
<1>2. /\ Append(q, m) \in Queues /\ Len(q) \in Nat
      /\ Len(Append(q, m)) = Len(q) + 1
      /\ \A k \in 1..Len(q) : Append(q, m)[k] = q[k]
      /\ Append(q, m)[Len(q) + 1] = m
      /\ DOMAIN Append(q, m) = 1..Len(q) + 1 /\ DOMAIN q = 1..Len(q)
  BY <1>1, AppendProperties, LenProperties DEF Queues
<1>3. /\ \A k \in 1..Len(q) : \E a \in Nat : RunFrom(c, q[k], a) /\ a + Len(q[k]) - 1 <= n
      /\ \A j, k \in 1..Len(q) : j < k => Last(q[j])[1][2] < q[k][1][1][2]
  BY <1>2 DEF QueueOK, InOrder
<1>4. \A k \in 1..Len(q) + 1 : k \in 1..Len(q) \/ k = Len(q) + 1
  BY <1>2
<1>5. ASSUME NEW k \in 1..Len(q) + 1
      PROVE  \E a \in Nat : /\ RunFrom(c, Append(q, m)[k], a)
                            /\ a + Len(Append(q, m)[k]) - 1 <= n + Len(m)
  <2>1. CASE k \in 1..Len(q)
    <3>1. PICK a \in Nat : RunFrom(c, q[k], a) /\ a + Len(q[k]) - 1 <= n
      BY <2>1, <1>3
    <3>2. Len(q[k]) \in Nat
      BY <3>1, RunFacts
    <3>3. a + Len(q[k]) - 1 <= n + Len(m)
      BY <3>1, <3>2, <1>1
    <3>. QED  BY <2>1, <3>1, <3>3, <1>2
  <2>2. CASE k = Len(q) + 1
    <3>1. (n + 1) + Len(m) - 1 <= n + Len(m) /\ n + 1 \in Nat
      BY <1>1
    <3>. QED  BY <2>2, <3>1, <1>2
  <2>. QED  BY <2>1, <2>2, <1>4
<1>6. ASSUME NEW j \in 1..Len(q) + 1, NEW k \in 1..Len(q) + 1, j < k
      PROVE  Last(Append(q, m)[j])[1][2] < Append(q, m)[k][1][1][2]
  <2>1. j \in 1..Len(q)
    BY <1>2, <1>6
  <2>2. CASE k \in 1..Len(q)
    BY <2>1, <2>2, <1>2, <1>3, <1>6
  <2>3. CASE k = Len(q) + 1
    <3>1. PICK a \in Nat : RunFrom(c, q[j], a) /\ a + Len(q[j]) - 1 <= n
      BY <2>1, <1>3
    <3>2. Last(q[j])[1][2] = a + Len(q[j]) - 1 /\ Len(q[j]) \in Nat
      BY <3>1, RunFacts
    <3>3. m[1][1][2] = n + 1
      BY RunFacts
    <3>4. Last(q[j])[1][2] < m[1][1][2]
      BY <3>1, <3>2, <3>3
    <3>. QED  BY <2>1, <2>3, <3>4, <1>2
  <2>. QED  BY <2>2, <2>3, <1>4
<1>. QED  BY <1>2, <1>5, <1>6 DEF QueueOK, InOrder

LEMMA QueueWaits ==
  ASSUME NEW c, NEW q \in Queues, NEW n \in Nat, NEW k \in Nat, n <= k, QueueOK(c, q, n)
  PROVE  QueueOK(c, q, k)
<1>1. ASSUME NEW j \in 1..Len(q)
      PROVE  \E a \in Nat : RunFrom(c, q[j], a) /\ a + Len(q[j]) - 1 <= k
  <2>1. PICK a \in Nat : RunFrom(c, q[j], a) /\ a + Len(q[j]) - 1 <= n
    BY DEF QueueOK
  <2>2. Len(q[j]) \in Nat
    BY <2>1, RunFacts
  <2>. QED  BY <2>1, <2>2
<1>. QED  BY <1>1 DEF QueueOK

LEMMA EmptyQueue ==
  ASSUME NEW c, NEW n
  PROVE  QueueOK(c, <<>>, n) /\ HandedOK(c, <<>>)
<1>1. Len(<<>>) = 0 /\ DOMAIN <<>> = {}
  OBVIOUS
<1>2. 1..0 = {}
  OBVIOUS
<1>. QED  BY <1>1, <1>2 DEF QueueOK, HandedOK, InOrder

LEMMA HandingOver ==
  ASSUME NEW c, NEW q \in Queues, NEW h \in Queues, NEW n, QueueOK(c, q, n), HandedOK(c, h)
  PROVE  HandedOK(c, h \o HandedOver(q))
<1>. DEFINE g == HandedOver(q)
<1>1. /\ Len(q) \in Nat /\ g \in Queues /\ Len(g) = Len(q)
      /\ \A k \in 1..Len(q) : g[k] = q[Len(q)] /\ Len(q) \in 1..Len(q)
  BY HandedOverType, LenProperties DEF Queues
<1>. HIDE DEF g
<1>2. /\ Len(h) \in Nat /\ Len(h \o g) = Len(h) + Len(g)
      /\ \A i \in 1..Len(h) + Len(g) :
           (h \o g)[i] = IF i <= Len(h) THEN h[i] ELSE g[i - Len(h)]
  BY <1>1, ConcatProperties, LenProperties, ZenonT(40) DEF Queues
<1>3. \A i \in 1..Len(h) + Len(g) :
        IF i <= Len(h) THEN i \in 1..Len(h) ELSE i - Len(h) \in 1..Len(q)
  BY <1>1, <1>2
<1>4. \A k \in 1..Len(q) : \E a \in Nat : RunFrom(c, g[k], a)
  BY <1>1 DEF QueueOK
<1>5. \A k \in 1..Len(h) : \E a \in Nat : RunFrom(c, h[k], a)
  BY DEF HandedOK
<1>. QED  BY <1>2, <1>3, <1>4, <1>5 DEF HandedOK, g

-----------------------------------------------------------------------------
(* The buffer a receive writes is the last of its list and in no other.    *)
LEMMA OnlyTheLastIsWritten ==
  ASSUME ReceiveInv, NEW c \in Conns, NEW kind \in Kinds, Read(c, kind), buffers[c] # <<>>
  PROVE  /\ \A d \in Conns \ {c} : \A i \in 1..Len(buffers[d]) :
              content'[buffers[d][i]] = content[buffers[d][i]]
         /\ \A i \in 1..Len(buffers[c]) - 1 :
              content'[buffers[c][i]] = content[buffers[c][i]]
<1>1. /\ content \in [Buffers -> Seq(Chunks)] /\ BuffersHaveOneUser
      /\ \A d \in Conns : buffers[d] \in Seq(Nat) /\ ToSet(buffers[d]) \subseteq Buffers
  BY InvFacts DEF ReceiveInv, ReceiveTypeOK
<1>2. \A b \in Buffers : b # NetBuffer(c) => content'[b] = content[b]
  BY <1>1 DEF Read
<1>3. /\ NetBuffer(c) \in ToSet(buffers[c])
      /\ NetBuffer(c) = buffers[c][Len(buffers[c])]
      /\ Len(buffers[c]) \in 1..Len(buffers[c]) /\ Len(buffers[c]) \in Nat
  BY <1>1, NetBufferFacts, LastFacts DEF NetBuffer
<1>4. \A d \in Conns : \A i \in 1..Len(buffers[d]) : buffers[d][i] \in ToSet(buffers[d])
  BY <1>1, ToSetFacts
<1>5. ASSUME NEW d \in Conns \ {c}, NEW i \in 1..Len(buffers[d])
      PROVE  content'[buffers[d][i]] = content[buffers[d][i]]
  <2>1. buffers[d][i] # NetBuffer(c)
    BY <1>1, <1>3, <1>4 DEF BuffersHaveOneUser
  <2>. QED  BY <2>1, <1>1, <1>2, <1>4
<1>6. ASSUME NEW i \in 1..Len(buffers[c]) - 1
      PROVE  content'[buffers[c][i]] = content[buffers[c][i]]
  <2>1. i \in 1..Len(buffers[c]) /\ i # Len(buffers[c])
    BY <1>3
  <2>2. \A j, k \in 1..Len(buffers[c]) : buffers[c][j] = buffers[c][k] => j = k
    BY <1>1, ToSetFacts DEF BuffersHaveOneUser
  <2>3. buffers[c][i] # NetBuffer(c)
    BY <2>1, <2>2, <1>3
  <2>. QED  BY <2>1, <2>3, <1>1, <1>2, <1>4
<1>. QED  BY <1>5, <1>6

LEMMA CollectingFacts ==
  ASSUME NEW list \in Seq(Nat)
  PROVE  /\ Collecting(list) \in Nat
         /\ list # <<>> => Collecting(list) = Len(list) - 1 /\ Len(list) \in Nat \ {0}
         /\ \A e \in Nat : Collecting(Append(list, e)) = Len(list)
         /\ \A e \in Nat : Collecting(<<e>>) = 0
<1>1. list # <<>> => Len(list) \in Nat \ {0}
  BY EmptySeq
<1>2. \A e \in Nat : /\ Append(list, e) \in Seq(Nat)
                     /\ Len(Append(list, e)) = Len(list) + 1 /\ Append(list, e) # <<>>
  BY AppendProperties
<1>3. \A e \in Nat : Collecting(Append(list, e)) = Len(list)
  BY <1>2, LenProperties DEF Collecting
<1>4. \A e \in Nat : Len(<<e>>) = 1 /\ <<e>> # <<>>
  OBVIOUS
<1>. QED  BY <1>1, <1>3, <1>4 DEF Collecting

(* A chunk that leaves its message unfinished is one more to collect.       *)
LEMMA ChunkIsCollected ==
  ASSUME ReceiveInv, MessagesInv, NEW c \in Conns, NEW kind \in Kinds, kind # "end",
         Read(c, kind), buffers[c] # <<>>, MayTake(pool)
  PROVE  /\ CollectedOK(c, buffers'[c], chunks'[c], content')
         /\ chunks'[c] - Collecting(buffers'[c]) = chunks[c] - Collecting(buffers[c])
<1>. DEFINE list == buffers[c]
            n == chunks[c]
            e == TakenBuffer(pool)
<1>1. /\ list \in Seq(Nat) /\ n \in Nat /\ buffers \in [Conns -> Seq(Nat)]
      /\ content \in [Buffers -> Seq(Chunks)] /\ chunks \in [Conns -> Nat]
  BY DEF ReceiveInv, ReceiveTypeOK
<1>2. e \in Nat
  <2>1. PoolOK(pool)
    BY DEF ReceiveInv, UsersOK
  <2>2. AfterTake(pool).buffers \in Nat /\ TakenBuffer(pool) \in 1..AfterTake(pool).buffers
    BY <2>1, TakeFacts
  <2>. QED  BY <2>2
<1>3. buffers'[c] = Append(list, e) /\ chunks'[c] = n + 1
  <2>1. PoolAfterRead(pool, list, kind) = pool /\ ListAfterRead(list, kind) = list
    BY DEF PoolAfterRead, ListAfterRead
  <2>2. buffers' = [buffers EXCEPT ![c] = Append(ListAfterRead(list, kind),
                      TakenBuffer(PoolAfterRead(pool, list, kind)))]
    BY DEF Read
  <2>. QED  BY <2>1, <2>2, <1>1 DEF Read
<1>4. /\ Collecting(list) = Len(list) - 1 /\ Len(list) \in Nat \ {0}
      /\ Collecting(Append(list, e)) = Len(list)
      /\ Len(list) - 1 <= n
      /\ \A i \in 1..Len(list) - 1 : content[list[i]][1] = <<c, n - (Len(list) - 1) + i>>
  BY <1>1, <1>2, CollectingFacts DEF MessagesInv, CollectedOK
<1>5. content'[list[Len(list)]][1] = <<c, n + 1>>
  <2>1. content'[NetBuffer(c)] \in Seq(Chunks) /\ content'[NetBuffer(c)] # <<>>
    BY ReadFills
  <2>2. \A s \in Seq(Chunks) : s # <<>> => Head(s) = s[1]
    OBVIOUS
  <2>3. content'[NetBuffer(c)][1] = <<c, n + 1>>
    <3>1. Head(content'[NetBuffer(c)]) = <<c, n + 1>>
      BY ReadFills
    <3>. QED  BY <3>1, <2>1, <2>2
  <2>. QED  BY <2>3, <1>1, LastFacts DEF NetBuffer
<1>6. \A i \in 1..Len(list) - 1 : content'[list[i]] = content[list[i]]
  BY OnlyTheLastIsWritten
<1>. HIDE DEF list, n, e
<1>7. \A i \in 1..Len(list) : content'[list[i]][1] = <<c, n + 1 - Len(list) + i>>
  <2>. TAKE i \in 1..Len(list)
  <2>1. CASE i = Len(list)
    <3>1. n + 1 - Len(list) + Len(list) = n + 1
      BY <1>1, <1>4
    <3>. QED  BY <2>1, <3>1, <1>5
  <2>2. CASE i # Len(list)
    <3>1. i \in 1..Len(list) - 1 /\ n - (Len(list) - 1) + i = n + 1 - Len(list) + i
      BY <2>2, <1>1, <1>4
    <3>. QED  BY <3>1, <1>4, <1>6
  <2>. QED  BY <2>1, <2>2
<1>8. \A i \in 1..Len(list) : Append(list, e)[i] = list[i]
  BY <1>1, <1>2, AppendProperties DEF list
<1>9. CollectedOK(c, Append(list, e), n + 1, content')
  BY <1>1, <1>4, <1>7, <1>8 DEF CollectedOK
<1>10. CollectedOK(c, buffers'[c], chunks'[c], content')
  BY <1>3, <1>9
<1>11. chunks'[c] - Collecting(buffers'[c]) = n - Collecting(list)
  <2>1. Collecting(buffers'[c]) = Len(list)
    BY <1>3, <1>4
  <2>. QED  BY <2>1, <1>1, <1>3, <1>4
<1>. QED  BY <1>10, <1>11 DEF list, n

(* A chunk that ends its message makes a run of all that was collected.     *)
LEMMA EndChunkMakesARun ==
  ASSUME ReceiveInv, MessagesInv, NEW c \in Conns, Read(c, "end"),
         "end" \in Kinds, buffers[c] # <<>>
  PROVE  /\ chunks[c] - Collecting(buffers[c]) \in Nat
         /\ RunFrom(c, Message(buffers[c], content'), chunks[c] - Collecting(buffers[c]) + 1)
         /\ chunks[c] - Collecting(buffers[c]) + Len(Message(buffers[c], content'))
              = chunks[c] + 1
<1>. DEFINE list == buffers[c]
            n == chunks[c]
            m == Message(list, content')
<1>1. list \in Seq(Nat) /\ n \in Nat
  BY DEF ReceiveInv, ReceiveTypeOK
<1>2. /\ Collecting(list) = Len(list) - 1 /\ Len(list) \in Nat \ {0}
      /\ Len(list) - 1 <= n
      /\ \A i \in 1..Len(list) - 1 : content[list[i]][1] = <<c, n - (Len(list) - 1) + i>>
  BY <1>1, CollectingFacts DEF MessagesInv, CollectedOK
<1>3. /\ m \in Seq(Seq(Chunks)) /\ Len(m) = Len(list)
      /\ \A i \in 1..Len(list) :
           m[i] = IF i < Len(list) THEN content'[list[i]] ELSE <<Head(content'[list[i]])>>
  BY ReadFills
<1>4. Head(content'[list[Len(list)]]) = <<c, n + 1>>
  <2>1. Head(content'[NetBuffer(c)]) = <<c, n + 1>>
    BY ReadFills
  <2>. QED  BY <2>1, <1>1, LastFacts DEF NetBuffer
<1>5. \A i \in 1..Len(list) - 1 : content'[list[i]] = content[list[i]]
  BY OnlyTheLastIsWritten
<1>. HIDE DEF list, n, m
<1>6. ASSUME NEW i \in 1..Len(list)
      PROVE  m[i][1] = <<c, (n - (Len(list) - 1) + 1) + i - 1>>
  <2>0. (n - (Len(list) - 1) + 1) + i - 1 = n - (Len(list) - 1) + i
    BY <1>1, <1>2
  <2>1. CASE i = Len(list)
    <3>1. n - (Len(list) - 1) + i = n + 1 /\ ~(i < Len(list))
      BY <2>1, <1>1, <1>2
    <3>2. m[i] = << <<c, n + 1>> >>
      BY <2>1, <3>1, <1>3, <1>4
    <3>. QED  BY <2>0, <3>1, <3>2
  <2>2. CASE i # Len(list)
    <3>1. i \in 1..Len(list) - 1 /\ i < Len(list)
      BY <2>2, <1>2
    <3>. QED  BY <2>0, <3>1, <1>2, <1>3, <1>5
  <2>. QED  BY <2>1, <2>2
<1>7. /\ n - (Len(list) - 1) \in Nat
      /\ n - (Len(list) - 1) + Len(list) = n + 1
  BY <1>1, <1>2
<1>8. m # <<>>
  BY <1>2, <1>3
<1>9. RunFrom(c, m, n - (Len(list) - 1) + 1)
  BY <1>3, <1>6, <1>7, <1>8 DEF RunFrom
<1>. QED  BY <1>2, <1>3, <1>7, <1>9 DEF list, n, m

(* The messages of a connection depend on nothing else.                     *)
LEMMA MessagesInvTypes ==
  ASSUME ReceiveInv, MessagesInv, NEW c \in Conns
  PROVE  /\ buffers[c] \in Seq(Nat) /\ chunks[c] \in Nat
         /\ receivedMessages[c] \in Queues /\ handedOver[c] \in Queues
         /\ Collecting(buffers[c]) \in Nat
         /\ chunks[c] - Collecting(buffers[c]) \in Nat
         /\ CollectedOK(c, buffers[c], chunks[c], content)
         /\ QueueOK(c, receivedMessages[c], chunks[c] - Collecting(buffers[c]))
         /\ HandedOK(c, handedOver[c])
<1>1. /\ buffers[c] \in Seq(Nat) /\ chunks[c] \in Nat
      /\ receivedMessages[c] \in Queues /\ handedOver[c] \in Queues
  BY DEF ReceiveInv, ReceiveTypeOK, Queues
<1>2. /\ CollectedOK(c, buffers[c], chunks[c], content)
      /\ QueueOK(c, receivedMessages[c], chunks[c] - Collecting(buffers[c]))
      /\ HandedOK(c, handedOver[c])
  BY DEF MessagesInv
<1>3. Collecting(buffers[c]) \in Nat
  BY <1>1, CollectingFacts
<1>4. chunks[c] - Collecting(buffers[c]) \in Nat
  BY <1>1, <1>2, <1>3 DEF CollectedOK
<1>. QED  BY <1>1, <1>2, <1>3, <1>4

LEMMA MessagesInvRead ==
  ASSUME ReceiveInv, MessagesInv, NEW c \in Conns, NEW kind \in Kinds,
         Read(c, kind), buffers[c] # <<>>, MayTake(PoolAfterRead(pool, buffers[c], kind))
  PROVE  MessagesInv'
<1>1. ASSUME NEW d \in Conns \ {c}
      PROVE  /\ CollectedOK(d, buffers'[d], chunks'[d], content')
             /\ QueueOK(d, receivedMessages'[d], chunks'[d] - Collecting(buffers'[d]))
             /\ HandedOK(d, handedOver'[d])
  <2>1. /\ buffers'[d] = buffers[d] /\ chunks'[d] = chunks[d]
        /\ receivedMessages'[d] = receivedMessages[d] /\ handedOver'[d] = handedOver[d]
    BY DEF Read, ReceiveInv, ReceiveTypeOK
  <2>2. \A i \in 1..Len(buffers[d]) : content'[buffers[d][i]] = content[buffers[d][i]]
    BY OnlyTheLastIsWritten
  <2>3. \A i \in 1..Collecting(buffers[d]) : i \in 1..Len(buffers[d])
    <3>1. CASE buffers[d] = <<>>
      BY <3>1 DEF Collecting
    <3>2. CASE buffers[d] # <<>>
      BY <3>2, MessagesInvTypes, CollectingFacts
    <3>. QED  BY <3>1, <3>2
  <2>4. CollectedOK(d, buffers[d], chunks[d], content')
    BY <2>2, <2>3, MessagesInvTypes DEF CollectedOK
  <2>. QED  BY <2>1, <2>4, MessagesInvTypes
<1>2. handedOver'[c] = handedOver[c]
  BY DEF Read
<1>3. CASE kind # "end"
  <2>1. receivedMessages'[c] = receivedMessages[c]
    BY <1>3 DEF Read, ReceiveInv, ReceiveTypeOK
  <2>2. /\ CollectedOK(c, buffers'[c], chunks'[c], content')
        /\ chunks'[c] - Collecting(buffers'[c]) = chunks[c] - Collecting(buffers[c])
    <3>1. PoolAfterRead(pool, buffers[c], kind) = pool
      BY <1>3 DEF PoolAfterRead
    <3>. QED  BY <1>3, <3>1, ChunkIsCollected
  <2>3. /\ QueueOK(c, receivedMessages'[c], chunks'[c] - Collecting(buffers'[c]))
        /\ HandedOK(c, handedOver'[c])
    BY <1>2, <2>1, <2>2, MessagesInvTypes
  <2>. QED  BY <1>1, <2>2, <2>3 DEF MessagesInv
<1>4. CASE kind = "end"
  <2>. DEFINE m == Message(buffers[c], content')
              k == chunks[c] - Collecting(buffers[c])
  <2>1. receivedMessages'[c] = Append(receivedMessages[c], m)
    BY <1>4, ReadFills, ZenonT(40) DEF ReceiveInv, ReceiveTypeOK
  <2>2. k \in Nat /\ RunFrom(c, m, k + 1) /\ k + Len(m) = chunks[c] + 1
    BY <1>4, EndChunkMakesARun
  <2>3. PICK e \in Nat : buffers'[c] = <<e>>
    <3>1. /\ pool'.buffers <= MaxBuffers
          /\ UsersOK(pool', buffers')
          /\ buffers' = [buffers EXCEPT ![c] =
               Append(<<>>, TakenBuffer(PoolAfterRead(pool, buffers[c], kind)))]
      BY <1>4, ReadTakes DEF ListAfterRead
    <3>2. buffers'[c] = <<TakenBuffer(PoolAfterRead(pool, buffers[c], kind))>>
      BY <3>1 DEF ReceiveInv, ReceiveTypeOK
    <3>3. buffers'[c] \in Seq(Nat)
      BY <3>1 DEF UsersOK
    <3>. QED  BY <3>2, <3>3
  <2>4. chunks'[c] = chunks[c] + 1
    BY DEF Read, ReceiveInv, ReceiveTypeOK
  <2>5. Collecting(buffers'[c]) = 0
    BY <2>3, EmptyFacts, CollectingFacts
  <2>6. CollectedOK(c, buffers'[c], chunks'[c], content')
    BY <2>4, <2>5, MessagesInvTypes DEF CollectedOK
  <2>7. QueueOK(c, receivedMessages'[c], chunks'[c] - Collecting(buffers'[c]))
    <3>1. QueueOK(c, Append(receivedMessages[c], m), k + Len(m))
      BY <2>2, MessagesInvTypes, QueueGrows
    <3>2. chunks'[c] - Collecting(buffers'[c]) = k + Len(m)
      BY <2>2, <2>4, <2>5, MessagesInvTypes
    <3>. QED  BY <3>1, <3>2, <2>1
  <2>8. HandedOK(c, handedOver'[c])
    BY <1>2, MessagesInvTypes
  <2>. QED  BY <1>1, <2>6, <2>7, <2>8 DEF MessagesInv
<1>. QED  BY <1>3, <1>4

LEMMA MessagesInvStep ==
  ASSUME ReceiveInv, MessagesInv, [ReceiveNext]_receiveVars
  PROVE  MessagesInv'
<1>1. ASSUME NEW c \in Conns, buffers[c] = <<>>, StartRead(c)
      PROVE  MessagesInv'
  <2>. SUFFICES ASSUME NEW d \in Conns
                PROVE  /\ CollectedOK(d, buffers'[d], chunks'[d], content')
                       /\ QueueOK(d, receivedMessages'[d], chunks'[d] - Collecting(buffers'[d]))
                       /\ HandedOK(d, handedOver'[d])
    BY DEF MessagesInv
  <2>1. /\ content' = content /\ chunks'[d] = chunks[d]
        /\ receivedMessages'[d] = receivedMessages[d] /\ handedOver'[d] = handedOver[d]
    BY <1>1 DEF StartRead
  <2>2. CASE d # c
    <3>1. buffers'[d] = buffers[d]
      BY <1>1, <2>2 DEF StartRead, ReceiveInv, ReceiveTypeOK
    <3>. QED  BY <2>1, <3>1, MessagesInvTypes
  <2>3. CASE d = c
    <3>1. buffers'[d] = <<TakenBuffer(pool)>> /\ buffers[d] = <<>>
      BY <1>1, <2>3 DEF StartRead, ReceiveInv, ReceiveTypeOK
    <3>2. Collecting(buffers'[d]) = 0 /\ Collecting(buffers[d]) = 0
      BY <3>1 DEF Collecting
    <3>3. CollectedOK(d, buffers'[d], chunks[d], content)
      BY <3>2, MessagesInvTypes DEF CollectedOK
    <3>. QED  BY <2>1, <3>2, <3>3, MessagesInvTypes
  <2>. QED  BY <2>2, <2>3
<1>2. ASSUME NEW c \in Conns, NEW kind \in Kinds, buffers[c] # <<>>,
             MayTake(PoolAfterRead(pool, buffers[c], kind)), Read(c, kind)
      PROVE  MessagesInv'
  BY <1>2, MessagesInvRead
<1>3. ASSUME NEW S \in SUBSET Conns, HandOver(S)  PROVE MessagesInv'
  <2>. SUFFICES ASSUME NEW d \in Conns
                PROVE  /\ CollectedOK(d, buffers'[d], chunks'[d], content')
                       /\ QueueOK(d, receivedMessages'[d], chunks'[d] - Collecting(buffers'[d]))
                       /\ HandedOK(d, handedOver'[d])
    BY DEF MessagesInv
  <2>1. content' = content /\ chunks' = chunks /\ buffers' = buffers
    BY <1>3 DEF HandOver
  <2>2. CASE d \notin S
    <3>1. receivedMessages'[d] = receivedMessages[d] /\ handedOver'[d] = handedOver[d]
      BY <1>3, <2>2 DEF HandOver
    <3>. QED  BY <2>1, <3>1, MessagesInvTypes
  <2>3. CASE d \in S
    <3>1. /\ receivedMessages'[d] = <<>>
          /\ handedOver'[d] = handedOver[d] \o HandedOver(receivedMessages[d])
      BY <1>3, <2>3 DEF HandOver
    <3>2. HandedOK(d, handedOver[d] \o HandedOver(receivedMessages[d]))
      BY MessagesInvTypes, HandingOver
    <3>. QED  BY <2>1, <3>1, <3>2, EmptyQueue, MessagesInvTypes
  <2>. QED  BY <2>2, <2>3
<1>4. ASSUME NEW S \in SUBSET Conns, DropReads(S)  PROVE MessagesInv'
  <2>. SUFFICES ASSUME NEW d \in Conns
                PROVE  /\ CollectedOK(d, buffers'[d], chunks'[d], content')
                       /\ QueueOK(d, receivedMessages'[d], chunks'[d] - Collecting(buffers'[d]))
                       /\ HandedOK(d, handedOver'[d])
    BY DEF MessagesInv
  <2>1. /\ content' = content /\ chunks' = chunks
        /\ receivedMessages' = receivedMessages /\ handedOver' = handedOver
    BY <1>4 DEF DropReads
  <2>2. CASE d \notin S
    <3>1. buffers'[d] = buffers[d]
      BY <1>4, <2>2 DEF DropReads
    <3>. QED  BY <2>1, <3>1, MessagesInvTypes
  <2>3. CASE d \in S
    <3>1. buffers'[d] = <<>>
      BY <1>4, <2>3 DEF DropReads
    <3>2. Collecting(buffers'[d]) = 0
      BY <3>1 DEF Collecting
    <3>3. CollectedOK(d, buffers'[d], chunks[d], content)
      BY <3>2, MessagesInvTypes DEF CollectedOK
    <3>4. /\ chunks[d] - 0 = chunks[d]
          /\ chunks[d] - Collecting(buffers[d]) <= chunks[d]
      BY MessagesInvTypes
    <3>5. QueueOK(d, receivedMessages[d], chunks[d])
      BY <3>4, MessagesInvTypes, QueueWaits
    <3>. QED  BY <2>1, <3>2, <3>3, <3>4, <3>5, MessagesInvTypes
  <2>. QED  BY <2>2, <2>3
<1>5. CASE UNCHANGED receiveVars
  BY <1>5 DEF receiveVars, MessagesInv
<1>. QED  BY <1>1, <1>2, <1>3, <1>4, <1>5 DEF ReceiveNext

LEMMA MessagesInvInit == ReceiveInit => MessagesInv
<1>. SUFFICES ASSUME ReceiveInit, NEW c \in Conns
              PROVE  /\ CollectedOK(c, buffers[c], chunks[c], content)
                     /\ QueueOK(c, receivedMessages[c], chunks[c] - Collecting(buffers[c]))
                     /\ HandedOK(c, handedOver[c])
  BY DEF MessagesInv
<1>1. buffers[c] = <<>> /\ chunks[c] = 0 /\ receivedMessages[c] = <<>> /\ handedOver[c] = <<>>
  BY DEF ReceiveInit
<1>2. Collecting(<<>>) = 0
  BY DEF Collecting
<1>3. CollectedOK(c, <<>>, 0, content)
  BY <1>2 DEF CollectedOK
<1>. QED  BY <1>1, <1>3, EmptyQueue

LEMMA MessagesInvMeans == ReceiveInv /\ MessagesInv => ChunksAreTheClientsOwn
<1>. SUFFICES ASSUME ReceiveInv, MessagesInv, NEW c \in Conns
              PROVE  /\ \A m \in ToSet(receivedMessages[c] \o handedOver[c]) :
                          m # <<>> /\ IsLedByRunOf(c, m)
                     /\ InOrder(receivedMessages[c])
  BY DEF ChunksAreTheClientsOwn
<1>. DEFINE q == receivedMessages[c]
            h == handedOver[c]
<1>1. /\ q \in Queues /\ h \in Queues
      /\ QueueOK(c, q, chunks[c] - Collecting(buffers[c])) /\ HandedOK(c, h)
  BY MessagesInvTypes
<1>2. InOrder(q)
  BY <1>1 DEF QueueOK
<1>. HIDE DEF q, h
<1>3. /\ Len(q) \in Nat /\ Len(h) \in Nat
      /\ DOMAIN (q \o h) = 1..Len(q) + Len(h)
      /\ \A i \in 1..Len(q) + Len(h) :
           (q \o h)[i] = IF i <= Len(q) THEN q[i] ELSE h[i - Len(q)]
  BY <1>1, ConcatProperties, LenProperties DEF Queues
<1>4. ASSUME NEW m, NEW a \in Nat, RunFrom(c, m, a)  PROVE m # <<>> /\ IsLedByRunOf(c, m)
  BY <1>4, RunFacts DEF RunFrom
<1>5. ASSUME NEW i \in 1..Len(q) + Len(h)
      PROVE  (q \o h)[i] # <<>> /\ IsLedByRunOf(c, (q \o h)[i])
  <2>1. CASE i <= Len(q)
    <3>1. i \in 1..Len(q) /\ (q \o h)[i] = q[i]
      BY <2>1, <1>3
    <3>2. PICK a \in Nat : RunFrom(c, q[i], a)
      BY <3>1, <1>1 DEF QueueOK
    <3>. QED  BY <3>1, <3>2, <1>4
  <2>2. CASE ~(i <= Len(q))
    <3>1. i - Len(q) \in 1..Len(h) /\ (q \o h)[i] = h[i - Len(q)]
      BY <2>2, <1>3
    <3>2. PICK a \in Nat : RunFrom(c, h[i - Len(q)], a)
      BY <3>1, <1>1 DEF HandedOK
    <3>. QED  BY <3>1, <3>2, <1>4
  <2>. QED  BY <2>1, <2>2
<1>6. \A m \in ToSet(q \o h) : m # <<>> /\ IsLedByRunOf(c, m)
  BY <1>3, <1>5 DEF ToSet
<1>. QED  BY <1>2, <1>6 DEF q, h

(* The newest chunks of what Read queues and Update hands to onMessage are *)
(* unbroken runs of the client's own chunks, in order, for any number of    *)
(* clients sharing the pool and whatever the receives return.               *)
THEOREM ChunksOwn == Spec => []ChunksAreTheClientsOwn
<1>1. ReceiveInit => ReceiveInv /\ MessagesInv
  BY ReceiveInvInit, MessagesInvInit
<1>2. ReceiveInv /\ MessagesInv /\ [ReceiveNext]_receiveVars => (ReceiveInv /\ MessagesInv)'
  BY ReceiveInvStep, MessagesInvStep
<1>. QED  BY <1>1, <1>2, MessagesInvMeans, PTL DEF Spec


-----------------------------------------------------------------------------
(* How many buffers a server needs.  A connection takes one when it is     *)
(* accepted and one with each chunk it receives: Taken(opened, n) has one   *)
(* element for each buffer that the connections of opened have taken, when  *)
(* each of them has received n chunks.  MaxBuffers, the bound of the model, *)
(* suffices when it leaves room for all of them.                            *)
Taken(opened, n) == {t \in Conns \X (0..MaxChunks) : t[1] \in opened /\ t[2] <= n[t[1]]}

PoolSuffices ==
  /\ IsFiniteSet(Conns)
  /\ InitialBuffers + Cardinality(Conns) * (MaxChunks + 1) <= MaxBuffers

PoolBounded(p, opened, n) == p.buffers <= InitialBuffers + Cardinality(Taken(opened, n))

LEMMA TakenBound ==
  ASSUME PoolSuffices, NEW A, NEW n
  PROVE  /\ IsFiniteSet(Taken(A, n))
         /\ Cardinality(Taken(A, n)) \in Nat
         /\ InitialBuffers + Cardinality(Taken(A, n)) <= MaxBuffers
<1>1. /\ IsFiniteSet(0..MaxChunks) /\ Cardinality(0..MaxChunks) = MaxChunks + 1
      /\ MaxChunks \in Nat /\ InitialBuffers \in Nat /\ MaxBuffers \in Nat
  BY FS_Interval, ReceiveAssumption DEF ReceiveAssumption
<1>2. /\ IsFiniteSet(Conns \X (0..MaxChunks))
      /\ Cardinality(Conns \X (0..MaxChunks)) = Cardinality(Conns) * (MaxChunks + 1)
  BY <1>1, FS_Product DEF PoolSuffices
<1>3. Taken(A, n) \in SUBSET (Conns \X (0..MaxChunks))
  BY DEF Taken
<1>4. /\ IsFiniteSet(Taken(A, n))
      /\ Cardinality(Taken(A, n)) <= Cardinality(Conns \X (0..MaxChunks))
  BY <1>2, <1>3, FS_Subset
<1>5. Cardinality(Taken(A, n)) \in Nat /\ Cardinality(Conns \X (0..MaxChunks)) \in Nat
  BY <1>2, <1>4, FS_CardinalityType
<1>. DEFINE all == Cardinality(Conns) * (MaxChunks + 1)
<1>6. all \in Nat /\ Cardinality(Taken(A, n)) <= all /\ InitialBuffers + all <= MaxBuffers
  BY <1>2, <1>4, <1>5 DEF PoolSuffices
<1>. HIDE DEF all
<1>. QED  BY <1>1, <1>4, <1>5, <1>6

LEMMA TakenGrows ==
  ASSUME PoolSuffices, NEW A, NEW B, A \subseteq B,
         NEW n \in [Conns -> Nat], NEW m \in [Conns -> Nat],
         \A c \in Conns : n[c] <= m[c]
  PROVE  /\ Cardinality(Taken(A, n)) <= Cardinality(Taken(B, m))
         /\ \A t \in Taken(B, m) : t \notin Taken(A, n) =>
              Cardinality(Taken(A, n)) + 1 <= Cardinality(Taken(B, m))
<1>1. ASSUME NEW t \in Taken(A, n)  PROVE t \in Taken(B, m)
  <2>1. /\ t \in Conns \X (0..MaxChunks) /\ t[1] \in A /\ t[2] <= n[t[1]]
    BY DEF Taken
  <2>2. t[1] \in Conns /\ t[2] \in 0..MaxChunks
    BY <2>1
  <2>3. t[2] \in Int /\ n[t[1]] \in Int /\ m[t[1]] \in Int /\ n[t[1]] <= m[t[1]]
    BY <2>2
  <2>4. t[1] \in B /\ t[2] <= m[t[1]]
    BY <2>1, <2>3
  <2>. QED  BY <2>1, <2>4 DEF Taken
<1>2. /\ IsFiniteSet(Taken(A, n)) /\ IsFiniteSet(Taken(B, m))
      /\ Cardinality(Taken(A, n)) \in Nat /\ Cardinality(Taken(B, m)) \in Nat
  BY TakenBound
<1>3. Cardinality(Taken(A, n)) <= Cardinality(Taken(B, m))
  BY <1>1, <1>2, FS_Subset
<1>4. ASSUME NEW t \in Taken(B, m), t \notin Taken(A, n)
      PROVE  Cardinality(Taken(A, n)) + 1 <= Cardinality(Taken(B, m))
  <2>. DEFINE S == Taken(A, n) \cup {t}
  <2>1. IsFiniteSet(S) /\ Cardinality(S) = Cardinality(Taken(A, n)) + 1
    BY <1>2, <1>4, FS_AddElement
  <2>2. S \in SUBSET Taken(B, m)
    BY <1>1, <1>4
  <2>. HIDE DEF S
  <2>3. Cardinality(S) <= Cardinality(Taken(B, m))
    BY <1>2, <2>2, FS_Subset
  <2>. QED  BY <2>1, <2>3
<1>. QED  BY <1>3, <1>4

LEMMA TakesOne ==
  ASSUME NEW p, PoolOK(p)
  PROVE  /\ p.buffers \in Nat /\ AfterTake(p).buffers \in Nat
         /\ AfterTake(p).buffers <= p.buffers + 1
         /\ p.buffers + 1 <= MaxBuffers => MayTake(p)
<1>1. /\ p \in Pools /\ p.buffersQueue \in Seq(Nat) /\ p.buffers \in Nat
      /\ ToSet(p.buffersQueue) \subseteq 1..p.buffers
  BY DEF PoolOK, Pools
<1>2. MaxBuffers \in Nat
  BY ReceiveAssumption DEF ReceiveAssumption
<1>3. CASE p.buffersQueue = <<>>
  <2>1. TakenBuffer(p) = p.buffers + 1 /\ AfterTake(p) = [p EXCEPT !.buffers = @ + 1]
    BY <1>3 DEF TakenBuffer, AfterTake
  <2>2. AfterTake(p).buffers = p.buffers + 1
    BY <1>1, <2>1 DEF Pools
  <2>. QED  BY <1>1, <2>1, <2>2 DEF MayTake
<1>4. CASE p.buffersQueue # <<>>
  <2>1. TakenBuffer(p) = Head(p.buffersQueue) /\ AfterTake(p) = [p EXCEPT !.buffersQueue = Tail(@)]
    BY <1>4 DEF TakenBuffer, AfterTake
  <2>2. AfterTake(p).buffers = p.buffers
    BY <1>1, <2>1 DEF Pools
  <2>3. Head(p.buffersQueue) \in 1..p.buffers
    BY <1>1, <1>4, TailFacts
  <2>. QED  BY <1>1, <1>2, <2>1, <2>2, <2>3 DEF MayTake
<1>. QED  BY <1>3, <1>4

(* The two calls that take a buffer, when the pool is bounded so           *)
LEMMA BoundedStartRead ==
  ASSUME PoolSuffices, ReceiveInv, NEW A, NEW c \in Conns, c \notin A,
         PoolBounded(pool, A, chunks), StartRead(c)
  PROVE  MayTake(pool) /\ PoolBounded(pool', A \cup {c}, chunks')
<1>1. /\ PoolOK(pool) /\ chunks \in [Conns -> Nat] /\ MaxChunks \in Nat /\ InitialBuffers \in Nat
      /\ MaxBuffers \in Nat
  BY ReceiveAssumption DEF ReceiveInv, ReceiveTypeOK, UsersOK, ReceiveAssumption
<1>2. pool' = AfterTake(pool) /\ chunks' = chunks
  BY DEF StartRead
<1>. DEFINE before == Cardinality(Taken(A, chunks))
            after == Cardinality(Taken(A \cup {c}, chunks))
<1>3. before + 1 <= after
  <2>1. <<c, 0>> \in Taken(A \cup {c}, chunks) /\ <<c, 0>> \notin Taken(A, chunks)
    BY <1>1 DEF Taken
  <2>2. \A d \in Conns : chunks[d] <= chunks[d]
    BY <1>1
  <2>. QED  BY <1>1, <2>1, <2>2, TakenGrows
<1>4. before \in Nat /\ after \in Nat /\ InitialBuffers + after <= MaxBuffers
  BY TakenBound
<1>5. pool.buffers <= InitialBuffers + before
  BY DEF PoolBounded
<1>. HIDE DEF before, after
<1>6. /\ pool.buffers \in Nat /\ AfterTake(pool).buffers \in Nat
      /\ AfterTake(pool).buffers <= pool.buffers + 1
      /\ pool.buffers + 1 <= MaxBuffers => MayTake(pool)
  BY <1>1, TakesOne
<1>7. pool.buffers + 1 <= MaxBuffers /\ AfterTake(pool).buffers <= InitialBuffers + after
  BY <1>1, <1>3, <1>4, <1>5, <1>6
<1>. QED  BY <1>2, <1>6, <1>7 DEF PoolBounded, after

LEMMA BoundedRead ==
  ASSUME PoolSuffices, ReceiveInv, NEW A, NEW c \in Conns, c \in A, chunks[c] < MaxChunks,
         PoolBounded(pool, A, chunks), NEW kind, Read(c, kind)
  PROVE  MayTake(PoolAfterRead(pool, buffers[c], kind)) /\ PoolBounded(pool', A, chunks')
<1>. DEFINE kept == PoolAfterRead(pool, buffers[c], kind)
            before == Cardinality(Taken(A, chunks))
            after == Cardinality(Taken(A, chunks'))
<1>1. /\ PoolOK(pool) /\ ListOK(pool, buffers[c]) /\ chunks \in [Conns -> Nat]
      /\ MaxChunks \in Nat /\ InitialBuffers \in Nat /\ MaxBuffers \in Nat
  BY ReceiveAssumption DEF ReceiveInv, ReceiveTypeOK, UsersOK, ReceiveAssumption
<1>2. pool' = AfterTake(kept) /\ chunks' = [chunks EXCEPT ![c] = chunks[c] + 1]
  BY DEF Read
<1>3. before + 1 <= after
  <2>1. /\ chunks' \in [Conns -> Nat] /\ \A d \in Conns : chunks[d] <= chunks'[d]
        /\ chunks'[c] = chunks[c] + 1 /\ chunks[c] + 1 \in 0..MaxChunks /\ ~(chunks[c] + 1 <= chunks[c])
    BY <1>1, <1>2
  <2>2. <<c, chunks[c] + 1>> \in Taken(A, chunks') /\ <<c, chunks[c] + 1>> \notin Taken(A, chunks)
    BY <2>1 DEF Taken
  <2>. QED  BY <1>1, <2>1, <2>2, TakenGrows
<1>4. before \in Nat /\ after \in Nat /\ InitialBuffers + after <= MaxBuffers
  BY TakenBound
<1>5. pool.buffers <= InitialBuffers + before
  BY DEF PoolBounded
<1>6. PoolOK(kept) /\ kept.buffers = pool.buffers
  BY <1>1, ReturnFacts DEF PoolAfterRead
<1>. HIDE DEF before, after, kept
<1>7. /\ kept.buffers \in Nat /\ AfterTake(kept).buffers \in Nat
      /\ AfterTake(kept).buffers <= kept.buffers + 1
      /\ kept.buffers + 1 <= MaxBuffers => MayTake(kept)
  BY <1>6, TakesOne
<1>8. kept.buffers + 1 <= MaxBuffers /\ AfterTake(kept).buffers <= InitialBuffers + after
  BY <1>1, <1>3, <1>4, <1>5, <1>6, <1>7
<1>. QED  BY <1>2, <1>7, <1>8 DEF PoolBounded, after, kept

=============================================================================
