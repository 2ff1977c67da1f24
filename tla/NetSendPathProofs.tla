-------------------------- MODULE NetSendPathProofs --------------------------
(***************************************************************************)
(* Proofs about NetSendPath, for any connections, any bound on messages    *)
(* and both kinds of event manager.                                         *)
(*                                                                         *)
(* The invariant speaks of one connection at a time, so the lemmas are     *)
(* about the values of one connection: its queue q, its marked messages s, *)
(* its started messages f, the number n of messages emplaced on it, and    *)
(* its wire w.                                                              *)
(***************************************************************************)
EXTENDS NetSendPath, SequenceTheorems, TLAPS

(* Why Write, which pops the front, never removes a message that StartWrite *)
(* took from the back: every call of Write pops one message and reports    *)
(* one, so the queue holds exactly the messages after the Len(w) oldest,   *)
(* and the k-th started message is at least the k-th of those.             *)
Ascending(t) == \A j, k \in 1..Len(t) : j < k => t[j] < t[k]

QueueOK(q, n, w) ==
  /\ n \in Nat /\ Len(q) \in Nat /\ Len(w) \in Nat
  /\ Len(w) + Len(q) = n
  /\ \A k \in 1..Len(q) : q[k] = Len(w) + k

StartedOK(s, f, n, w) ==
  /\ n \in Nat /\ Len(f) \in Nat /\ Len(w) \in Nat
  /\ \A x \in s : x \in Nat /\ 1 <= x /\ x <= n
  /\ \A k \in 1..Len(f) : f[k] \in s /\ Len(w) + k <= f[k]
  /\ \A k \in 1..Len(w) : w[k] \in s
  /\ Ascending(f) /\ Ascending(w)
  /\ \A j \in 1..Len(w), k \in 1..Len(f) : w[j] < f[k]

ConnectionOK(q, s, f, n, w) == QueueOK(q, n, w) /\ StartedOK(s, f, n, w)

TypesOK ==
  /\ messagesToSend \in [Conns -> Seq(Nat)]
  /\ sended \in [Conns -> SUBSET Nat]
  /\ inFlight \in [Conns -> Seq(Nat)]
  /\ emplaced \in [Conns -> Nat]
  /\ wire \in [Conns -> Seq(Nat)]

SendInv ==
  /\ TypesOK
  /\ \A c \in Conns :
       ConnectionOK(messagesToSend[c], sended[c], inFlight[c], emplaced[c], wire[c])

-----------------------------------------------------------------------------
(* Facts about sequences, with the results named so that the lemmas after  *)
(* them need only lengths and elements.                                     *)
LEMMA AppendFacts ==
  ASSUME NEW q \in Seq(Nat), NEW e \in Nat
  PROVE  /\ Append(q, e) \in Seq(Nat)
         /\ Len(q) \in Nat /\ Len(Append(q, e)) = Len(q) + 1
         /\ \A k \in 1..Len(q) : Append(q, e)[k] = q[k]
         /\ Append(q, e)[Len(q) + 1] = e
BY AppendProperties, LenProperties

LEMMA PopFacts ==
  ASSUME NEW q \in Seq(Nat)
  PROVE  /\ Pop(q) \in Seq(Nat)
         /\ Len(q) \in Nat
         /\ Len(q) > 0 => Len(Pop(q)) = Len(q) - 1
         /\ Len(q) > 0 => \A k \in 1..Len(Pop(q)) : Pop(q)[k] = q[k + 1]
<1>1. Len(q) \in Nat
  BY LenProperties
<1>2. \A k \in 2..Len(q) : q[k] \in Nat
  BY <1>1, ElementOfSeq
<1>3. /\ SubSeq(q, 2, Len(q)) \in Seq(Nat)
      /\ Len(SubSeq(q, 2, Len(q))) = IF 2 <= Len(q) THEN Len(q) - 2 + 1 ELSE 0
      /\ \A k \in 1..(Len(q) - 2 + 1) : SubSeq(q, 2, Len(q))[k] = q[2 + k - 1]
  BY <1>1, <1>2, SubSeqProperties
<1> DEFINE r == SubSeq(q, 2, Len(q))
           m == Len(q)
<1>4. /\ m \in Nat
      /\ Len(r) = IF 2 <= m THEN m - 2 + 1 ELSE 0
      /\ \A k \in 1..(m - 2 + 1) : r[k] = q[2 + k - 1]
  BY <1>1, <1>3
<1>5. r \in Seq(Nat)
  BY <1>3
<1> HIDE DEF r, m
<1>6. m > 0 => Len(r) = m - 1
  BY <1>4
<1>7. m > 0 => \A k \in 1..Len(r) : k \in 1..(m - 2 + 1) /\ 2 + k - 1 = k + 1
  BY <1>4, <1>6
<1>8. m > 0 => \A k \in 1..Len(r) : r[k] = q[k + 1]
  BY <1>4, <1>7
<1> QED BY <1>1, <1>5, <1>6, <1>8 DEF Pop, r, m

LEMMA ReportFacts ==
  ASSUME NEW f \in Seq(Nat), NEW w \in Seq(Nat), f # <<>>
  PROVE  /\ w \o Reported(f) \in Seq(Nat)
         /\ Len(w) \in Nat /\ Len(w \o Reported(f)) = Len(w) + 1
         /\ \A k \in 1..Len(w) : (w \o Reported(f))[k] = w[k]
         /\ (w \o Reported(f))[Len(w) + 1] = f[1]
<1>1. Len(w) \in Nat /\ Len(f) \in Nat /\ Len(f) # 0
  BY LenProperties, EmptySeq
<1>2. f[1] \in Nat
  BY <1>1, ElementOfSeq
<1> DEFINE t == <<f[1]>>
<1>3. Reported(f) = t
  BY <1>1 DEF Reported
<1>4. t \in Seq(Nat) /\ Len(t) = 1 /\ t[1] = f[1]
  BY <1>2
<1> HIDE DEF t
<1>5. /\ w \o t \in Seq(Nat)
      /\ Len(w \o t) = Len(w) + Len(t)
      /\ \A k \in 1..(Len(w) + Len(t)) :
           (w \o t)[k] = IF k <= Len(w) THEN w[k] ELSE t[k - Len(w)]
  BY <1>4, ConcatProperties
<1>6. \A k \in 1..Len(w) : k \in 1..(Len(w) + 1) /\ k <= Len(w)
  BY <1>1
<1>7. \A k \in 1..Len(w) : (w \o t)[k] = w[k]
  BY <1>4, <1>5, <1>6
<1>8. Len(w) + 1 \in 1..(Len(w) + 1) /\ ~(Len(w) + 1 <= Len(w)) /\ Len(w) + 1 - Len(w) = 1
  BY <1>1
<1>9. (w \o t)[Len(w) + 1] = t[1]
  BY <1>4, <1>5, <1>8
<1> QED BY <1>1, <1>3, <1>4, <1>5, <1>7, <1>9

-----------------------------------------------------------------------------
(* What Emplace does to a connection keeps it in order.                     *)
LEMMA EmplaceOK ==
  ASSUME NEW q, NEW s, NEW f, NEW n, NEW w, NEW g,
         ConnectionOK(q, s, f, n, w),
         Len(g) = Len(q) + 1,
         \A k \in 1..Len(q) : g[k] = q[k],
         g[Len(q) + 1] = n + 1
  PROVE  ConnectionOK(g, s, f, n + 1, w)
<1>1. QueueOK(g, n + 1, w)
  <2>1. \A k \in 1..Len(g) : g[k] = Len(w) + k
    <3> SUFFICES ASSUME NEW k \in 1..Len(g) PROVE g[k] = Len(w) + k
      OBVIOUS
    <3>1. CASE k = Len(q) + 1
      BY <3>1 DEF ConnectionOK, QueueOK
    <3>2. CASE k \in 1..Len(q)
      BY <3>2 DEF ConnectionOK, QueueOK
    <3> QED BY <3>1, <3>2 DEF ConnectionOK, QueueOK
  <2> QED BY <2>1 DEF ConnectionOK, QueueOK
<1>2. StartedOK(s, f, n + 1, w)
  BY DEF ConnectionOK, StartedOK
<1> QED BY <1>1, <1>2 DEF ConnectionOK

(* A message larger than every one that was ever started may be started    *)
(* next: g is f with n at its end, or n alone.                              *)
LEMMA StartAloneOK ==
  ASSUME NEW s, NEW f, NEW n, NEW w, NEW g,
         StartedOK(s, f, n, w), n \notin s, Len(w) + 1 <= n,
         Len(g) = 1, g[1] = n
  PROVE  StartedOK(s \cup {n}, g, n, w)
<1>1. \A x \in s : x < n
  BY DEF StartedOK
<1>2. \A k \in 1..Len(g) : g[k] = n /\ k = 1
  OBVIOUS
<1>3. Ascending(g)
  BY <1>2 DEF Ascending
<1>4. \A j \in 1..Len(w), k \in 1..Len(g) : w[j] < g[k]
  BY <1>1, <1>2 DEF StartedOK
<1> QED BY <1>2, <1>3, <1>4 DEF StartedOK

LEMMA StartNextOK ==
  ASSUME NEW s, NEW f, NEW n, NEW w, NEW g,
         StartedOK(s, f, n, w), n \notin s, Len(w) + 1 <= n,
         Len(g) = Len(f) + 1,
         \A k \in 1..Len(f) : g[k] = f[k],
         g[Len(f) + 1] = n
  PROVE  StartedOK(s \cup {n}, g, n, w)
<1>1. \A x \in s : x \in Nat /\ 1 <= x /\ x < n
  BY DEF StartedOK
<1>2. \A k \in 1..Len(g) : k \in 1..Len(f) \/ k = Len(f) + 1
  BY DEF StartedOK
<1>3. Len(w) + (Len(f) + 1) <= n
  <2>1. CASE Len(f) = 0
    BY <2>1 DEF StartedOK
  <2>2. CASE Len(f) > 0
    <3>1. f[Len(f)] \in s /\ Len(w) + Len(f) <= f[Len(f)]
      BY <2>2 DEF StartedOK
    <3> QED BY <3>1, <1>1 DEF StartedOK
  <2> QED BY <2>1, <2>2 DEF StartedOK
<1>4. \A k \in 1..Len(g) : g[k] \in s \cup {n} /\ Len(w) + k <= g[k]
  BY <1>2, <1>3 DEF StartedOK
<1>5. Ascending(g)
  <2> SUFFICES ASSUME NEW j \in 1..Len(g), NEW k \in 1..Len(g), j < k
               PROVE  g[j] < g[k]
    BY DEF Ascending
  <2>1. j \in 1..Len(f)
    BY <1>2 DEF StartedOK
  <2>2. g[j] = f[j] /\ f[j] < n
    BY <2>1, <1>1 DEF StartedOK
  <2>3. CASE k = Len(f) + 1
    BY <2>2, <2>3
  <2>4. CASE k \in 1..Len(f)
    BY <2>1, <2>2, <2>4 DEF StartedOK, Ascending
  <2> QED BY <1>2, <2>3, <2>4
<1>6. \A j \in 1..Len(w), k \in 1..Len(g) : w[j] < g[k]
  BY <1>1, <1>2 DEF StartedOK
<1> QED BY <1>1, <1>3, <1>4, <1>5, <1>6 DEF StartedOK

LEMMA PoppedLengths ==
  ASSUME NEW q, NEW w, NEW r, NEW v, NEW n \in Nat,
         Len(q) \in Nat, Len(w) \in Nat, Len(w) + Len(q) = n, Len(q) > 0,
         Len(r) = Len(q) - 1, Len(v) = Len(w) + 1
  PROVE  Len(r) \in Nat /\ Len(v) \in Nat /\ Len(v) + Len(r) = n
OBVIOUS

(* The queue after one message more was reported and its front popped.      *)
LEMMA PopQueueOK ==
  ASSUME NEW q, NEW n, NEW w, NEW r, NEW v,
         QueueOK(q, n, w), Len(q) > 0, Len(r) = Len(q) - 1, Len(v) = Len(w) + 1,
         \A k \in 1..Len(r) : r[k] = q[k + 1]
  PROVE  QueueOK(r, n, v)
<1>1. n \in Nat /\ Len(q) \in Nat /\ Len(w) \in Nat /\ Len(w) + Len(q) = n
  BY DEF QueueOK
<1>2. Len(r) \in Nat /\ Len(v) \in Nat /\ Len(v) + Len(r) = n
  BY <1>1, PoppedLengths
<1>3. \A k \in 1..Len(r) : k + 1 \in 1..Len(q) /\ r[k] = q[k + 1]
  BY <1>1
<1>4. \A k \in 1..Len(r) : r[k] = Len(v) + k
  BY <1>1, <1>3 DEF QueueOK
<1> QED BY <1>1, <1>2, <1>4 DEF QueueOK

(* What the end of a transmission does before anything is started again:   *)
(* one message is popped (r of q, l of f), another reported (v of w).       *)
LEMMA PopOK ==
  ASSUME NEW q, NEW s, NEW f, NEW n, NEW w, NEW r, NEW l, NEW v,
         ConnectionOK(q, s, f, n, w), Len(f) > 0,
         Len(q) > 0 => Len(r) = Len(q) - 1,
         Len(q) > 0 => \A k \in 1..Len(r) : r[k] = q[k + 1],
         Len(l) = Len(f) - 1,
         \A k \in 1..Len(l) : l[k] = f[k + 1],
         Len(v) = Len(w) + 1,
         \A k \in 1..Len(w) : v[k] = w[k],
         v[Len(w) + 1] = f[1]
  PROVE  ConnectionOK(r, s, l, n, v)
<1>1. /\ n \in Nat /\ Len(q) \in Nat /\ Len(f) \in Nat /\ Len(w) \in Nat
      /\ Len(w) + Len(q) = n
  BY DEF ConnectionOK, QueueOK, StartedOK
<1>2. f[1] \in s /\ Len(w) + 1 <= f[1] /\ f[1] \in Nat /\ f[1] <= n
  BY <1>1 DEF ConnectionOK, StartedOK
<1>3. Len(q) > 0 /\ Len(r) = Len(q) - 1
  BY <1>1, <1>2
<1>4. \A k \in 1..Len(v) : k \in 1..Len(w) \/ k = Len(w) + 1
  BY <1>1
<1>5. \A k \in 1..Len(l) : k + 1 \in 1..Len(f) /\ 1 < k + 1
  BY <1>1
<1>6. QueueOK(r, n, v)
  <2>1. QueueOK(q, n, w) /\ \A k \in 1..Len(r) : r[k] = q[k + 1]
    BY <1>3 DEF ConnectionOK
  <2> QED BY <1>3, <2>1, PopQueueOK
<1>7. StartedOK(s, l, n, v)
  <2>1. \A k \in 1..Len(l) : l[k] \in s /\ Len(w) + (k + 1) <= l[k]
    BY <1>5 DEF ConnectionOK, StartedOK
  <2>2. \A k \in 1..Len(l) : l[k] \in s /\ Len(v) + k <= l[k]
    BY <1>1, <2>1 DEF ConnectionOK, StartedOK
  <2>3. \A k \in 1..Len(v) : v[k] \in s
    BY <1>2, <1>4 DEF ConnectionOK, StartedOK
  <2>4. Ascending(l)
    <3> SUFFICES ASSUME NEW j \in 1..Len(l), NEW k \in 1..Len(l), j < k
                 PROVE  l[j] < l[k]
      BY DEF Ascending
    <3>1. j + 1 \in 1..Len(f) /\ k + 1 \in 1..Len(f) /\ j + 1 < k + 1
      BY <1>1
    <3> QED BY <3>1 DEF ConnectionOK, StartedOK, Ascending
  <2>5. Ascending(v)
    <3> SUFFICES ASSUME NEW j \in 1..Len(v), NEW k \in 1..Len(v), j < k
                 PROVE  v[j] < v[k]
      BY DEF Ascending
    <3>1. j \in 1..Len(w)
      BY <1>1, <1>4
    <3>2. CASE k = Len(w) + 1
      <4>1. 1 \in 1..Len(f)
        BY <1>1
      <4> QED BY <3>1, <3>2, <4>1 DEF ConnectionOK, StartedOK
    <3>3. CASE k \in 1..Len(w)
      BY <3>1, <3>3 DEF ConnectionOK, StartedOK, Ascending
    <3> QED BY <1>4, <3>2, <3>3
  <2>6. \A j \in 1..Len(v), k \in 1..Len(l) : v[j] < l[k]
    <3> SUFFICES ASSUME NEW j \in 1..Len(v), NEW k \in 1..Len(l)
                 PROVE  v[j] < l[k]
      OBVIOUS
    <3>1. k + 1 \in 1..Len(f) /\ 1 \in 1..Len(f) /\ 1 < k + 1
      BY <1>1, <1>5
    <3>2. l[k] = f[k + 1] /\ f[1] < f[k + 1]
      BY <3>1 DEF ConnectionOK, StartedOK, Ascending
    <3>3. CASE j = Len(w) + 1
      BY <3>2, <3>3
    <3>4. CASE j \in 1..Len(w)
      BY <3>1, <3>2, <3>4 DEF ConnectionOK, StartedOK
    <3> QED BY <1>4, <3>3, <3>4
  <2> QED BY <1>1, <2>2, <2>3, <2>4, <2>5, <2>6 DEF ConnectionOK, StartedOK
<1> QED BY <1>6, <1>7 DEF ConnectionOK

(* A destroyed socket context leaves nothing started.                       *)
LEMMA DropOK ==
  ASSUME NEW q, NEW s, NEW f, NEW n, NEW w, NEW e,
         ConnectionOK(q, s, f, n, w), Len(e) = 0
  PROVE  ConnectionOK(q, s, e, n, w)
<1>1. Ascending(e)
  BY DEF Ascending
<1> QED BY <1>1 DEF ConnectionOK, StartedOK

-----------------------------------------------------------------------------
(* CanStart says that the newest message, number n, was never started.      *)
LEMMA CanStartFacts ==
  ASSUME NEW q, NEW s, NEW f, NEW n, NEW w,
         ConnectionOK(q, s, f, n, w), q # <<>>, Len(q) = 0 => q = <<>>,
         q[Len(q)] \notin s
  PROVE  q[Len(q)] = n /\ n \notin s /\ Len(w) + 1 <= n
<1>1. Len(q) \in Nat /\ Len(q) # 0 /\ Len(w) \in Nat /\ Len(w) + Len(q) = n
  BY DEF ConnectionOK, QueueOK
<1>2. Len(q) \in 1..Len(q)
  BY <1>1
<1>3. q[Len(q)] = Len(w) + Len(q)
  BY <1>2 DEF ConnectionOK, QueueOK
<1> QED BY <1>1, <1>3

(* StartWrite, for either kind of manager: s and f become Mark and Started. *)
LEMMA StartOK ==
  ASSUME NEW q \in Seq(Nat), NEW s \in SUBSET Nat, NEW f \in Seq(Nat),
         NEW n \in Nat, NEW w \in Seq(Nat),
         ConnectionOK(q, s, f, n, w), CanStart(q, s), Overlapped \in BOOLEAN
  PROVE  /\ ConnectionOK(q, Mark(s, Last(q)), Started(f, Last(q)), n, w)
         /\ Mark(s, Last(q)) \in SUBSET Nat
         /\ Started(f, Last(q)) \in Seq(Nat)
<1> DEFINE g == Started(f, Last(q))
<1>1. Last(q) = q[Len(q)] /\ q # <<>> /\ Last(q) \notin s
  BY DEF CanStart, Last
<1>2. Len(q) = 0 => q = <<>>
  BY EmptySeq
<1>3. Last(q) = n /\ n \notin s /\ Len(w) + 1 <= n
  BY <1>1, <1>2, CanStartFacts
<1>4. Mark(s, Last(q)) = s \cup {n}
  BY <1>3 DEF Mark
<1>5. StartedOK(s, f, n, w) /\ QueueOK(q, n, w)
  BY DEF ConnectionOK
<1>6. CASE Overlapped
  <2>1. g = Append(f, n)
    BY <1>3, <1>6 DEF Started
  <2>2. /\ g \in Seq(Nat) /\ Len(g) = Len(f) + 1
        /\ \A k \in 1..Len(f) : g[k] = f[k]
        /\ g[Len(f) + 1] = n
    BY <2>1, AppendFacts
  <2>3. StartedOK(s \cup {n}, g, n, w)
    BY <1>3, <1>5, <2>2, StartNextOK
  <2> QED BY <1>4, <1>5, <2>2, <2>3 DEF ConnectionOK
<1>7. CASE ~Overlapped
  <2>1. g = <<n>>
    BY <1>3, <1>7 DEF Started
  <2>2. g \in Seq(Nat) /\ Len(g) = 1 /\ g[1] = n
    BY <2>1
  <2>3. StartedOK(s \cup {n}, g, n, w)
    BY <1>3, <1>5, <2>2, StartAloneOK
  <2> QED BY <1>4, <1>5, <2>2, <2>3 DEF ConnectionOK
<1> QED BY <1>6, <1>7

-----------------------------------------------------------------------------
(* The invariant holds initially ...                                        *)
LEMMA SendInitOK == SendInit => SendInv
<1> SUFFICES ASSUME SendInit PROVE SendInv
  OBVIOUS
<1> DEFINE e == <<>>
<1>1. e \in Seq(Nat) /\ Len(e) = 0
  OBVIOUS
<1>2. \A c \in Conns : /\ messagesToSend[c] = e /\ sended[c] = {} /\ inFlight[c] = e
                       /\ emplaced[c] = 0 /\ wire[c] = e
  BY DEF SendInit
<1>3. TypesOK
  BY <1>1 DEF SendInit, TypesOK
<1> HIDE DEF e
<1>4. QueueOK(e, 0, e)
  BY <1>1 DEF QueueOK
<1>5. Ascending(e)
  BY <1>1 DEF Ascending
<1>6. StartedOK({}, e, 0, e)
  BY <1>1, <1>5 DEF StartedOK
<1>7. \A c \in Conns :
        ConnectionOK(messagesToSend[c], sended[c], inFlight[c], emplaced[c], wire[c])
  BY <1>2, <1>4, <1>6 DEF ConnectionOK
<1> QED BY <1>3, <1>7 DEF SendInv

(* ... and every operation keeps it.                                        *)
LEMMA EmplaceKeeps ==
  ASSUME SendInv, NEW c \in Conns, Emplace(c)
  PROVE  SendInv'
<1> DEFINE g == Append(messagesToSend[c], emplaced[c] + 1)
<1>1. /\ messagesToSend[c] \in Seq(Nat) /\ emplaced[c] \in Nat /\ emplaced[c] + 1 \in Nat
      /\ ConnectionOK(messagesToSend[c], sended[c], inFlight[c], emplaced[c], wire[c])
  BY DEF SendInv, TypesOK
<1>2. /\ g \in Seq(Nat) /\ Len(g) = Len(messagesToSend[c]) + 1
      /\ \A k \in 1..Len(messagesToSend[c]) : g[k] = messagesToSend[c][k]
      /\ g[Len(messagesToSend[c]) + 1] = emplaced[c] + 1
  BY <1>1, AppendFacts
<1>3. ConnectionOK(g, sended[c], inFlight[c], emplaced[c] + 1, wire[c])
  BY <1>1, <1>2, EmplaceOK
<1>4. /\ messagesToSend' = [messagesToSend EXCEPT ![c] = g]
      /\ emplaced' = [emplaced EXCEPT ![c] = emplaced[c] + 1]
      /\ sended' = sended /\ inFlight' = inFlight /\ wire' = wire
  BY DEF Emplace
<1>5. TypesOK'
  BY <1>1, <1>2, <1>4 DEF SendInv, TypesOK
<1>6. ASSUME NEW d \in Conns
      PROVE  ConnectionOK(messagesToSend[d], sended[d], inFlight[d], emplaced[d], wire[d])'
  <2>1. CASE d = c
    <3>1. messagesToSend'[d] = g /\ emplaced'[d] = emplaced[c] + 1
      BY <1>4, <2>1 DEF SendInv, TypesOK
    <3> QED BY <1>3, <1>4, <2>1, <3>1
  <2>2. CASE d # c
    <3>1. messagesToSend'[d] = messagesToSend[d] /\ emplaced'[d] = emplaced[d]
      BY <1>4, <2>2 DEF SendInv, TypesOK
    <3> QED BY <1>4, <3>1 DEF SendInv
  <2> QED BY <2>1, <2>2
<1> QED BY <1>5, <1>6 DEF SendInv

LEMMA ProcessSendKeeps ==
  ASSUME SendInv, NEW S \in SUBSET Conns, ProcessSend(S)
  PROVE  SendInv'
<1>1. ASSUME NEW c \in Conns
      PROVE  /\ ConnectionOK(messagesToSend[c], sended'[c], inFlight'[c], emplaced[c], wire[c])
             /\ sended'[c] \in SUBSET Nat
             /\ inFlight'[c] \in Seq(Nat)
  <2> DEFINE q == messagesToSend[c]
             s == sended[c]
             f == inFlight[c]
  <2>1. /\ q \in Seq(Nat) /\ s \in SUBSET Nat /\ f \in Seq(Nat)
        /\ emplaced[c] \in Nat /\ wire[c] \in Seq(Nat)
        /\ ConnectionOK(q, s, f, emplaced[c], wire[c])
    BY DEF SendInv, TypesOK
  <2>2. CASE c \in S /\ CanStartOn(c)
    <3>1. sended'[c] = Mark(s, Last(q)) /\ inFlight'[c] = Started(f, Last(q))
      BY <2>2 DEF ProcessSend
    <3>2. CanStart(q, s) /\ Overlapped \in BOOLEAN
      BY <2>2, SendAssumption DEF CanStartOn
    <3>3. /\ ConnectionOK(q, Mark(s, Last(q)), Started(f, Last(q)), emplaced[c], wire[c])
          /\ Mark(s, Last(q)) \in SUBSET Nat
          /\ Started(f, Last(q)) \in Seq(Nat)
      <4> HIDE DEF q, s, f
      <4> QED BY <2>1, <3>2, StartOK
    <3> QED BY <3>1, <3>3
  <2>3. CASE ~(c \in S /\ CanStartOn(c))
    <3>1. sended'[c] = s /\ inFlight'[c] = f
      BY <2>3 DEF ProcessSend
    <3> QED BY <2>1, <3>1
  <2> QED BY <2>2, <2>3
<1>2. /\ messagesToSend' = messagesToSend /\ emplaced' = emplaced /\ wire' = wire
      /\ \E a, b : sended' = [c \in Conns |-> a[c]] /\ inFlight' = [c \in Conns |-> b[c]]
  <2>1. /\ sended' = [c \in Conns |-> sended'[c]]
        /\ inFlight' = [c \in Conns |-> inFlight'[c]]
    BY DEF ProcessSend
  <2> QED BY <2>1 DEF ProcessSend
<1>3. sended' \in [Conns -> SUBSET Nat] /\ inFlight' \in [Conns -> Seq(Nat)]
  <2>1. \A c \in Conns : sended'[c] \in SUBSET Nat /\ inFlight'[c] \in Seq(Nat)
    BY <1>1
  <2> QED BY <2>1 DEF ProcessSend
<1>4. TypesOK'
  BY <1>2, <1>3 DEF SendInv, TypesOK
<1> QED BY <1>1, <1>2, <1>4 DEF SendInv

LEMMA DropWritesKeeps ==
  ASSUME SendInv, NEW S \in SUBSET Conns, DropWrites(S)
  PROVE  SendInv'
<1>1. ASSUME NEW c \in Conns
      PROVE  /\ ConnectionOK(messagesToSend[c], sended[c], inFlight'[c], emplaced[c], wire[c])
             /\ inFlight'[c] \in Seq(Nat)
  <2>1. ConnectionOK(messagesToSend[c], sended[c], inFlight[c], emplaced[c], wire[c])
    BY DEF SendInv
  <2>2. CASE c \in S
    <3>1. inFlight'[c] = <<>> /\ Len(<<>>) = 0
      BY <2>2 DEF DropWrites
    <3> QED BY <2>1, <3>1, DropOK
  <2>3. CASE c \notin S
    BY <2>1, <2>3 DEF DropWrites, SendInv, TypesOK
  <2> QED BY <2>2, <2>3
<1>2. /\ messagesToSend' = messagesToSend /\ sended' = sended
      /\ emplaced' = emplaced /\ wire' = wire
  BY DEF DropWrites
<1>3. TypesOK'
  BY <1>1, <1>2 DEF SendInv, TypesOK, DropWrites
<1> QED BY <1>1, <1>2, <1>3 DEF SendInv

(* Write, in two halves: what it does to the values of its connection ...   *)
LEMMA WrittenOK ==
  ASSUME NEW q \in Seq(Nat), NEW s \in SUBSET Nat, NEW f \in Seq(Nat),
         NEW n \in Nat, NEW w \in Seq(Nat),
         ConnectionOK(q, s, f, n, w), f # <<>>
  PROVE  /\ ConnectionOK(Pop(q), s, Pop(f), n, w \o Reported(f))
         /\ Pop(q) \in Seq(Nat) /\ Pop(f) \in Seq(Nat)
         /\ w \o Reported(f) \in Seq(Nat)
<1> DEFINE r == Pop(q)
           l == Pop(f)
           v == w \o Reported(f)
<1>1. Len(f) \in Nat /\ Len(f) > 0
  BY LenProperties, EmptySeq
<1>2. r \in Seq(Nat) /\ l \in Seq(Nat)
  BY PopFacts
<1>3. /\ Len(q) > 0 => Len(r) = Len(q) - 1
      /\ Len(q) > 0 => \A k \in 1..Len(r) : r[k] = q[k + 1]
  BY PopFacts
<1>4. /\ Len(l) = Len(f) - 1
      /\ \A k \in 1..Len(l) : l[k] = f[k + 1]
  BY <1>1, PopFacts
<1>5. /\ v \in Seq(Nat) /\ Len(v) = Len(w) + 1
      /\ \A k \in 1..Len(w) : v[k] = w[k]
      /\ v[Len(w) + 1] = f[1]
  BY <1>1, ReportFacts
<1> HIDE DEF r, l, v
<1>6. ConnectionOK(r, s, l, n, v)
  BY <1>1, <1>3, <1>4, <1>5, PopOK
<1> QED BY <1>2, <1>5, <1>6 DEF r, l, v

(* ... and that it is one of two outcomes, both of which are OK.            *)
LEMMA WriteKeeps ==
  ASSUME SendInv, NEW c \in Conns, inFlight[c] # <<>>, Write(c)
  PROVE  SendInv'
<1> DEFINE rest == Pop(messagesToSend[c])
           left == Pop(inFlight[c])
           out  == wire[c] \o Reported(inFlight[c])
           n    == emplaced[c]
<1>1. /\ n \in Nat /\ sended[c] \in SUBSET Nat
      /\ rest \in Seq(Nat) /\ left \in Seq(Nat) /\ out \in Seq(Nat)
      /\ ConnectionOK(rest, sended[c], left, n, out)
  <2>1. /\ messagesToSend[c] \in Seq(Nat) /\ sended[c] \in SUBSET Nat
        /\ inFlight[c] \in Seq(Nat) /\ emplaced[c] \in Nat /\ wire[c] \in Seq(Nat)
        /\ ConnectionOK(messagesToSend[c], sended[c], inFlight[c], emplaced[c], wire[c])
    BY DEF SendInv, TypesOK
  <2> QED BY <2>1, WrittenOK
<1>2. /\ messagesToSend' = [messagesToSend EXCEPT ![c] = rest]
      /\ wire' = [wire EXCEPT ![c] = out]
      /\ emplaced' = emplaced
  BY DEF Write, RestOfQueue
<1>3. PICK marked, started :
        /\ sended' = [sended EXCEPT ![c] = marked] /\ marked \in SUBSET Nat
        /\ inFlight' = [inFlight EXCEPT ![c] = started] /\ started \in Seq(Nat)
        /\ ConnectionOK(rest, marked, started, n, out)
  <2>1. CASE RestartsOnWrite(c)
    <3>1. /\ sended' = [sended EXCEPT ![c] = Mark(sended[c], Last(rest))]
          /\ inFlight' = [inFlight EXCEPT ![c] = Started(left, Last(rest))]
      BY <2>1 DEF Write, RestOfQueue
    <3>2. CanStart(rest, sended[c]) /\ Overlapped \in BOOLEAN
      BY <2>1, SendAssumption DEF RestartsOnWrite, RestOfQueue
    <3>3. /\ ConnectionOK(rest, Mark(sended[c], Last(rest)), Started(left, Last(rest)), n, out)
          /\ Mark(sended[c], Last(rest)) \in SUBSET Nat
          /\ Started(left, Last(rest)) \in Seq(Nat)
      <4> HIDE DEF rest, left, out, n
      <4> QED BY <1>1, <3>2, StartOK
    <3> QED BY <3>1, <3>3
  <2>2. CASE ~RestartsOnWrite(c)
    <3>1. inFlight' = [inFlight EXCEPT ![c] = left] /\ sended' = sended
      BY <2>2 DEF Write
    <3>2. sended' = [sended EXCEPT ![c] = sended[c]]
      BY <3>1 DEF SendInv, TypesOK
    <3> QED BY <1>1, <3>1, <3>2
  <2> QED BY <2>1, <2>2
<1> HIDE DEF rest, left, out, n
<1>4. TypesOK'
  BY <1>1, <1>2, <1>3 DEF SendInv, TypesOK
<1>5. ASSUME NEW d \in Conns
      PROVE  ConnectionOK(messagesToSend[d], sended[d], inFlight[d], emplaced[d], wire[d])'
  <2>1. CASE d = c
    <3>1. /\ messagesToSend'[d] = rest /\ sended'[d] = marked
          /\ inFlight'[d] = started /\ wire'[d] = out /\ emplaced'[d] = n
      BY <1>2, <1>3, <2>1 DEF SendInv, TypesOK, n
    <3> QED BY <1>3, <3>1
  <2>2. CASE d # c
    <3>1. /\ messagesToSend'[d] = messagesToSend[d] /\ sended'[d] = sended[d]
          /\ inFlight'[d] = inFlight[d] /\ wire'[d] = wire[d] /\ emplaced'[d] = emplaced[d]
      BY <1>2, <1>3, <2>2 DEF SendInv, TypesOK
    <3> QED BY <3>1 DEF SendInv
  <2> QED BY <2>1, <2>2
<1> QED BY <1>4, <1>5 DEF SendInv

LEMMA SendNextKeeps == SendInv /\ [SendNext]_sendVars => SendInv'
<1> SUFFICES ASSUME SendInv, [SendNext]_sendVars PROVE SendInv'
  OBVIOUS
<1>1. ASSUME NEW c \in Conns, Emplace(c) PROVE SendInv'
  BY <1>1, EmplaceKeeps
<1>2. ASSUME NEW S \in SUBSET Conns, ProcessSend(S) PROVE SendInv'
  BY <1>2, ProcessSendKeeps
<1>3. ASSUME NEW c \in Conns, inFlight[c] # <<>>, Write(c) PROVE SendInv'
  BY <1>3, WriteKeeps
<1>4. ASSUME NEW S \in SUBSET Conns, DropWrites(S) PROVE SendInv'
  BY <1>4, DropWritesKeeps
<1>5. CASE UNCHANGED sendVars
  BY <1>5 DEF SendInv, TypesOK, sendVars
<1> QED BY <1>1, <1>2, <1>3, <1>4, <1>5 DEF SendNext

LEMMA SendInvHolds == Spec => []SendInv
<1>1. SendInit => SendInv
  BY SendInitOK
<1>2. SendInv /\ [SendNext]_sendVars => SendInv'
  BY SendNextKeeps
<1> QED BY <1>1, <1>2, PTL DEF Spec

(* No more messages are in flight than were emplaced.                       *)
LEMMA FlightBound ==
  ASSUME SendInv, NEW c \in Conns
  PROVE  Len(inFlight[c]) \in Nat /\ emplaced[c] \in Nat /\ Len(inFlight[c]) <= emplaced[c]
<1>. DEFINE f == inFlight[c]
            n == emplaced[c]
            w == wire[c]
<1>1. /\ n \in Nat /\ Len(f) \in Nat /\ Len(w) \in Nat
      /\ \A x \in sended[c] : x \in Nat /\ 1 <= x /\ x <= n
      /\ \A k \in 1..Len(f) : f[k] \in sended[c] /\ Len(w) + k <= f[k]
  BY DEF SendInv, ConnectionOK, StartedOK
<1>. HIDE DEF f, n, w
<1>2. Len(f) <= n
  <2>1. CASE Len(f) = 0
    BY <1>1, <2>1
  <2>2. CASE Len(f) # 0
    <3>1. Len(f) \in 1..Len(f)
      BY <1>1, <2>2
    <3>2. f[Len(f)] \in Nat /\ f[Len(f)] <= n /\ Len(w) + Len(f) <= f[Len(f)]
      BY <1>1, <3>1
    <3>. QED  BY <1>1, <3>2
  <2>. QED  BY <2>1, <2>2
<1>. QED  BY <1>1, <1>2 DEF f, n

-----------------------------------------------------------------------------
(* The shape of NetConnection's queue and of the started messages, for      *)
(* every order of calls; in particular StartWrite marks only messages that  *)
(* were emplaced.                                                           *)
THEOREM TypeCorrect == Spec => []SendTypeOK
<1>1. SendInv => SendTypeOK
  <2> SUFFICES ASSUME SendInv PROVE SendTypeOK
    OBVIOUS
  <2>1. ASSUME NEW c \in Conns PROVE sended[c] \subseteq 1..emplaced[c]
    <3>1. StartedOK(sended[c], inFlight[c], emplaced[c], wire[c])
      BY DEF SendInv, ConnectionOK
    <3> QED BY <3>1 DEF StartedOK
  <2> QED BY <2>1 DEF SendInv, TypesOK, SendTypeOK
<1> QED BY <1>1, SendInvHolds, PTL

(* Write never pops a message that a NetBuffer still points to.             *)
THEOREM PointersStayValid == Spec => []InFlightIsQueued
<1>1. SendInv => InFlightIsQueued
  <2> SUFFICES ASSUME SendInv, NEW c \in Conns, NEW m \in ToSet(inFlight[c])
               PROVE  m \in ToSet(messagesToSend[c])
    BY DEF InFlightIsQueued
  <2> DEFINE q == messagesToSend[c]
             f == inFlight[c]
             w == wire[c]
             n == emplaced[c]
  <2>1. q \in Seq(Nat) /\ f \in Seq(Nat)
    BY DEF SendInv, TypesOK
  <2>2. DOMAIN f = 1..Len(f) /\ DOMAIN q = 1..Len(q)
    BY <2>1, LenProperties
  <2>3. PICK k \in 1..Len(f) : m = f[k]
    BY <2>2 DEF ToSet
  <2>4. QueueOK(q, n, w) /\ StartedOK(sended[c], f, n, w)
    BY DEF SendInv, ConnectionOK
  <2> HIDE DEF q, f, w, n
  <2>5. m \in Nat /\ m <= n /\ Len(w) + k <= m
    BY <2>3, <2>4 DEF StartedOK
  <2>6. m - Len(w) \in 1..Len(q)
    <3>1. /\ n \in Nat /\ Len(q) \in Nat /\ Len(w) \in Nat /\ Len(f) \in Nat
          /\ n = Len(w) + Len(q)
      BY <2>4 DEF QueueOK, StartedOK
    <3> QED BY <2>5, <3>1
  <2>7. q[m - Len(w)] = m
    <3>1. q[m - Len(w)] = Len(w) + (m - Len(w)) /\ Len(w) \in Nat
      BY <2>4, <2>6 DEF QueueOK
    <3> QED BY <2>5, <3>1
  <2>8. m \in ToSet(q)
    BY <2>2, <2>6, <2>7 DEF ToSet, q
  <2> QED BY <2>8 DEF q
<1> QED BY <1>1, SendInvHolds, PTL

(* No message goes out twice, and none after a newer one.                   *)
THEOREM MessagesGoOutInOrder == Spec => []WireInOrderWithoutRepeats
<1>1. SendInv => WireInOrderWithoutRepeats
  <2> SUFFICES ASSUME SendInv, NEW c \in Conns PROVE Increasing(wire[c])
    BY DEF WireInOrderWithoutRepeats
  <2>1. DOMAIN wire[c] = 1..Len(wire[c])
    BY LenProperties DEF SendInv, TypesOK
  <2>2. Ascending(wire[c])
    BY DEF SendInv, ConnectionOK, StartedOK
  <2> QED BY <2>1, <2>2 DEF Ascending, Increasing
<1> QED BY <1>1, SendInvHolds, PTL

=============================================================================
