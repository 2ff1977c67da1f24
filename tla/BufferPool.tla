----------------------------- MODULE BufferPool -----------------------------
(***************************************************************************)
(* BufferPool<BufferSize> (BufferPool.hpp) as operators on a pool value.   *)
(* A buffer is the number of the emplace_back that created it: buffers are *)
(* never destroyed while the pool lives, so 1..pool.buffers is the list    *)
(* `buffers`, and pool.buffersQueue is the FIFO of those not in use.  What *)
(* ReturnBuffer is given is not checked: only its callers keep a buffer    *)
(* from being queued twice.                                                *)
(***************************************************************************)
EXTENDS Naturals, Sequences

(* BufferPool(bufferCount)                                                  *)
NewPool(bufferCount) ==
  [buffersQueue |-> [i \in 1..bufferCount |-> i], buffers |-> bufferCount]

(* The buffer TakeBuffer() hands out: the front of the queue, or a new one *)
TakenBuffer(pool) ==
  IF pool.buffersQueue = <<>> THEN pool.buffers + 1 ELSE Head(pool.buffersQueue)

(* Slips mutated runs use: the front is handed out and not popped; a new   *)
(* buffer is not kept in the list.                                          *)
AfterTakeWithoutPop(pool) ==
  IF pool.buffersQueue = <<>> THEN [pool EXCEPT !.buffers = @ + 1] ELSE pool

AfterTakeUnlisted(pool) ==
  IF pool.buffersQueue = <<>> THEN pool ELSE [pool EXCEPT !.buffersQueue = Tail(@)]

(* ... and the pool it leaves behind.                                       *)
AfterTake(pool) ==
  IF pool.buffersQueue = <<>>
  THEN [pool EXCEPT !.buffers = @ + 1]
  ELSE [pool EXCEPT !.buffersQueue = Tail(@)]

(* ReturnBuffers(returnBuffers): every buffer of the list, in its order.   *)
(* ReturnBuffer(b) is ReturnBuffers(pool, <<b>>).                           *)
ReturnBuffers(pool, returnBuffers) ==
  [pool EXCEPT !.buffersQueue = @ \o returnBuffers]

=============================================================================
