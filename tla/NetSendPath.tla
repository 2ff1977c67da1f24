----------------------------- MODULE NetSendPath -----------------------------
(***************************************************************************)
(* The sending half of NetEventHandler (StartWrite, Write, ReadyToWrite)   *)
(* and the queue it works on, NetConnection::messagesToSend.               *)
(*                                                                         *)
(* A message is the number it got when it was emplaced on its connection   *)
(* (1, 2, ...), so that two messages with the same text stay different.    *)
(* StartWrite does not copy a message: netBuffer.buf points INTO the       *)
(* queue's element, and the element must stay there until the bytes are    *)
(* out.  inFlight[c] holds the messages such a pointer is still good for:  *)
(*   - under NetBufferBasedEventManager (Overlapped = FALSE) there is one  *)
(*     netBuffer and nothing is given to the kernel before Send, so a      *)
(*     later StartWrite replaces the pending message;                      *)
(*   - under NetIOCPEventManager (Overlapped = TRUE) SendAsync gives every *)
(*     started message to the kernel at once, so they accumulate and       *)
(*     complete in order.                                                  *)
(*                                                                         *)
(* The operations below have no precondition of their own, as in the code; *)
(* what their callers must guarantee is stated in Next, and the modules    *)
(* that call them are checked against it (PROPERTY SendPath!Spec).         *)
(***************************************************************************)
EXTENDS Naturals, Sequences, SequencesExt

CONSTANTS
  Conns,        (* the connections                                         *)
  MaxMessages,  (* bound: messages emplaced on one connection              *)
  Overlapped    (* TRUE: the IOCP manager, FALSE: the poll/select manager  *)

ASSUME SendAssumption ==
  /\ MaxMessages \in Nat
  /\ Overlapped \in BOOLEAN

VARIABLES
  messagesToSend,  (* NetConnection::messagesToSend, oldest first          *)
  sended,          (* the messages whose NetSendMessage::sended is true    *)
  inFlight,        (* started messages whose end has not been reported     *)
  emplaced,        (* history: how many messages were emplaced             *)
  wire             (* history: the messages whose end was reported by      *)
                   (* Write, in the order of the calls                     *)

sendVars == <<messagesToSend, sended, inFlight, emplaced, wire>>

SendInit ==
  /\ messagesToSend = [c \in Conns |-> <<>>]
  /\ sended = [c \in Conns |-> {}]
  /\ inFlight = [c \in Conns |-> <<>>]
  /\ emplaced = [c \in Conns |-> 0]
  /\ wire = [c \in Conns |-> <<>>]

-----------------------------------------------------------------------------
(* std::queue on sequences.  pop() of an empty std::queue is undefined;    *)
(* here it leaves the queue empty.                                          *)
Pop(q) == SubSeq(q, 2, Len(q))

(* Plausible slips in the queue operations below; only mutated runs use    *)
(* them.                                                                    *)
CanStartIgnoringFlag(q, flagged) == q # <<>>
MarkPastTheBack(flagged, m) == flagged \cup {m + 1}
RestOfQueueBack(q) == SubSeq(q, 1, Len(q) - 1)

(* StartWrite's two early returns: nothing to send, or the newest message  *)
(* was started before.  Only the BACK of the queue is looked at.           *)
CanStart(q, flagged) == q # <<>> /\ Last(q) \notin flagged

(* sendMsg.sended = true                                                    *)
Mark(flagged, m) == flagged \cup {m}

(* SetNextBuffer(msg.c_str()), and for IOCP the SendAsync that follows.    *)
Started(started, m) == IF Overlapped THEN Append(started, m) ELSE <<m>>

(* messagesToSend.pop() in Write                                            *)
RestOfQueue(q) == Pop(q)

(* The message whose end a call of Write reports, as a sequence             *)
Reported(started) == IF started = <<>> THEN <<>> ELSE <<Head(started)>>

-----------------------------------------------------------------------------
(* NetConnection::Send, and the direct messagesToSend.emplace of the       *)
(* servers' timed task.                                                     *)
Emplace(c) ==
  /\ emplaced' = [emplaced EXCEPT ![c] = @ + 1]
  /\ messagesToSend' = [messagesToSend EXCEPT ![c] = Append(@, emplaced[c] + 1)]
  /\ UNCHANGED <<sended, inFlight, wire>>

(* ProcessSend: StartWrite on every context of the set S.  No other code   *)
(* runs between the calls and each touches only its own connection.        *)
CanStartOn(c) == CanStart(messagesToSend[c], sended[c])

ProcessSend(S) ==
  LET starting == {c \in S : CanStartOn(c)} IN
  /\ sended' = [c \in Conns |->
       IF c \in starting THEN Mark(sended[c], Last(messagesToSend[c])) ELSE sended[c]]
  /\ inFlight' = [c \in Conns |->
       IF c \in starting THEN Started(inFlight[c], Last(messagesToSend[c])) ELSE inFlight[c]]
  /\ UNCHANGED <<messagesToSend, emplaced, wire>>

(* NetEventHandler::Write: the end of a transmission was reported.  The    *)
(* byte count is ignored, the FRONT of the queue is popped, whichever      *)
(* message was transmitted, and StartWrite is tried on what is left.       *)
RestartsOnWrite(c) == CanStart(RestOfQueue(messagesToSend[c]), sended[c])

Write(c) ==
  LET rest == RestOfQueue(messagesToSend[c])
      left == Pop(inFlight[c])
  IN
  /\ messagesToSend' = [messagesToSend EXCEPT ![c] = rest]
  /\ wire' = [wire EXCEPT ![c] = @ \o Reported(inFlight[c])]
  /\ \/ /\ RestartsOnWrite(c)
        /\ sended' = [sended EXCEPT ![c] = Mark(@, Last(rest))]
        /\ inFlight' = [inFlight EXCEPT ![c] = Started(left, Last(rest))]
     \/ /\ ~RestartsOnWrite(c)
        /\ inFlight' = [inFlight EXCEPT ![c] = left]
        /\ UNCHANGED sended
  /\ UNCHANGED emplaced

(* The socket contexts of S are destroyed: their sockets are closed and no *)
(* Write will be called for them.  The NetConnections keep their queues.   *)
DropWrites(S) ==
  /\ inFlight' = [c \in Conns |-> IF c \in S THEN <<>> ELSE inFlight[c]]
  /\ UNCHANGED <<messagesToSend, sended, emplaced, wire>>

-----------------------------------------------------------------------------
(* Every order of calls the event managers may produce.  Their obligation: *)
(* Write only reports the end of something StartWrite started.             *)
SendNext ==
  \/ \E c \in Conns : emplaced[c] < MaxMessages /\ Emplace(c)
  \/ \E S \in SUBSET Conns : ProcessSend(S)
  \/ \E c \in Conns : inFlight[c] # <<>> /\ Write(c)
  \/ \E S \in SUBSET Conns : DropWrites(S)

Spec == SendInit /\ [][SendNext]_sendVars

-----------------------------------------------------------------------------
Increasing(s) == \A i, j \in DOMAIN s : i < j => s[i] < s[j]

(* The shape of the state (NetConnection.hpp, NetContext.hpp): only        *)
(* messages that were emplaced are marked.                                  *)
SendTypeOK ==
  /\ messagesToSend \in [Conns -> Seq(Nat)]
  /\ sended \in [Conns -> SUBSET Nat]
  /\ \A c \in Conns : sended[c] \subseteq 1..emplaced[c]
  /\ inFlight \in [Conns -> Seq(Nat)]
  /\ emplaced \in [Conns -> Nat]
  /\ wire \in [Conns -> Seq(Nat)]

(* Whatever Write pops, a message that the socket layer still points to    *)
(* is in the queue: NetBuffer::buf, taken from std::string::c_str() in      *)
(* NetEventHandler::StartWrite, never dangles, and Write never pops an      *)
(* empty queue.  It is not obvious, since Write pops the front and          *)
(* StartWrite points into the back.                                         *)
InFlightIsQueued ==
  \A c \in Conns : ToSet(inFlight[c]) \subseteq ToSet(messagesToSend[c])

(* No message goes out twice and none overtakes an older one, however      *)
(* ProcessSend, Write and Emplace interleave: the wire carries strictly     *)
(* increasing message numbers (the purpose of NetSendMessage::sended).      *)
WireInOrderWithoutRepeats ==
  \A c \in Conns : Increasing(wire[c])

(* The reading that NetSendMessage::sended suggests: Write removes a        *)
(* message only after it was marked as sent.                                *)
OnlySentMessagesLeaveTheQueue ==
  [][\A c \in Conns :
       ToSet(messagesToSend[c]) \ ToSet(messagesToSend'[c]) \subseteq sended[c]]_sendVars

=============================================================================
