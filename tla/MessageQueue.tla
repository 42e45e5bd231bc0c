---------------------------- MODULE MessageQueue ----------------------------
(***************************************************************************)
(* What encoding into a buffer at one end and decoding from it at the      *)
(* other promise: a queue of messages.  The receiver gets the messages     *)
(* that were sent, in their order, each one once and unchanged, or is      *)
(* refused; it is never given a message that was not sent.                 *)
(***************************************************************************)
EXTENDS Integers, Sequences

CONSTANTS Values,   \* what can be sent
          Torn      \* a message of which some bytes did not arrive

VARIABLES queue,     \* the messages sent and not yet delivered, oldest first
          delivered, \* the messages delivered
          refused    \* whether the last call was a refused Get

vars == <<queue, delivered, refused>>

Init ==
  /\ queue = <<>>
  /\ delivered = <<>>
  /\ refused = FALSE

Put(v) ==
  /\ queue' = Append(queue, v)
  /\ refused' = FALSE
  /\ UNCHANGED delivered

Available == queue # <<>> /\ Head(queue) # Torn

Get ==
  /\ Available
  /\ queue' = Tail(queue)
  /\ delivered' = Append(delivered, Head(queue))
  /\ refused' = FALSE

(* There is nothing to deliver, or the oldest message is not complete.     *)
Refuse ==
  /\ ~ Available
  /\ refused' = TRUE
  /\ UNCHANGED <<queue, delivered>>

(* The messages after the first n are lost, the first of them in part.     *)
Lose(n) ==
  /\ n < Len(queue)
  /\ queue' = Append(SubSeq(queue, 1, n), Torn)
  /\ UNCHANGED <<delivered, refused>>

Clear ==
  /\ queue' = <<>>
  /\ delivered' = <<>>
  /\ refused' = FALSE

Next ==
  \/ \E v \in Values : Put(v)
  \/ Get
  \/ Refuse
  \/ \E n \in 0 .. Len(queue) - 1 : Lose(n)
  \/ Clear

Spec == Init /\ [][Next]_vars
=============================================================================
