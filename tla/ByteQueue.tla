----------------------------- MODULE ByteQueue -----------------------------
(***************************************************************************)
(* What a ByteBuf promises its user, without cursors: a queue of the bytes *)
(* written and not yet read.  Writers append, readers take the oldest      *)
(* bytes or, exactly when there are too few, refuse and take nothing;      *)
(* overwriting replaces queued bytes and never adds, removes or moves any. *)
(***************************************************************************)
EXTENDS Integers, Sequences

CONSTANTS Written,   \* the byte sequences a writer may append
          Patches,   \* the byte sequences an overwrite may place
          Offsets,   \* where an overwrite may start, relative to the oldest byte
          Counts     \* how many bytes a reader may ask for

VARIABLES queue,   \* the bytes written and not read, oldest first
          result   \* what the last call returned

vars == <<queue, result>>

Done           == [outcome |-> "ok", bytes |-> <<>>]
Got(bytes)     == [outcome |-> "ok", bytes |-> bytes]
Refused        == [outcome |-> "out_of_range", bytes |-> <<>>]

Init ==
  /\ queue = <<>>
  /\ result = Done

Put(bytes) ==
  /\ queue' = queue \o bytes
  /\ result' = Done

Take(n) ==
  /\ n <= Len(queue)
  /\ queue' = SubSeq(queue, n + 1, Len(queue))
  /\ result' = Got(SubSeq(queue, 1, n))

RefuseTake(n) ==
  /\ n > Len(queue)
  /\ result' = Refused
  /\ UNCHANGED queue

(* Replaces the queued bytes among places from + 1 .. from + Len(bytes);   *)
(* `from` is negative when the overwritten range starts in bytes already   *)
(* taken.                                                                  *)
Overwrite(from, bytes) ==
  /\ from + Len(bytes) <= Len(queue)
  /\ queue' = [i \in 1 .. Len(queue) |->
                 IF i \in from + 1 .. from + Len(bytes)
                   THEN bytes[i - from] ELSE queue[i]]
  /\ result' = Done

RefuseOverwrite(from, bytes) ==
  /\ from + Len(bytes) > Len(queue)
  /\ result' = Refused
  /\ UNCHANGED queue

Clear ==
  /\ queue' = <<>>
  /\ result' = Done

Next ==
  \/ \E bytes \in Written : Put(bytes)
  \/ \E n \in Counts : Take(n) \/ RefuseTake(n)
  \/ \E from \in Offsets, bytes \in Patches :
       Overwrite(from, bytes) \/ RefuseOverwrite(from, bytes)
  \/ Clear

Spec == Init /\ [][Next]_vars
=============================================================================
