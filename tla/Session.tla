------------------------------ MODULE Session ------------------------------
(***************************************************************************)
(* A sender that encodes messages into a ByteBuf and a receiver that       *)
(* decodes them from it, as the tests and the usage example of the readme  *)
(* do.  Both work on one object, or a transport copies its bytes into a    *)
(* fresh one and may lose the last of them.  Which protocol is spoken is   *)
(* left open.                                                              *)
(***************************************************************************)
EXTENDS MessageCodec

CONSTANTS Contents,       \* what the receivers of the messages should get
          MaxQueue,       \* bound on the messages between two resets
          Follows(_, _),  \* bound: after what is sent already, this one
          CutEvery        \* bound: the transport cuts at every such length

ASSUME SessionAssumption ==
  /\ Contents = {Promised(m) : m \in Messages}
  /\ MaxQueue \in Nat
  /\ CutEvery \in Nat \ {0}

VARIABLES buf,       \* the buffer
          sent,      \* history: of each message encoded since the last
                     \*   reset, its kind and what its receiver should get
          ends,      \* history: where the bytes of each of them end
          whole,     \* how many of them are in the buffer completely
          received,  \* the objects decoded since the last reset
          outcome    \* what the last encode or decode did

vars == <<buf, sent, ends, whole, received, outcome>>

Init ==
  /\ buf = EmptyBuf
  /\ sent = <<>>
  /\ ends = <<>>
  /\ whole = 0
  /\ received = <<>>
  /\ outcome = "ok"

Intact == whole = Len(sent)

Send(m) ==
  LET r == EncodeInto(m, buf)
  IN  /\ Intact
      /\ Len(sent) < MaxQueue
      /\ Follows(sent, m)
      /\ buf' = r.buf
      /\ outcome' = r.outcome
      /\ sent' = Append(sent, [kind |-> KindOf(m), value |-> Promised(m)])
      /\ ends' = Append(ends, Len(r.buf.buffer))
      /\ whole' = whole + 1
      /\ UNCHANGED received

(* The receiver decodes the message that comes next or, when it has them   *)
(* all, tries another one like the last.  A decode that was refused in the *)
(* middle of a message leaves the cursor there: only a reset helps.        *)
Receive ==
  LET next == IF Len(received) < Len(sent) THEN Len(received) + 1 ELSE Len(sent)
      r    == DecodeFrom(sent[next].kind, buf)
  IN  /\ sent # <<>>
      /\ Intact \/ outcome = "ok"
      /\ buf' = r.buf
      /\ outcome' = r.outcome
      /\ received' = IF r.outcome = "ok" THEN Append(received, r.value) ELSE received
      /\ UNCHANGED <<sent, ends, whole>>

(* A transport hands the receiver the first n bytes in a buffer of its own.*)
Cut(n) ==
  /\ Intact
  /\ received = <<>>
  /\ outcome = "ok"
  /\ buf' = Write(EmptyBuf, Uncounted(SubSeq(buf.buffer, 1, n)))
  /\ whole' \in {w \in 0 .. Len(sent) : \A i \in 1 .. Len(sent) : i <= w <=> ends[i] <= n}
  /\ UNCHANGED <<sent, ends, received, outcome>>

Cuts == {n \in 0 .. Len(buf.buffer) - 1 : (Len(buf.buffer) - 1 - n) % CutEvery = 0}

Reset ==
  /\ buf' = EmptyBuf
  /\ sent' = <<>>
  /\ ends' = <<>>
  /\ whole' = 0
  /\ received' = <<>>
  /\ outcome' = "ok"

Next ==
  \/ \E m \in Messages : Send(m)
  \/ Receive
  \/ \E n \in Cuts : Cut(n)
  \/ Reset

Spec == Init /\ [][Next]_vars

-----------------------------------------------------------------------------
Outcomes == {"ok", "out_of_range", "no_such_type"}

(* Type correctness of the buffer and of the histories; no decode, refused *)
(* or not, leaves the reader's index beyond the data.                      *)
TypeOK ==
  /\ buf \in ByteBufs
  /\ buf.reader_index <= Len(buf.buffer)
  /\ Len(sent) <= MaxQueue
  /\ ends \in Seq(Nat)
  /\ Len(ends) = Len(sent)
  /\ whole \in 0 .. Len(sent)
  /\ outcome \in Outcomes

(* The messages that a receiver has are the ones that were sent, in their  *)
(* order and unchanged up to what the format cannot express: no decode     *)
(* makes up a message, takes one twice or takes bytes of its neighbour.    *)
InOrder ==
  /\ Len(received) <= Len(sent)
  /\ \A i \in 1 .. Len(received) : Delivered(received[i]) = sent[i].value

(* As long as no decode was refused, the cursor of the reader is where the *)
(* next message begins.                                                    *)
ExactlyConsumed ==
  outcome = "ok" =>
    buf.reader_index =
      IF received = <<>> THEN 0 ELSE ends[Len(received)]

(* A decode is refused exactly when its message is not completely there,   *)
(* and then by std::out_of_range: never in the middle of a whole message,  *)
(* and never by decoding a part of one.                                    *)
RefusedWhenIncomplete ==
  /\ Len(received) <= whole
  /\ outcome # "ok" => outcome = "out_of_range" /\ Len(received) = whole

(* A message that was received and is forwarded, encoded into a buffer of  *)
(* its own, has the bytes it came in.                                      *)
ForwardedUnchanged ==
  \A i \in 1 .. Len(received) :
    LET start == IF i = 1 THEN 0 ELSE ends[i - 1]
    IN  EncodeInto(received[i], EmptyBuf).buf.buffer = SubSeq(buf.buffer, start + 1, ends[i])

(* Together: the buffer is a queue of messages.                            *)
Torn == <<>>

Carried == {<<v>> : v \in Contents}

Undelivered ==
  [i \in 1 .. whole - Len(received) |-> <<sent[Len(received) + i].value>>]
    \o IF Intact THEN <<>> ELSE <<Torn>>

Queue == INSTANCE MessageQueue WITH
  Values    <- Carried,
  queue     <- Undelivered,
  delivered <- [i \in DOMAIN received |-> <<Delivered(received[i])>>],
  refused   <- outcome # "ok"

ImplementsMessageQueue == Queue!Spec
=============================================================================
