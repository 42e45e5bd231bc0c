--------------------------- MODULE SessionProofs ---------------------------
(***************************************************************************)
(* When every message is self-contained, a session delivers the messages   *)
(* that were sent, in their order, takes exactly their bytes, refuses what *)
(* is incomplete and implements the queue of messages: for every set of    *)
(* messages, every codec and any number of messages in the buffer.         *)
(***************************************************************************)
EXTENDS Session, ByteBufProofs

(* The messages behind the histories are not in them: the invariant says   *)
(* that there is a sequence of messages that explains both the histories   *)
(* and the bytes.                                                          *)
Record(m) == [kind |-> KindOf(m), value |-> Promised(m)]
Records   == {Record(m) : m \in Messages}
Objects   == {DecodeFrom(KindOf(m), b).value : m \in Messages, b \in ByteBufs}

Size(m) == Len(BytesOf(m))

(* Where the bytes of message i begin when those before it end at `places`.*)
StartIn(places, i) == IF i = 1 THEN 0 ELSE places[i - 1]

Typed ==
  /\ buf \in ByteBufs
  /\ buf.reader_index <= Len(buf.buffer)
  /\ sent \in Seq(Records)
  /\ Len(sent) <= MaxQueue
  /\ ends \in Seq(Nat)
  /\ Len(ends) = Len(sent)
  /\ received \in Seq(Objects)
  /\ whole \in Nat
  /\ Len(received) <= whole
  /\ whole <= Len(sent)
  /\ outcome \in {"ok", "out_of_range"}

Explains(ms, i) ==
  /\ sent[i] = Record(ms[i])
  /\ ends[i] = StartIn(ends, i) + Size(ms[i])
  /\ \A k \in 1 .. Size(ms[i]) :
       StartIn(ends, i) + k <= Len(buf.buffer) => buf.buffer[StartIn(ends, i) + k] = BytesOf(ms[i])[k]

Delivers(ms, i) ==
  /\ Delivered(received[i]) = Promised(ms[i])
  /\ BytesOf(received[i]) = BytesOf(ms[i])

Laid(ms) ==
  /\ Len(ms) = Len(sent)
  /\ \A i \in 1 .. Len(sent) : Explains(ms, i)
  /\ \A i \in 1 .. Len(received) : Delivers(ms, i)

(* The messages that are there completely are the first `whole` ones; as   *)
(* long as that is all of them, the last one ends where the data ends.     *)
WholeCounted == \A i \in 1 .. Len(sent) : i <= whole <=> ends[i] <= Len(buf.buffer)

AtEnd == Intact => Len(buf.buffer) = StartIn(ends, Len(sent) + 1)

(* The cursor is where the next message begins, unless a decode has been   *)
(* refused in the middle of one, and that one was the first incomplete.    *)
AtStart == outcome = "ok" \/ Intact => buf.reader_index = StartIn(ends, Len(received) + 1)

Stopped == outcome # "ok" => Len(received) = whole

SInv ==
  /\ Typed
  /\ WholeCounted
  /\ AtEnd
  /\ AtStart
  /\ Stopped
  /\ \E ms \in Seq(Messages) : Laid(ms)

-----------------------------------------------------------------------------
LEMMA LengthsAreNat ==
  ASSUME Typed
  PROVE  /\ Len(sent) \in Nat
         /\ Len(received) \in Nat
         /\ Len(buf.buffer) \in Nat
         /\ buf.reader_index \in Nat
         /\ buf.buffer \in Seq(Byte)
BY DEF Typed, ByteBufs

LEMMA SizesArePositive ==
  ASSUME CodecIsSelfContained, NEW m \in Messages
  PROVE  /\ BytesOf(m) \in Seq(Byte)
         /\ Size(m) \in Nat \ {0}
<1>1. BytesOf(m) \in Seq(Byte) /\ BytesOf(m) # <<>>
  BY DEF CodecIsSelfContained
<1> QED
  BY <1>1, EmptySeq DEF Size

LEMMA StartsAreNat ==
  ASSUME Typed, NEW i \in 1 .. Len(sent) + 1
  PROVE  StartIn(ends, i) \in Nat
<1>1. CASE i = 1
  BY <1>1 DEF StartIn
<1>2. CASE i # 1
  <2>1. i - 1 \in 1 .. Len(ends)
    BY <1>2, LengthsAreNat DEF Typed
  <2>2. ends[i - 1] \in Nat
    BY <2>1, ElementOfSeq DEF Typed
  <2> QED
    BY <1>2, <2>2 DEF StartIn
<1> QED
  BY <1>1, <1>2

LEMMA SessionInit == Init => SInv
<1> SUFFICES ASSUME Init PROVE SInv
  OBVIOUS
<1>1. /\ buf = EmptyBuf /\ sent = <<>> /\ ends = <<>> /\ whole = 0
      /\ received = <<>> /\ outcome = "ok"
  BY DEF Init
<1>2. /\ buf \in ByteBufs /\ Len(buf.buffer) = 0 /\ buf.reader_index = 0
  BY <1>1, EmptySeq DEF EmptyBuf, ByteBufs
<1>3. /\ Len(sent) = 0 /\ Len(received) = 0 /\ Len(ends) = 0
      /\ sent \in Seq(Records) /\ ends \in Seq(Nat) /\ received \in Seq(Objects)
  BY <1>1, EmptySeq
<1>4. Typed
  BY <1>1, <1>2, <1>3, SessionAssumption DEF Typed
<1>5. /\ Laid(<<>>) /\ <<>> \in Seq(Messages)
  BY <1>3, EmptySeq DEF Laid
<1>6. 1 .. 0 = {}
  OBVIOUS
<1>7. (WholeCounted /\ AtEnd /\ AtStart /\ Stopped)
  BY <1>1, <1>2, <1>3, <1>6 DEF WholeCounted, AtEnd, AtStart, Stopped, StartIn, Intact
<1> QED
  BY <1>4, <1>5, <1>7 DEF SInv

LEMMA SessionReset == Reset => SInv'
<1> SUFFICES ASSUME Reset PROVE SInv'
  OBVIOUS
<1>1. /\ buf' = EmptyBuf /\ sent' = <<>> /\ ends' = <<>> /\ whole' = 0
      /\ received' = <<>> /\ outcome' = "ok"
  BY DEF Reset
<1>2. /\ buf' \in ByteBufs /\ Len(buf'.buffer) = 0 /\ buf'.reader_index = 0
  BY <1>1, EmptySeq DEF EmptyBuf, ByteBufs
<1>3. /\ Len(sent') = 0 /\ Len(received') = 0 /\ Len(ends') = 0
      /\ sent' \in Seq(Records) /\ ends' \in Seq(Nat) /\ received' \in Seq(Objects)
  BY <1>1, EmptySeq
<1>4. Typed'
  BY <1>1, <1>2, <1>3, SessionAssumption DEF Typed
<1>5. Laid(<<>>)' /\ <<>> \in Seq(Messages)
  BY <1>3, EmptySeq DEF Laid
<1>6. 1 .. 0 = {}
  OBVIOUS
<1>7. (WholeCounted /\ AtEnd /\ AtStart /\ Stopped)'
  BY <1>1, <1>2, <1>3, <1>6 DEF WholeCounted, AtEnd, AtStart, Stopped, StartIn, Intact
<1> QED
  BY <1>4, <1>5, <1>7 DEF SInv

-----------------------------------------------------------------------------
(* A message is appended.                                                  *)
LEMMA SessionSend ==
  ASSUME CodecIsSelfContained, SInv, NEW m \in Messages, Send(m)
  PROVE  SInv'
<1> DEFINE r == EncodeInto(m, buf)
<1>0. PICK n \in Nat : n = Len(sent) + 1
  BY LengthsAreNat DEF SInv
<1> USE <1>0
<1>1. PICK ms \in Seq(Messages) : Laid(ms)
  BY DEF SInv
<1>2. /\ Typed /\ WholeCounted /\ AtEnd /\ AtStart /\ Stopped
      /\ Len(sent) \in Nat /\ Len(received) \in Nat /\ Len(buf.buffer) \in Nat
      /\ buf.reader_index \in Nat /\ buf.buffer \in Seq(Byte)
  BY LengthsAreNat DEF SInv
<1>3. /\ BytesOf(m) \in Seq(Byte)
      /\ Size(m) \in Nat \ {0}
  BY SizesArePositive
<1>4. /\ r.outcome = "ok"
      /\ r.buf \in ByteBufs
      /\ r.buf.buffer = buf.buffer \o BytesOf(m)
      /\ r.buf.reader_index = buf.reader_index
  BY <1>2 DEF CodecIsSelfContained, SelfContained, AppendsOwnBytes, Appends, Typed
<1>5. /\ Len(r.buf.buffer) = Len(buf.buffer) + Size(m)
      /\ \A i \in 1 .. Len(buf.buffer) : r.buf.buffer[i] = buf.buffer[i]
      /\ \A k \in 1 .. Size(m) : r.buf.buffer[Len(buf.buffer) + k] = BytesOf(m)[k]
  <2>1. PICK s \in Seq(Byte), t \in Seq(Byte), ls \in Nat, lt \in Nat :
          s = buf.buffer /\ t = BytesOf(m) /\ ls = Len(s) /\ lt = Len(t)
    BY <1>2, <1>3
  <2>2. /\ Len(s \o t) = ls + lt
        /\ \A i \in 1 .. ls + lt : (s \o t)[i] = IF i <= ls THEN s[i] ELSE t[i - ls]
    BY <2>1, ConcatProperties
  <2>3. \A i \in 1 .. ls : i \in 1 .. ls + lt /\ i <= ls
    OBVIOUS
  <2>4. \A k \in 1 .. lt : ls + k \in 1 .. ls + lt /\ ~(ls + k <= ls) /\ (ls + k) - ls = k
    OBVIOUS
  <2>5. \A i \in 1 .. ls : (s \o t)[i] = s[i]
    BY <2>2, <2>3
  <2>6. \A k \in 1 .. lt : (s \o t)[ls + k] = t[k]
    BY <2>2, <2>4
  <2> QED
    BY <1>4, <2>1, <2>2, <2>5, <2>6 DEF Size
<1>6. /\ Intact
      /\ Len(sent) < MaxQueue
      /\ buf' = r.buf
      /\ outcome' = "ok"
      /\ sent' = Append(sent, Record(m))
      /\ ends' = Append(ends, Len(r.buf.buffer))
      /\ whole' = whole + 1
      /\ received' = received
  BY <1>4 DEF Send, Record
<1> HIDE DEF r
<1>7. /\ sent' \in Seq(Records)
      /\ Len(sent') = n
      /\ \A i \in 1 .. Len(sent) : sent'[i] = sent[i]
      /\ sent'[n] = Record(m)
  BY <1>2, <1>6, AppendProperties DEF Records, Typed
<1>8. /\ ends' \in Seq(Nat)
      /\ Len(ends') = n
      /\ \A i \in 1 .. Len(sent) : ends'[i] = ends[i]
      /\ ends'[n] = Len(buf.buffer) + Size(m)
  <2>1. Len(r.buf.buffer) \in Nat
    BY <1>2, <1>3, <1>5
  <2>2. PICK end \in Nat : end = Len(r.buf.buffer)
    BY <2>1
  <2>3. ends' = Append(ends, end) /\ end = Len(buf.buffer) + Size(m)
    BY <1>2, <1>5, <1>6, <2>2
  <2>4. ends \in Seq(Nat) /\ Len(ends) = Len(sent) /\ n = Len(ends) + 1
    BY <1>2 DEF Typed
  <2> QED
    BY <2>2, <2>3, <2>4, AppendProperties
<1>9. /\ Append(ms, m) \in Seq(Messages)
      /\ Len(Append(ms, m)) = n
      /\ \A i \in 1 .. Len(sent) : Append(ms, m)[i] = ms[i]
      /\ Append(ms, m)[n] = m
  BY <1>1, AppendProperties DEF Laid
<1>10. /\ whole = Len(sent)
       /\ whole' = n
       /\ Len(buf.buffer) = StartIn(ends, n)
  BY <1>2, <1>6 DEF Intact, AtEnd
<1>11. \A i \in 1 .. n : StartIn(ends', i) = StartIn(ends, i)
  <2>1. \A i \in 1 .. n : i # 1 => i - 1 \in 1 .. Len(sent)
    BY <1>2
  <2> QED
    BY <1>8, <2>1 DEF StartIn
<1>12. StartIn(ends', n + 1) = Len(buf'.buffer)
  <2>1. n + 1 # 1 /\ (n + 1) - 1 = n
    BY <1>2
  <2> QED
    BY <1>5, <1>6, <1>8, <2>1 DEF StartIn
<1>13. Typed'
  <2>1. buf'.reader_index <= Len(buf'.buffer)
    <3>1. PICK at \in Nat, old \in Nat, new \in Nat :
            at = buf.reader_index /\ old = Len(buf.buffer) /\ new = Size(m)
      BY <1>2, <1>3
    <3>2. at <= old
      BY <1>2, <3>1 DEF Typed
    <3>3. at <= old + new
      BY <3>2
    <3> QED
      BY <1>4, <1>5, <1>6, <3>1, <3>3
  <2>2. /\ whole' \in Nat /\ Len(received') <= whole' /\ whole' <= Len(sent')
        /\ Len(sent') <= MaxQueue
    BY <1>2, <1>6, <1>7, <1>10, SessionAssumption DEF Typed
  <2> QED
    BY <1>2, <1>4, <1>6, <1>7, <1>8, <2>1, <2>2 DEF Typed
<1>14. \A i \in 1 .. n : i \in 1 .. Len(sent) \/ i = n
  BY <1>2
<1>15. WholeCounted'
  <2> SUFFICES ASSUME NEW i \in 1 .. n PROVE ends'[i] <= Len(buf'.buffer)
    BY <1>7, <1>10 DEF WholeCounted
  <2>1. CASE i \in 1 .. Len(sent)
    <3>1. i <= whole
      BY <1>2, <1>10, <2>1
    <3>2. ends[i] <= Len(buf.buffer)
      BY <1>2, <2>1, <3>1 DEF WholeCounted
    <3>3. ends[i] \in Nat
      BY <1>2, <2>1, ElementOfSeq DEF Typed
    <3> QED
      BY <1>2, <1>3, <1>5, <1>6, <1>8, <2>1, <3>2, <3>3, SMTT(20)
  <2>2. CASE i = n
    BY <1>2, <1>3, <1>5, <1>6, <1>8, <2>2
  <2> QED
    BY <1>14, <2>1, <2>2
<1>16. AtEnd'
  BY <1>7, <1>12 DEF AtEnd
<1>17. AtStart'
  <2>1. Len(received) + 1 \in 1 .. n
    BY <1>2 DEF Typed
  <2>2. buf.reader_index = StartIn(ends, Len(received) + 1)
    BY <1>2, <1>6 DEF AtStart
  <2> QED
    BY <1>4, <1>6, <1>11, <2>1, <2>2 DEF AtStart
<1>18. Stopped'
  BY <1>6 DEF Stopped
<1>19. Laid(Append(ms, m))'
  <2>1. ASSUME NEW i \in 1 .. n PROVE Explains(Append(ms, m), i)'
    <3>1. CASE i \in 1 .. Len(sent)
      <4>1. Explains(ms, i)
        BY <1>1, <3>1 DEF Laid
      <4>2. ms[i] \in Messages
        BY <1>1, <3>1, ElementOfSeq DEF Laid
      <4>3. Size(ms[i]) \in Nat
        BY <4>2, SizesArePositive
      <4>4. StartIn(ends, i) \in Nat
        BY <1>2, StartsAreNat
      <4>5. ends[i] <= Len(buf.buffer) /\ ends[i] = StartIn(ends, i) + Size(ms[i])
        BY <1>2, <1>10, <3>1, <4>1 DEF WholeCounted, Explains
      <4>6. ASSUME NEW k \in 1 .. Size(ms[i])
            PROVE  buf'.buffer[StartIn(ends, i) + k] = BytesOf(ms[i])[k]
        <5>1. StartIn(ends, i) + k \in 1 .. Len(buf.buffer)
          BY <1>2, <4>3, <4>4, <4>5, SMTT(20)
        <5>2. buf.buffer[StartIn(ends, i) + k] = BytesOf(ms[i])[k]
          BY <4>1, <5>1 DEF Explains
        <5> QED
          BY <1>5, <1>6, <5>1, <5>2
      <4> QED
        BY <1>7, <1>8, <1>9, <1>11, <3>1, <4>1, <4>6 DEF Explains
    <3>2. CASE i = n
      <4>1. Append(ms, m)[i] = m /\ sent'[i] = Record(m)
        BY <1>7, <1>9, <3>2
      <4>2. StartIn(ends', i) = Len(buf.buffer)
        BY <1>10, <1>11, <3>2
      <4>3. ends'[i] = StartIn(ends', i) + Size(m)
        BY <1>8, <3>2, <4>2
      <4>4. \A k \in 1 .. Size(m) : buf'.buffer[StartIn(ends', i) + k] = BytesOf(m)[k]
        BY <1>5, <1>6, <4>2
      <4> QED
        BY <4>1, <4>3, <4>4 DEF Explains
    <3> QED
      BY <1>14, <3>1, <3>2
  <2>2. ASSUME NEW i \in 1 .. Len(received) PROVE Delivers(Append(ms, m), i)'
    <3>1. i \in 1 .. Len(sent)
      BY <1>2 DEF Typed
    <3>2. Delivers(ms, i)
      BY <1>1 DEF Laid
    <3> QED
      BY <1>6, <1>9, <3>1, <3>2 DEF Delivers
  <2> QED
    BY <1>6, <1>7, <1>9, <2>1, <2>2 DEF Laid
<1> QED
  BY <1>9, <1>13, <1>15, <1>16, <1>17, <1>18, <1>19 DEF SInv

-----------------------------------------------------------------------------
(* What the receiver finds: the message that comes next, whole or not, or, *)
(* when it has them all, the end of the data.                              *)
LEMMA NextMessage ==
  ASSUME CodecIsSelfContained, SInv, NEW ms \in Seq(Messages), Laid(ms),
         Intact \/ outcome = "ok", Len(received) < Len(sent)
  PROVE  LET p == Len(received) + 1
         IN  /\ ms[p] \in Messages
             /\ sent[p].kind = KindOf(ms[p])
             /\ TakesOwnBytes(ms[p], buf)
             /\ buf.reader_index + Size(ms[p]) = ends[p]
             /\ ends[p] \in Nat
<1>1. /\ Typed /\ AtStart
      /\ Len(sent) \in Nat /\ Len(received) \in Nat /\ Len(buf.buffer) \in Nat
      /\ buf.reader_index \in Nat /\ buf.buffer \in Seq(Byte)
  BY LengthsAreNat DEF SInv
<1>2. PICK p \in 1 .. Len(sent) : p = Len(received) + 1
  BY <1>1
<1>3. PICK m \in Messages : m = ms[p]
  BY ElementOfSeq DEF Laid
<1>4. Explains(ms, p)
  BY DEF Laid
<1>5. buf.reader_index = StartIn(ends, p)
  BY <1>1, <1>2 DEF AtStart
<1>6. Begins(m, buf)
  BY <1>3, <1>4, <1>5 DEF Explains, Begins, BeginsWith, Size
<1>7. TakesOwnBytes(m, buf)
  BY <1>1, <1>6 DEF CodecIsSelfContained, SelfContained, Typed
<1>8. ends[p] \in Nat
  BY <1>1, ElementOfSeq DEF Typed
<1> QED
  BY <1>2, <1>3, <1>4, <1>5, <1>7, <1>8 DEF Explains, Record

LEMMA NoMessage ==
  ASSUME CodecIsSelfContained, SInv, NEW ms \in Seq(Messages), Laid(ms),
         sent # <<>>, ~(Len(received) < Len(sent))
  PROVE  LET last == Len(sent)
         IN  /\ ms[last] \in Messages
             /\ sent[last].kind = KindOf(ms[last])
             /\ TakesOwnBytes(ms[last], buf)
             /\ buf.reader_index = Len(buf.buffer)
             /\ buf.reader_index + Size(ms[last]) > Len(buf.buffer)
             /\ Len(received) = Len(sent) /\ whole = Len(sent)
<1>1. /\ Typed /\ AtStart /\ AtEnd
      /\ Len(sent) \in Nat /\ Len(received) \in Nat /\ Len(buf.buffer) \in Nat
      /\ buf.reader_index \in Nat /\ buf.buffer \in Seq(Byte)
  BY LengthsAreNat DEF SInv
<1>2. PICK last \in 1 .. Len(sent) : last = Len(sent)
  BY <1>1, EmptySeq DEF Typed
<1>3. PICK m \in Messages : m = ms[last]
  BY ElementOfSeq DEF Laid
<1>4. Len(received) = Len(sent) /\ whole = Len(sent)
  BY <1>1 DEF Typed
<1>5. buf.reader_index = Len(buf.buffer)
  BY <1>1, <1>4 DEF AtStart, AtEnd, Intact
<1>6. Size(m) \in Nat \ {0}
  BY SizesArePositive
<1>7. Begins(m, buf)
  <2>1. \A k \in 1 .. Size(m) : ~(buf.reader_index + k <= Len(buf.buffer))
    BY <1>1, <1>5, <1>6
  <2> QED
    BY <2>1 DEF Begins, BeginsWith, Size
<1>8. TakesOwnBytes(m, buf)
  BY <1>1, <1>7 DEF CodecIsSelfContained, SelfContained, Typed
<1>9. sent[last].kind = KindOf(m)
  <2>1. Explains(ms, last)
    BY <1>2 DEF Laid
  <2> QED
    BY <1>3, <2>1 DEF Explains, Record
<1>10. buf.reader_index + Size(m) > Len(buf.buffer)
  BY <1>1, <1>5, <1>6
<1> QED
  BY <1>2, <1>3, <1>4, <1>5, <1>8, <1>9, <1>10

(* A decode that is refused keeps what has been received.                  *)
LEMMA RefusedKeeps ==
  ASSUME SInv, NEW ms \in Seq(Messages), Laid(ms),
         buf' \in ByteBufs, buf'.buffer = buf.buffer,
         buf'.reader_index \in buf.reader_index .. Len(buf.buffer),
         outcome' = "out_of_range", Len(received) = whole,
         Intact => buf.reader_index = Len(buf.buffer),
         UNCHANGED <<sent, ends, whole, received>>
  PROVE  SInv'
<1>1. /\ Typed /\ WholeCounted /\ AtEnd /\ AtStart
      /\ Len(buf.buffer) \in Nat /\ buf.reader_index \in Nat
  BY LengthsAreNat DEF SInv
<1>2. Typed'
  BY <1>1 DEF Typed
<1>3. WholeCounted' /\ AtEnd' /\ Stopped'
  BY <1>1 DEF WholeCounted, AtEnd, Stopped, Intact
<1>4. AtStart'
  <2>1. Intact => buf'.reader_index = buf.reader_index
    BY <1>1
  <2> QED
    BY <1>1, <2>1 DEF AtStart, Intact
<1>5. Laid(ms)'
  BY DEF Laid, Explains, Delivers
<1> QED
  BY <1>2, <1>3, <1>4, <1>5 DEF SInv

LEMMA SessionReceive ==
  ASSUME CodecIsSelfContained, SInv, Receive
  PROVE  SInv'
<1>0. PICK p \in Nat : p = Len(received) + 1
  BY LengthsAreNat DEF SInv
<1>1. PICK ms \in Seq(Messages) : Laid(ms)
  BY DEF SInv
<1>2. /\ Typed /\ WholeCounted /\ AtEnd /\ AtStart /\ Stopped
      /\ Len(sent) \in Nat /\ Len(received) \in Nat /\ Len(buf.buffer) \in Nat
      /\ buf.reader_index \in Nat /\ buf.buffer \in Seq(Byte)
  BY LengthsAreNat DEF SInv
<1>3. sent # <<>> /\ (Intact \/ outcome = "ok") /\ UNCHANGED <<sent, ends, whole>>
  BY DEF Receive
<1>4. CASE Len(received) < Len(sent)
  <2> DEFINE r == DecodeFrom(KindOf(ms[p]), buf)
  <2>1. /\ ms[p] \in Messages
        /\ sent[p].kind = KindOf(ms[p])
        /\ TakesOwnBytes(ms[p], buf)
        /\ buf.reader_index + Size(ms[p]) = ends[p]
        /\ ends[p] \in Nat
    BY <1>0, <1>1, <1>3, <1>4, NextMessage
  <2>2. /\ buf' = r.buf
        /\ outcome' = r.outcome
        /\ received' = IF r.outcome = "ok" THEN Append(received, r.value) ELSE received
    BY <1>0, <1>4, <2>1 DEF Receive
  <2>3. /\ r.buf \in ByteBufs
        /\ r.buf.buffer = buf.buffer
        /\ r.buf.reader_index \in buf.reader_index .. Len(buf.buffer)
        /\ ends[p] <= Len(buf.buffer) =>
             /\ r.outcome = "ok"
             /\ r.buf.reader_index = ends[p]
             /\ Delivered(r.value) = Promised(ms[p])
             /\ BytesOf(r.value) = BytesOf(ms[p])
        /\ ends[p] > Len(buf.buffer) => r.outcome = "out_of_range"
    BY <2>1 DEF TakesOwnBytes, Takes, Size
  <2>4. r.value \in Objects
    BY <1>2, <2>1 DEF Objects, Typed
  <2> HIDE DEF r
  <2>5. p \in 1 .. Len(sent)
    BY <1>0, <1>2, <1>4
  <2>6. CASE p <= whole
    <3>1. ends[p] <= Len(buf.buffer)
      BY <1>2, <2>5, <2>6 DEF WholeCounted
    <3>2. /\ received' = Append(received, r.value)
          /\ outcome' = "ok"
          /\ buf'.buffer = buf.buffer /\ buf'.reader_index = ends[p] /\ buf' \in ByteBufs
      BY <2>2, <2>3, <3>1
    <3>3. /\ received' \in Seq(Objects)
          /\ Len(received') = p
          /\ \A i \in 1 .. Len(received) : received'[i] = received[i]
          /\ received'[p] = r.value
      BY <1>0, <1>2, <2>4, <3>2, AppendProperties DEF Typed
    <3>4. Typed'
      BY <1>2, <1>3, <2>6, <3>1, <3>2, <3>3 DEF Typed
    <3>5. WholeCounted' /\ AtEnd' /\ Stopped'
      BY <1>2, <1>3, <3>2 DEF WholeCounted, AtEnd, Stopped, Intact
    <3>6. AtStart'
      <4>1. StartIn(ends, p + 1) = ends[p]
        BY <1>0, <1>2 DEF StartIn
      <4> QED
        BY <1>3, <3>2, <3>3, <4>1 DEF AtStart
    <3>7. Laid(ms)'
      <4>1. \A i \in 1 .. Len(sent) : Explains(ms, i)'
        BY <1>1, <1>3, <3>2 DEF Laid, Explains
      <4>2. ASSUME NEW i \in 1 .. p PROVE Delivers(ms, i)'
        <5>1. CASE i \in 1 .. Len(received)
          BY <1>1, <3>3, <5>1 DEF Laid, Delivers
        <5>2. CASE i = p
          BY <2>3, <3>1, <3>3, <5>2 DEF Delivers
        <5> QED
          BY <1>0, <1>2, <5>1, <5>2
      <4> QED
        BY <1>1, <1>3, <3>3, <4>1, <4>2 DEF Laid
    <3> QED
      BY <3>4, <3>5, <3>6, <3>7 DEF SInv
  <2>7. CASE ~(p <= whole)
    <3>1. ends[p] > Len(buf.buffer)
      BY <1>2, <2>1, <2>5, <2>7 DEF WholeCounted
    <3>2. /\ buf' \in ByteBufs /\ buf'.buffer = buf.buffer
          /\ buf'.reader_index \in buf.reader_index .. Len(buf.buffer)
          /\ outcome' = "out_of_range" /\ received' = received
      BY <2>2, <2>3, <3>1
    <3>3. Len(received) = whole /\ ~ Intact
      BY <1>0, <1>2, <1>4, <2>7 DEF Typed, Intact
    <3> QED
      BY <1>1, <1>3, <3>2, <3>3, RefusedKeeps
  <2> QED
    BY <2>6, <2>7
<1>5. CASE ~(Len(received) < Len(sent))
  <2> DEFINE r == DecodeFrom(KindOf(ms[Len(sent)]), buf)
  <2>1. /\ sent[Len(sent)].kind = KindOf(ms[Len(sent)])
        /\ TakesOwnBytes(ms[Len(sent)], buf)
        /\ buf.reader_index = Len(buf.buffer)
        /\ buf.reader_index + Size(ms[Len(sent)]) > Len(buf.buffer)
        /\ Len(received) = Len(sent) /\ whole = Len(sent)
    BY <1>1, <1>3, <1>5, NoMessage
  <2>2. /\ r.buf \in ByteBufs
        /\ r.buf.buffer = buf.buffer
        /\ r.buf.reader_index \in buf.reader_index .. Len(buf.buffer)
        /\ r.outcome = "out_of_range"
    BY <2>1 DEF TakesOwnBytes, Takes, Size
  <2>3. buf' = r.buf /\ outcome' = "out_of_range" /\ received' = received
    BY <1>5, <2>1, <2>2 DEF Receive
  <2> HIDE DEF r
  <2> QED
    BY <1>1, <1>3, <2>1, <2>2, <2>3, RefusedKeeps
<1> QED
  BY <1>4, <1>5

-----------------------------------------------------------------------------
(* A transport keeps the first n bytes: the last message is not complete.  *)
LEMMA MessageLost ==
  ASSUME SInv, NEW n \in Cuts, Cut(n)
  PROVE  whole' \in Nat /\ whole' < Len(sent)
<1>1. /\ Typed /\ AtEnd
      /\ Len(sent) \in Nat /\ Len(buf.buffer) \in Nat
  BY LengthsAreNat DEF SInv
<1>2. n \in Nat /\ n < Len(buf.buffer)
  BY <1>1 DEF Cuts
<1>3. /\ Intact
      /\ whole' \in 0 .. Len(sent)
      /\ \A i \in 1 .. Len(sent) : i <= whole' <=> ends[i] <= n
  BY DEF Cut
<1>4. Len(buf.buffer) = StartIn(ends, Len(sent) + 1)
  BY <1>1, <1>3 DEF AtEnd
<1>5. Len(sent) # 0
  BY <1>2, <1>4 DEF StartIn
<1>6. ends[Len(sent)] = Len(buf.buffer)
  BY <1>1, <1>4, <1>5 DEF StartIn
<1>7. Len(sent) \in 1 .. Len(sent) /\ ~(ends[Len(sent)] <= n)
  BY <1>1, <1>2, <1>5, <1>6
<1> QED
  BY <1>1, <1>3, <1>7

LEMMA SessionCut ==
  ASSUME SInv, NEW n \in Cuts, Cut(n)
  PROVE  SInv'
<1> DEFINE front == SubSeq(buf.buffer, 1, n)
<1>1. PICK ms \in Seq(Messages) : Laid(ms)
  BY DEF SInv
<1>2. /\ Typed /\ WholeCounted /\ AtEnd
      /\ Len(sent) \in Nat /\ Len(buf.buffer) \in Nat /\ buf.buffer \in Seq(Byte)
  BY LengthsAreNat DEF SInv
<1>3. n \in Nat /\ n < Len(buf.buffer)
  BY <1>2 DEF Cuts
<1>4. /\ Intact /\ received = <<>> /\ outcome = "ok"
      /\ buf' = Write(EmptyBuf, Uncounted(front))
      /\ whole' \in 0 .. Len(sent)
      /\ \A i \in 1 .. Len(sent) : i <= whole' <=> ends[i] <= n
      /\ UNCHANGED <<sent, ends, received, outcome>>
  BY DEF Cut
<1>5. /\ front \in Seq(Byte)
      /\ Len(front) = n
      /\ \A i \in 1 .. n : front[i] = buf.buffer[i]
  <2>1. \A i \in 1 .. n : buf.buffer[i] \in Byte
    BY <1>2, <1>3, ElementOfSeq
  <2>2. /\ front \in Seq(Byte)
        /\ Len(front) = IF 1 <= n THEN n - 1 + 1 ELSE 0
        /\ \A i \in 1 .. n - 1 + 1 : front[i] = buf.buffer[1 + i - 1]
    BY <1>3, <2>1, SubSeqProperties
  <2> HIDE DEF front
  <2>3. \A i \in 1 .. n : i \in 1 .. n - 1 + 1 /\ 1 + i - 1 = i
    BY <1>3
  <2> QED
    BY <1>3, <2>2, <2>3
<1> HIDE DEF front
<1>6. /\ buf' \in ByteBufs
      /\ buf'.buffer = front
      /\ buf'.reader_index = 0
  <2>1. EmptyBuf \in ByteBufs /\ EmptyBuf.buffer = <<>> /\ EmptyBuf.reader_index = 0
    BY EmptySeq DEF EmptyBuf, ByteBufs
  <2>2. Uncounted(front) \in Chunks /\ Uncounted(front).bytes = front
    BY <1>5, ChunkTypes
  <2>3. /\ buf' \in ByteBufs
        /\ buf'.buffer = <<>> \o front
        /\ buf'.reader_index = 0
    BY <1>4, <2>1, <2>2, WriteType
  <2> QED
    BY <1>5, <2>3, ConcatEmptySeq
<1>7. Len(received) = 0 /\ Len(buf'.buffer) = n
  BY <1>4, <1>5, <1>6, EmptySeq
<1>8. Typed'
  BY <1>2, <1>3, <1>4, <1>6, <1>7 DEF Typed
<1>9. WholeCounted' /\ Stopped'
  BY <1>4, <1>7 DEF WholeCounted, Stopped
<1>10. AtStart'
  BY <1>4, <1>6, <1>7 DEF AtStart, StartIn
<1>11. ~ Intact'
  BY <1>2, <1>4, MessageLost DEF Intact
<1>12. AtEnd'
  BY <1>11 DEF AtEnd
<1>13. Laid(ms)'
  <2>1. ASSUME NEW i \in 1 .. Len(sent) PROVE Explains(ms, i)'
    <3>1. Explains(ms, i)
      BY <1>1 DEF Laid
    <3>2. StartIn(ends, i) \in Nat
      BY <1>2, StartsAreNat
    <3>3. ASSUME NEW k \in 1 .. Size(ms[i]), StartIn(ends, i) + k <= n
          PROVE  front[StartIn(ends, i) + k] = BytesOf(ms[i])[k]
      <4>1. StartIn(ends, i) + k \in 1 .. n /\ StartIn(ends, i) + k <= Len(buf.buffer)
        BY <1>2, <1>3, <3>2, <3>3
      <4> QED
        BY <1>5, <3>1, <4>1 DEF Explains
    <3> QED
      BY <1>4, <1>6, <1>7, <3>1, <3>3 DEF Explains
  <2> QED
    BY <1>1, <1>4, <1>7, <2>1 DEF Laid
<1> QED
  BY <1>8, <1>9, <1>10, <1>12, <1>13 DEF SInv

LEMMA SessionStutter ==
  ASSUME SInv, UNCHANGED vars
  PROVE  SInv'
<1>1. PICK ms \in Seq(Messages) : Laid(ms)
  BY DEF SInv
<1>2. Typed'
  BY DEF SInv, vars, Typed
<1>3. WholeCounted' /\ AtEnd' /\ AtStart' /\ Stopped'
  BY DEF SInv, vars, WholeCounted, AtEnd, AtStart, Stopped, Intact
<1>4. Laid(ms)'
  BY <1>1 DEF vars, Laid, Explains, Delivers
<1> QED
  BY <1>2, <1>3, <1>4 DEF SInv

LEMMA SessionInvariant == CodecIsSelfContained => (Spec => []SInv)
<1> SUFFICES ASSUME CodecIsSelfContained PROVE Spec => []SInv
  OBVIOUS
<1>1. SInv /\ [Next]_vars => SInv'
  BY SessionSend, SessionReceive, SessionCut, SessionReset, SessionStutter DEF Next
<1> QED
  BY <1>1, SessionInit, PTL DEF Spec

-----------------------------------------------------------------------------
(* When every message is self-contained, the receiver has the messages     *)
(* that were sent, in their order and unchanged.                           *)
THEOREM MessagesInOrder == CodecIsSelfContained => (Spec => []InOrder)
<1>1. ASSUME SInv PROVE InOrder
  <2>1. PICK ms \in Seq(Messages) : Laid(ms)
    BY <1>1 DEF SInv
  <2>2. /\ Len(received) \in Nat /\ Len(sent) \in Nat
        /\ Len(received) <= whole /\ whole <= Len(sent) /\ whole \in Nat
    BY <1>1, LengthsAreNat DEF SInv, Typed
  <2>3. \A i \in 1 .. Len(received) : i \in 1 .. Len(sent)
    BY <2>2
  <2>4. ASSUME NEW i \in 1 .. Len(received)
        PROVE  Delivered(received[i]) = sent[i].value
    <3>1. Explains(ms, i) /\ Delivers(ms, i)
      BY <2>1, <2>3 DEF Laid
    <3> QED
      BY <3>1 DEF Explains, Delivers, Record
  <2> QED
    BY <2>2, <2>4 DEF InOrder
<1> QED
  BY <1>1, SessionInvariant, PTL

(* The reader is always where the next message begins, as long as no       *)
(* decode was refused: nothing is taken of it, nothing left of the last.   *)
THEOREM MessagesConsumed == CodecIsSelfContained => (Spec => []ExactlyConsumed)
<1>1. ASSUME SInv PROVE ExactlyConsumed
  <2>1. Typed /\ AtStart /\ Len(received) \in Nat
    BY <1>1, LengthsAreNat DEF SInv
  <2>2. received = <<>> <=> Len(received) + 1 = 1
    BY <2>1, EmptySeq DEF Typed
  <2>3. (Len(received) + 1) - 1 = Len(received)
    BY <2>1
  <2> QED
    BY <2>1, <2>2, <2>3 DEF AtStart, ExactlyConsumed, StartIn
<1> QED
  BY <1>1, SessionInvariant, PTL

(* A decode is refused exactly when its message is not completely there.   *)
THEOREM IncompleteRefused == CodecIsSelfContained => (Spec => []RefusedWhenIncomplete)
<1>1. ASSUME SInv PROVE RefusedWhenIncomplete
  BY <1>1 DEF SInv, Typed, Stopped, RefusedWhenIncomplete
<1> QED
  BY <1>1, SessionInvariant, PTL

(* What was received and is encoded again has the bytes it came in.        *)
THEOREM BytesForwarded == CodecIsSelfContained => (Spec => []ForwardedUnchanged)
<1> SUFFICES ASSUME CodecIsSelfContained PROVE Spec => []ForwardedUnchanged
  OBVIOUS
<1>1. ASSUME SInv PROVE ForwardedUnchanged
  <2>1. PICK ms \in Seq(Messages) : Laid(ms)
    BY <1>1 DEF SInv
  <2>2. /\ Typed /\ WholeCounted
        /\ Len(received) \in Nat /\ Len(sent) \in Nat /\ Len(buf.buffer) \in Nat
        /\ Len(received) <= whole /\ whole <= Len(sent) /\ whole \in Nat
        /\ buf.buffer \in Seq(Byte)
    BY <1>1, LengthsAreNat DEF SInv, Typed
  <2> SUFFICES ASSUME NEW i \in 1 .. Len(received)
               PROVE  BytesOf(received[i]) = SubSeq(buf.buffer, StartIn(ends, i) + 1, ends[i])
    BY DEF ForwardedUnchanged, BytesOf, StartIn
  <2>3. i \in 1 .. Len(sent) /\ i <= whole
    BY <2>2
  <2>4. Explains(ms, i) /\ Delivers(ms, i)
    BY <2>1, <2>3 DEF Laid
  <2>5. PICK m \in Messages : m = ms[i]
    BY <2>1, <2>3, ElementOfSeq DEF Laid
  <2>6. PICK at \in Nat, size \in Nat, bytes \in Seq(Byte), stop \in Nat :
          /\ at = StartIn(ends, i) /\ bytes = BytesOf(m) /\ size = Len(bytes)
          /\ stop = at + size
    <3>1. StartIn(ends, i) \in Nat
      BY <2>2, <2>3, StartsAreNat
    <3> QED
      BY <3>1, SizesArePositive DEF Size
  <2>7. ends[i] = stop /\ stop <= Len(buf.buffer)
    BY <2>2, <2>3, <2>4, <2>5, <2>6 DEF WholeCounted, Explains, Size
  <2>8. \A k \in 1 .. size : buf.buffer[at + k] = bytes[k]
    <3>1. \A k \in 1 .. size : at + k <= Len(buf.buffer)
      BY <2>2, <2>6, <2>7
    <3> QED
      BY <2>4, <2>5, <2>6, <3>1 DEF Explains, Size
  <2> DEFINE slice == SubSeq(buf.buffer, at + 1, stop)
  <2>9. \A j \in at + 1 .. stop : buf.buffer[j] \in Byte
    BY <2>2, <2>6, <2>7, ElementOfSeq, SMTT(20)
  <2>10. /\ slice \in Seq(Byte)
         /\ Len(slice) = IF at + 1 <= stop THEN stop - (at + 1) + 1 ELSE 0
         /\ \A k \in 1 .. stop - (at + 1) + 1 : slice[k] = buf.buffer[at + 1 + k - 1]
    BY <2>9, SubSeqProperties
  <2> HIDE DEF slice
  <2>11. Len(slice) = size
    <3>1. (at + 1 <= stop <=> size # 0) /\ stop - (at + 1) + 1 = size
      BY <2>6
    <3> QED
      BY <2>10, <3>1
  <2>12. ASSUME NEW k \in 1 .. size PROVE slice[k] = bytes[k]
    <3>1. k \in 1 .. stop - (at + 1) + 1 /\ at + 1 + k - 1 = at + k
      BY <2>6
    <3> QED
      BY <2>8, <2>10, <3>1
  <2>13. slice = bytes
    BY <2>6, <2>10, <2>11, <2>12, SeqEqual
  <2> QED
    BY <2>4, <2>5, <2>6, <2>7, <2>13 DEF Delivers, slice
<1> QED
  BY <1>1, SessionInvariant, PTL

(* The variables keep their shape, and the counts never pass one another.  *)
THEOREM SessionTypeCorrect == CodecIsSelfContained => (Spec => []TypeOK)
<1>1. ASSUME SInv PROVE TypeOK
  BY <1>1, LengthsAreNat DEF SInv, Typed, TypeOK, Outcomes
<1> QED
  BY <1>1, SessionInvariant, PTL

-----------------------------------------------------------------------------
(* The queue that the refinement shows, with explicit arguments.           *)
Line(s, w, r) ==
  [i \in 1 .. w - Len(r) |-> <<s[Len(r) + i].value>>]
    \o IF w = Len(s) THEN <<>> ELSE <<Torn>>

Handed(r) == [i \in DOMAIN r |-> <<Delivered(r[i])>>]

Items == {<<v>> : v \in Contents} \cup {<<Delivered(o)>> : o \in Objects} \cup {Torn}

(* The messages after the first k, d of them, and then the torn one unless *)
(* these are all.                                                          *)
IsLine(l, s, k, d) ==
  /\ l \in Seq(Items)
  /\ Len(l) = IF k + d = Len(s) THEN d ELSE d + 1
  /\ \A i \in 1 .. d : l[i] = <<s[k + i].value>>
  /\ k + d # Len(s) => l[d + 1] = Torn

LEMMA Joined ==
  ASSUME NEW S, NEW h \in Seq(S), NEW t \in Seq(S),
         NEW d \in Nat, NEW j \in Nat, d = Len(h), j = Len(t)
  PROVE  /\ h \o t \in Seq(S)
         /\ Len(h \o t) = d + j
         /\ \A i \in 1 .. d : (h \o t)[i] = h[i]
         /\ \A i \in 1 .. j : (h \o t)[d + i] = t[i]
<1>1. /\ h \o t \in Seq(S)
      /\ Len(h \o t) = d + j
      /\ \A i \in 1 .. d + j : (h \o t)[i] = IF i <= d THEN h[i] ELSE t[i - d]
  BY ConcatProperties
<1>2. \A i \in 1 .. d : i \in 1 .. d + j /\ i <= d
  OBVIOUS
<1>3. \A i \in 1 .. j : d + i \in 1 .. d + j /\ ~(d + i <= d) /\ (d + i) - d = i
  OBVIOUS
<1>4. \A i \in 1 .. d : (h \o t)[i] = h[i]
  BY <1>1, <1>2
<1>5. \A i \in 1 .. j : (h \o t)[d + i] = t[i]
  BY <1>1, <1>3
<1> QED
  BY <1>1, <1>4, <1>5

LEMMA LineShape ==
  ASSUME NEW s \in Seq(Records), NEW r \in Seq(Objects),
         NEW k \in Nat, NEW d \in Nat, k = Len(r), k + d <= Len(s)
  PROVE  IsLine(Line(s, k + d, r), s, k, d)
<1>0. PICK w \in Nat, n \in Nat : w = k + d /\ n = Len(s) /\ w <= n
  OBVIOUS
<1> DEFINE here == [i \in 1 .. d |-> <<s[k + i].value>>]
           rest == IF w = n THEN <<>> ELSE <<Torn>>
<1>1. w - k = d
  BY <1>0
<1>2. ASSUME NEW i \in 1 .. d PROVE <<s[k + i].value>> \in Items
  <2>1. k + i \in 1 .. n
    BY <1>0
  <2>2. s[k + i] \in Records
    BY <1>0, <2>1, ElementOfSeq
  <2>3. PICK m \in Messages : s[k + i] = Record(m)
    BY <2>2 DEF Records
  <2>4. s[k + i].value = Promised(m)
    BY <2>3 DEF Record
  <2>5. s[k + i].value \in Contents
    BY <2>4, SessionAssumption
  <2> QED
    BY <2>5 DEF Items
<1>3. here \in [1 .. d -> Items]
  BY <1>2
<1>4. here \in Seq(Items) /\ Len(here) = d
  <2>1. PICK f \in [1 .. d -> Items] : f = here
    BY <1>3
  <2> HIDE DEF here
  <2>2. f \in Seq(Items) /\ Len(f) = d
    OBVIOUS
  <2> QED
    BY <2>1, <2>2
<1>5. \A i \in 1 .. d : here[i] = <<s[k + i].value>>
  OBVIOUS
<1>6. /\ rest \in Seq(Items)
      /\ Len(rest) = IF w = n THEN 0 ELSE 1
      /\ w # n => rest[1] = Torn
  <2>1. CASE w = n
    BY <2>1, EmptySeq
  <2>2. CASE w # n
    <3>1. Torn \in Items
      BY DEF Items
    <3>2. rest = <<Torn>>
      BY <2>2
    <3> QED
      BY <2>2, <3>1, <3>2
  <2> QED
    BY <2>1, <2>2
<1>7. Line(s, w, r) = here \o rest
  BY <1>0, <1>1 DEF Line
<1> HIDE DEF here, rest
<1>8. PICK j \in Nat : j = IF w = n THEN 0 ELSE 1
  OBVIOUS
<1>9. /\ here \o rest \in Seq(Items)
      /\ Len(here \o rest) = d + j
      /\ \A i \in 1 .. d : (here \o rest)[i] = here[i]
      /\ \A i \in 1 .. j : (here \o rest)[d + i] = rest[i]
  <2>1. PICK h \in Seq(Items), t \in Seq(Items) :
          h = here /\ t = rest /\ d = Len(h) /\ j = Len(t)
    BY <1>4, <1>6, <1>8
  <2>2. /\ h \o t \in Seq(Items)
        /\ Len(h \o t) = d + j
        /\ \A i \in 1 .. d : (h \o t)[i] = h[i]
        /\ \A i \in 1 .. j : (h \o t)[d + i] = t[i]
    BY <2>1, Joined
  <2> QED
    BY <2>1, <2>2
<1>10. Len(here \o rest) = IF w = n THEN d ELSE d + 1
  BY <1>8, <1>9
<1>11. w # n => (here \o rest)[d + 1] = Torn
  BY <1>6, <1>8, <1>9
<1> QED
  BY <1>0, <1>5, <1>7, <1>9, <1>10, <1>11 DEF IsLine

LEMMA HandedShape ==
  ASSUME NEW r \in Seq(Objects)
  PROVE  /\ Handed(r) \in Seq(Items)
         /\ Len(Handed(r)) = Len(r)
         /\ \A i \in 1 .. Len(r) : Handed(r)[i] = <<Delivered(r[i])>>
<1>1. PICK n \in Nat : n = Len(r) /\ DOMAIN r = 1 .. n
  BY LenProperties
<1>2. ASSUME NEW i \in 1 .. n PROVE <<Delivered(r[i])>> \in Items
  BY <1>1, ElementOfSeq DEF Items
<1>3. Handed(r) \in [1 .. n -> Items]
  BY <1>1, <1>2 DEF Handed
<1> QED
  BY <1>1, <1>3 DEF Handed

(* What the invariant says of the queue, in one place.                     *)
LEMMA QueueShape ==
  ASSUME Typed
  PROVE  /\ Undelivered = Line(sent, whole, received)
         /\ sent \in Seq(Records) /\ received \in Seq(Objects) /\ whole \in Nat
         /\ Len(received) <= whole /\ whole <= Len(sent)
         /\ Len(sent) \in Nat /\ Len(received) \in Nat
BY LengthsAreNat DEF Typed, Undelivered, Line, Intact

LEMMA InitIsQueueInit == Init => Queue!Init
<1> SUFFICES ASSUME Init PROVE Queue!Init
  OBVIOUS
<1>1. sent = <<>> /\ whole = 0 /\ received = <<>> /\ outcome = "ok"
  BY DEF Init
<1>2. /\ sent \in Seq(Records) /\ received \in Seq(Objects)
      /\ Len(sent) = 0 /\ Len(received) = 0
  BY <1>1, EmptySeq
<1>3. Undelivered = Line(sent, whole, received)
  BY DEF Undelivered, Line, Intact
<1>4. Undelivered \in Seq(Items) /\ Len(Undelivered) = 0
  <2>1. 0 \in Nat /\ 0 + 0 = 0 /\ 0 <= 0
    OBVIOUS
  <2>2. IsLine(Line(sent, 0 + 0, received), sent, 0, 0)
    BY <1>2, <2>1, LineShape
  <2> QED
    BY <1>1, <1>2, <1>3, <2>1, <2>2 DEF IsLine
<1>5. Handed(received) \in Seq(Items) /\ Len(Handed(received)) = 0
  BY <1>2, HandedShape
<1>6. Undelivered = <<>> /\ Handed(received) = <<>>
  BY <1>4, <1>5, EmptySeq
<1> QED
  BY <1>1, <1>6 DEF Queue!Init, Handed

-----------------------------------------------------------------------------
LEMMA ResetIsClear == Reset => Queue!Clear
<1> SUFFICES ASSUME Reset PROVE Queue!Clear
  OBVIOUS
<1>1. sent' = <<>> /\ whole' = 0 /\ received' = <<>> /\ outcome' = "ok"
  BY DEF Reset
<1>2. PICK s \in Seq(Records), r \in Seq(Objects) :
        s = <<>> /\ r = <<>> /\ Len(s) = 0 /\ Len(r) = 0
  BY EmptySeq
<1>3. Undelivered' = Line(s, 0, r) /\ Handed(received)' = Handed(r)
  BY <1>1, <1>2 DEF Undelivered, Line, Intact, Handed
<1>4. Line(s, 0, r) = <<>>
  <2>1. 0 \in Nat /\ 0 + 0 = 0 /\ 0 <= 0
    OBVIOUS
  <2>2. IsLine(Line(s, 0 + 0, r), s, 0, 0)
    BY <1>2, <2>1, LineShape
  <2> QED
    BY <1>2, <2>1, <2>2, EmptySeq DEF IsLine
<1>5. Handed(r) = <<>>
  BY <1>2, HandedShape, EmptySeq
<1> QED
  BY <1>1, <1>3, <1>4, <1>5 DEF Queue!Clear, Handed

LEMMA SendIsPut ==
  ASSUME CodecIsSelfContained, SInv, NEW m \in Messages, Send(m)
  PROVE  Queue!Put(<<Promised(m)>>)
<1>1. PICK s \in Seq(Records), t \in Seq(Records), r \in Seq(Objects), n \in Nat, k \in Nat :
        /\ s = sent /\ t = sent' /\ r = received
        /\ n = Len(s) /\ k = Len(r) /\ k <= n
        /\ whole = n /\ whole' = n + 1
        /\ t = Append(s, Record(m)) /\ r = received'
        /\ Undelivered = Line(s, n, r)
        /\ outcome' = EncodeInto(m, buf).outcome
  <2>1. Typed
    BY DEF SInv
  <2>2. /\ Intact
        /\ sent' = Append(sent, Record(m))
        /\ whole' = whole + 1
        /\ received' = received
        /\ outcome' = EncodeInto(m, buf).outcome
    BY DEF Send, Record
  <2>3. Record(m) \in Records
    BY DEF Records
  <2>4. sent' \in Seq(Records)
    BY <2>1, <2>2, <2>3, QueueShape, AppendProperties
  <2> QED
    BY <2>1, <2>2, <2>4, QueueShape DEF Intact
<1>2. Len(t) = n + 1 /\ t[n + 1] = Record(m) /\ \A i \in 1 .. n : t[i] = s[i]
  BY <1>1, AppendProperties DEF Records
<1>3. Undelivered' = Line(t, n + 1, r)
  BY <1>1, <1>2 DEF Undelivered, Line, Intact
<1>4. <<Promised(m)>> \in Items
  BY SessionAssumption DEF Items
<1>5. Line(t, n + 1, r) = Append(Line(s, n, r), <<Promised(m)>>)
  <2> DEFINE old == Line(s, n, r)
             new == Line(t, n + 1, r)
             put == Append(old, <<Promised(m)>>)
  <2>0. PICK d \in Nat : n = k + d
    <3>1. n - k \in Nat /\ n = k + (n - k)
      BY <1>1
    <3> QED
      BY <3>1
  <2>1. PICK more \in Nat : more = d + 1 /\ n + 1 = k + more
    BY <2>0
  <2>2. /\ old \in Seq(Items) /\ Len(old) = d
        /\ \A i \in 1 .. d : old[i] = <<s[k + i].value>>
    <3>1. k + d <= Len(s)
      BY <1>1, <2>0
    <3>2. IsLine(Line(s, k + d, r), s, k, d)
      BY <1>1, <2>0, <3>1, LineShape
    <3> QED
      BY <1>1, <2>0, <3>2 DEF IsLine
  <2>4. /\ new \in Seq(Items) /\ Len(new) = more
        /\ \A i \in 1 .. more : new[i] = <<t[k + i].value>>
    <3>1. k + more <= Len(t)
      BY <1>2, <2>1
    <3>2. IsLine(Line(t, k + more, r), t, k, more)
      BY <1>1, <2>1, <3>1, LineShape
    <3> QED
      BY <1>2, <2>1, <3>2 DEF IsLine
  <2> HIDE DEF old, new
  <2>5. /\ put \in Seq(Items) /\ Len(put) = d + 1
        /\ \A i \in 1 .. d : put[i] = old[i]
        /\ put[d + 1] = <<Promised(m)>>
    BY <1>4, <2>2, AppendProperties
  <2> HIDE DEF put
  <2>6. ASSUME NEW i \in 1 .. more PROVE new[i] = put[i]
    <3>1. CASE i \in 1 .. d
      <4>1. k + i \in 1 .. n
        BY <2>0, <3>1
      <4> QED
        BY <1>2, <2>2, <2>4, <2>5, <3>1, <4>1
    <3>2. CASE i = d + 1
      <4>1. k + i = n + 1
        BY <2>0, <3>2
      <4>2. t[k + i].value = Promised(m)
        BY <1>2, <4>1 DEF Record
      <4> QED
        BY <2>4, <2>5, <3>2, <4>2
    <3> QED
      BY <2>1, <3>1, <3>2
  <2>7. new = put
    BY <2>1, <2>4, <2>5, <2>6, SeqEqual
  <2> QED
    BY <2>7 DEF new, put, old
<1>6. outcome' = "ok"
  <2>1. buf \in ByteBufs /\ buf.reader_index <= Len(buf.buffer)
    BY DEF SInv, Typed
  <2> QED
    BY <1>1, <2>1 DEF CodecIsSelfContained, SelfContained, AppendsOwnBytes, Appends
<1>7. Handed(received)' = Handed(received)
  BY <1>1 DEF Handed
<1> QED
  BY <1>1, <1>3, <1>5, <1>6, <1>7 DEF Queue!Put, Handed

LEMMA RefusedIsRefuse ==
  ASSUME SInv, outcome' = "out_of_range", Len(received) = whole,
         UNCHANGED <<sent, whole, received>>
  PROVE  Queue!Refuse
<1>1. PICK k \in Nat : k = Len(received) /\ k + 0 = k /\ k <= Len(sent)
  BY QueueShape DEF SInv
<1>2. IsLine(Line(sent, k + 0, received), sent, k, 0)
  BY <1>1, QueueShape, LineShape DEF SInv
<1>3. PICK l \in Seq(Items) : l = Undelivered /\ IsLine(l, sent, k, 0)
  BY <1>1, <1>2, QueueShape DEF SInv, IsLine
<1>4. l # <<>> => Head(l) = Torn
  <2>1. CASE k = Len(sent)
    BY <1>1, <1>3, <2>1, EmptySeq DEF IsLine
  <2>2. CASE k # Len(sent)
    BY <1>1, <1>3, <2>2 DEF IsLine
  <2> QED
    BY <2>1, <2>2
<1>5. ~ Queue!Available
  BY <1>3, <1>4 DEF Queue!Available
<1>6. Undelivered' = Undelivered /\ Handed(received)' = Handed(received)
  BY DEF Undelivered, Intact, Handed
<1> QED
  BY <1>5, <1>6 DEF Queue!Refuse, Handed

LEMMA ReceivedIsGet ==
  ASSUME SInv, SInv', NEW v, received' = Append(received, v), outcome' = "ok",
         UNCHANGED <<sent, whole>>
  PROVE  Queue!Get
<1>1. PICK k \in Nat, n \in Nat, d \in Nat, p \in Nat, rest \in Nat :
        /\ k = Len(received) /\ n = Len(sent) /\ p = k + 1
        /\ whole = k + d /\ d = rest + 1 /\ p + rest = k + d /\ k + d <= n
        /\ p \in 1 .. n
  <2>1. Typed /\ Typed'
    BY DEF SInv
  <2>2. Len(received') = Len(received) + 1
    BY <2>1 DEF Typed
  <2>3. Len(received) + 1 <= whole
    BY <2>1, <2>2 DEF Typed
  <2>4. PICK k \in Nat, n \in Nat, w \in Nat :
          k = Len(received) /\ n = Len(sent) /\ w = whole /\ k + 1 <= w /\ w <= n
    BY <2>1, <2>3, QueueShape
  <2>5. PICK d \in Nat, p \in Nat, rest \in Nat : d = w - k /\ p = k + 1 /\ rest = w - p
    <3>1. w - k \in Nat /\ k + 1 \in Nat /\ w - (k + 1) \in Nat
      BY <2>4
    <3> QED
      BY <3>1
  <2>6. w = k + d /\ d = rest + 1 /\ p + rest = k + d /\ k + d <= n /\ p \in 1 .. n
    BY <2>4, <2>5
  <2> QED
    BY <2>4, <2>5, <2>6
<1>2. PICK r \in Seq(Objects), t \in Seq(Objects), s \in Seq(Records) :
        /\ r = received /\ t = received' /\ s = sent
        /\ Len(r) = k /\ t = Append(r, v)
  BY <1>1, QueueShape DEF SInv, Typed
<1>3. Len(t) = p /\ t[p] = v /\ \A i \in 1 .. k : t[i] = r[i]
  BY <1>1, <1>2
<1>4. v \in Objects
  <2>1. p \in 1 .. Len(t)
    BY <1>1, <1>3
  <2> QED
    BY <1>2, <1>3, <2>1, ElementOfSeq
<1>5. Delivered(v) = s[p].value
  <2>1. PICK ms \in Seq(Messages) : Laid(ms)'
    BY DEF SInv
  <2>2. p \in 1 .. Len(received')  /\ p \in 1 .. Len(sent')
    BY <1>1, <1>2, <1>3
  <2>3. Explains(ms, p)' /\ Delivers(ms, p)'
    BY <2>1, <2>2 DEF Laid
  <2>4. Delivered(received'[p]) = sent'[p].value
    BY <2>3 DEF Explains, Delivers, Record
  <2> QED
    BY <1>2, <1>3, <2>4
<1>6. PICK old \in Seq(Items) : old = Undelivered /\ IsLine(old, s, k, d)
  <2>1. IsLine(Line(s, k + d, r), s, k, d)
    BY <1>1, <1>2, LineShape
  <2> QED
    BY <1>1, <1>2, <2>1, QueueShape DEF SInv, IsLine
<1>7. PICK new \in Seq(Items) : new = Undelivered' /\ IsLine(new, s, p, rest)
  <2>1. p + rest <= Len(s)
    BY <1>1, <1>2
  <2>2. IsLine(Line(s, p + rest, t), s, p, rest)
    BY <1>2, <1>3, <2>1, LineShape
  <2>3. Undelivered' = Line(s, p + rest, t)
    BY <1>1, <1>2 DEF Undelivered, Line, Intact
  <2> QED
    BY <2>2, <2>3 DEF IsLine
<1>8. /\ old # <<>>
      /\ Head(old) = <<s[p].value>>
      /\ Head(old) # Torn
      /\ Len(old) = Len(new) + 1
  <2>1. Len(old) = (IF k + d = Len(s) THEN d ELSE d + 1) /\ Len(new) = IF k + d = Len(s) THEN rest ELSE rest + 1
    BY <1>1, <1>6, <1>7 DEF IsLine
  <2>2. Len(old) = Len(new) + 1 /\ Len(old) # 0
    BY <1>1, <2>1
  <2>3. old # <<>>
    BY <2>2, EmptySeq
  <2>4. old[1] = <<s[p].value>>
    <3>1. 1 \in 1 .. d
      BY <1>1
    <3> QED
      BY <1>1, <1>6, <3>1 DEF IsLine
  <2>5. Head(old) = old[1]
    BY <2>3
  <2>6. <<s[p].value>> # Torn
    BY DEF Torn
  <2> QED
    BY <2>2, <2>3, <2>4, <2>5, <2>6
<1>9. Tail(old) = new
  <2>1. /\ Tail(old) \in Seq(Items)
        /\ Len(Tail(old)) = Len(old) - 1
        /\ \A i \in 1 .. Len(Tail(old)) : Tail(old)[i] = old[i + 1]
    BY <1>8, HeadTailProperties
  <2>2. Len(Tail(old)) = Len(new)
    BY <1>8, <2>1, LenProperties
  <2>3. ASSUME NEW i \in 1 .. Len(new) PROVE old[i + 1] = new[i]
    <3>1. CASE i \in 1 .. rest
      <4>1. i + 1 \in 1 .. d /\ k + (i + 1) = p + i
        BY <1>1, <3>1
      <4> QED
        BY <1>6, <1>7, <3>1, <4>1 DEF IsLine
    <3>2. CASE ~(i \in 1 .. rest)
      <4>1. k + d # Len(s) /\ i = rest + 1 /\ i + 1 = d + 1
        BY <1>1, <1>7, <3>2 DEF IsLine
      <4>2. old[d + 1] = Torn
        BY <1>6, <4>1 DEF IsLine
      <4>3. p + rest = k + d
        BY <1>1
      <4>4. new[rest + 1] = Torn
        BY <1>7, <4>1, <4>3 DEF IsLine
      <4> QED
        BY <4>1, <4>2, <4>4
    <3> QED
      BY <3>1, <3>2
  <2>4. \A i \in 1 .. Len(Tail(old)) : Tail(old)[i] = new[i]
    BY <2>1, <2>2, <2>3
  <2> QED
    BY <2>1, <2>2, <2>4, SeqEqual
<1>10. Handed(received)' = Append(Handed(received), <<s[p].value>>)
  <2> DEFINE before == Handed(r)
             after == Handed(t)
             put == Append(before, <<s[p].value>>)
  <2>1. <<s[p].value>> \in Items
    BY <1>4, <1>5 DEF Items
  <2>2. /\ before \in Seq(Items) /\ Len(before) = k
        /\ \A i \in 1 .. k : before[i] = <<Delivered(r[i])>>
    BY <1>2, HandedShape
  <2>3. /\ after \in Seq(Items) /\ Len(after) = p
        /\ \A i \in 1 .. p : after[i] = <<Delivered(t[i])>>
    BY <1>3, HandedShape
  <2> HIDE DEF before, after
  <2>4. /\ put \in Seq(Items) /\ Len(put) = p
        /\ \A i \in 1 .. k : put[i] = before[i]
        /\ put[p] = <<s[p].value>>
    BY <1>1, <2>1, <2>2, AppendProperties
  <2> HIDE DEF put
  <2>5. ASSUME NEW i \in 1 .. p PROVE after[i] = put[i]
    <3>1. CASE i \in 1 .. k
      BY <1>3, <2>2, <2>3, <2>4, <3>1
    <3>2. CASE i = p
      BY <1>3, <1>5, <2>3, <2>4, <3>2
    <3> QED
      BY <1>1, <3>1, <3>2
  <2>6. after = put
    BY <2>3, <2>4, <2>5, SeqEqual
  <2>7. Handed(received)' = Handed(t) /\ Handed(received) = Handed(r)
    BY <1>2 DEF Handed
  <2> QED
    BY <2>6, <2>7 DEF after, put, before
<1> QED
  BY <1>6, <1>7, <1>8, <1>9, <1>10 DEF Queue!Get, Queue!Available, Handed

LEMMA ReceiveIsGetOrRefuse ==
  ASSUME SInv, SInv', Receive
  PROVE  Queue!Get \/ Queue!Refuse
<1>1. PICK r :
        /\ outcome' = r.outcome
        /\ received' = IF r.outcome = "ok" THEN Append(received, r.value) ELSE received
        /\ UNCHANGED <<sent, whole>>
  BY DEF Receive
<1>2. CASE r.outcome = "ok"
  BY <1>1, <1>2, ReceivedIsGet
<1>3. CASE r.outcome # "ok"
  <2>1. outcome' = "out_of_range" /\ Len(received) = whole
    BY <1>1, <1>3 DEF SInv, Typed, Stopped
  <2> QED
    BY <1>1, <1>3, <2>1, RefusedIsRefuse
<1> QED
  BY <1>2, <1>3

LEMMA CutIsLose ==
  ASSUME SInv, NEW n \in Cuts, Cut(n)
  PROVE  /\ whole' \in 0 .. Len(Undelivered) - 1
         /\ Queue!Lose(whole')
<1>1. PICK k \in Nat, w \in Nat, s \in Seq(Records), r \in Seq(Objects) :
        /\ s = sent /\ r = received /\ r = <<>> /\ Len(r) = 0
        /\ k = Len(s) /\ whole = k /\ w = whole' /\ w < k
        /\ Undelivered = Line(s, k, r)
  <2>1. Typed
    BY DEF SInv
  <2>2. received = <<>> /\ whole = Len(sent)
    BY DEF Cut, Intact
  <2>3. Len(received) = 0
    BY <2>2, EmptySeq
  <2> QED
    BY <2>1, <2>2, <2>3, MessageLost, QueueShape
<1>0. /\ 0 \in Nat /\ 0 + k = k /\ 0 + w = w
      /\ 0 + k <= Len(s) /\ 0 + w <= Len(s) /\ 0 + w # Len(s)
  <2>1. PICK d \in Nat : d = Len(s) /\ k = d /\ w < d
    BY <1>1
  <2>2. 0 + k = k /\ 0 + w = w /\ k <= d /\ w <= d /\ w # d
    BY <2>1
  <2> QED
    BY <2>1, <2>2
<1>2. UNCHANGED <<sent, received, outcome>>
  BY DEF Cut
<1>3. PICK old \in Seq(Items) :
        /\ old = Undelivered /\ Len(old) = k
        /\ \A i \in 1 .. k : old[i] = <<s[0 + i].value>>
  <2>1. IsLine(Line(s, 0 + k, r), s, 0, k)
    BY <1>0, <1>1, LineShape
  <2> QED
    BY <1>0, <1>1, <2>1 DEF IsLine
<1>4. PICK new \in Seq(Items) :
        /\ new = Undelivered' /\ Len(new) = w + 1
        /\ \A i \in 1 .. w : new[i] = <<s[0 + i].value>>
        /\ new[w + 1] = Torn
  <2>1. IsLine(Line(s, 0 + w, r), s, 0, w)
    BY <1>0, <1>1, LineShape
  <2>2. Undelivered' = Line(s, w, r)
    BY <1>1, <1>2 DEF Undelivered, Line, Intact
  <2> QED
    BY <1>0, <1>1, <2>1, <2>2 DEF IsLine
<1>5. PICK front \in Seq(Items) :
        /\ front = SubSeq(old, 1, w) /\ Len(front) = w
        /\ \A i \in 1 .. w : front[i] = old[i]
  <2>1. \A i \in 1 .. w : old[i] \in Items
    BY <1>1, <1>3, ElementOfSeq
  <2>2. /\ SubSeq(old, 1, w) \in Seq(Items)
        /\ Len(SubSeq(old, 1, w)) = IF 1 <= w THEN w - 1 + 1 ELSE 0
        /\ \A i \in 1 .. w - 1 + 1 : SubSeq(old, 1, w)[i] = old[1 + i - 1]
    BY <2>1, SubSeqProperties, SMTT(20)
  <2>3. \A i \in 1 .. w : i \in 1 .. w - 1 + 1 /\ 1 + i - 1 = i
    OBVIOUS
  <2>4. (IF 1 <= w THEN w - 1 + 1 ELSE 0) = w
    OBVIOUS
  <2>5. \A i \in 1 .. w : SubSeq(old, 1, w)[i] = old[i]
    BY <2>2, <2>3
  <2> QED
    BY <2>2, <2>4, <2>5
<1>6. new = Append(front, Torn)
  <2>1. Torn \in Items
    BY DEF Items
  <2> DEFINE put == Append(front, Torn)
  <2>2. /\ put \in Seq(Items) /\ Len(put) = w + 1
        /\ \A i \in 1 .. w : put[i] = front[i]
        /\ put[w + 1] = Torn
    BY <1>5, <2>1, AppendProperties
  <2> HIDE DEF put
  <2>3. \A i \in 1 .. w : i \in 1 .. k
    BY <1>1
  <2>4. ASSUME NEW i \in 1 .. w + 1 PROVE new[i] = put[i]
    <3>1. CASE i \in 1 .. w
      BY <1>3, <1>4, <1>5, <2>2, <2>3, <3>1
    <3>2. CASE i = w + 1
      BY <1>4, <2>2, <3>2
    <3> QED
      BY <3>1, <3>2
  <2>5. new = put
    BY <1>4, <2>2, <2>4, SeqEqual
  <2> QED
    BY <2>5 DEF put
<1>7. whole' \in 0 .. Len(Undelivered) - 1 /\ whole' < Len(Undelivered)
  BY <1>1, <1>3
<1>8. Handed(received)' = Handed(received)
  BY <1>2 DEF Handed
<1> QED
  BY <1>1, <1>2, <1>3, <1>4, <1>5, <1>6, <1>7, <1>8 DEF Queue!Lose, Handed

-----------------------------------------------------------------------------
(* Whatever the protocol, whatever the number of messages: a buffer with a *)
(* sender and a receiver is a queue of messages, that loses what the       *)
(* transport cut off and never makes up, repeats or reorders one.          *)
THEOREM SessionImplementsQueue == CodecIsSelfContained => (Spec => ImplementsMessageQueue)
<1> SUFFICES ASSUME CodecIsSelfContained PROVE Spec => ImplementsMessageQueue
  OBVIOUS
<1>1. Init => Queue!Init
  BY InitIsQueueInit
<1>2. SInv /\ SInv' /\ [Next]_vars => [Queue!Next]_(Queue!vars)
  <2> SUFFICES ASSUME SInv, SInv', [Next]_vars PROVE [Queue!Next]_(Queue!vars)
    OBVIOUS
  <2>1. ASSUME NEW m \in Messages, Send(m) PROVE Queue!Next
    <3>1. Queue!Put(<<Promised(m)>>)
      BY <2>1, SendIsPut
    <3> QED
      BY <3>1, SessionAssumption DEF Queue!Next, Carried
  <2>2. CASE Receive
    BY <2>2, ReceiveIsGetOrRefuse DEF Queue!Next
  <2>3. ASSUME NEW n \in Cuts, Cut(n) PROVE Queue!Next
    BY <2>3, CutIsLose DEF Queue!Next
  <2>4. CASE Reset
    BY <2>4, ResetIsClear DEF Queue!Next
  <2>5. CASE UNCHANGED vars
    BY <2>5 DEF vars, Queue!vars, Undelivered, Intact
  <2> QED
    BY <2>1, <2>2, <2>3, <2>4, <2>5 DEF Next
<1> QED
  BY <1>1, <1>2, SessionInvariant, PTL DEF Spec, ImplementsMessageQueue, Queue!Spec
=============================================================================
