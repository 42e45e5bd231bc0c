------------------------------ MODULE Receiver ------------------------------
(***************************************************************************)
(* A receiver with one frame object for everything that arrives.  Bytes    *)
(* come one by one, any bytes in any order: whole frames, cut ones, keys   *)
(* that no factory knows, keys and bodies that do not belong together.     *)
(* Whenever more has arrived the receiver decodes a copy of what it has    *)
(* into the object, since decode() gives no bytes back; at any time it     *)
(* goes on to the next datagram.  decode() rolls nothing back either, so   *)
(* after a refusal the object is a mixture of messages; the program may    *)
(* nevertheless print it, compare it, encode it or decode into it again.   *)
(***************************************************************************)
EXTENDS Layout

CONSTANTS
  FrameClass,          \* the class of the object
  Indeterminate,       \* the value of a number that was never assigned
  MaxBytes,            \* bound on the bytes of a datagram
  Encoded(_),          \* what encode() of an object appends
  DecodedInto(_, _),   \* decode() from a buffer into an object
  NewObject(_, _),     \* a new object of a class, with a number in its numbers
  IsWhole(_, _),       \* whether an object has the members of its class, the
                       \*   numbers never assigned being in a set
  Paths(_, _, _)       \* the members of an object that are of some kinds and
                       \*   have a value

ASSUME ReceiverAssumption ==
  /\ FrameClass \in DOMAIN Classes /\ IsFrame(Classes[FrameClass])
  /\ Indeterminate \notin Int
  /\ MaxBytes \in Nat

VARIABLES object,    \* the object
          complete,  \* history: whether it was complete at some time since
                     \*   its declaration
          data,      \* what has arrived of the datagram
          outcome,   \* what the last decode did
          cursor     \* how many bytes it took

vars == <<object, complete, data, outcome, cursor>>

(* `RcBinary decoded;` leaves the numbers indeterminate.                   *)
Declared == NewObject(FrameClass, Indeterminate)

Init ==
  /\ object = Declared
  /\ complete = FALSE
  /\ data = <<>>
  /\ outcome = "not_decoded"
  /\ cursor = 0

(* `ByteBuf buf; buf.write_bytes(bytes); object.decode(buf);`              *)
Copied(bytes) == Write(EmptyBuf, Uncounted(bytes))

DecodeCopyOf(bytes) ==
  LET r == DecodedInto(Copied(bytes), object)
  IN  /\ data' = bytes
      /\ object' = r.value
      /\ outcome' = r.outcome
      /\ cursor' = r.buf.reader_index
      /\ complete' = (complete \/ r.outcome = "ok")

MoreOfDatagram(byte) == Len(data) < MaxBytes /\ DecodeCopyOf(Append(data, byte))

NextDatagram(byte) == data # <<>> /\ DecodeCopyOf(<<byte>>)

(* The receiver starts again with a new object.                            *)
Declare ==
  /\ object' = Declared
  /\ complete' = FALSE
  /\ data' = <<>>
  /\ outcome' = "not_decoded"
  /\ cursor' = 0

Next == (\E byte \in Byte : MoreOfDatagram(byte) \/ NextDatagram(byte)) \/ Declare

Spec == Init /\ [][Next]_vars

-----------------------------------------------------------------------------
Decoded == outcome = "ok"
Refused == outcome = "no_such_type"

(* Type correctness of the object and of the last decode.                  *)
TypeOK ==
  /\ ClassOf(object) = FrameClass /\ IsWhole(object, {Indeterminate})
  /\ complete \in BOOLEAN
  /\ data \in Seq(Byte)
  /\ cursor \in 0 .. Len(data)
  /\ outcome \in {"not_decoded", "ok", "out_of_range", "no_such_type"}

(* Whatever the object has been through, refused decodes included, a       *)
(* datagram decoded into it is accepted or refused as by a new object, and *)
(* gives the object a new one would be: no list, string, nested struct or  *)
(* body keeps anything of an earlier message.                              *)
DecodesAsIfNew ==
  outcome # "not_decoded" =>
    LET r == DecodedInto(Copied(data), NewObject(FrameClass, 0))
    IN  /\ outcome = r.outcome
        /\ cursor = r.buf.reader_index
        /\ Decoded => object = r.value

(* Whatever bytes a decode accepts are the ones that the object it makes   *)
(* is encoded to: no two byte sequences are one message, so bytes that are *)
(* received, decoded and forwarded stay what they were.                    *)
OneEncoding == Decoded => Encoded(object).bytes = SubSeq(data, 1, cursor)

(* More bytes change nothing about a message that was accepted, neither    *)
(* the object nor where it ends, nor about one that was refused for a key  *)
(* that its factory does not have.                                         *)
VerdictStands ==
  [][data # <<>> /\ Len(data') > Len(data) =>
       /\ Decoded => Decoded' /\ UNCHANGED <<object, cursor>>
       /\ Refused => Refused']_vars

NullPaths(o)  == Paths(o, {"dynamic"}, Null)
UnsetPaths(o) == Paths(o, {"octet", "int"}, Indeterminate)

(* encode(), equals() and toString() follow every pointer without a check  *)
(* and read every number.  An object that a decode has filled is safe for  *)
(* them, and stays so whatever refused decodes follow, except that the     *)
(* last one may have stopped between making a body and making the          *)
(* extension of that body: then, and only there, a pointer is null.        *)
StaysUsable ==
  complete =>
    /\ UnsetPaths(object) = {}
    /\ \A path \in NullPaths(object) : Len(path) > 1 /\ ~ Decoded

(* The layout of the frame around the pointer to its body.                 *)
BodyPlace == CHOOSE i \in DOMAIN Classes[FrameClass] :
               Classes[FrameClass][i][2].kind = "dynamic"

BodyField == Classes[FrameClass][BodyPlace]

Body(o) == ContentOf(o)[BodyField[1]]
Key(o)  == ContentOf(o)[BodyField[2].key]

(* How many bytes the members before the pointer take.                     *)
Width(type) == IF type.kind = "octet" THEN 1
               ELSE IF type.kind = "int" THEN type.width ELSE type.size

HeaderSize ==
  LET size[i \in 0 .. BodyPlace - 1] ==
        IF i = 0 THEN 0 ELSE size[i - 1] + Width(Classes[FrameClass][i][2])
  IN  size[BodyPlace - 1]

(* The body is of the class that the key next to it names, or the frame    *)
(* would be forwarded as another message.  The two disagree only after a   *)
(* decode that was refused before it made a body: in the header, or        *)
(* because the factory does not know the key.                              *)
KeyNamesBody ==
  LET factory == BodyField[2].factory
  IN  Body(object) # Null =>
        \/ Key(object) \in DOMAIN factory /\ ClassOf(Body(object)) = factory[Key(object)]
        \/ Refused
        \/ outcome = "out_of_range" /\ Len(data) < HeaderSize
=============================================================================
