-------------------------------- MODULE Wire --------------------------------
(***************************************************************************)
(* Encoding and Decoding, with the objects inside objects written, read    *)
(* and made as they say of any object.                                     *)
(***************************************************************************)
EXTENDS WireTypes

CONSTANT Classes   \* the layout of every class, by name

RECURSIVE PutObject(_), DecodeInto(_, _), New(_, _)

Writer == INSTANCE Encoding WITH PutNested <- PutObject
Reader == INSTANCE Decoding WITH DecodeNested <- DecodeInto, NewNested <- New

(* object.encode(buf), what it appends.                                    *)
PutObject(object) == Writer!PutObject(object)

(* object.decode(buf).                                                     *)
DecodeInto(b, object) == Reader!DecodeInto(b, object)

New(class, number) == Reader!New(class, number)

(* decode(buf) of an object of the class that has just been made.          *)
TakeObject(b, class) == DecodeInto(b, New(class, 0))
=============================================================================
