------------------------------ MODULE Encoding ------------------------------
(***************************************************************************)
(* encode() of the generated structs, through the put functions of         *)
(* include/codec.hpp: the chunk that it appends.  An object inside an      *)
(* object is written by a virtual call, here a constant; Wire makes it the *)
(* same code again.                                                        *)
(***************************************************************************)
EXTENDS Layout

CONSTANT PutNested(_)   \* encode() of an object inside an object

Joined(c, d) == [bytes |-> c.bytes \o d.bytes, counted |-> c.counted + d.counted]

(* The count or length before a list or a string: sizeof(T) bytes of the   *)
(* size, whatever the size, since the cast to T is not checked.            *)
Prefix(prefix, size) == Counted(LittleEndian(size, prefix))

(* Wrong variant: the size written with a terminating zero, the bytes      *)
(* without it.                                                             *)
PutTextTerminated(prefix, s) == Joined(Prefix(prefix, Len(s) + 1), Uncounted(s))

PutText(prefix, s) == Joined(Prefix(prefix, Len(s)), Uncounted(s))

(* Wrong variant: the string cut at the size that the field gives it, but  *)
(* a short one not filled up.                                              *)
FittedUnfilled(type, s) == IF Len(s) >= type.size THEN SubSeq(s, 1, type.size) ELSE s

(* A string cut to a fixed size or padded to it.                           *)
Fitted(type, s) ==
  LET padding == [i \in 1 .. type.size - Len(s) |-> type.pad]
  IN  IF Len(s) >= type.size THEN SubSeq(s, 1, type.size)
      ELSE IF type.left THEN padding \o s ELSE s \o padding

(* A member that is no list, or an element of a list.                      *)
PutElement(type, v) ==
  CASE type.kind = "octet" -> Uncounted(LittleEndian(v, 1))
    [] type.kind = "int"   -> Counted(LittleEndian(v, type.width))
    [] type.kind = "text"  -> PutText(type.prefix, v)
    [] type.kind = "fixed" -> Uncounted(Fitted(type, v))
    [] type.kind \in {"struct", "dynamic"} -> PutNested(v)

PutElements(type, list) ==
  LET put[i \in 0 .. Len(list)] ==
        IF i = 0 THEN Uncounted(<<>>)
        ELSE Joined(put[i - 1], PutElement(type, list[i]))
  IN  put[Len(list)]

PutField(type, v) ==
  IF type.kind = "list"
    THEN Joined(Prefix(type.prefix, Len(v)), PutElements(type.element, v))
    ELSE PutElement(type, v)

PutFields(layout, content) ==
  LET put[i \in 0 .. Len(layout)] ==
        IF i = 0 THEN Uncounted(<<>>)
        ELSE Joined(put[i - 1], PutField(layout[i][2], content[layout[i][1]]))
  IN  put[Len(layout)]

PutObject(object) == PutFields(Classes[ClassOf(object)], ContentOf(object))
=============================================================================
