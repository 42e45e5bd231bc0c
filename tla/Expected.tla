----------------------------- MODULE Expected ------------------------------
(***************************************************************************)
(* Which objects can be sent, and what a receiver should get for one: the  *)
(* object itself, up to what the format cannot express.  A fixed-size      *)
(* string loses what is beyond its size and, on its padded side,           *)
(* characters that look like padding.  What is said of an object inside an *)
(* object is a constant here; Canonical makes it what is said of any.      *)
(***************************************************************************)
EXTENDS Layout

CONSTANTS CanonicalNested(_), SendableNested(_)

CanonicalFixed(type, s) ==
  LET cut == SubSeq(s, 1, IF Len(s) < type.size THEN Len(s) ELSE type.size)
      n   == Len(cut)
      k   == IF type.left
               THEN CHOOSE i \in 0 .. n :
                      /\ \A j \in 1 .. i : cut[j] = type.pad
                      /\ i < n => cut[i + 1] # type.pad
               ELSE CHOOSE i \in 0 .. n :
                      /\ \A j \in i + 1 .. n : cut[j] = type.pad
                      /\ i > 0 => cut[i] # type.pad
  IN  IF type.left THEN SubSeq(cut, k + 1, n) ELSE SubSeq(cut, 1, k)

CanonicalElement(type, v) ==
  CASE type.kind = "fixed" -> CanonicalFixed(type, v)
    [] type.kind \in {"struct", "dynamic"} -> CanonicalNested(v)
    [] OTHER -> v

CanonicalValue(type, v) ==
  IF type.kind = "list" THEN [i \in DOMAIN v |-> CanonicalElement(type.element, v[i])]
  ELSE CanonicalElement(type, v)

CanonicalMember(layout, content, name) == CanonicalValue(TypeOf(layout, name), content[name])

CanonicalObject(o) ==
  LET layout == Classes[ClassOf(o)]
  IN  Obj(ClassOf(o), [name \in NamesOf(layout) |-> CanonicalMember(layout, ContentOf(o), name)])

(* Numbers are of their type, and a string or list is not longer than what *)
(* stands before it can count.                                             *)
SendableElement(type, v) ==
  CASE type.kind \in {"octet", "int"} -> v \in Numbers(type)
    [] type.kind = "text"   -> v \in Seq(Byte) /\ Len(v) < Patterns(type.prefix)
    [] type.kind = "fixed"  -> v \in Seq(Byte)
    [] type.kind = "struct" -> ClassOf(v) = type.class /\ SendableNested(v)

SendableList(type, v) ==
  /\ v \in Seq({v[i] : i \in DOMAIN v})
  /\ Len(v) < Patterns(type.prefix)
  /\ \A i \in DOMAIN v : SendableElement(type.element, v[i])

(* A pointer points to an object of the class that its key names for the   *)
(* receiver.                                                               *)
SendableMember(layout, content, name) ==
  LET type == TypeOf(layout, name)
      v    == content[name]
  IN  CASE type.kind = "list" -> SendableList(type, v)
        [] type.kind = "dynamic" ->
             LET key == CanonicalMember(layout, content, type.key)
             IN  /\ key \in DOMAIN type.factory
                 /\ ClassOf(v) = type.factory[key]
                 /\ SendableNested(v)
        [] OTHER -> SendableElement(type, v)

Sendable(o) ==
  LET layout == Classes[ClassOf(o)]
  IN  /\ ClassOf(o) \in DOMAIN Classes
      /\ o = Obj(ClassOf(o), [name \in NamesOf(layout) |-> ContentOf(o)[name]])
      /\ \A name \in NamesOf(layout) : SendableMember(layout, ContentOf(o), name)
=============================================================================
