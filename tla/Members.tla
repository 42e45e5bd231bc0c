------------------------------ MODULE Members -------------------------------
(***************************************************************************)
(* The members of the objects, and the paths to them.  What is said of an  *)
(* object inside an object is a constant here; MCReceiver makes it what is *)
(* said of any object.                                                     *)
(***************************************************************************)
EXTENDS Layout

CONSTANTS HasMembersNested(_, _), PathsToNested(_, _, _)

ElementFits(type, v, unset) ==
  CASE type.kind \in {"octet", "int"}  -> v \in unset \/ v \in Numbers(type)
    [] type.kind \in {"text", "fixed"} -> v \in Seq(Byte)
    [] type.kind = "struct" -> ClassOf(v) = type.class /\ HasMembersNested(v, unset)

MemberFits(type, v, unset) ==
  CASE type.kind = "list" ->
         /\ v \in Seq({v[i] : i \in DOMAIN v})
         /\ \A i \in DOMAIN v : ElementFits(type.element, v[i], unset)
    [] type.kind = "dynamic" ->
         \/ v = Null
         \/ ClassOf(v) \in Makes(type) /\ HasMembersNested(v, unset)
    [] OTHER -> ElementFits(type, v, unset)

(* The object has the members of its class, nested ones included; a number *)
(* that was never assigned is one of `unset`.                              *)
HasMembers(o, unset) ==
  LET layout == Classes[ClassOf(o)]
  IN  /\ ClassOf(o) \in DOMAIN Classes
      /\ o = Obj(ClassOf(o), [name \in NamesOf(layout) |-> ContentOf(o)[name]])
      /\ \A i \in DOMAIN layout : MemberFits(layout[i][2], ContentOf(o)[layout[i][1]], unset)

(* The members of the given kinds that have the given value, as paths; the *)
(* elements of lists are not among them.                                   *)
PathsTo(o, kinds, value) ==
  LET layout  == Classes[ClassOf(o)]
      v(i)    == ContentOf(o)[layout[i][1]]
      here    == {i \in DOMAIN layout : layout[i][2].kind \in kinds /\ v(i) = value}
      objects == {i \in DOMAIN layout : layout[i][2].kind \in {"struct", "dynamic"} /\ v(i) # Null}
  IN  {<<layout[i][1]>> : i \in here} \cup
      UNION {{<<layout[i][1]>> \o path : path \in PathsToNested(v(i), kinds, value)} : i \in objects}
=============================================================================
