------------------------------- MODULE Layout -------------------------------
(***************************************************************************)
(* The generated structs as a table: the layout of every class by name, as *)
(* WireTypes writes layouts, and what the tables of the repository have in *)
(* common.                                                                 *)
(***************************************************************************)
EXTENDS WireTypes, FiniteSets

CONSTANT Classes   \* the layout of every class, by name

NamesOf(layout) == {layout[i][1] : i \in DOMAIN layout}

TypeOf(layout, name) ==
  layout[CHOOSE i \in DOMAIN layout : layout[i][1] = name][2]

(* The types that the generated structs have, the signed ones in bytes of  *)
(* an even number of values.                                               *)
IsElement(type) ==
  \/ type.kind = "octet" /\ type.signed \in BOOLEAN /\ (type.signed => Radix % 2 = 0)
  \/ /\ type.kind = "int" /\ type.width \in Nat \ {0}
     /\ type.signed \in BOOLEAN /\ (type.signed => Radix % 2 = 0)
  \/ type.kind = "text" /\ type.prefix \in Nat \ {0}
  \/ type.kind = "fixed" /\ type.size \in Nat /\ type.pad \in Byte /\ type.left \in BOOLEAN
  \/ type.kind = "struct" /\ type.class \in DOMAIN Classes

(* The values of the numbers of a type.                                    *)
Numbers(type) ==
  LET patterns == Patterns(IF type.kind = "octet" THEN 1 ELSE type.width)
      half     == patterns \div 2
  IN  IF type.signed THEN -half .. patterns - half - 1 ELSE 0 .. patterns - 1

Makes(type) == {type.factory[key] : key \in DOMAIN type.factory}

IsMember(type) ==
  \/ IsElement(type)
  \/ type.kind = "list" /\ type.prefix \in Nat \ {0} /\ IsElement(type.element)
  \/ type.kind = "dynamic" /\ Makes(type) \subseteq DOMAIN Classes

(* No two members have one name, and a key is decoded before the object    *)
(* whose class it decides.                                                 *)
IsLayout(layout) ==
  /\ layout \in Seq({layout[i] : i \in DOMAIN layout})
  /\ \A i, j \in DOMAIN layout : layout[i][1] = layout[j][1] => i = j
  /\ \A i \in DOMAIN layout :
       /\ IsMember(layout[i][2])
       /\ layout[i][2].kind = "dynamic" => \E j \in 1 .. i - 1 : layout[j][1] = layout[i][2].key

(* The frames have one body, and members of fixed size in front of it.     *)
IsFrame(layout) ==
  \E place \in DOMAIN layout :
    /\ \A i \in DOMAIN layout : layout[i][2].kind = "dynamic" <=> i = place
    /\ \A i \in 1 .. place - 1 : layout[i][2].kind \in {"octet", "int", "fixed"}

(* The classes of the objects that may be inside a member.                 *)
ClassesIn(type) ==
  CASE type.kind = "struct"  -> {type.class}
    [] type.kind = "dynamic" -> Makes(type)
    [] type.kind = "list"    -> IF type.element.kind = "struct" THEN {type.element.class} ELSE {}
    [] OTHER -> {}

ClassesInside(class) ==
  UNION {ClassesIn(Classes[class][i][2]) : i \in DOMAIN Classes[class]}

(* Objects are inside objects at most `levels` deep; so no object has one  *)
(* of its own class inside, at any depth.                                  *)
NestedWithin(levels) ==
  \E depth \in [DOMAIN Classes -> 0 .. levels] :
    \A class \in DOMAIN Classes : \A inner \in ClassesInside(class) : depth[inner] < depth[class]

ASSUME ClassesAssumption ==
  /\ IsFiniteSet(DOMAIN Classes)
  /\ \A class \in DOMAIN Classes : IsLayout(Classes[class])
  /\ NestedWithin(Cardinality(DOMAIN Classes))
=============================================================================
