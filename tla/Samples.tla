------------------------------ MODULE Samples ------------------------------
(***************************************************************************)
(* Objects to encode, for model checking: for every class, one object per  *)
(* mode, whose members all have an ordinary value, their least or empty    *)
(* value, a value at or beyond the largest that their type holds, or one   *)
(* that looks like padding.  A member that a factory makes takes, in       *)
(* turn, every key of the factory and every sample of every class it has.  *)
(***************************************************************************)
EXTENDS WireTypes, FiniteSets

CONSTANTS Classes

Modes == {"ordinary", "least", "most", "padded"}

(* The largest number that TLC can represent stands for those of the wider *)
(* types.                                                                  *)
TopOf(width, signed) ==
  IF width >= 4 THEN 2147483647
  ELSE IF signed THEN Radix^width \div 2 - 1 ELSE Radix^width - 1

SampleInt(width, signed, mode) ==
  CASE mode = "ordinary" -> 7
    [] mode = "least"    -> IF signed THEN -TopOf(width, signed) - 1 ELSE 0
    [] mode = "most"     -> TopOf(width, signed)
    [] mode = "padded"   -> IF signed THEN -1 ELSE Radix \div 2

Letter == 65

SampleFixed(type, mode) ==
  CASE mode = "ordinary" -> <<Letter>>
    [] mode = "least"    -> <<>>
    [] mode = "most"     -> [i \in 1 .. type.size + 1 |-> Letter + (i % 26)]
    [] mode = "padded"   -> <<type.pad, Letter, type.pad>>

SampleText(mode) ==
  CASE mode = "ordinary" -> <<Letter>>
    [] mode = "least"    -> <<>>
    [] mode = "most"     -> [i \in 1 .. 20 |-> Letter + i]
    [] mode = "padded"   -> <<0, Space, Letter, Space, 0>>

RECURSIVE SampleValue(_, _)

(* An object of the class with all its members in one mode; where a        *)
(* factory decides, with some key and the class it has for it.             *)
SampleObject(class, mode) ==
  LET layout   == Classes[class]
      Fields   == {layout[i] : i \in DOMAIN layout}
      names    == {f[1] : f \in Fields}
      dynamics == {f[2] : f \in {g \in Fields : g[2].kind = "dynamic"}}
      isKey(n) == \E t \in dynamics : t.key = n
      keyOf(n) == LET t == CHOOSE t \in dynamics : t.key = n
                  IN  CHOOSE k \in DOMAIN t.factory : TRUE
      typeOf(n) == (CHOOSE f \in Fields : f[1] = n)[2]
      valueOf(n) == LET t == typeOf(n)
                    IN  IF isKey(n) THEN keyOf(n)
                        ELSE IF t.kind = "dynamic" THEN SampleValue(
                          Struct(t.factory[keyOf(t.key)]), mode)
                        ELSE SampleValue(t, mode)
  IN  Obj(class, [n \in names |-> valueOf(n)])

SampleValue(type, mode) ==
  CASE type.kind = "octet"  -> SampleInt(1, type.signed, mode)
    [] type.kind = "int"    -> SampleInt(type.width, type.signed, mode)
    [] type.kind = "text"   -> SampleText(mode)
    [] type.kind = "fixed"  -> SampleFixed(type, mode)
    [] type.kind = "list"   ->
         [i \in 1 .. CASE mode = "least" -> 0 [] mode = "most" -> 2 [] OTHER -> 1 |->
            SampleValue(type.element, mode)]
    [] type.kind = "struct" -> SampleObject(type.class, mode)

RECURSIVE SamplesOf(_)

(* All samples of a class: no class has more than one dynamic member.      *)
SamplesOf(class) ==
  LET layout   == Classes[class]
      dynamics == {i \in DOMAIN layout : layout[i][2].kind = "dynamic"}
      plain    == {SampleObject(class, mode) : mode \in Modes}
      base     == ContentOf(SampleObject(class, "ordinary"))
      With(i, k, v) == Obj(class, [base EXCEPT ![layout[i][2].key] = k,
                                               ![layout[i][1]] = v])
  IN  plain
      \cup UNION {
        LET factory == layout[i][2].factory
            made    == {factory[k] : k \in DOMAIN factory}
        IN  {With(i, k, SampleObject(factory[k], "ordinary")) : k \in DOMAIN factory}
            \cup UNION {{With(i, CHOOSE k \in DOMAIN factory : factory[k] = c, v) :
                           v \in SamplesOf(c)} : c \in made}
        : i \in dynamics }
=============================================================================
