------------------------------ MODULE Decoding ------------------------------
(***************************************************************************)
(* decode() of the generated structs, through the get functions of         *)
(* include/codec.hpp.  It assigns an object's members one by one from a    *)
(* buffer and stops at the first call that throws: the cursor stays where  *)
(* that call left it, the members decoded before it keep their new values  *)
(* and the others their old ones.  An object inside an object is made and  *)
(* read by a virtual call, here a constant; Wire makes these calls the     *)
(* same code again.                                                        *)
(***************************************************************************)
EXTENDS Layout

CONSTANTS
  DecodeNested(_, _),  \* decode() of an object inside an object: from a
                       \*   buffer, into the object
  NewNested(_, _)      \* a new object of a class, with a number in its numbers

First(places) == CHOOSE i \in places : \A j \in places : i <= j
Last(places)  == CHOOSE i \in places : \A j \in places : j <= i

(* Wrong variant: find_last_not_of on a string padded on its left.         *)
TrimmedRight(type, s) ==
  LET kept == {i \in DOMAIN s : s[i] # type.pad}
  IN  IF kept = {} THEN <<>> ELSE SubSeq(s, 1, Last(kept))

(* Without the padding on the side where it is put.                        *)
Trimmed(type, s) ==
  LET kept == {i \in DOMAIN s : s[i] # type.pad}
  IN  IF kept = {} THEN <<>>
      ELSE IF type.left THEN SubSeq(s, First(kept), Len(s)) ELSE SubSeq(s, 1, Last(kept))

(* What a call did, with something else for its value.                     *)
With(r, v) == [outcome |-> r.outcome, buf |-> r.buf, value |-> v]

(* MessageFactory::create throws std::runtime_error for an unknown key.    *)
NoSuchType(b, v) == [outcome |-> "no_such_type", buf |-> b, value |-> v]

(* What comes after the first call, unless it throws: `r` is what that did.*)
AsNumber(r, signed) == IF r.outcome = "ok" THEN Ok(r.buf, ValueOf(r.value, signed)) ELSE r
AsText(r, type)     == IF r.outcome = "ok" THEN Ok(r.buf, Trimmed(type, r.value)) ELSE r
Characters(size)    == IF size.outcome = "ok" THEN ReadBytes(size.buf, size.value) ELSE size

TakeInt(b, width, signed) == AsNumber(ReadBytes(b, width), signed)

TakeText(b, prefix) == Characters(TakeInt(b, prefix, FALSE))

(* Wrong variant: the characters that are there, when some are missing.    *)
TakeFixedAvailable(b, type) ==
  AsText(ReadBytes(b, First({type.size, ReadableBytes(b)})), type)

TakeFixed(b, type) == AsText(ReadBytes(b, type.size), type)

(* The object behind make_unique<T>() has zero for `number`; strings and   *)
(* lists are empty, pointers null.                                         *)
InitialOf(type, number) ==
  CASE type.kind \in {"octet", "int"} -> number
    [] type.kind \in {"text", "fixed", "list"} -> <<>>
    [] type.kind = "struct"  -> NewNested(type.class, number)
    [] type.kind = "dynamic" -> Null

New(class, number) ==
  LET layout == Classes[class]
  IN  Obj(class, [name \in NamesOf(layout) |-> InitialOf(TypeOf(layout, name), number)])

Zeroed(class) == New(class, 0)

TakeElement(b, type) ==
  CASE type.kind = "octet"  -> TakeInt(b, 1, type.signed)
    [] type.kind = "int"    -> TakeInt(b, type.width, type.signed)
    [] type.kind = "text"   -> TakeText(b, type.prefix)
    [] type.kind = "fixed"  -> TakeFixed(b, type)
    [] type.kind = "struct" -> DecodeNested(b, NewNested(type.class, 0))

(* After one more element of a list of which `r` has the ones before.      *)
Appended(list, e) == IF e.outcome = "ok" THEN Ok(e.buf, Append(list, e.value)) ELSE e

NextElement(r, type) ==
  IF r.outcome = "ok" THEN Appended(r.value, TakeElement(r.buf, type)) ELSE r

TakeElements(b, type, count) ==
  LET after[i \in 0 .. count] ==
        IF i = 0 THEN Ok(b, <<>>) ELSE NextElement(after[i - 1], type)
  IN  after[count]

Elements(count, type) ==
  IF count.outcome = "ok" THEN TakeElements(count.buf, type, count.value) ELSE count

(* Wrong variant: a list read without its last element.                    *)
TakeListShort(b, type) ==
  LET count == TakeInt(b, type.prefix, FALSE)
  IN  Elements(IF count.outcome = "ok" /\ count.value > 0 THEN With(count, count.value - 1) ELSE count,
               type.element)

TakeList(b, type) == Elements(TakeInt(b, type.prefix, FALSE), type.element)

(* Wrong variant: the pointer cleared before the new object is made.       *)
TakeDynamicCleared(b, type, key, old) ==
  IF key \in DOMAIN type.factory
    THEN DecodeNested(b, NewNested(type.factory[key], 0))
    ELSE NoSuchType(b, Null)

(* Wrong variant: an object that is there already used again.              *)
TakeDynamicReused(b, type, key, old) ==
  IF key \notin DOMAIN type.factory THEN NoSuchType(b, old)
  ELSE IF old = Null THEN DecodeNested(b, NewNested(type.factory[key], 0))
  ELSE DecodeNested(b, old)

(* `body = Factory::getInstance().create(key); body->decode(buf);` When    *)
(* create() throws, the pointer keeps what it has.                         *)
TakeDynamic(b, type, key, old) ==
  IF key \in DOMAIN type.factory
    THEN DecodeNested(b, NewNested(type.factory[key], 0))
    ELSE NoSuchType(b, old)

(* A member with the value `old` of an object with the members `content`.  *)
(* A call that throws assigns nothing, except that an object inside the    *)
(* object has what its own decode() assigned.                              *)
Kept(r, old) == IF r.outcome = "ok" THEN r ELSE With(r, old)

TakeField(b, type, old, content) ==
  CASE type.kind = "struct"  -> DecodeNested(b, old)
    [] type.kind = "dynamic" -> TakeDynamic(b, type, content[type.key], old)
    [] type.kind = "list"    -> Kept(TakeList(b, type), old)
    [] OTHER                 -> Kept(TakeElement(b, type), old)

(* After one more member of an object, the value of `r` being its members. *)
Assigned(content, name, taken) == With(taken, [content EXCEPT ![name] = taken.value])

NextMember(r, member) ==
  IF r.outcome = "ok"
    THEN Assigned(r.value, member[1],
                  TakeField(r.buf, member[2], r.value[member[1]], r.value))
    ELSE r

TakeFields(b, layout, content) ==
  LET after[i \in 0 .. Len(layout)] ==
        IF i = 0 THEN Ok(b, content) ELSE NextMember(after[i - 1], layout[i])
  IN  after[Len(layout)]

(* object.decode(buf).                                                     *)
AsObject(class, r) == With(r, Obj(class, r.value))

DecodeInto(b, object) ==
  AsObject(ClassOf(object), TakeFields(b, Classes[ClassOf(object)], ContentOf(object)))

(* decode(buf) of an object of the class that has just been made.          *)
TakeObject(b, class) == DecodeInto(b, Zeroed(class))
=============================================================================
