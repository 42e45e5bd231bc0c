----------------------------- MODULE WireTypes -----------------------------
(***************************************************************************)
(* How the generated structs lay out their fields.  A layout is a sequence *)
(* of <<name, type>> pairs in the order in which encode() writes the       *)
(* members, which for every struct of the repository is also the order in  *)
(* which decode() reads them and the list of members equals() compares.    *)
(***************************************************************************)
EXTENDS ByteBuf

(* write_u8 and write_i8, which writer_index() does not count.             *)
Octet(signed) == [kind |-> "octet", signed |-> signed]

(* The integers that write_le<T> counts, elements of basic lists included. *)
Whole(width, signed) == [kind |-> "int", width |-> width, signed |-> signed]

U8  == Octet(FALSE)
I8  == Octet(TRUE)
U16 == Whole(2, FALSE)
I16 == Whole(2, TRUE)
U32 == Whole(4, FALSE)
I32 == Whole(4, TRUE)
U64 == Whole(8, FALSE)
I64 == Whole(8, TRUE)

(* A float or double, as the bit pattern that memcpy takes from it.        *)
F32 == Whole(4, FALSE)
F64 == Whole(8, FALSE)

(* write_string<T>: `prefix` is sizeof(T).                                 *)
Text(prefix) == [kind |-> "text", prefix |-> prefix]

(* write_fixed_string with its padding, and with the default one.          *)
Space == 32
Zero  == 48
FixedPadded(size, pad, left) ==
  [kind |-> "fixed", size |-> size, pad |-> pad, left |-> left]
Fixed(size) == FixedPadded(size, Space, FALSE)

(* The list writers: a count of `prefix` bytes, then the elements.         *)
ListOf(prefix, element) == [kind |-> "list", prefix |-> prefix, element |-> element]

(* A member that is itself a struct of a known class.                      *)
Struct(class) == [kind |-> "struct", class |-> class]

(* A std::unique_ptr<BinaryCodec>: encode() writes whatever object it      *)
(* points to, decode() creates the class that `factory` has for the key    *)
(* that it has just decoded.                                               *)
Dynamic(key, factory) == [kind |-> "dynamic", key |-> key, factory |-> factory]

(* An object: its class and the values of its members, by name.            *)
Obj(class, content) == <<class, content>>
ClassOf(object)     == object[1]
ContentOf(object)   == object[2]

(* A std::unique_ptr that points to no object.                             *)
Null == <<"nullptr">>

(* What one class registers under several keys, as a factory.              *)
Registered(keys, class) == [k \in keys |-> class]

(* Three digits, as the application identifiers that are factory keys.     *)
ApplId(n) == <<Zero + (n \div 100), Zero + ((n \div 10) % 10), Zero + (n % 10)>>
=============================================================================
