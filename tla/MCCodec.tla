------------------------------ MODULE MCCodec ------------------------------
(* Instance of Session for TLC whose messages are all the objects of three *)
(* small classes, in bytes of two bits: every string and list that is      *)
(* empty, short, full or, for the fixed sizes, too long, with characters   *)
(* that are padding and ones that are not at every place.                  *)
EXTENDS Session, WireTypes, SequencesExt, TLC

(* Layouts with every kind of member: strings and lists of strings, numbers*)
(* and fixed strings, padding on either side, and a body whose class a key *)
(* decides.                                                                *)
Blank == 0

Makes == Registered({0}, "Names") @@ Registered({1, 2}, "Numbers")

Classes ==
  [Names   |-> << <<"name", Text(1)>>, <<"code", FixedPadded(2, Blank, FALSE)>> >>,
   Numbers |-> << <<"tag", FixedPadded(2, Blank, TRUE)>>,
                  <<"items", ListOf(1, Whole(1, TRUE))>> >>,
   Labels  |-> << <<"labels", ListOf(1, Text(1))>>, <<"codes", ListOf(1, FixedPadded(1, Blank, FALSE))>>,
                  <<"last", I8>> >>,
   Carrier |-> << <<"key", U8>>, <<"body", Dynamic("key", Makes)>>, <<"end", U16>> >>]

Codec == INSTANCE Wire
Reference == INSTANCE Canonical

MCEncode(m, b)    == Ok(Write(b, Codec!PutObject(m)), <<>>)
MCDecode(kind, b) == Codec!TakeObject(b, kind)
MCKindOf(m)       == ClassOf(m)
MCPromised(m)     == Reference!CanonicalObject(m)
MCDelivered(m)    == m
MCFollows(s, m)   == TRUE

Strings(n) == BoundedSeq({0, 1}, n)

Names   == {Obj("Names", [name |-> s, code |-> c]) : s \in Strings(3), c \in Strings(3)}
Numbers == {Obj("Numbers", [tag |-> s, items |-> l]) :
              s \in Strings(3), l \in BoundedSeq(-2 .. 1, 2) \cup {<<1, 1, 1>>}}
Labels  == {Obj("Labels", [labels |-> l, codes |-> c, last |-> n]) :
              l \in BoundedSeq(Strings(1), 2), c \in BoundedSeq({<<>>, <<1>>}, 2), n \in -2 .. 1}
Carriers ==
  {Obj("Carrier", [key |-> 0, body |-> o, end |-> n]) : o \in Names, n \in {0, 9}}
  \cup {Obj("Carrier", [key |-> k, body |-> o, end |-> 15]) : o \in Numbers, k \in {1, 2}}

MCMessages == Numbers \cup Labels \cup Carriers
MCContents == {MCPromised(m) : m \in MCMessages}

(* What is proved of sendable objects is about all of these.               *)
ASSUME MessagesAreSendable == \A m \in MCMessages : Reference!Sendable(m)

(* Lists with one element more than a count of one byte can say.           *)
MCLongLists ==
  {Obj("Labels", [labels |-> l, codes |-> <<>>, last |-> 0]) :
     l \in {<<>>, << <<1>>, <<1>>, <<1>>, <<1>> >>}}
MCLongListsContents == {MCPromised(m) : m \in MCLongLists}
=============================================================================
