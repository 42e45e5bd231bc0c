--------------------------- MODULE ReceiverProofs ---------------------------
(***************************************************************************)
(* The receiver's properties, for every table of classes that Layout       *)
(* allows, every radix and any length of the datagrams.                    *)
(*                                                                         *)
(* What decode() and encode() do with an object follows from what they do  *)
(* with its members, and with the objects inside it; since objects are     *)
(* inside objects to a bounded depth, what holds of a class when it holds  *)
(* of the classes inside it holds of every class (DepthInduction).  Two    *)
(* facts about classes are proved so: what decode() accepts is what        *)
(* encode() writes of the object it makes (ObjectReads), and decode()      *)
(* does the same in every object of the class, and the same again when     *)
(* there are more bytes (ObjectSame).  The invariant of the receiver only  *)
(* says that the last decode was one.                                      *)
(*                                                                         *)
(* The other way round, from the sender: an object that can be sent is     *)
(* written as bytes that decode() takes, in every object of the class and  *)
(* whatever comes behind them, giving the object up to padding and cut     *)
(* strings (ObjectIsSent).  With ObjectSame, for a buffer that ends too    *)
(* early, this is all that a Session assumes of its codec                  *)
(* (ObjectsAreSelfContained), so a Session of such objects is a queue.  A  *)
(* frame that patches its length and adds a sum is written as the layout   *)
(* says of the object with these two members (FrameIsEncoded), so it comes *)
(* back too.                                                               *)
(***************************************************************************)
EXTENDS Receiver, Encoding, Decoding, Members, Expected, MessageCodec,
        Checksum, ByteBufProofs, FiniteSetTheorems

-----------------------------------------------------------------------------
(* The definition by cases, for the provers that know no CASE.             *)
LEMMA InsideCases ==
  ASSUME NEW type
  PROVE  /\ type.kind = "struct" => ClassesIn(type) = {type.class}
         /\ type.kind = "dynamic" => ClassesIn(type) = Makes(type)
         /\ type.kind = "list" =>
              ClassesIn(type) = IF type.element.kind = "struct" THEN {type.element.class} ELSE {}
         /\ type.kind \notin {"struct", "dynamic", "list"} => ClassesIn(type) = {}
BY Zenon DEF ClassesIn

(* Only classes that there are can be inside a member.                     *)
LEMMA InsideMember ==
  ASSUME NEW type, IsMember(type)
  PROVE  ClassesIn(type) \subseteq DOMAIN Classes
<1>1. CASE type.kind = "struct"
  <2>1. ClassesIn(type) = {type.class}
    BY <1>1, InsideCases
  <2> QED
    BY <1>1, <2>1 DEF IsMember, IsElement
<1>2. CASE type.kind = "dynamic"
  <2>1. ClassesIn(type) = Makes(type)
    BY <1>2, InsideCases
  <2> QED
    BY <1>2, <2>1 DEF IsMember, IsElement
<1>3. CASE type.kind = "list"
  <2>1. IsElement(type.element)
    BY <1>3 DEF IsMember, IsElement
  <2>2. ClassesIn(type) = IF type.element.kind = "struct" THEN {type.element.class} ELSE {}
    BY <1>3, InsideCases
  <2> QED
    BY <2>1, <2>2 DEF IsElement
<1>4. CASE type.kind \notin {"struct", "dynamic", "list"}
  BY <1>4, InsideCases
<1> QED
  BY <1>1, <1>2, <1>3, <1>4

LEMMA InsideAreClasses ==
  ASSUME NEW class \in DOMAIN Classes
  PROVE  ClassesInside(class) \subseteq DOMAIN Classes
<1>1. IsLayout(Classes[class])
  BY ClassesAssumption
<1>2. \A i \in DOMAIN Classes[class] : IsMember(Classes[class][i][2])
  BY <1>1 DEF IsLayout
<1> QED
  BY <1>2, InsideMember DEF ClassesInside

(* Induction over the depth of classes: what holds of a class when it holds*)
(* of all classes inside it holds of every class.                          *)
LEMMA DepthInduction ==
  ASSUME NEW Good,
         \A class \in DOMAIN Classes : ClassesInside(class) \subseteq Good => class \in Good
  PROVE  DOMAIN Classes \subseteq Good
<1>1. PICK N \in Nat : N = Cardinality(DOMAIN Classes)
  BY ClassesAssumption, FS_CardinalityType
<1>2. PICK depth \in [DOMAIN Classes -> 0 .. N] :
        \A class \in DOMAIN Classes :
          \A inner \in ClassesInside(class) : depth[inner] < depth[class]
  BY <1>1, ClassesAssumption DEF NestedWithin
<1> DEFINE T == {n \in Nat : \A class \in DOMAIN Classes :
                                depth[class] < n => class \in Good}
<1>3. 0 \in T
  OBVIOUS
<1>4. ASSUME NEW n \in Nat, n \in T PROVE n + 1 \in T
  <2> SUFFICES ASSUME NEW class \in DOMAIN Classes, depth[class] < n + 1
               PROVE  class \in Good
    OBVIOUS
  <2>1. ASSUME NEW inner \in ClassesInside(class) PROVE inner \in Good
    <3>1. inner \in DOMAIN Classes /\ depth[inner] < depth[class]
      BY <1>2, InsideAreClasses
    <3>2. depth[inner] \in Nat /\ depth[class] \in Nat
      BY <3>1
    <3>3. depth[inner] < n
      BY <3>1, <3>2
    <3> QED
      BY <1>4, <3>1, <3>3
  <2> QED
    BY <2>1
<1> HIDE DEF T
<1>5. Nat \subseteq T
  BY <1>3, <1>4, SetInduction
<1>6. ASSUME NEW class \in DOMAIN Classes PROVE class \in Good
  <2>1. N + 1 \in T /\ depth[class] < N + 1
    BY <1>5
  <2> QED
    BY <2>1 DEF T
<1> QED
  BY <1>6

-----------------------------------------------------------------------------
(* The loops over the members of an object and the elements of a list.     *)

(* Chunks written one after the other.                                     *)
Chain(f, chunks, n) ==
  /\ DOMAIN f = 0 .. n
  /\ f = [i \in 0 .. n |-> f[i]]
  /\ f[0] = Uncounted(<<>>)
  /\ \A i \in 1 .. n : f[i] = Joined(f[i - 1], chunks[i])

LEMMA ChainExists ==
  ASSUME NEW n \in Nat, NEW chunks
  PROVE  \E f : Chain(f, chunks, n)
<1> DEFINE T == {k \in Nat : \E f : Chain(f, chunks, k)}
<1>1. 0 \in T
  <2> DEFINE f == [i \in 0 .. 0 |-> Uncounted(<<>>)]
  <2>1. Chain(f, chunks, 0)
    BY DEF Chain
  <2> QED
    BY <2>1
<1>2. ASSUME NEW k \in Nat, k \in T PROVE k + 1 \in T
  <2>1. PICK f : Chain(f, chunks, k)
    BY <1>2
  <2> DEFINE g == [i \in 0 .. k + 1 |->
                     IF i <= k THEN f[i] ELSE Joined(f[k], chunks[k + 1])]
  <2>2. g[0] = Uncounted(<<>>)
    BY <2>1 DEF Chain
  <2>3. ASSUME NEW i \in 1 .. k + 1 PROVE g[i] = Joined(g[i - 1], chunks[i])
    <3>1. CASE i <= k
      <4>1. g[i] = f[i] /\ g[i - 1] = f[i - 1] /\ i \in 1 .. k
        BY <3>1
      <4>2. f[i] = Joined(f[i - 1], chunks[i])
        BY <2>1, <4>1 DEF Chain
      <4> QED
        BY <4>1, <4>2
    <3>2. CASE i = k + 1
      <4>1. g[i] = Joined(f[k], chunks[k + 1]) /\ g[i - 1] = f[k]
        BY <3>2
      <4> QED
        BY <3>2, <4>1
    <3> QED
      BY <3>1, <3>2
  <2>4. DOMAIN g = 0 .. k + 1 /\ g = [i \in 0 .. k + 1 |-> g[i]]
    OBVIOUS
  <2> HIDE DEF g
  <2>5. Chain(g, chunks, k + 1)
    BY <2>2, <2>3, <2>4 DEF Chain
  <2> QED
    BY <2>5
<1> HIDE DEF T
<1>3. n \in T
  BY <1>1, <1>2, SetInduction
<1> QED
  BY <1>3 DEF T

LEMMA PutElementsChain ==
  ASSUME NEW type, NEW list, Len(list) \in Nat
  PROVE  \E f : /\ Chain(f, [i \in 1 .. Len(list) |-> PutElement(type, list[i])], Len(list))
                /\ PutElements(type, list) = f[Len(list)]
<1> DEFINE n      == Len(list)
           chunks == [i \in 1 .. n |-> PutElement(type, list[i])]
           Puts(f) == f = [i \in 0 .. n |->
                             IF i = 0 THEN Uncounted(<<>>)
                             ELSE Joined(f[i - 1], PutElement(type, list[i]))]
           put == CHOOSE f : Puts(f)
<1>1. ASSUME NEW f PROVE Puts(f) <=> Chain(f, chunks, n)
  <2>1. ASSUME Chain(f, chunks, n) PROVE Puts(f)
    <3>1. ASSUME NEW i \in 0 .. n
          PROVE  f[i] = IF i = 0 THEN Uncounted(<<>>)
                        ELSE Joined(f[i - 1], PutElement(type, list[i]))
      <4>1. CASE i = 0
        BY <2>1, <4>1 DEF Chain
      <4>2. CASE i # 0
        <5>1. i \in 1 .. n
          BY <4>2
        <5> HIDE DEF n
        <5> QED
          BY <2>1, <4>2, <5>1 DEF Chain
      <4> QED
        BY <4>1, <4>2
    <3>2. f = [i \in 0 .. n |-> f[i]]
      BY <2>1 DEF Chain
    <3> HIDE DEF n
    <3> QED
      BY <3>1, <3>2
  <2>2. ASSUME Puts(f) PROVE Chain(f, chunks, n)
    <3>1. \A i \in 0 .. n : f[i] = IF i = 0 THEN Uncounted(<<>>)
                        ELSE Joined(f[i - 1], PutElement(type, list[i]))
      BY <2>2
    <3>2. n \in Nat
      OBVIOUS
    <3>3. DOMAIN f = 0 .. n /\ f = [i \in 0 .. n |-> f[i]]
      <4> HIDE DEF n
      <4> QED
        BY <2>2
    <3> HIDE DEF n
    <3>4. f[0] = Uncounted(<<>>)
      BY <3>1, <3>2
    <3>5. ASSUME NEW i \in 1 .. n PROVE f[i] = Joined(f[i - 1], chunks[i])
      BY <3>1, <3>2
    <3> HIDE DEF chunks
    <3> QED
      BY <3>3, <3>4, <3>5 DEF Chain
  <2> HIDE DEF Puts
  <2> QED
    BY <2>1, <2>2
<1>2. PutElements(type, list) = put[n]
  BY DEF PutElements
<1> HIDE DEF chunks, Puts
<1>3. \E f : Chain(f, chunks, n)
  BY ChainExists
<1>4. Chain(put, chunks, n)
  BY <1>1, <1>3
<1> HIDE DEF put
<1> QED
  BY <1>2, <1>4 DEF chunks

LEMMA PutFieldsChain ==
  ASSUME NEW layout, NEW content, Len(layout) \in Nat
  PROVE  \E f : /\ Chain(f, [i \in 1 .. Len(layout) |->
                               PutField(layout[i][2], content[layout[i][1]])], Len(layout))
                /\ PutFields(layout, content) = f[Len(layout)]
<1> DEFINE n      == Len(layout)
           chunks == [i \in 1 .. n |-> PutField(layout[i][2], content[layout[i][1]])]
           Puts(f) == f = [i \in 0 .. n |->
                             IF i = 0 THEN Uncounted(<<>>)
                             ELSE Joined(f[i - 1], PutField(layout[i][2], content[layout[i][1]]))]
           put == CHOOSE f : Puts(f)
<1>1. ASSUME NEW f PROVE Puts(f) <=> Chain(f, chunks, n)
  <2>1. ASSUME Chain(f, chunks, n) PROVE Puts(f)
    <3>1. ASSUME NEW i \in 0 .. n
          PROVE  f[i] = IF i = 0 THEN Uncounted(<<>>)
                        ELSE Joined(f[i - 1], PutField(layout[i][2], content[layout[i][1]]))
      <4>1. CASE i = 0
        BY <2>1, <4>1 DEF Chain
      <4>2. CASE i # 0
        <5>1. i \in 1 .. n
          BY <4>2
        <5> HIDE DEF n
        <5> QED
          BY <2>1, <4>2, <5>1 DEF Chain
      <4> QED
        BY <4>1, <4>2
    <3>2. f = [i \in 0 .. n |-> f[i]]
      BY <2>1 DEF Chain
    <3> HIDE DEF n
    <3> QED
      BY <3>1, <3>2
  <2>2. ASSUME Puts(f) PROVE Chain(f, chunks, n)
    <3>1. \A i \in 0 .. n : f[i] = IF i = 0 THEN Uncounted(<<>>)
                        ELSE Joined(f[i - 1], PutField(layout[i][2], content[layout[i][1]]))
      BY <2>2
    <3>2. n \in Nat
      OBVIOUS
    <3>3. DOMAIN f = 0 .. n /\ f = [i \in 0 .. n |-> f[i]]
      <4> HIDE DEF n
      <4> QED
        BY <2>2
    <3> HIDE DEF n
    <3>4. f[0] = Uncounted(<<>>)
      BY <3>1, <3>2
    <3>5. ASSUME NEW i \in 1 .. n PROVE f[i] = Joined(f[i - 1], chunks[i])
      BY <3>1, <3>2
    <3> HIDE DEF chunks
    <3> QED
      BY <3>3, <3>4, <3>5 DEF Chain
  <2> HIDE DEF Puts
  <2> QED
    BY <2>1, <2>2
<1>2. PutFields(layout, content) = put[n]
  BY DEF PutFields
<1> HIDE DEF chunks, Puts
<1>3. \E f : Chain(f, chunks, n)
  BY ChainExists
<1>4. Chain(put, chunks, n)
  BY <1>1, <1>3
<1> HIDE DEF put
<1> QED
  BY <1>2, <1>4 DEF chunks

(* Elements read one after the other.                                      *)
ElementsLoop(f, b, type, n) ==
  /\ DOMAIN f = 0 .. n
  /\ f = [i \in 0 .. n |-> f[i]]
  /\ f[0] = Ok(b, <<>>)
  /\ \A i \in 1 .. n :
       f[i] = NextElement(f[i - 1], type)

LEMMA ElementsLoopExists ==
  ASSUME NEW n \in Nat, NEW b, NEW type
  PROVE  \E f : ElementsLoop(f, b, type, n)
<1> DEFINE T == {k \in Nat : \E f : ElementsLoop(f, b, type, k)}
<1>1. 0 \in T
  <2> DEFINE f == [i \in 0 .. 0 |-> Ok(b, <<>>)]
  <2>1. ElementsLoop(f, b, type, 0)
    BY DEF ElementsLoop
  <2> QED
    BY <2>1
<1>2. ASSUME NEW k \in Nat, k \in T PROVE k + 1 \in T
  <2>1. PICK f : ElementsLoop(f, b, type, k)
    BY <1>2
  <2> DEFINE last == NextElement(f[k], type)
             g    == [i \in 0 .. k + 1 |-> IF i <= k THEN f[i] ELSE last]
  <2>2. g[0] = Ok(b, <<>>)
    BY <2>1 DEF ElementsLoop
  <2>3. ASSUME NEW i \in 1 .. k + 1
        PROVE  g[i] = NextElement(g[i - 1], type)
    <3>1. CASE i <= k
      <4>1. g[i] = f[i] /\ g[i - 1] = f[i - 1] /\ i \in 1 .. k
        BY <3>1
      <4>2. f[i] = NextElement(f[i - 1], type)
        BY <2>1, <4>1 DEF ElementsLoop
      <4> QED
        BY <4>1, <4>2
    <3>2. CASE i = k + 1
      <4>1. g[i] = last /\ g[i - 1] = f[k]
        BY <3>2
      <4> QED
        BY <3>2, <4>1
    <3> QED
      BY <3>1, <3>2
  <2>4. DOMAIN g = 0 .. k + 1 /\ g = [i \in 0 .. k + 1 |-> g[i]]
    OBVIOUS
  <2> HIDE DEF g
  <2>5. ElementsLoop(g, b, type, k + 1)
    BY <2>2, <2>3, <2>4 DEF ElementsLoop
  <2> QED
    BY <2>5
<1> HIDE DEF T
<1>3. n \in T
  BY <1>1, <1>2, SetInduction
<1> QED
  BY <1>3 DEF T

LEMMA TakeElementsLoop ==
  ASSUME NEW b, NEW type, NEW count \in Nat
  PROVE  \E f : ElementsLoop(f, b, type, count) /\ TakeElements(b, type, count) = f[count]
<1> DEFINE n == count
           Steps(f) == f = [i \in 0 .. n |->
                              IF i = 0 THEN Ok(b, <<>>)
                              ELSE NextElement(f[i - 1], type)]
           after == CHOOSE f : Steps(f)
<1>1. ASSUME NEW f PROVE Steps(f) <=> ElementsLoop(f, b, type, n)
  <2>1. ASSUME ElementsLoop(f, b, type, n) PROVE Steps(f)
    <3>1. ASSUME NEW i \in 0 .. n
          PROVE  f[i] = IF i = 0 THEN Ok(b, <<>>)
                        ELSE NextElement(f[i - 1], type)
      <4>1. CASE i = 0
        BY <2>1, <4>1 DEF ElementsLoop
      <4>2. CASE i # 0
        <5>1. i \in 1 .. n
          BY <4>2
        <5> HIDE DEF n
        <5> QED
          BY <2>1, <4>2, <5>1 DEF ElementsLoop
      <4> QED
        BY <4>1, <4>2
    <3>2. f = [i \in 0 .. n |-> f[i]]
      BY <2>1 DEF ElementsLoop
    <3> HIDE DEF n
    <3> QED
      BY <3>1, <3>2
  <2>2. ASSUME Steps(f) PROVE ElementsLoop(f, b, type, n)
    <3>1. \A i \in 0 .. n : f[i] = IF i = 0 THEN Ok(b, <<>>)
                                   ELSE NextElement(f[i - 1], type)
      BY <2>2
    <3>2. n \in Nat
      OBVIOUS
    <3>3. DOMAIN f = 0 .. n /\ f = [i \in 0 .. n |-> f[i]]
      <4> HIDE DEF n
      <4> QED
        BY <2>2
    <3> HIDE DEF n
    <3>4. f[0] = Ok(b, <<>>)
      BY <3>1, <3>2
    <3>5. ASSUME NEW i \in 1 .. n
          PROVE  f[i] = NextElement(f[i - 1], type)
      BY <3>1, <3>2
    <3> QED
      BY <3>3, <3>4, <3>5 DEF ElementsLoop
  <2> HIDE DEF Steps
  <2> QED
    BY <2>1, <2>2
<1>2. TakeElements(b, type, count) = after[n]
  BY DEF TakeElements
<1> HIDE DEF Steps
<1>3. \E f : ElementsLoop(f, b, type, n)
  BY ElementsLoopExists
<1>4. ElementsLoop(after, b, type, n)
  BY <1>1, <1>3
<1> HIDE DEF after
<1> QED
  BY <1>2, <1>4

(* Members read one after the other.                                       *)
MembersLoop(f, b, layout, content, n) ==
  /\ DOMAIN f = 0 .. n
  /\ f = [i \in 0 .. n |-> f[i]]
  /\ f[0] = Ok(b, content)
  /\ \A i \in 1 .. n :
       f[i] = NextMember(f[i - 1], layout[i])

LEMMA MembersLoopExists ==
  ASSUME NEW n \in Nat, NEW b, NEW layout, NEW content
  PROVE  \E f : MembersLoop(f, b, layout, content, n)
<1> DEFINE T == {k \in Nat : \E f : MembersLoop(f, b, layout, content, k)}
<1>1. 0 \in T
  <2> DEFINE f == [i \in 0 .. 0 |-> Ok(b, content)]
  <2>1. MembersLoop(f, b, layout, content, 0)
    BY DEF MembersLoop
  <2> QED
    BY <2>1
<1>2. ASSUME NEW k \in Nat, k \in T PROVE k + 1 \in T
  <2>1. PICK f : MembersLoop(f, b, layout, content, k)
    BY <1>2
  <2> DEFINE last == NextMember(f[k], layout[k + 1])
             g    == [i \in 0 .. k + 1 |-> IF i <= k THEN f[i] ELSE last]
  <2>2. g[0] = Ok(b, content)
    BY <2>1 DEF MembersLoop
  <2>3. ASSUME NEW i \in 1 .. k + 1
        PROVE  g[i] = NextMember(g[i - 1], layout[i])
    <3>1. CASE i <= k
      <4>1. g[i] = f[i] /\ g[i - 1] = f[i - 1] /\ i \in 1 .. k
        BY <3>1
      <4>2. f[i] = NextMember(f[i - 1], layout[i])
        BY <2>1, <4>1 DEF MembersLoop
      <4> QED
        BY <4>1, <4>2
    <3>2. CASE i = k + 1
      <4>1. g[i] = last /\ g[i - 1] = f[k]
        BY <3>2
      <4> QED
        BY <3>2, <4>1
    <3> QED
      BY <3>1, <3>2
  <2>4. DOMAIN g = 0 .. k + 1 /\ g = [i \in 0 .. k + 1 |-> g[i]]
    OBVIOUS
  <2> HIDE DEF g
  <2>5. MembersLoop(g, b, layout, content, k + 1)
    BY <2>2, <2>3, <2>4 DEF MembersLoop
  <2> QED
    BY <2>5
<1> HIDE DEF T
<1>3. n \in T
  BY <1>1, <1>2, SetInduction
<1> QED
  BY <1>3 DEF T

LEMMA TakeFieldsLoop ==
  ASSUME NEW b, NEW layout, NEW content, Len(layout) \in Nat
  PROVE  \E f : MembersLoop(f, b, layout, content, Len(layout)) /\ TakeFields(b, layout, content) = f[Len(layout)]
<1> DEFINE n == Len(layout)
           Steps(f) == f = [i \in 0 .. n |->
                              IF i = 0 THEN Ok(b, content)
                              ELSE NextMember(f[i - 1], layout[i])]
           after == CHOOSE f : Steps(f)
<1>1. ASSUME NEW f PROVE Steps(f) <=> MembersLoop(f, b, layout, content, n)
  <2>1. ASSUME MembersLoop(f, b, layout, content, n) PROVE Steps(f)
    <3>1. ASSUME NEW i \in 0 .. n
          PROVE  f[i] = IF i = 0 THEN Ok(b, content)
                        ELSE NextMember(f[i - 1], layout[i])
      <4>1. CASE i = 0
        BY <2>1, <4>1 DEF MembersLoop
      <4>2. CASE i # 0
        <5>1. i \in 1 .. n
          BY <4>2
        <5> HIDE DEF n
        <5> QED
          BY <2>1, <4>2, <5>1 DEF MembersLoop
      <4> QED
        BY <4>1, <4>2
    <3>2. f = [i \in 0 .. n |-> f[i]]
      BY <2>1 DEF MembersLoop
    <3> HIDE DEF n
    <3> QED
      BY <3>1, <3>2
  <2>2. ASSUME Steps(f) PROVE MembersLoop(f, b, layout, content, n)
    <3>1. \A i \in 0 .. n : f[i] = IF i = 0 THEN Ok(b, content)
                                   ELSE NextMember(f[i - 1], layout[i])
      BY <2>2
    <3>2. n \in Nat
      OBVIOUS
    <3>3. DOMAIN f = 0 .. n /\ f = [i \in 0 .. n |-> f[i]]
      <4> HIDE DEF n
      <4> QED
        BY <2>2
    <3> HIDE DEF n
    <3>4. f[0] = Ok(b, content)
      BY <3>1, <3>2
    <3>5. ASSUME NEW i \in 1 .. n
          PROVE  f[i] = NextMember(f[i - 1], layout[i])
      BY <3>1, <3>2
    <3> QED
      BY <3>3, <3>4, <3>5 DEF MembersLoop
  <2> HIDE DEF Steps
  <2> QED
    BY <2>1, <2>2
<1>2. TakeFields(b, layout, content) = after[n]
  BY DEF TakeFields
<1> HIDE DEF Steps
<1>3. \E f : MembersLoop(f, b, layout, content, n)
  BY MembersLoopExists
<1>4. MembersLoop(after, b, layout, content, n)
  BY <1>1, <1>3
<1> HIDE DEF after
<1> QED
  BY <1>2, <1>4

-----------------------------------------------------------------------------
(* Cursors that are not behind the data, and what was read on the way from *)
(* one to another.                                                         *)
Cursors == {b \in ByteBufs : b.reader_index <= Len(b.buffer)}

Reaches(b, c) ==
  /\ c \in Cursors
  /\ c.buffer = b.buffer
  /\ b.reader_index <= c.reader_index

Taken(b, c) == SubSeq(b.buffer, b.reader_index + 1, c.reader_index)

LEMMA CursorType ==
  ASSUME NEW b \in Cursors
  PROVE  /\ b.buffer \in Seq(Byte) /\ Len(b.buffer) \in Nat
         /\ b.reader_index \in Nat /\ b.reader_index <= Len(b.buffer)
         /\ b \in ByteBufs
         /\ Reaches(b, b)
BY DEF Cursors, ByteBufs, Reaches

LEMMA ReachesOn ==
  ASSUME NEW b \in Cursors, NEW c, Reaches(b, c), NEW d, Reaches(c, d)
  PROVE  Reaches(b, d)
BY CursorType DEF Reaches

LEMMA TakenType ==
  ASSUME NEW b \in Cursors, NEW c, Reaches(b, c)
  PROVE  /\ Taken(b, c) \in Seq(Byte)
         /\ Len(Taken(b, c)) = c.reader_index - b.reader_index
<1>1. PICK s \in Seq(Byte), m \in Nat, n \in Nat :
        s = b.buffer /\ m = b.reader_index /\ n = c.reader_index /\ n <= Len(s) /\ m <= n
  BY CursorType DEF Reaches
<1>2. \A i \in m + 1 .. n : s[i] \in Byte
  BY <1>1, ElementOfSeq
<1>3. /\ SubSeq(s, m + 1, n) \in Seq(Byte)
      /\ Len(SubSeq(s, m + 1, n)) = IF m + 1 <= n THEN n - (m + 1) + 1 ELSE 0
  BY <1>2, SubSeqProperties
<1> QED
  BY <1>1, <1>3 DEF Taken

LEMMA TakenNothing ==
  ASSUME NEW b \in Cursors, NEW c, Reaches(b, c), c.reader_index = b.reader_index
  PROVE  Taken(b, c) = <<>>
<1>1. Len(Taken(b, c)) = 0 /\ Taken(b, c) \in Seq(Byte)
  BY TakenType, CursorType
<1> QED
  BY <1>1, EmptySeq

LEMMA TakenOn ==
  ASSUME NEW b \in Cursors, NEW c, Reaches(b, c), NEW d, Reaches(c, d)
  PROVE  Taken(b, d) = Taken(b, c) \o Taken(c, d)
<1>1. PICK s \in Seq(Byte), i \in Nat, j \in Nat, k \in Nat :
        /\ s = b.buffer /\ c.buffer = s /\ i = b.reader_index /\ j = c.reader_index
        /\ k = d.reader_index /\ i <= j /\ j <= k /\ k <= Len(s)
  BY CursorType DEF Reaches
<1>2. PICK m \in 1 .. Len(s) + 1 : m = i + 1
  <2>1. Len(s) \in Nat /\ i <= Len(s)
    BY <1>1
  <2> QED
    BY <2>1
<1>3. j \in m - 1 .. Len(s) /\ k \in j .. Len(s)
  BY <1>1, <1>2
<1>4. SubSeq(s, m, j) \o SubSeq(s, j + 1, k) = SubSeq(s, m, k)
  BY <1>3, ConcatAdjacentSubSeq
<1> QED
  BY <1>1, <1>2, <1>4 DEF Taken

(* Two buffers, the one with the data of the other and perhaps more, at    *)
(* the same place.                                                         *)
Extends(b, e) ==
  /\ b \in Cursors /\ e \in Cursors
  /\ b.reader_index = e.reader_index
  /\ Len(b.buffer) <= Len(e.buffer)
  /\ \A i \in 1 .. Len(b.buffer) : b.buffer[i] = e.buffer[i]

(* When the first call is not refused for want of bytes, or there are no   *)
(* more bytes for the second one, the second does the same.                *)
Same(r, q, b, e) ==
  r.outcome # "out_of_range" \/ b.buffer = e.buffer =>
    /\ q.outcome = r.outcome
    /\ q.buf.reader_index = r.buf.reader_index
    /\ r.outcome = "ok" => q.value = r.value

LEMMA ReadBytesReads ==
  ASSUME NEW b \in Cursors, NEW n \in Nat, NEW r, r = ReadBytes(b, n)
  PROVE  /\ Reaches(b, r.buf)
         /\ r.outcome \in {"ok", "out_of_range"}
         /\ r.outcome = "ok" <=> b.reader_index + n <= Len(b.buffer)
         /\ r.outcome = "ok" =>
              /\ r.buf.reader_index = b.reader_index + n
              /\ r.value = Taken(b, r.buf)
              /\ r.value \in Seq(Byte) /\ Len(r.value) = n
         /\ r.outcome # "ok" => r.buf = b
<1>0. /\ b.reader_index \in Nat /\ Len(b.buffer) \in Nat
      /\ b = [buffer |-> b.buffer, reader_index |-> b.reader_index,
              writer_index |-> b.writer_index]
      /\ b.buffer \in Seq(Byte) /\ b.writer_index \in Nat
  BY DEF Cursors, ByteBufs
<1>1. CASE ReadableBytes(b) < n
  <2>1. r = OutOfRange(b)
    BY <1>1 DEF ReadBytes
  <2>2. r.outcome = "out_of_range" /\ r.buf = b
    BY <2>1 DEF OutOfRange
  <2> QED
    BY <1>0, <1>1, <2>2, CursorType DEF ReadableBytes
<1>2. CASE ~(ReadableBytes(b) < n)
  <2> DEFINE c == [buffer |-> b.buffer, reader_index |-> b.reader_index + n,
                   writer_index |-> b.writer_index]
             taken == SubSeq(b.buffer, b.reader_index + 1, b.reader_index + n)
  <2>1. [b EXCEPT !.reader_index = @ + n] = c
    BY <1>0
  <2>2. r = Ok(c, taken)
    BY <1>2, <2>1 DEF ReadBytes
  <2>3. b.reader_index + n <= Len(b.buffer)
    BY <1>0, <1>2 DEF ReadableBytes
  <2>4. Reaches(b, c) /\ c.reader_index = b.reader_index + n
    BY <1>0, <2>3 DEF Reaches, Cursors, ByteBufs
  <2> HIDE DEF c
  <2>5. r.outcome = "ok" /\ r.buf = c /\ r.value = Taken(b, c)
    <3>1. Taken(b, c) = taken
      BY <2>4 DEF Taken
    <3> HIDE DEF taken
    <3> QED
      BY <2>2, <3>1 DEF Ok
  <2>6. Taken(b, c) \in Seq(Byte) /\ Len(Taken(b, c)) = n
    BY <1>0, <2>4, TakenType
  <2> QED
    BY <2>3, <2>4, <2>5, <2>6
<1> QED
  BY <1>1, <1>2

LEMMA ReadBytesSame ==
  ASSUME NEW b, NEW e, Extends(b, e), NEW n \in Nat,
         NEW r, r = ReadBytes(b, n), NEW q, q = ReadBytes(e, n)
  PROVE  Same(r, q, b, e)
<1>1. b \in Cursors /\ e \in Cursors
  BY DEF Extends
<1>2. PICK i \in Nat, k \in Nat, l \in Nat :
        /\ i = b.reader_index /\ i = e.reader_index
        /\ k = Len(b.buffer) /\ l = Len(e.buffer) /\ k <= l
  BY <1>1, CursorType DEF Extends
<1>3. /\ r.outcome \in {"ok", "out_of_range"}
      /\ r.outcome = "ok" <=> i + n <= k
      /\ r.outcome = "ok" =>
           /\ r.buf.reader_index = i + n /\ r.value = Taken(b, r.buf)
           /\ r.value \in Seq(Byte) /\ Len(r.value) = n
      /\ r.outcome # "ok" => r.buf = b
  <2>1. /\ r.outcome \in {"ok", "out_of_range"}
        /\ r.outcome = "ok" <=> b.reader_index + n <= Len(b.buffer)
        /\ r.outcome = "ok" =>
             /\ r.buf.reader_index = b.reader_index + n /\ r.value = Taken(b, r.buf)
             /\ r.value \in Seq(Byte) /\ Len(r.value) = n
        /\ r.outcome # "ok" => r.buf = b
    BY <1>1, ReadBytesReads
  <2> QED
    BY <1>2, <2>1
<1>4. /\ q.outcome \in {"ok", "out_of_range"}
      /\ q.outcome = "ok" <=> i + n <= l
      /\ q.outcome = "ok" =>
           /\ q.buf.reader_index = i + n /\ q.value = Taken(e, q.buf)
           /\ q.value \in Seq(Byte) /\ Len(q.value) = n
      /\ q.outcome # "ok" => q.buf = e
  <2>1. /\ q.outcome \in {"ok", "out_of_range"}
        /\ q.outcome = "ok" <=> e.reader_index + n <= Len(e.buffer)
        /\ q.outcome = "ok" =>
             /\ q.buf.reader_index = e.reader_index + n /\ q.value = Taken(e, q.buf)
             /\ q.value \in Seq(Byte) /\ Len(q.value) = n
        /\ q.outcome # "ok" => q.buf = e
    BY <1>1, ReadBytesReads
  <2> QED
    BY <1>2, <2>1
<1>5. CASE i + n <= k
  <2>1. /\ r.outcome = "ok" /\ q.outcome = "ok"
        /\ r.buf.reader_index = i + n /\ q.buf.reader_index = i + n
        /\ r.value = Taken(b, r.buf) /\ q.value = Taken(e, q.buf)
        /\ r.value \in Seq(Byte) /\ Len(r.value) = n
        /\ q.value \in Seq(Byte) /\ Len(q.value) = n
    BY <1>2, <1>3, <1>4, <1>5
  <2>2. r.value = SubSeq(b.buffer, i + 1, i + n) /\ q.value = SubSeq(e.buffer, i + 1, i + n)
    BY <1>2, <2>1 DEF Taken
  <2>3. \A j \in i + 1 .. i + n : b.buffer[j] = e.buffer[j] /\ b.buffer[j] \in Byte
    BY <1>1, <1>2, <1>5, CursorType, ElementOfSeq DEF Extends
  <2>4. \A j \in 1 .. (i + n) - (i + 1) + 1 : r.value[j] = b.buffer[(i + 1) + j - 1]
    BY <2>2, <2>3, SubSeqProperties
  <2>5. \A j \in 1 .. (i + n) - (i + 1) + 1 : q.value[j] = e.buffer[(i + 1) + j - 1]
    BY <2>2, <2>3, SubSeqProperties
  <2>6. ASSUME NEW j \in 1 .. n PROVE r.value[j] = q.value[j]
    <3>1. j \in 1 .. (i + n) - (i + 1) + 1 /\ (i + 1) + j - 1 \in i + 1 .. i + n
      OBVIOUS
    <3> QED
      BY <3>1, <2>3, <2>4, <2>5
  <2>7. r.value = q.value
    BY <2>1, <2>6, SeqEqual
  <2> QED
    BY <2>1, <2>7 DEF Same
<1>6. CASE ~(i + n <= k)
  <2>1. r.outcome = "out_of_range" /\ r.buf = b
    BY <1>3, <1>6
  <2>2. SUFFICES ASSUME b.buffer = e.buffer
                 PROVE  q.outcome = "out_of_range" /\ q.buf = e
    BY <1>2, <2>1 DEF Same
  <2>3. k = l
    BY <1>2, <2>2
  <2> QED
    BY <1>4, <1>6, <2>3
<1> QED
  BY <1>5, <1>6

(* The buffers stay each other's extension behind a call that is the same. *)
LEMMA ExtendsOn ==
  ASSUME NEW b, NEW e, Extends(b, e), NEW c, Reaches(b, c), NEW d, Reaches(e, d),
         c.reader_index = d.reader_index
  PROVE  Extends(c, d) /\ (c.buffer = d.buffer <=> b.buffer = e.buffer)
BY DEF Extends, Reaches

-----------------------------------------------------------------------------
(* The values that stand for themselves: numbers and strings.              *)
LEMMA TakeIntReads ==
  ASSUME NEW b \in Cursors, NEW w \in Nat \ {0}, NEW signed \in BOOLEAN,
         NEW r, r = TakeInt(b, w, signed)
  PROVE  /\ Reaches(b, r.buf)
         /\ r.outcome \in {"ok", "out_of_range"}
         /\ r.outcome = "ok" <=> b.reader_index + w <= Len(b.buffer)
         /\ r.outcome = "ok" =>
              /\ r.buf.reader_index = b.reader_index + w
              /\ r.value \in Int
              /\ LittleEndian(r.value, w) = Taken(b, r.buf)
              /\ ~ signed => r.value \in 0 .. Patterns(w) - 1
              /\ signed /\ Radix % 2 = 0 =>
                   r.value \in -(Patterns(w) \div 2) .. Patterns(w) - (Patterns(w) \div 2) - 1
         /\ r.outcome # "ok" => r.buf = b
<1>1. PICK t : t = ReadBytes(b, w)
  OBVIOUS
<1>2. /\ Reaches(b, t.buf)
      /\ t.outcome \in {"ok", "out_of_range"}
      /\ t.outcome = "ok" <=> b.reader_index + w <= Len(b.buffer)
      /\ t.outcome = "ok" =>
           /\ t.buf.reader_index = b.reader_index + w
           /\ t.value = Taken(b, t.buf)
           /\ t.value \in Seq(Byte) /\ Len(t.value) = w
      /\ t.outcome # "ok" => t.buf = b
  BY <1>1, ReadBytesReads
<1>3. CASE t.outcome = "ok"
  <2>1. PICK v : v = ValueOf(t.value, signed)
    OBVIOUS
  <2>2. r = Ok(t.buf, v)
    BY <1>1, <1>3, <2>1 DEF TakeInt, AsNumber
  <2>3. r.outcome = "ok" /\ r.buf = t.buf /\ r.value = v
    BY <2>2 DEF Ok
  <2>4. v \in Int /\ LittleEndian(v, w) = t.value
    BY <1>2, <1>3, <2>1, WrittenBack
  <2>5. ~ signed => v \in 0 .. Patterns(w) - 1
    BY <1>2, <1>3, <2>1, UnsignedRange
  <2>6. signed /\ Radix % 2 = 0 =>
          v \in -(Patterns(w) \div 2) .. Patterns(w) - (Patterns(w) \div 2) - 1
    BY <1>2, <1>3, <2>1, SignedRange
  <2> QED
    BY <1>2, <1>3, <2>3, <2>4, <2>5, <2>6
<1>4. CASE t.outcome # "ok"
  <2>1. r = t
    BY <1>1, <1>4 DEF TakeInt, AsNumber
  <2> QED
    BY <1>2, <1>4, <2>1
<1> QED
  BY <1>3, <1>4

LEMMA TakeIntSame ==
  ASSUME NEW b, NEW e, Extends(b, e), NEW w \in Nat \ {0}, NEW signed \in BOOLEAN,
         NEW r, r = TakeInt(b, w, signed), NEW q, q = TakeInt(e, w, signed)
  PROVE  Same(r, q, b, e)
<1>1. PICK t, u : t = ReadBytes(b, w) /\ u = ReadBytes(e, w)
  OBVIOUS
<1>2. Same(t, u, b, e)
  BY <1>1, ReadBytesSame
<1>3. t.outcome = "ok" => r = Ok(t.buf, ValueOf(t.value, signed))
  BY <1>1 DEF TakeInt, AsNumber
<1>4. t.outcome # "ok" => r = t
  BY <1>1 DEF TakeInt, AsNumber
<1>5. u.outcome = "ok" => q = Ok(u.buf, ValueOf(u.value, signed))
  BY <1>1 DEF TakeInt, AsNumber
<1>6. u.outcome # "ok" => q = u
  BY <1>1 DEF TakeInt, AsNumber
<1>7. t.outcome = "ok" =>
        r.outcome = "ok" /\ r.buf = t.buf /\ r.value = ValueOf(t.value, signed)
  BY <1>3 DEF Ok
<1>8. u.outcome = "ok" =>
        q.outcome = "ok" /\ q.buf = u.buf /\ q.value = ValueOf(u.value, signed)
  BY <1>5 DEF Ok
<1>9. r.outcome = t.outcome
  BY <1>4, <1>7
<1> SUFFICES ASSUME r.outcome # "out_of_range" \/ b.buffer = e.buffer
             PROVE  /\ q.outcome = r.outcome
                    /\ q.buf.reader_index = r.buf.reader_index
                    /\ r.outcome = "ok" => q.value = r.value
  BY DEF Same
<1>10. /\ u.outcome = t.outcome
       /\ u.buf.reader_index = t.buf.reader_index
       /\ t.outcome = "ok" => u.value = t.value
  BY <1>2, <1>9 DEF Same
<1>11. CASE t.outcome = "ok"
  BY <1>7, <1>8, <1>10, <1>11
<1>12. CASE t.outcome # "ok"
  BY <1>4, <1>6, <1>10, <1>12
<1> QED
  BY <1>11, <1>12

(* The first and the last of some places.                                  *)
LEMMA FirstIsLeast ==
  ASSUME NEW n \in Nat, NEW places \in SUBSET (1 .. n), places # {}
  PROVE  First(places) \in places /\ \A j \in places : First(places) <= j
<1>1. places \in SUBSET Nat
  OBVIOUS
<1>2. \E i \in places : \A j \in places : i <= j
  BY <1>1, LeastElement
<1> QED
  BY <1>2 DEF First

LEMMA LastIsGreatest ==
  ASSUME NEW n \in Nat, NEW places \in SUBSET (1 .. n), places # {}
  PROVE  Last(places) \in places /\ \A j \in places : j <= Last(places)
<1> DEFINE mirrored == {n - i : i \in places}
<1>1. mirrored \in SUBSET Nat /\ mirrored # {}
  <2>1. \A i \in places : i \in Int /\ 1 <= i /\ i <= n
    OBVIOUS
  <2>2. \A i \in places : n - i \in Nat
    BY <2>1
  <2>3. PICK i \in places : TRUE
    OBVIOUS
  <2>4. n - i \in mirrored
    OBVIOUS
  <2>5. \A x \in mirrored : x \in Nat
    BY <2>2
  <2> QED
    BY <2>4, <2>5
<1>2. PICK x \in mirrored : \A y \in mirrored : x <= y
  BY <1>1, LeastElement
<1>3. PICK i \in places : x = n - i
  BY <1>2
<1>4. \A j \in places : j <= i
  <2> SUFFICES ASSUME NEW j \in places PROVE j <= i
    OBVIOUS
  <2>1. n - i <= n - j
    BY <1>2, <1>3
  <2>2. i \in Nat /\ j \in Nat
    OBVIOUS
  <2> QED
    BY <2>1, <2>2
<1>5. \E k \in places : \A j \in places : j <= k
  BY <1>4
<1> QED
  BY <1>5 DEF Last

(* Fitting a string to a size and trimming it.                             *)
LEMMA TrimmedFits ==
  ASSUME NEW type, type.size \in Nat, type.pad \in Byte, type.left \in BOOLEAN,
         NEW s \in Seq(Byte), Len(s) = type.size
  PROVE  Trimmed(type, s) \in Seq(Byte) /\ Fitted(type, Trimmed(type, s)) = s
<1>1. PICK n \in Nat, pad \in Byte : n = type.size /\ pad = type.pad /\ Len(s) = n
  OBVIOUS
<1> DEFINE kept == {i \in DOMAIN s : s[i] # type.pad}
<1>2. kept = {i \in 1 .. n : s[i] # pad}
  BY <1>1
<1>3. \A i \in 1 .. n : s[i] \in Byte
  BY <1>1, ElementOfSeq
<1>4. PICK t : t = Trimmed(type, s)
  OBVIOUS
<1>5. t = IF kept = {} THEN <<>>
          ELSE IF type.left THEN SubSeq(s, First(kept), Len(s)) ELSE SubSeq(s, 1, Last(kept))
  BY <1>4 DEF Trimmed
<1> HIDE DEF kept
<1>6. ASSUME NEW m \in Nat, t \in Seq(Byte), Len(t) = m, m <= n,
             type.left => /\ \A i \in 1 .. n - m : s[i] = pad
                          /\ \A i \in 1 .. m : t[i] = s[n - m + i],
             ~ type.left => /\ \A i \in m + 1 .. n : s[i] = pad
                            /\ \A i \in 1 .. m : t[i] = s[i]
      PROVE  Fitted(type, t) = s
  <2>1. CASE m = n
    <3>1. Fitted(type, t) = SubSeq(t, 1, n)
      BY <1>1, <1>6, <2>1 DEF Fitted
    <3>2. SubSeq(t, 1, n) = t
      BY <1>6, <2>1, SubSeqFull
    <3>3. \A i \in 1 .. n : t[i] = s[i]
      BY <1>6, <2>1
    <3>4. t = s
      BY <1>1, <1>6, <2>1, <3>3, SeqEqual
    <3> QED
      BY <3>1, <3>2, <3>4
  <2>2. CASE m # n
    <3> DEFINE p == [i \in 1 .. n - m |-> pad]
    <3>1. Fitted(type, t) = IF type.left THEN p \o t ELSE t \o p
      BY <1>1, <1>6, <2>2 DEF Fitted
    <3>2. n - m \in Nat
      BY <1>6
    <3>3. p \in Seq(Byte) /\ Len(p) = n - m /\ \A i \in 1 .. n - m : p[i] = pad
      BY <3>2
    <3> HIDE DEF p
    <3>4. CASE type.left
      <4>1. /\ p \o t \in Seq(Byte) /\ Len(p \o t) = Len(p) + Len(t)
            /\ \A i \in 1 .. Len(p) + Len(t) :
                 (p \o t)[i] = IF i <= Len(p) THEN p[i] ELSE t[i - Len(p)]
        <5>1. p \in Seq(Byte) /\ t \in Seq(Byte)
          BY <1>6, <3>3
        <5> QED
          BY <5>1, ConcatProperties
      <4>2. ASSUME NEW i \in 1 .. n PROVE (p \o t)[i] = s[i]
        <5>1. (p \o t)[i] = IF i <= n - m THEN p[i] ELSE t[i - (n - m)]
          BY <1>6, <3>2, <3>3, <4>1
        <5>2. CASE i <= n - m
          BY <1>6, <3>3, <3>4, <5>1, <5>2
        <5>3. CASE ~(i <= n - m)
          <6>1. PICK j \in 1 .. m : j = i - (n - m) /\ n - m + j = i
            BY <1>6, <5>3
          <6> QED
            BY <1>6, <3>4, <5>1, <5>3, <6>1
        <5> QED
          BY <5>2, <5>3
      <4>3. Len(p \o t) = n
        BY <1>6, <3>2, <3>3, <4>1
      <4>4. p \o t = s
        BY <1>1, <4>1, <4>2, <4>3, SeqEqual
      <4> QED
        BY <3>1, <3>4, <4>4
    <3>5. CASE ~ type.left
      <4>1. /\ t \o p \in Seq(Byte) /\ Len(t \o p) = Len(t) + Len(p)
            /\ \A i \in 1 .. Len(t) + Len(p) :
                 (t \o p)[i] = IF i <= Len(t) THEN t[i] ELSE p[i - Len(t)]
        <5>1. p \in Seq(Byte) /\ t \in Seq(Byte)
          BY <1>6, <3>3
        <5> QED
          BY <5>1, ConcatProperties
      <4>2. ASSUME NEW i \in 1 .. n PROVE (t \o p)[i] = s[i]
        <5>1. (t \o p)[i] = IF i <= m THEN t[i] ELSE p[i - m]
          BY <1>6, <3>2, <3>3, <4>1
        <5>2. CASE i <= m
          BY <1>6, <3>5, <5>1, <5>2
        <5>3. CASE ~(i <= m)
          <6>1. i \in m + 1 .. n /\ i - m \in 1 .. n - m
            BY <1>6, <5>3
          <6> QED
            BY <1>6, <3>3, <3>5, <5>1, <5>3, <6>1
        <5> QED
          BY <5>2, <5>3
      <4>3. Len(t \o p) = n
        BY <1>6, <3>2, <3>3, <4>1
      <4>4. t \o p = s
        BY <1>1, <4>1, <4>2, <4>3, SeqEqual
      <4> QED
        BY <3>1, <3>5, <4>4
    <3> QED
      BY <3>4, <3>5
  <2> QED
    BY <2>1, <2>2
<1>7. CASE kept = {}
  <2>1. t = <<>>
    BY <1>5, <1>7
  <2>2. t \in Seq(Byte) /\ Len(t) = 0
    BY <2>1, EmptySeq
  <2>3. \A i \in 1 .. n : s[i] = pad
    BY <1>2, <1>7
  <2>4. Fitted(type, t) = s
    BY <1>6, <2>2, <2>3
  <2> QED
    BY <1>4, <2>2, <2>4
<1>8. CASE kept # {} /\ type.left
  <2>1. PICK f : f = First(kept)
    OBVIOUS
  <2>2. f \in kept /\ \A j \in kept : f <= j
    BY <1>2, <1>8, <2>1, FirstIsLeast
  <2>3. f \in 1 .. n
    BY <1>2, <2>2
  <2>4. t = SubSeq(s, f, n)
    BY <1>1, <1>5, <1>8, <2>1
  <2>5. \A i \in f .. n : s[i] \in Byte
    BY <1>3, <2>3
  <2>6. /\ t \in Seq(Byte)
        /\ Len(t) = IF f <= n THEN n - f + 1 ELSE 0
        /\ \A i \in 1 .. n - f + 1 : t[i] = s[f + i - 1]
    BY <2>3, <2>4, <2>5, SubSeqProperties
  <2>7. PICK m \in Nat : m = n - f + 1
    BY <2>3
  <2>8. Len(t) = m /\ m <= n
    BY <2>3, <2>6, <2>7
  <2>9. \A i \in 1 .. n - m : s[i] = pad
    <3> SUFFICES ASSUME NEW i \in 1 .. n - m PROVE s[i] = pad
      OBVIOUS
    <3>1. i \in 1 .. n /\ ~(f <= i)
      BY <2>3, <2>7
    <3> QED
      BY <1>2, <2>2, <3>1
  <2>10. \A i \in 1 .. m : t[i] = s[n - m + i]
    <3> SUFFICES ASSUME NEW i \in 1 .. m PROVE t[i] = s[n - m + i]
      OBVIOUS
    <3>1. i \in 1 .. n - f + 1 /\ n - m + i = f + i - 1
      BY <2>3, <2>7
    <3> QED
      BY <2>6, <3>1
  <2>11. Fitted(type, t) = s
    BY <1>6, <1>8, <2>6, <2>8, <2>9, <2>10
  <2> QED
    BY <1>4, <2>6, <2>11
<1>9. CASE kept # {} /\ ~ type.left
  <2>1. PICK m : m = Last(kept)
    OBVIOUS
  <2>2. m \in kept /\ \A j \in kept : j <= m
    BY <1>2, <1>9, <2>1, LastIsGreatest
  <2>3. m \in 1 .. n
    BY <1>2, <2>2
  <2>4. t = SubSeq(s, 1, m)
    BY <1>5, <1>9, <2>1
  <2>5. \A i \in 1 .. m : s[i] \in Byte
    BY <1>3, <2>3
  <2>6. /\ t \in Seq(Byte)
        /\ Len(t) = IF 1 <= m THEN m - 1 + 1 ELSE 0
        /\ \A i \in 1 .. m - 1 + 1 : t[i] = s[1 + i - 1]
    BY <2>3, <2>4, <2>5, SubSeqProperties
  <2>7. Len(t) = m /\ m <= n
    BY <2>3, <2>6
  <2>8. \A i \in m + 1 .. n : s[i] = pad
    <3> SUFFICES ASSUME NEW i \in m + 1 .. n PROVE s[i] = pad
      OBVIOUS
    <3>1. i \in 1 .. n /\ ~(i <= m)
      BY <2>3
    <3> QED
      BY <1>2, <2>2, <3>1
  <2>9. \A i \in 1 .. m : t[i] = s[i]
    BY <2>3, <2>6
  <2>10. Fitted(type, t) = s
    BY <1>6, <1>9, <2>3, <2>6, <2>7, <2>8, <2>9
  <2> QED
    BY <1>4, <2>6, <2>10
<1> QED
  BY <1>7, <1>8, <1>9

-----------------------------------------------------------------------------
(* The hypothesis: what Receiver and an object inside an object take from  *)
(* outside is what Encoding, Decoding and Members say of any object, as it *)
(* is once Wire and MCReceiver have tied them together.                    *)
SameCode ==
  /\ \A o, unset : HasMembers(o, unset) =>
       /\ PutNested(o) = PutObject(o) /\ Encoded(o) = PutObject(o)
       /\ \A b \in ByteBufs :
            DecodeNested(b, o) = DecodeInto(b, o) /\ DecodedInto(b, o) = DecodeInto(b, o)
       /\ \A kinds, value :
            /\ PathsToNested(o, kinds, value) = PathsTo(o, kinds, value)
            /\ Paths(o, kinds, value) = PathsTo(o, kinds, value)
  /\ \A class \in DOMAIN Classes : \A number :
       /\ NewNested(class, number) = New(class, number)
       /\ NewObject(class, number) = New(class, number)
  /\ \A o, unset : ClassOf(o) \in DOMAIN Classes =>
       /\ HasMembersNested(o, unset) <=> HasMembers(o, unset)
       /\ IsWhole(o, unset) <=> HasMembers(o, unset)

Outs == {"ok", "out_of_range", "no_such_type"}

(* The definitions by cases, for the provers that know no CASE.            *)
LEMMA PutElementCases ==
  ASSUME NEW type, NEW v
  PROVE  /\ type.kind = "octet" => PutElement(type, v) = Uncounted(LittleEndian(v, 1))
         /\ type.kind = "int" => PutElement(type, v) = Counted(LittleEndian(v, type.width))
         /\ type.kind = "text" => PutElement(type, v) = PutText(type.prefix, v)
         /\ type.kind = "fixed" => PutElement(type, v) = Uncounted(Fitted(type, v))
         /\ type.kind \in {"struct", "dynamic"} => PutElement(type, v) = PutNested(v)
BY Zenon DEF PutElement

LEMMA TakeElementCases ==
  ASSUME NEW type, NEW b
  PROVE  /\ type.kind = "octet" => TakeElement(b, type) = TakeInt(b, 1, type.signed)
         /\ type.kind = "int" => TakeElement(b, type) = TakeInt(b, type.width, type.signed)
         /\ type.kind = "text" => TakeElement(b, type) = TakeText(b, type.prefix)
         /\ type.kind = "fixed" => TakeElement(b, type) = TakeFixed(b, type)
         /\ type.kind = "struct" =>
              TakeElement(b, type) = DecodeNested(b, NewNested(type.class, 0))
BY Zenon DEF TakeElement

LEMMA ElementFitsCases ==
  ASSUME NEW type, NEW v, NEW unset
  PROVE  /\ type.kind \in {"octet", "int"} =>
              (ElementFits(type, v, unset) <=> v \in unset \/ v \in Numbers(type))
         /\ type.kind \in {"text", "fixed"} =>
              (ElementFits(type, v, unset) <=> v \in Seq(Byte))
         /\ type.kind = "struct" =>
              (ElementFits(type, v, unset) <=>
                 ClassOf(v) = type.class /\ HasMembersNested(v, unset))
BY Zenon DEF ElementFits

LEMMA MemberFitsCases ==
  ASSUME NEW type, NEW v, NEW unset
  PROVE  /\ type.kind = "list" =>
              (MemberFits(type, v, unset) <=>
                 /\ v \in Seq({v[i] : i \in DOMAIN v})
                 /\ \A i \in DOMAIN v : ElementFits(type.element, v[i], unset))
         /\ type.kind = "dynamic" =>
              (MemberFits(type, v, unset) <=>
                 \/ v = Null
                 \/ ClassOf(v) \in Makes(type) /\ HasMembersNested(v, unset))
         /\ type.kind \notin {"list", "dynamic"} =>
              (MemberFits(type, v, unset) <=> ElementFits(type, v, unset))
BY Zenon DEF MemberFits

LEMMA TakeFieldCases ==
  ASSUME NEW b, NEW type, NEW old, NEW content
  PROVE  /\ type.kind = "struct" => TakeField(b, type, old, content) = DecodeNested(b, old)
         /\ type.kind = "dynamic" =>
              TakeField(b, type, old, content) = TakeDynamic(b, type, content[type.key], old)
         /\ type.kind = "list" =>
              TakeField(b, type, old, content) = Kept(TakeList(b, type), old)
         /\ type.kind \notin {"struct", "dynamic", "list"} =>
              TakeField(b, type, old, content) = Kept(TakeElement(b, type), old)
BY Zenon DEF TakeField

LEMMA InitialCases ==
  ASSUME NEW type, NEW number
  PROVE  /\ type.kind \in {"octet", "int"} => InitialOf(type, number) = number
         /\ type.kind \in {"text", "fixed", "list"} => InitialOf(type, number) = <<>>
         /\ type.kind = "struct" => InitialOf(type, number) = NewNested(type.class, number)
         /\ type.kind = "dynamic" => InitialOf(type, number) = Null
BY Zenon DEF InitialOf

-----------------------------------------------------------------------------
(* Texts and strings of a fixed size.                                      *)
LEMMA TakeTextReads ==
  ASSUME NEW b \in Cursors, NEW prefix \in Nat \ {0}, NEW r, r = TakeText(b, prefix)
  PROVE  /\ Reaches(b, r.buf)
         /\ r.outcome \in {"ok", "out_of_range"}
         /\ r.outcome = "ok" =>
              /\ r.value \in Seq(Byte)
              /\ PutText(prefix, r.value).bytes = Taken(b, r.buf)
<1>1. PICK t : t = TakeInt(b, prefix, FALSE)
  OBVIOUS
<1>2. /\ Reaches(b, t.buf)
      /\ t.outcome \in {"ok", "out_of_range"}
      /\ t.outcome = "ok" =>
           /\ t.value \in Int
           /\ LittleEndian(t.value, prefix) = Taken(b, t.buf)
           /\ t.value \in 0 .. Patterns(prefix) - 1
  BY <1>1, TakeIntReads
<1>3. CASE t.outcome # "ok"
  <2>1. r = t
    BY <1>1, <1>3 DEF TakeText, Characters
  <2> QED
    BY <1>2, <1>3, <2>1
<1>4. CASE t.outcome = "ok"
  <2>1. r = ReadBytes(t.buf, t.value)
    BY <1>1, <1>4 DEF TakeText, Characters
  <2>2. t.buf \in Cursors /\ t.value \in Nat
    BY <1>2, <1>4 DEF Reaches
  <2>3. /\ Reaches(t.buf, r.buf)
        /\ r.outcome \in {"ok", "out_of_range"}
        /\ r.outcome = "ok" =>
             /\ r.value = Taken(t.buf, r.buf)
             /\ r.value \in Seq(Byte) /\ Len(r.value) = t.value
    BY <2>1, <2>2, ReadBytesReads
  <2>4. Reaches(b, r.buf)
    BY <1>2, <2>3, ReachesOn
  <2>5. ASSUME r.outcome = "ok"
        PROVE  PutText(prefix, r.value).bytes = Taken(b, r.buf)
    <3>1. PutText(prefix, r.value).bytes = LittleEndian(t.value, prefix) \o r.value
      BY <2>3, <2>5 DEF PutText, Joined, Prefix, Counted, Uncounted
    <3>2. Taken(b, r.buf) = Taken(b, t.buf) \o Taken(t.buf, r.buf)
      BY <1>2, <2>3, TakenOn
    <3> QED
      BY <1>2, <1>4, <2>3, <2>5, <3>1, <3>2
  <2> QED
    BY <2>3, <2>4, <2>5
<1> QED
  BY <1>3, <1>4

LEMMA TakeTextSame ==
  ASSUME NEW b, NEW e, Extends(b, e), NEW prefix \in Nat \ {0},
         NEW r, r = TakeText(b, prefix), NEW q, q = TakeText(e, prefix)
  PROVE  Same(r, q, b, e)
<1>1. PICK t, u : t = TakeInt(b, prefix, FALSE) /\ u = TakeInt(e, prefix, FALSE)
  OBVIOUS
<1>2. Same(t, u, b, e)
  BY <1>1, TakeIntSame
<1>3. b \in Cursors /\ e \in Cursors
  BY DEF Extends
<1>4. /\ Reaches(b, t.buf)
      /\ t.outcome = "ok" => t.value \in Int /\ t.value \in 0 .. Patterns(prefix) - 1
  BY <1>1, <1>3, TakeIntReads
<1>5. Reaches(e, u.buf)
  BY <1>1, <1>3, TakeIntReads
<1>6. r = IF t.outcome = "ok" THEN ReadBytes(t.buf, t.value) ELSE t
  BY <1>1 DEF TakeText, Characters
<1>7. q = IF u.outcome = "ok" THEN ReadBytes(u.buf, u.value) ELSE u
  BY <1>1 DEF TakeText, Characters
<1> SUFFICES ASSUME r.outcome # "out_of_range" \/ b.buffer = e.buffer
             PROVE  /\ q.outcome = r.outcome
                    /\ q.buf.reader_index = r.buf.reader_index
                    /\ r.outcome = "ok" => q.value = r.value
  BY DEF Same
<1>8. CASE t.outcome = "ok"
  <2>1. u.outcome = "ok" /\ u.buf.reader_index = t.buf.reader_index /\ u.value = t.value
    BY <1>2, <1>8 DEF Same
  <2>2. Extends(t.buf, u.buf) /\ (t.buf.buffer = u.buf.buffer <=> b.buffer = e.buffer)
    BY <1>4, <1>5, <2>1, ExtendsOn
  <2>3. t.value \in Nat
    BY <1>4, <1>8
  <2>4. Same(r, q, t.buf, u.buf)
    BY <1>6, <1>7, <1>8, <2>1, <2>2, <2>3, ReadBytesSame
  <2> QED
    BY <2>2, <2>4 DEF Same
<1>9. CASE t.outcome # "ok"
  <2>1. t.outcome # "out_of_range" \/ b.buffer = e.buffer
    BY <1>6, <1>9
  <2>2. u.outcome = t.outcome /\ u.buf.reader_index = t.buf.reader_index
    BY <1>2, <2>1 DEF Same
  <2> QED
    BY <1>6, <1>7, <1>9, <2>2
<1> QED
  BY <1>8, <1>9

LEMMA TakeFixedReads ==
  ASSUME NEW b \in Cursors, NEW type, type.size \in Nat, type.pad \in Byte,
         type.left \in BOOLEAN, NEW r, r = TakeFixed(b, type)
  PROVE  /\ Reaches(b, r.buf)
         /\ r.outcome \in {"ok", "out_of_range"}
         /\ r.outcome = "ok" <=> b.reader_index + type.size <= Len(b.buffer)
         /\ r.outcome = "ok" =>
              /\ r.buf.reader_index = b.reader_index + type.size
              /\ r.value \in Seq(Byte)
              /\ Fitted(type, r.value) = Taken(b, r.buf)
         /\ r.outcome # "ok" => r.buf = b
<1>1. PICK size \in Nat : size = type.size
  OBVIOUS
<1>2. PICK t : t = ReadBytes(b, size)
  OBVIOUS
<1>3. /\ Reaches(b, t.buf)
      /\ t.outcome \in {"ok", "out_of_range"}
      /\ t.outcome = "ok" <=> b.reader_index + size <= Len(b.buffer)
      /\ t.outcome = "ok" =>
           /\ t.buf.reader_index = b.reader_index + size
           /\ t.value = Taken(b, t.buf)
           /\ t.value \in Seq(Byte) /\ Len(t.value) = size
      /\ t.outcome # "ok" => t.buf = b
  BY <1>2, ReadBytesReads
<1>4. CASE t.outcome = "ok"
  <2>1. PICK v : v = Trimmed(type, t.value)
    OBVIOUS
  <2>2. r = Ok(t.buf, v)
    BY <1>1, <1>2, <1>4, <2>1 DEF TakeFixed, AsText
  <2>3. r.outcome = "ok" /\ r.buf = t.buf /\ r.value = v
    BY <2>2 DEF Ok
  <2>4. v \in Seq(Byte) /\ Fitted(type, v) = t.value
    BY <1>1, <1>3, <1>4, <2>1, TrimmedFits
  <2> QED
    BY <1>1, <1>3, <1>4, <2>3, <2>4
<1>5. CASE t.outcome # "ok"
  <2>1. r = t
    BY <1>1, <1>2, <1>5 DEF TakeFixed, AsText
  <2> QED
    BY <1>1, <1>3, <1>5, <2>1
<1> QED
  BY <1>4, <1>5

LEMMA TakeFixedSame ==
  ASSUME NEW b, NEW e, Extends(b, e), NEW type, type.size \in Nat,
         NEW r, r = TakeFixed(b, type), NEW q, q = TakeFixed(e, type)
  PROVE  Same(r, q, b, e)
<1>1. PICK t, u : t = ReadBytes(b, type.size) /\ u = ReadBytes(e, type.size)
  OBVIOUS
<1>2. Same(t, u, b, e)
  BY <1>1, ReadBytesSame
<1>3. t.outcome = "ok" => r = Ok(t.buf, Trimmed(type, t.value))
  BY <1>1 DEF TakeFixed, AsText
<1>4. t.outcome # "ok" => r = t
  BY <1>1 DEF TakeFixed, AsText
<1>5. u.outcome = "ok" => q = Ok(u.buf, Trimmed(type, u.value))
  BY <1>1 DEF TakeFixed, AsText
<1>6. u.outcome # "ok" => q = u
  BY <1>1 DEF TakeFixed, AsText
<1>7. t.outcome = "ok" =>
        r.outcome = "ok" /\ r.buf = t.buf /\ r.value = Trimmed(type, t.value)
  BY <1>3 DEF Ok
<1>8. u.outcome = "ok" =>
        q.outcome = "ok" /\ q.buf = u.buf /\ q.value = Trimmed(type, u.value)
  BY <1>5 DEF Ok
<1>9. r.outcome = t.outcome
  BY <1>4, <1>7
<1> SUFFICES ASSUME r.outcome # "out_of_range" \/ b.buffer = e.buffer
             PROVE  /\ q.outcome = r.outcome
                    /\ q.buf.reader_index = r.buf.reader_index
                    /\ r.outcome = "ok" => q.value = r.value
  BY DEF Same
<1>10. /\ u.outcome = t.outcome
       /\ u.buf.reader_index = t.buf.reader_index
       /\ t.outcome = "ok" => u.value = t.value
  BY <1>2, <1>9 DEF Same
<1>11. CASE t.outcome = "ok"
  BY <1>7, <1>8, <1>10, <1>11
<1>12. CASE t.outcome # "ok"
  BY <1>4, <1>6, <1>10, <1>12
<1> QED
  BY <1>11, <1>12

-----------------------------------------------------------------------------
(* New objects.                                                            *)
LEMMA PatternsPositive ==
  ASSUME NEW w \in Nat
  PROVE  Patterns(w) \in Nat /\ Patterns(w) >= 1
<1>1. \E p : /\ p[0] = 1 /\ \A i \in 1 .. w : p[i] = p[i - 1] * Radix
             /\ Patterns(w) = p[w]
  BY PatternsPowers
<1>2. PICK p : /\ p[0] = 1 /\ \A i \in 1 .. w : p[i] = p[i - 1] * Radix
               /\ Patterns(w) = p[w]
  BY <1>1
<1> DEFINE T == {i \in Nat : i <= w => p[i] \in Nat /\ p[i] >= 1}
<1>3. 0 \in T
  BY <1>2
<1>4. ASSUME NEW i \in Nat, i \in T PROVE i + 1 \in T
  <2> SUFFICES ASSUME i + 1 <= w PROVE p[i + 1] \in Nat /\ p[i + 1] >= 1
    OBVIOUS
  <2>1. p[i + 1] = p[i] * Radix
    BY <1>2
  <2>2. p[i] \in Nat /\ p[i] >= 1 /\ Radix \in Nat /\ Radix >= 1
    BY <1>4, RadixAssumption
  <2>3. \A x, y \in Nat : x >= 1 /\ y >= 1 => x * y \in Nat /\ x * y >= 1
    OBVIOUS
  <2> QED
    BY <2>1, <2>2, <2>3
<1> HIDE DEF T
<1>5. w \in T
  BY <1>3, <1>4, SetInduction
<1> QED
  BY <1>2, <1>5 DEF T

LEMMA ZeroIsNumber ==
  ASSUME NEW type, IsElement(type), type.kind \in {"octet", "int"}
  PROVE  0 \in Numbers(type)
<1>1. PICK w \in Nat : w = IF type.kind = "octet" THEN 1 ELSE type.width
  BY DEF IsElement
<1>2. PICK p \in Nat : p = Patterns(w) /\ p >= 1
  BY PatternsPositive
<1>3. Numbers(type) = IF type.signed THEN -(p \div 2) .. p - (p \div 2) - 1 ELSE 0 .. p - 1
  BY <1>1, <1>2 DEF Numbers
<1>4. p \div 2 \in Nat /\ p \div 2 < p
  BY <1>2
<1> QED
  BY <1>3, <1>4

LEMMA TypeOfMember ==
  ASSUME NEW layout, IsLayout(layout), NEW i \in DOMAIN layout
  PROVE  TypeOf(layout, layout[i][1]) = layout[i][2]
<1>1. \A j \in DOMAIN layout : layout[j][1] = layout[i][1] => j = i
  BY DEF IsLayout
<1>2. (CHOOSE j \in DOMAIN layout : layout[j][1] = layout[i][1]) = i
  BY <1>1
<1> QED
  BY <1>2 DEF TypeOf

(* The members of an object of a class, by their names.                    *)
IsContent(layout, content, unset) ==
  /\ content = [name \in NamesOf(layout) |-> content[name]]
  /\ \A i \in DOMAIN layout : MemberFits(layout[i][2], content[layout[i][1]], unset)

LEMMA ObjectIs ==
  ASSUME NEW o, NEW unset, HasMembers(o, unset)
  PROVE  /\ ClassOf(o) \in DOMAIN Classes
         /\ o = Obj(ClassOf(o), ContentOf(o))
         /\ IsContent(Classes[ClassOf(o)], ContentOf(o), unset)
         /\ o # Null
<1>1. PICK class, content :
        /\ class = ClassOf(o)
        /\ content = [name \in NamesOf(Classes[class]) |-> ContentOf(o)[name]]
  OBVIOUS
<1>2. class \in DOMAIN Classes /\ o = Obj(class, content)
      /\ \A i \in DOMAIN Classes[class] :
           MemberFits(Classes[class][i][2], ContentOf(o)[Classes[class][i][1]], unset)
  BY <1>1 DEF HasMembers
<1>3. o = <<class, content>>
  BY <1>2 DEF Obj
<1>4. ContentOf(o) = content
  BY <1>3 DEF ContentOf
<1>5. content = [name \in NamesOf(Classes[class]) |-> content[name]]
  BY <1>1, <1>4
<1>6. o # Null
  BY <1>3 DEF Null
<1> QED
  BY <1>1, <1>2, <1>4, <1>5, <1>6 DEF IsContent

LEMMA ObjectOf ==
  ASSUME NEW class \in DOMAIN Classes, NEW content, NEW unset,
         IsContent(Classes[class], content, unset)
  PROVE  /\ HasMembers(Obj(class, content), unset)
         /\ ClassOf(Obj(class, content)) = class
         /\ ContentOf(Obj(class, content)) = content
<1>1. PICK o : o = Obj(class, content)
  OBVIOUS
<1>2. ClassOf(o) = class /\ ContentOf(o) = content
  BY <1>1 DEF Obj, ClassOf, ContentOf
<1>3. HasMembers(o, unset)
  BY <1>1, <1>2 DEF HasMembers, IsContent
<1> QED
  BY <1>1, <1>2, <1>3

(* A class whose new objects have its members.                             *)
NewFits == {class \in DOMAIN Classes : \A number, unset :
              number \in unset \/ number = 0 =>
                /\ HasMembers(New(class, number), unset)
                /\ ClassOf(New(class, number)) = class}

LEMMA InitialFits ==
  ASSUME SameCode, NEW type, IsMember(type), ClassesIn(type) \subseteq NewFits,
         NEW number, NEW unset, number \in unset \/ number = 0
  PROVE  MemberFits(type, InitialOf(type, number), unset)
<1>1. CASE type.kind \in {"octet", "int"}
  <2>1. InitialOf(type, number) = number
    BY <1>1, InitialCases
  <2>2. IsElement(type)
    BY <1>1 DEF IsMember
  <2>3. number \in unset \/ number \in Numbers(type)
    BY <1>1, <2>2, ZeroIsNumber
  <2> QED
    BY <1>1, <2>1, <2>3, MemberFitsCases, ElementFitsCases
<1>2. CASE type.kind \in {"text", "fixed"}
  <2>1. PICK v : v = <<>>
    OBVIOUS
  <2>2. InitialOf(type, number) = v
    BY <1>2, <2>1, InitialCases
  <2>3. v \in Seq(Byte)
    BY <2>1
  <2>4. ElementFits(type, v, unset)
    BY <1>2, <2>3, ElementFitsCases
  <2> QED
    BY <1>2, <2>2, <2>4, MemberFitsCases
<1>3. CASE type.kind = "list"
  <2>1. PICK v : v = <<>>
    OBVIOUS
  <2>2. InitialOf(type, number) = v
    BY <1>3, <2>1, InitialCases
  <2>3. DOMAIN v = {} /\ v \in Seq({v[i] : i \in DOMAIN v})
    BY <2>1
  <2>4. \A i \in DOMAIN v : ElementFits(type.element, v[i], unset)
    BY <2>3
  <2> QED
    BY <1>3, <2>2, <2>3, <2>4, MemberFitsCases
<1>4. CASE type.kind = "struct"
  <2>1. type.class \in NewFits
    BY <1>4, InsideCases
  <2>2. PICK v : v = New(type.class, number)
    OBVIOUS
  <2>3. HasMembers(v, unset) /\ ClassOf(v) = type.class /\ type.class \in DOMAIN Classes
    BY <2>1, <2>2 DEF NewFits
  <2>4. InitialOf(type, number) = v
    BY <1>4, <2>2, <2>3, InitialCases DEF SameCode
  <2>5. HasMembersNested(v, unset)
    BY <2>3 DEF SameCode
  <2>6. ElementFits(type, v, unset)
    BY <1>4, <2>3, <2>5, ElementFitsCases
  <2> QED
    BY <1>4, <2>4, <2>6, MemberFitsCases
<1>5. CASE type.kind = "dynamic"
  BY <1>5, InitialCases, MemberFitsCases
<1> QED
  BY <1>1, <1>2, <1>3, <1>4, <1>5 DEF IsMember, IsElement

LEMMA NewHasMembers ==
  ASSUME SameCode
  PROVE  DOMAIN Classes \subseteq NewFits
<1>1. ASSUME NEW class \in DOMAIN Classes, ClassesInside(class) \subseteq NewFits
      PROVE  class \in NewFits
  <2>1. PICK layout : layout = Classes[class]
    OBVIOUS
  <2>2. IsLayout(layout)
    BY <2>1, ClassesAssumption
  <2> SUFFICES ASSUME NEW number, NEW unset, number \in unset \/ number = 0
               PROVE  /\ HasMembers(New(class, number), unset)
                      /\ ClassOf(New(class, number)) = class
    BY DEF NewFits
  <2>3. PICK content : content = [name \in NamesOf(layout) |-> InitialOf(TypeOf(layout, name), number)]
    OBVIOUS
  <2>4. New(class, number) = Obj(class, content)
    BY <2>1, <2>3 DEF New
  <2>5. ASSUME NEW i \in DOMAIN layout
        PROVE  MemberFits(layout[i][2], content[layout[i][1]], unset)
    <3>1. layout[i][1] \in NamesOf(layout) /\ TypeOf(layout, layout[i][1]) = layout[i][2]
      BY <2>2, TypeOfMember DEF NamesOf
    <3>2. content[layout[i][1]] = InitialOf(layout[i][2], number)
      BY <2>3, <3>1
    <3>3. IsMember(layout[i][2])
      BY <2>2 DEF IsLayout
    <3>4. ClassesIn(layout[i][2]) \subseteq NewFits
      BY <1>1, <2>1 DEF ClassesInside
    <3> QED
      BY <3>2, <3>3, <3>4, InitialFits
  <2>6. content = [name \in NamesOf(layout) |-> content[name]]
    BY <2>3
  <2>7. IsContent(Classes[class], content, unset)
    BY <2>1, <2>5, <2>6 DEF IsContent
  <2> QED
    BY <2>4, <2>7, ObjectOf
<1> QED
  BY <1>1, DepthInduction

LEMMA NewObjectFits ==
  ASSUME SameCode, NEW class \in DOMAIN Classes, NEW number, NEW unset,
         number \in unset \/ number = 0, NEW o, o = New(class, number)
  PROVE  /\ NewNested(class, number) = o /\ NewObject(class, number) = o
         /\ HasMembers(o, unset) /\ ClassOf(o) = class
<1>1. class \in NewFits
  BY NewHasMembers
<1>2. HasMembers(o, unset) /\ ClassOf(o) = class
  BY <1>1 DEF NewFits
<1>3. NewNested(class, number) = o /\ NewObject(class, number) = o
  BY DEF SameCode
<1> QED
  BY <1>2, <1>3

-----------------------------------------------------------------------------
(* What decode() of an object did, when it reads what encode() writes.     *)
ObjectTaken(r, b, o, unset) ==
  /\ Reaches(b, r.buf)
  /\ r.outcome \in Outs
  /\ ClassOf(r.value) = ClassOf(o)
  /\ HasMembers(r.value, unset)
  /\ r.outcome = "ok" =>
       /\ \A any : HasMembers(r.value, any)
       /\ PutObject(r.value).bytes = Taken(b, r.buf)
       /\ PathsTo(r.value, {"dynamic"}, Null) = {}

(* A class whose objects decode so.                                        *)
ReadsRight ==
  {class \in DOMAIN Classes :
     \A o, unset : ClassOf(o) = class /\ HasMembers(o, unset) =>
       \A b \in Cursors : ObjectTaken(DecodeInto(b, o), b, o, unset)}

ElementTaken(r, b, type) ==
  /\ Reaches(b, r.buf)
  /\ r.outcome \in Outs
  /\ r.outcome = "ok" =>
       /\ PutElement(type, r.value).bytes = Taken(b, r.buf)
       /\ \A unset : ElementFits(type, r.value, unset)

LEMMA NestedTaken ==
  ASSUME SameCode, NEW o, NEW unset, HasMembers(o, unset), ClassOf(o) \in ReadsRight,
         NEW b \in Cursors, NEW r, r = DecodeNested(b, o)
  PROVE  /\ Reaches(b, r.buf)
         /\ r.outcome \in Outs
         /\ ClassOf(r.value) = ClassOf(o)
         /\ HasMembersNested(r.value, unset)
         /\ r.value # Null
         /\ r.outcome = "ok" =>
              /\ \A any : HasMembersNested(r.value, any)
              /\ PutNested(r.value).bytes = Taken(b, r.buf)
              /\ PathsToNested(r.value, {"dynamic"}, Null) = {}
<1>1. b \in ByteBufs
  BY DEF Cursors
<1>2. r = DecodeInto(b, o)
  BY <1>1 DEF SameCode
<1>3. ObjectTaken(r, b, o, unset)
  BY <1>2 DEF ReadsRight
<1>4. HasMembers(r.value, unset)
  BY <1>3 DEF ObjectTaken
<1>5. ClassOf(r.value) \in DOMAIN Classes /\ r.value # Null
  BY <1>4, ObjectIs
<1>6. \A any : HasMembersNested(r.value, any) <=> HasMembers(r.value, any)
  BY <1>5 DEF SameCode
<1>7. /\ PutNested(r.value) = PutObject(r.value)
      /\ PathsToNested(r.value, {"dynamic"}, Null) = PathsTo(r.value, {"dynamic"}, Null)
  BY <1>4 DEF SameCode
<1> QED
  BY <1>3, <1>5, <1>6, <1>7 DEF ObjectTaken

LEMMA ElementReads ==
  ASSUME SameCode, NEW type, IsElement(type),
         type.kind = "struct" => type.class \in ReadsRight,
         NEW b \in Cursors, NEW r, r = TakeElement(b, type)
  PROVE  ElementTaken(r, b, type)
<1>0. /\ "ok" \in Outs /\ "out_of_range" \in Outs
  BY DEF Outs
<1>1. CASE type.kind \in {"octet", "int"}
  <2>1. PICK w \in Nat \ {0}, signed \in BOOLEAN :
          /\ w = IF type.kind = "octet" THEN 1 ELSE type.width
          /\ signed = type.signed
    BY <1>1 DEF IsElement
  <2>2. signed => Radix % 2 = 0
    BY <1>1, <2>1 DEF IsElement
  <2>3. r = TakeInt(b, w, signed)
    BY <1>1, <2>1, TakeElementCases
  <2>4. /\ Reaches(b, r.buf)
        /\ r.outcome \in {"ok", "out_of_range"}
        /\ r.outcome = "ok" =>
             /\ r.value \in Int
             /\ LittleEndian(r.value, w) = Taken(b, r.buf)
             /\ ~ signed => r.value \in 0 .. Patterns(w) - 1
             /\ signed /\ Radix % 2 = 0 =>
                  r.value \in -(Patterns(w) \div 2) .. Patterns(w) - (Patterns(w) \div 2) - 1
    BY <2>3, TakeIntReads
  <2>5. PutElement(type, r.value) \in {Uncounted(LittleEndian(r.value, w)), Counted(LittleEndian(r.value, w))}
    BY <1>1, <2>1, PutElementCases
  <2>6. PutElement(type, r.value).bytes = LittleEndian(r.value, w)
    BY <2>5 DEF Counted, Uncounted
  <2>7. Numbers(type) = IF signed THEN -(Patterns(w) \div 2) .. Patterns(w) - (Patterns(w) \div 2) - 1
                        ELSE 0 .. Patterns(w) - 1
    BY <2>1 DEF Numbers
  <2>8. r.outcome = "ok" => r.value \in Numbers(type)
    BY <2>2, <2>4, <2>7
  <2>9. r.outcome = "ok" => \A unset : ElementFits(type, r.value, unset)
    BY <1>1, <2>8, ElementFitsCases
  <2> QED
    BY <1>0, <2>4, <2>6, <2>9 DEF ElementTaken
<1>2. CASE type.kind = "text"
  <2>1. type.prefix \in Nat \ {0}
    BY <1>2 DEF IsElement
  <2>2. r = TakeText(b, type.prefix)
    BY <1>2, TakeElementCases
  <2>3. /\ Reaches(b, r.buf)
        /\ r.outcome \in {"ok", "out_of_range"}
        /\ r.outcome = "ok" =>
             /\ r.value \in Seq(Byte)
             /\ PutText(type.prefix, r.value).bytes = Taken(b, r.buf)
    BY <2>1, <2>2, TakeTextReads
  <2>4. PutElement(type, r.value) = PutText(type.prefix, r.value)
    BY <1>2, PutElementCases
  <2>5. r.outcome = "ok" => \A unset : ElementFits(type, r.value, unset)
    BY <1>2, <2>3, ElementFitsCases
  <2> QED
    BY <1>0, <2>3, <2>4, <2>5 DEF ElementTaken
<1>3. CASE type.kind = "fixed"
  <2>1. type.size \in Nat /\ type.pad \in Byte /\ type.left \in BOOLEAN
    BY <1>3 DEF IsElement
  <2>2. r = TakeFixed(b, type)
    BY <1>3, TakeElementCases
  <2>3. /\ Reaches(b, r.buf)
        /\ r.outcome \in {"ok", "out_of_range"}
        /\ r.outcome = "ok" =>
             /\ r.value \in Seq(Byte)
             /\ Fitted(type, r.value) = Taken(b, r.buf)
    BY <2>1, <2>2, TakeFixedReads
  <2>4. PutElement(type, r.value) = Uncounted(Fitted(type, r.value))
    BY <1>3, PutElementCases
  <2>5. PutElement(type, r.value).bytes = Fitted(type, r.value)
    BY <2>4 DEF Uncounted
  <2>6. r.outcome = "ok" => \A unset : ElementFits(type, r.value, unset)
    BY <1>3, <2>3, ElementFitsCases
  <2> QED
    BY <1>0, <2>3, <2>5, <2>6 DEF ElementTaken
<1>4. CASE type.kind = "struct"
  <2>1. type.class \in ReadsRight /\ type.class \in DOMAIN Classes
    BY <1>4 DEF ReadsRight
  <2>2. PICK o : o = New(type.class, 0)
    OBVIOUS
  <2>3. NewNested(type.class, 0) = o /\ HasMembers(o, {}) /\ ClassOf(o) = type.class
    BY <2>1, <2>2, NewObjectFits
  <2>4. r = DecodeNested(b, o)
    BY <1>4, <2>3, TakeElementCases
  <2>5. /\ Reaches(b, r.buf)
        /\ r.outcome \in Outs
        /\ ClassOf(r.value) = ClassOf(o)
        /\ r.outcome = "ok" =>
             /\ \A any : HasMembersNested(r.value, any)
             /\ PutNested(r.value).bytes = Taken(b, r.buf)
    BY <2>1, <2>3, <2>4, NestedTaken
  <2>6. PutElement(type, r.value) = PutNested(r.value)
    BY <1>4, PutElementCases
  <2>7. r.outcome = "ok" => \A unset : ElementFits(type, r.value, unset)
    BY <1>4, <2>3, <2>5, ElementFitsCases
  <2> QED
    BY <2>5, <2>6, <2>7 DEF ElementTaken
<1> QED
  BY <1>1, <1>2, <1>3, <1>4 DEF IsElement

-----------------------------------------------------------------------------
LEMMA JoinedBytes ==
  ASSUME NEW c, NEW d
  PROVE  Joined(c, d).bytes = c.bytes \o d.bytes
BY DEF Joined

(* Lists that grow by one element after the other.                         *)
IsList(v, n) ==
  /\ n \in Nat /\ Len(v) = n /\ DOMAIN v = 1 .. n
  /\ v \in Seq({v[i] : i \in DOMAIN v})

Grown(w, v, n, x) ==
  /\ IsList(w, n + 1)
  /\ \A i \in 1 .. n : w[i] = v[i]
  /\ w[n + 1] = x

LEMMA AppendedList ==
  ASSUME NEW v, NEW n \in Nat, IsList(v, n), NEW x, NEW w, w = Append(v, x)
  PROVE  Grown(w, v, n, x)
<1> DEFINE S == {v[i] : i \in DOMAIN v} \cup {x}
<1>1. v \in Seq({v[i] : i \in DOMAIN v}) /\ n \in Nat /\ Len(v) = n /\ DOMAIN v = 1 .. n
  BY DEF IsList
<1>2. \A i \in 1 .. n : v[i] \in S
  BY <1>1
<1>3. v = [i \in 1 .. n |-> v[i]]
  BY <1>1
<1>4. v \in [1 .. n -> S]
  BY <1>2, <1>3
<1>5. v \in Seq(S) /\ x \in S
  BY <1>1, <1>4, SeqDef
<1> HIDE DEF S
<1>6. /\ w \in Seq(S) /\ Len(w) = n + 1
      /\ \A i \in 1 .. n : w[i] = v[i]
      /\ w[n + 1] = x
  BY <1>1, <1>5, AppendProperties
<1>7. PICK m \in Nat : m = n + 1
  BY <1>1
<1>8. DOMAIN w = 1 .. m /\ w = [i \in 1 .. m |-> w[i]]
  BY <1>6, <1>7, LenProperties
<1>9. PICK W : W = {w[i] : i \in DOMAIN w}
  OBVIOUS
<1>10. \A i \in 1 .. m : w[i] \in W
  BY <1>8, <1>9
<1>11. w \in [1 .. m -> W]
  BY <1>8, <1>10
<1>12. w \in Seq(W)
  BY <1>11, SeqDef
<1>13. IsList(w, m)
  BY <1>6, <1>7, <1>8, <1>9, <1>12 DEF IsList
<1> QED
  BY <1>6, <1>7, <1>13 DEF Grown

(* After i elements of a list.                                             *)
ElementsTaken(f, b, type, i) ==
  /\ Reaches(b, f[i].buf)
  /\ f[i].outcome \in Outs
  /\ f[i].outcome = "ok" =>
       /\ IsList(f[i].value, i)
       /\ \A k \in 1 .. i :
            /\ \A unset : ElementFits(type, f[i].value[k], unset)
            /\ Reaches(b, f[k - 1].buf) /\ Reaches(f[k - 1].buf, f[k].buf)
            /\ PutElement(type, f[i].value[k]).bytes = Taken(f[k - 1].buf, f[k].buf)

LEMMA ElementsReads ==
  ASSUME SameCode, NEW type, IsElement(type),
         type.kind = "struct" => type.class \in ReadsRight,
         NEW b \in Cursors, NEW n \in Nat, NEW f, ElementsLoop(f, b, type, n)
  PROVE  \A i \in 0 .. n : ElementsTaken(f, b, type, i)
<1> DEFINE T == {i \in Nat : i <= n => ElementsTaken(f, b, type, i)}
<1>1. 0 \in T
  <2>1. f[0] = Ok(b, <<>>)
    BY DEF ElementsLoop
  <2>2. f[0].outcome = "ok" /\ f[0].buf = b /\ f[0].value = <<>>
    BY <2>1 DEF Ok
  <2>3. PICK v : v = <<>>
    OBVIOUS
  <2>4. IsList(v, 0)
    BY <2>3 DEF IsList
  <2> QED
    BY <2>2, <2>3, <2>4, CursorType DEF ElementsTaken, Outs
<1>2. ASSUME NEW i \in Nat, i \in T PROVE i + 1 \in T
  <2> SUFFICES ASSUME i + 1 <= n PROVE ElementsTaken(f, b, type, i + 1)
    OBVIOUS
  <2>0. PICK j \in 1 .. n : j = i + 1
    OBVIOUS
  <2>1. PICK r : r = f[i] /\ j = i + 1
    BY <2>0
  <2>2. PICK s : s = f[j]
    OBVIOUS
  <2>3. s = NextElement(r, type) /\ f[j - 1] = r
    <3>1. j - 1 = i
      BY <2>0
    <3>2. f[j] = NextElement(f[j - 1], type)
      BY DEF ElementsLoop
    <3> QED
      BY <2>1, <2>2, <3>1, <3>2
  <2>4. ElementsTaken(f, b, type, i)
    BY <1>2
  <2>5. /\ Reaches(b, r.buf) /\ r.outcome \in Outs
        /\ r.outcome = "ok" =>
             /\ IsList(r.value, i)
             /\ \A k \in 1 .. i :
                  /\ \A unset : ElementFits(type, r.value[k], unset)
                  /\ Reaches(b, f[k - 1].buf) /\ Reaches(f[k - 1].buf, f[k].buf)
                  /\ PutElement(type, r.value[k]).bytes = Taken(f[k - 1].buf, f[k].buf)
    BY <2>1, <2>4 DEF ElementsTaken
  <2>6. CASE r.outcome # "ok"
    <3>1. s = r
      BY <2>3, <2>6 DEF NextElement
    <3> QED
      BY <2>1, <2>2, <2>5, <2>6, <3>1 DEF ElementsTaken
  <2>7. CASE r.outcome = "ok"
    <3>1. PICK e : e = TakeElement(r.buf, type)
      OBVIOUS
    <3>2. r.buf \in Cursors
      BY <2>5 DEF Reaches
    <3>3. ElementTaken(e, r.buf, type)
      BY <3>1, <3>2, ElementReads
    <3>4. s = IF e.outcome = "ok" THEN Ok(e.buf, Append(r.value, e.value)) ELSE e
      BY <2>3, <2>7, <3>1 DEF NextElement, Appended
    <3>5. s.buf = e.buf /\ s.outcome = e.outcome
      BY <3>4 DEF Ok
    <3>6. Reaches(r.buf, s.buf) /\ Reaches(b, s.buf) /\ s.outcome \in Outs
      BY <2>5, <3>3, <3>5, ReachesOn DEF ElementTaken
    <3>7. CASE s.outcome # "ok"
      BY <2>1, <2>2, <3>6, <3>7 DEF ElementsTaken
    <3>8. CASE s.outcome = "ok"
      <4>1. s.value = Append(r.value, e.value)
        BY <3>4, <3>5, <3>8 DEF Ok
      <4>2. PICK v, w, x : v = r.value /\ w = s.value /\ x = e.value
        OBVIOUS
      <4>3. IsList(v, i) /\ w = Append(v, x)
        BY <2>5, <2>7, <4>2, <4>1
      <4>4. Grown(w, v, i, x)
        BY <4>3, AppendedList
      <4>5. /\ IsList(s.value, i + 1)
            /\ \A k \in 1 .. i : s.value[k] = r.value[k]
            /\ s.value[i + 1] = e.value
        <5>1. Grown(s.value, r.value, i, e.value)
          BY <4>2, <4>4
        <5> QED
          BY <5>1 DEF Grown
      <4>6. /\ PutElement(type, e.value).bytes = Taken(r.buf, s.buf)
            /\ \A unset : ElementFits(type, e.value, unset)
        BY <3>3, <3>5, <3>8 DEF ElementTaken
      <4>7. ASSUME NEW k \in 1 .. j
            PROVE  /\ \A unset : ElementFits(type, s.value[k], unset)
                   /\ Reaches(b, f[k - 1].buf) /\ Reaches(f[k - 1].buf, f[k].buf)
                   /\ PutElement(type, s.value[k]).bytes = Taken(f[k - 1].buf, f[k].buf)
        <5>1. CASE k = j
          <6>1. s.value[k] = e.value /\ f[k - 1] = r /\ f[k] = s
            BY <2>1, <2>2, <2>3, <4>5, <5>1
          <6> QED
            BY <2>5, <3>6, <4>6, <6>1
        <5>2. CASE k # j
          <6>1. k \in 1 .. i
            BY <2>1, <5>2
          <6>2. s.value[k] = r.value[k]
            BY <4>5, <6>1
          <6> QED
            BY <2>5, <2>7, <6>1, <6>2
        <5> QED
          BY <5>1, <5>2
      <4>8. ElementsTaken(f, b, type, j)
        BY <2>1, <2>2, <3>6, <4>5, <4>7 DEF ElementsTaken
      <4> QED
        BY <2>1, <4>8
    <3> QED
      BY <3>7, <3>8
  <2> QED
    BY <2>6, <2>7
<1> HIDE DEF T
<1>3. Nat \subseteq T
  BY <1>1, <1>2, SetInduction
<1> QED
  BY <1>3 DEF T

LEMMA TakeElementsReads ==
  ASSUME SameCode, NEW type, IsElement(type),
         type.kind = "struct" => type.class \in ReadsRight,
         NEW b \in Cursors, NEW n \in Nat, NEW r, r = TakeElements(b, type, n)
  PROVE  /\ Reaches(b, r.buf)
         /\ r.outcome \in Outs
         /\ r.outcome = "ok" =>
              /\ IsList(r.value, n)
              /\ \A k \in 1 .. n : \A unset : ElementFits(type, r.value[k], unset)
              /\ PutElements(type, r.value).bytes = Taken(b, r.buf)
<1>1. PICK f : ElementsLoop(f, b, type, n) /\ r = f[n]
  BY TakeElementsLoop
<1>2. \A i \in 0 .. n : ElementsTaken(f, b, type, i)
  BY <1>1, ElementsReads
<1>3. ElementsTaken(f, b, type, n)
  BY <1>2
<1>4. Reaches(b, r.buf) /\ r.outcome \in Outs
  BY <1>1, <1>3 DEF ElementsTaken
<1>5. CASE r.outcome = "ok"
  <2>1. /\ IsList(r.value, n)
        /\ \A k \in 1 .. n :
             /\ \A unset : ElementFits(type, r.value[k], unset)
             /\ Reaches(b, f[k - 1].buf) /\ Reaches(f[k - 1].buf, f[k].buf)
             /\ PutElement(type, r.value[k]).bytes = Taken(f[k - 1].buf, f[k].buf)
    BY <1>1, <1>3, <1>5 DEF ElementsTaken
  <2>2. PICK list : list = r.value
    OBVIOUS
  <2>3. Len(list) = n
    BY <2>1, <2>2 DEF IsList
  <2> DEFINE chunks == [i \in 1 .. n |-> PutElement(type, list[i])]
  <2>4. PICK g : Chain(g, chunks, n) /\ PutElements(type, list) = g[n]
    <3> HIDE DEF chunks
    <3>1. \E g : /\ Chain(g, [i \in 1 .. Len(list) |-> PutElement(type, list[i])], Len(list))
                 /\ PutElements(type, list) = g[Len(list)]
      BY <2>3, PutElementsChain
    <3> QED
      BY <2>3, <3>1 DEF chunks
  <2> DEFINE T == {i \in Nat : i <= n => g[i].bytes = Taken(b, f[i].buf)}
  <2>5. \A k \in 1 .. n : chunks[k].bytes = Taken(f[k - 1].buf, f[k].buf)
    BY <2>1, <2>2
  <2> HIDE DEF chunks
  <2>6. 0 \in T
    <3>1. g[0].bytes = <<>>
      BY <2>4 DEF Chain, Uncounted
    <3>2. f[0].buf = b
      BY <1>1 DEF ElementsLoop, Ok
    <3>3. Taken(b, b) = <<>>
      BY CursorType, TakenNothing
    <3> QED
      BY <3>1, <3>2, <3>3
  <2>7. ASSUME NEW i \in Nat, i \in T PROVE i + 1 \in T
    <3> SUFFICES ASSUME i + 1 <= n PROVE g[i + 1].bytes = Taken(b, f[i + 1].buf)
      OBVIOUS
    <3>1. PICK j \in 1 .. n : j = i + 1
      OBVIOUS
    <3>2. g[j] = Joined(g[j - 1], chunks[j])
      BY <2>4 DEF Chain
    <3>3. g[j].bytes = g[j - 1].bytes \o chunks[j].bytes
      BY <3>2, JoinedBytes
    <3>4. g[j - 1].bytes = Taken(b, f[j - 1].buf)
      BY <2>7, <3>1
    <3>5. Taken(b, f[j].buf) = Taken(b, f[j - 1].buf) \o Taken(f[j - 1].buf, f[j].buf)
      BY <2>1, TakenOn
    <3> QED
      BY <2>5, <3>1, <3>3, <3>4, <3>5
  <2> HIDE DEF T
  <2>8. Nat \subseteq T
    BY <2>6, <2>7, SetInduction
  <2>9. g[n].bytes = Taken(b, f[n].buf)
    BY <2>8 DEF T
  <2> QED
    BY <1>1, <1>4, <2>1, <2>2, <2>4, <2>9
<1>6. CASE r.outcome # "ok"
  BY <1>4, <1>6
<1> QED
  BY <1>5, <1>6

LEMMA TakeListReads ==
  ASSUME SameCode, NEW type, IsMember(type), type.kind = "list",
         type.element.kind = "struct" => type.element.class \in ReadsRight,
         NEW b \in Cursors, NEW r, r = TakeList(b, type)
  PROVE  /\ Reaches(b, r.buf)
         /\ r.outcome \in Outs
         /\ r.outcome = "ok" =>
              /\ PutField(type, r.value).bytes = Taken(b, r.buf)
              /\ \A unset : MemberFits(type, r.value, unset)
<1>0. PICK prefix \in Nat \ {0} : prefix = type.prefix
  BY DEF IsMember, IsElement
<1>1. PICK element : prefix = type.prefix /\ element = type.element
  BY <1>0
<1>2. IsElement(element)
  BY <1>1 DEF IsMember, IsElement
<1>3. PICK t : t = TakeInt(b, prefix, FALSE)
  OBVIOUS
<1>4. /\ Reaches(b, t.buf)
      /\ t.outcome \in {"ok", "out_of_range"}
      /\ t.outcome = "ok" =>
           /\ t.value \in Int
           /\ LittleEndian(t.value, prefix) = Taken(b, t.buf)
           /\ t.value \in 0 .. Patterns(prefix) - 1
  BY <1>3, TakeIntReads
<1>5. CASE t.outcome # "ok"
  <2>1. r = t
    BY <1>1, <1>3, <1>5 DEF TakeList, Elements
  <2> QED
    BY <1>4, <1>5, <2>1 DEF Outs
<1>6. CASE t.outcome = "ok"
  <2>1. r = TakeElements(t.buf, element, t.value)
    BY <1>1, <1>3, <1>6 DEF TakeList, Elements
  <2>2. t.buf \in Cursors /\ t.value \in Nat
    BY <1>4, <1>6 DEF Reaches
  <2>3. /\ Reaches(t.buf, r.buf)
        /\ r.outcome \in Outs
        /\ r.outcome = "ok" =>
             /\ IsList(r.value, t.value)
             /\ \A k \in 1 .. t.value : \A unset : ElementFits(element, r.value[k], unset)
             /\ PutElements(element, r.value).bytes = Taken(t.buf, r.buf)
    BY <1>1, <1>2, <2>1, <2>2, TakeElementsReads
  <2>4. Reaches(b, r.buf)
    BY <1>4, <2>3, ReachesOn
  <2>5. ASSUME r.outcome = "ok" PROVE PutField(type, r.value).bytes = Taken(b, r.buf)
    <3>1. PutField(type, r.value) = Joined(Prefix(prefix, t.value), PutElements(element, r.value))
      BY <1>1, <2>3, <2>5 DEF PutField, IsList
    <3>2. PutField(type, r.value).bytes = LittleEndian(t.value, prefix) \o PutElements(element, r.value).bytes
      BY <3>1, JoinedBytes DEF Prefix, Counted
    <3>3. Taken(b, r.buf) = Taken(b, t.buf) \o Taken(t.buf, r.buf)
      BY <1>4, <2>3, TakenOn
    <3> QED
      BY <1>4, <1>6, <2>3, <2>5, <3>2, <3>3
  <2>6. ASSUME r.outcome = "ok", NEW unset PROVE MemberFits(type, r.value, unset)
    <3>1. /\ r.value \in Seq({r.value[i] : i \in DOMAIN r.value})
          /\ DOMAIN r.value = 1 .. t.value
      BY <2>3, <2>6 DEF IsList
    <3>2. \A i \in DOMAIN r.value : ElementFits(type.element, r.value[i], unset)
      BY <1>1, <2>3, <2>6, <3>1
    <3> QED
      BY <3>1, <3>2, MemberFitsCases
  <2> QED
    BY <2>3, <2>4, <2>5, <2>6
<1> QED
  BY <1>5, <1>6

-----------------------------------------------------------------------------
(* A member that was read between two cursors.                             *)
MemberRead(type, v, c, d) ==
  /\ PutField(type, v).bytes = Taken(c, d)
  /\ \A any : MemberFits(type, v, any)
  /\ type.kind \in {"struct", "dynamic"} =>
       v # Null /\ PathsToNested(v, {"dynamic"}, Null) = {}

MemberTaken(r, b, type, old, unset) ==
  /\ Reaches(b, r.buf)
  /\ r.outcome \in Outs
  /\ MemberFits(type, r.value, unset)
  /\ type.kind = "dynamic" /\ old # Null => r.value # Null
  /\ r.outcome = "ok" => MemberRead(type, r.value, b, r.buf)

LEMMA KeptIs ==
  ASSUME NEW t, NEW old, NEW r, r = Kept(t, old)
  PROVE  /\ r.outcome = t.outcome /\ r.buf = t.buf
         /\ t.outcome = "ok" => r.value = t.value
         /\ t.outcome # "ok" => r.value = old
BY DEF Kept, With

LEMMA DynamicReads ==
  ASSUME SameCode, NEW type, IsMember(type), type.kind = "dynamic",
         Makes(type) \subseteq ReadsRight,
         NEW b \in Cursors, NEW key, NEW old, NEW unset, MemberFits(type, old, unset),
         NEW r, r = TakeDynamic(b, type, key, old)
  PROVE  MemberTaken(r, b, type, old, unset)
<1>1. CASE key \notin DOMAIN type.factory
  <2>1. r = NoSuchType(b, old)
    BY <1>1 DEF TakeDynamic
  <2>2. r.outcome = "no_such_type" /\ r.buf = b /\ r.value = old
    BY <2>1 DEF NoSuchType
  <2> QED
    BY <2>2, CursorType DEF MemberTaken, Outs
<1>2. CASE key \in DOMAIN type.factory
  <2>1. PICK class : class = type.factory[key]
    OBVIOUS
  <2>2. class \in Makes(type) /\ class \in ReadsRight /\ class \in DOMAIN Classes
    BY <1>2, <2>1 DEF Makes, ReadsRight
  <2>3. PICK o : o = New(class, 0)
    OBVIOUS
  <2>4. NewNested(class, 0) = o /\ HasMembers(o, unset) /\ ClassOf(o) = class
    BY <2>2, <2>3, NewObjectFits
  <2>5. r = DecodeNested(b, o)
    BY <1>2, <2>1, <2>4 DEF TakeDynamic
  <2>6. /\ Reaches(b, r.buf)
        /\ r.outcome \in Outs
        /\ ClassOf(r.value) = ClassOf(o)
        /\ HasMembersNested(r.value, unset)
        /\ r.value # Null
        /\ r.outcome = "ok" =>
             /\ \A any : HasMembersNested(r.value, any)
             /\ PutNested(r.value).bytes = Taken(b, r.buf)
             /\ PathsToNested(r.value, {"dynamic"}, Null) = {}
    BY <2>2, <2>4, <2>5, NestedTaken
  <2>7. MemberFits(type, r.value, unset)
    <3>1. ClassOf(r.value) \in Makes(type) /\ HasMembersNested(r.value, unset)
      BY <2>2, <2>4, <2>6
    <3> QED
      BY <3>1, MemberFitsCases
  <2>8. PutField(type, r.value) = PutNested(r.value)
    BY PutElementCases DEF PutField
  <2>9. ASSUME r.outcome = "ok" PROVE \A any : MemberFits(type, r.value, any)
    <3>1. ClassOf(r.value) \in Makes(type) /\ \A any : HasMembersNested(r.value, any)
      BY <2>2, <2>4, <2>6, <2>9
    <3> QED
      BY <3>1, MemberFitsCases
  <2>10. r.outcome = "ok" => MemberRead(type, r.value, b, r.buf)
    BY <2>6, <2>8, <2>9 DEF MemberRead
  <2> QED
    BY <2>6, <2>7, <2>10 DEF MemberTaken
<1> QED
  BY <1>1, <1>2

LEMMA FieldReads ==
  ASSUME SameCode, NEW type, IsMember(type), ClassesIn(type) \subseteq ReadsRight,
         NEW b \in Cursors, NEW old, NEW content, NEW unset, MemberFits(type, old, unset),
         NEW r, r = TakeField(b, type, old, content)
  PROVE  MemberTaken(r, b, type, old, unset)
<1>1. CASE type.kind = "dynamic"
  <2>1. Makes(type) \subseteq ReadsRight
    BY <1>1, InsideCases
  <2>2. PICK key : key = content[type.key]
    OBVIOUS
  <2>3. r = TakeDynamic(b, type, key, old)
    BY <1>1, <2>2, TakeFieldCases
  <2> QED
    BY <1>1, <2>1, <2>3, DynamicReads
<1>2. CASE type.kind = "struct"
  <2>1. type.class \in ReadsRight /\ type.class \in DOMAIN Classes
    BY <1>2, InsideCases DEF ReadsRight
  <2>2. ClassOf(old) = type.class /\ HasMembersNested(old, unset)
    BY <1>2, MemberFitsCases, ElementFitsCases
  <2>3. HasMembers(old, unset)
    BY <2>1, <2>2 DEF SameCode
  <2>4. r = DecodeNested(b, old)
    BY <1>2, TakeFieldCases
  <2>5. /\ Reaches(b, r.buf)
        /\ r.outcome \in Outs
        /\ ClassOf(r.value) = ClassOf(old)
        /\ HasMembersNested(r.value, unset)
        /\ r.value # Null
        /\ r.outcome = "ok" =>
             /\ \A any : HasMembersNested(r.value, any)
             /\ PutNested(r.value).bytes = Taken(b, r.buf)
             /\ PathsToNested(r.value, {"dynamic"}, Null) = {}
    BY <2>1, <2>2, <2>3, <2>4, NestedTaken
  <2>6. MemberFits(type, r.value, unset)
    BY <1>2, <2>2, <2>5, MemberFitsCases, ElementFitsCases
  <2>7. PutField(type, r.value) = PutNested(r.value)
    BY <1>2, PutElementCases DEF PutField
  <2>8. ASSUME r.outcome = "ok" PROVE \A any : MemberFits(type, r.value, any)
    BY <1>2, <2>2, <2>5, <2>8, MemberFitsCases, ElementFitsCases
  <2>9. r.outcome = "ok" => MemberRead(type, r.value, b, r.buf)
    BY <2>5, <2>7, <2>8 DEF MemberRead
  <2> QED
    BY <1>2, <2>5, <2>6, <2>9 DEF MemberTaken
<1>3. CASE type.kind = "list"
  <2>1. PICK t : t = TakeList(b, type)
    OBVIOUS
  <2>2. r = Kept(t, old)
    BY <1>3, <2>1, TakeFieldCases
  <2>3. /\ r.outcome = t.outcome /\ r.buf = t.buf
        /\ t.outcome = "ok" => r.value = t.value
        /\ t.outcome # "ok" => r.value = old
    BY <2>2, KeptIs
  <2>4. type.element.kind = "struct" => type.element.class \in ReadsRight
    BY <1>3, InsideCases
  <2>5. /\ Reaches(b, t.buf)
        /\ t.outcome \in Outs
        /\ t.outcome = "ok" =>
             /\ PutField(type, t.value).bytes = Taken(b, t.buf)
             /\ \A any : MemberFits(type, t.value, any)
    BY <1>3, <2>1, <2>4, TakeListReads
  <2>6. r.outcome = "ok" => MemberRead(type, r.value, b, r.buf)
    BY <1>3, <2>3, <2>5 DEF MemberRead
  <2>7. MemberFits(type, r.value, unset)
    BY <2>3, <2>5
  <2> QED
    BY <1>3, <2>3, <2>5, <2>6, <2>7 DEF MemberTaken
<1>4. CASE type.kind \notin {"struct", "dynamic", "list"}
  <2>1. PICK t : t = TakeElement(b, type)
    OBVIOUS
  <2>2. r = Kept(t, old)
    BY <1>4, <2>1, TakeFieldCases
  <2>3. /\ r.outcome = t.outcome /\ r.buf = t.buf
        /\ t.outcome = "ok" => r.value = t.value
        /\ t.outcome # "ok" => r.value = old
    BY <2>2, KeptIs
  <2>4. IsElement(type)
    BY <1>4 DEF IsMember
  <2>5. ElementTaken(t, b, type)
    BY <1>4, <2>1, <2>4, ElementReads
  <2>6. \A any : MemberFits(type, t.value, any) <=> ElementFits(type, t.value, any)
    BY <1>4, MemberFitsCases
  <2>7. PutField(type, r.value) = PutElement(type, r.value)
    BY <1>4 DEF PutField
  <2>8. r.outcome = "ok" => MemberRead(type, r.value, b, r.buf)
    BY <1>4, <2>3, <2>5, <2>6, <2>7 DEF MemberRead, ElementTaken
  <2>9. MemberFits(type, r.value, unset)
    BY <2>3, <2>5, <2>6 DEF ElementTaken
  <2> QED
    BY <1>4, <2>3, <2>5, <2>8, <2>9 DEF MemberTaken, ElementTaken
<1> QED
  BY <1>1, <1>2, <1>3, <1>4

-----------------------------------------------------------------------------
(* After i members of an object.                                           *)
MembersTaken(f, b, layout, content, unset, i) ==
  /\ Reaches(b, f[i].buf)
  /\ f[i].outcome \in Outs
  /\ IsContent(layout, f[i].value, unset)
  /\ \A k \in DOMAIN layout :
       layout[k][2].kind = "dynamic" /\ content[layout[k][1]] # Null =>
         f[i].value[layout[k][1]] # Null
  /\ f[i].outcome = "ok" =>
       \A k \in 1 .. i :
         /\ Reaches(b, f[k - 1].buf) /\ Reaches(f[k - 1].buf, f[k].buf)
         /\ MemberRead(layout[k][2], f[i].value[layout[k][1]], f[k - 1].buf, f[k].buf)

LEMMA LayoutType ==
  ASSUME NEW layout, IsLayout(layout)
  PROVE  /\ Len(layout) \in Nat /\ DOMAIN layout = 1 .. Len(layout)
         /\ \A i, j \in DOMAIN layout : layout[i][1] = layout[j][1] => i = j
         /\ \A i \in DOMAIN layout : IsMember(layout[i][2])
<1>1. layout \in Seq({layout[i] : i \in DOMAIN layout})
  BY DEF IsLayout
<1>2. Len(layout) \in Nat /\ DOMAIN layout = 1 .. Len(layout)
  BY <1>1, LenProperties
<1> QED
  BY <1>2 DEF IsLayout

(* The members of an object when one of them has got something.            *)
Replaced(new, content, name, v) == new = [content EXCEPT ![name] = v]

OnlyDiffers(new, content, layout, j, v) ==
  /\ new[layout[j][1]] = v
  /\ \A k \in DOMAIN layout : k # j => new[layout[k][1]] = content[layout[k][1]]

LEMMA ContentWith ==
  ASSUME NEW layout, IsLayout(layout), NEW content, NEW unset,
         IsContent(layout, content, unset), NEW j \in DOMAIN layout, NEW v,
         MemberFits(layout[j][2], v, unset),
         NEW new, Replaced(new, content, layout[j][1], v)
  PROVE  IsContent(layout, new, unset) /\ OnlyDiffers(new, content, layout, j, v)
<1>1. content = [name \in NamesOf(layout) |-> content[name]]
  BY DEF IsContent
<1>2. layout[j][1] \in NamesOf(layout)
  BY DEF NamesOf
<1>3. new = [name \in NamesOf(layout) |-> IF name = layout[j][1] THEN v ELSE content[name]]
  BY <1>1 DEF Replaced
<1>4. new[layout[j][1]] = v
  BY <1>2, <1>3
<1>5. ASSUME NEW k \in DOMAIN layout, k # j
      PROVE  new[layout[k][1]] = content[layout[k][1]]
  <2>1. layout[k][1] # layout[j][1]
    BY <1>5, LayoutType
  <2>2. layout[k][1] \in NamesOf(layout)
    BY DEF NamesOf
  <2> QED
    BY <1>3, <2>1, <2>2
<1>6. ASSUME NEW k \in DOMAIN layout
      PROVE  MemberFits(layout[k][2], new[layout[k][1]], unset)
  <2>1. CASE k = j
    BY <1>4, <2>1
  <2>2. CASE k # j
    BY <1>5, <2>2 DEF IsContent
  <2> QED
    BY <2>1, <2>2
<1>7. new = [name \in NamesOf(layout) |-> new[name]]
  BY <1>3
<1> QED
  BY <1>4, <1>5, <1>6, <1>7 DEF IsContent, OnlyDiffers

LEMMA MembersReads ==
  ASSUME SameCode, NEW layout, IsLayout(layout),
         \A i \in DOMAIN layout : ClassesIn(layout[i][2]) \subseteq ReadsRight,
         NEW b \in Cursors, NEW content, NEW unset, IsContent(layout, content, unset),
         NEW n \in Nat, n = Len(layout), NEW f, MembersLoop(f, b, layout, content, n)
  PROVE  \A i \in 0 .. n : MembersTaken(f, b, layout, content, unset, i)
<1> DEFINE T == {i \in Nat : i <= n => MembersTaken(f, b, layout, content, unset, i)}
<1>1. 0 \in T
  <2>1. f[0] = Ok(b, content)
    BY DEF MembersLoop
  <2>2. f[0].outcome = "ok" /\ f[0].buf = b /\ f[0].value = content
    BY <2>1 DEF Ok
  <2> QED
    BY <2>2, CursorType DEF MembersTaken, Outs
<1>2. ASSUME NEW i \in Nat, i \in T PROVE i + 1 \in T
  <2> SUFFICES ASSUME i + 1 <= n PROVE MembersTaken(f, b, layout, content, unset, i + 1)
    OBVIOUS
  <2>1. PICK j \in 1 .. n : j = i + 1
    OBVIOUS
  <2>2. j \in DOMAIN layout /\ j - 1 = i
    BY <2>1, LayoutType
  <2>3. PICK r, s : r = f[i] /\ s = f[j]
    OBVIOUS
  <2>4. s = NextMember(r, layout[j])
    <3>1. f[j] = NextMember(f[j - 1], layout[j])
      BY DEF MembersLoop
    <3> QED
      BY <2>2, <2>3, <3>1
  <2>5. MembersTaken(f, b, layout, content, unset, i)
    BY <1>2, <2>1
  <2>6. /\ Reaches(b, r.buf) /\ r.outcome \in Outs
        /\ IsContent(layout, r.value, unset)
        /\ \A k \in DOMAIN layout :
             layout[k][2].kind = "dynamic" /\ content[layout[k][1]] # Null =>
               r.value[layout[k][1]] # Null
        /\ r.outcome = "ok" =>
             \A k \in 1 .. i :
               /\ Reaches(b, f[k - 1].buf) /\ Reaches(f[k - 1].buf, f[k].buf)
               /\ MemberRead(layout[k][2], r.value[layout[k][1]], f[k - 1].buf, f[k].buf)
    BY <2>3, <2>5 DEF MembersTaken
  <2>7. CASE r.outcome # "ok"
    <3>1. s = r
      BY <2>4, <2>7 DEF NextMember
    <3> QED
      BY <2>1, <2>3, <2>6, <2>7, <3>1 DEF MembersTaken
  <2>8. CASE r.outcome = "ok"
    <3>1. PICK name, type, old : name = layout[j][1] /\ type = layout[j][2] /\ old = r.value[name]
      OBVIOUS
    <3>2. PICK t : t = TakeField(r.buf, type, old, r.value)
      OBVIOUS
    <3>3. PICK new : new = [r.value EXCEPT ![name] = t.value]
      OBVIOUS
    <3>4. s = With(t, new)
      BY <2>4, <2>8, <3>1, <3>2, <3>3 DEF NextMember, Assigned
    <3>5. s.outcome = t.outcome /\ s.buf = t.buf /\ s.value = new
      BY <3>4 DEF With
    <3>6. r.buf \in Cursors
      BY <2>6 DEF Reaches
    <3>7. MemberTaken(t, r.buf, type, old, unset)
      <4>1. IsMember(type) /\ ClassesIn(type) \subseteq ReadsRight
        BY <2>2, <3>1, LayoutType
      <4>2. MemberFits(type, old, unset)
        BY <2>2, <2>6, <3>1 DEF IsContent
      <4> QED
        BY <3>2, <3>6, <4>1, <4>2, FieldReads
    <3>8. /\ Reaches(r.buf, t.buf) /\ t.outcome \in Outs
          /\ MemberFits(type, t.value, unset)
          /\ type.kind = "dynamic" /\ old # Null => t.value # Null
          /\ t.outcome = "ok" => MemberRead(type, t.value, r.buf, t.buf)
      BY <3>7 DEF MemberTaken
    <3>9. /\ IsContent(layout, new, unset)
          /\ new[layout[j][1]] = t.value
          /\ \A k \in DOMAIN layout : k # j => new[layout[k][1]] = r.value[layout[k][1]]
      <4>1. PICK rv, tv : rv = r.value /\ tv = t.value
        OBVIOUS
      <4>2. /\ IsContent(layout, rv, unset) /\ MemberFits(layout[j][2], tv, unset)
            /\ Replaced(new, rv, layout[j][1], tv)
        BY <2>6, <3>1, <3>3, <3>8, <4>1 DEF Replaced
      <4>3. IsContent(layout, new, unset) /\ OnlyDiffers(new, rv, layout, j, tv)
        BY <2>2, <4>2, ContentWith
      <4>4. OnlyDiffers(new, r.value, layout, j, t.value)
        BY <4>1, <4>3
      <4> QED
        BY <4>3, <4>4 DEF OnlyDiffers
    <3>10. Reaches(b, s.buf) /\ s.outcome \in Outs
      BY <2>6, <3>5, <3>8, ReachesOn
    <3>11. ASSUME NEW k \in DOMAIN layout, layout[k][2].kind = "dynamic",
                  content[layout[k][1]] # Null
           PROVE  new[layout[k][1]] # Null
      <4>1. r.value[layout[k][1]] # Null
        BY <2>6, <3>11
      <4>2. CASE k = j
        BY <3>1, <3>8, <3>9, <3>11, <4>1, <4>2
      <4>3. CASE k # j
        BY <3>9, <4>1, <4>3
      <4> QED
        BY <4>2, <4>3
    <3>12. ASSUME s.outcome = "ok", NEW k \in 1 .. j
           PROVE  /\ Reaches(b, f[k - 1].buf) /\ Reaches(f[k - 1].buf, f[k].buf)
                  /\ MemberRead(layout[k][2], new[layout[k][1]], f[k - 1].buf, f[k].buf)
      <4>1. CASE k = j
        <5>1. f[k - 1] = r /\ f[k] = s
          BY <2>2, <2>3, <4>1
        <5>2. MemberRead(type, t.value, r.buf, s.buf)
          BY <3>5, <3>8, <3>12
        <5> QED
          BY <2>6, <3>1, <3>5, <3>8, <3>9, <4>1, <5>1, <5>2
      <4>2. CASE k # j
        <5>1. k \in 1 .. i
          BY <2>1, <4>2
        <5>2. k \in DOMAIN layout
          BY <2>1, LayoutType
        <5>3. new[layout[k][1]] = r.value[layout[k][1]]
          BY <3>9, <4>2, <5>2
        <5> QED
          BY <2>6, <2>8, <5>1, <5>3
      <4> QED
        BY <4>1, <4>2
    <3>13. MembersTaken(f, b, layout, content, unset, j)
      BY <2>3, <3>5, <3>9, <3>10, <3>11, <3>12 DEF MembersTaken
    <3> QED
      BY <2>1, <3>13
  <2> QED
    BY <2>7, <2>8
<1> HIDE DEF T
<1>3. Nat \subseteq T
  BY <1>1, <1>2, SetInduction
<1> QED
  BY <1>3 DEF T

-----------------------------------------------------------------------------
(* decode() of an object as the loop over its members.                     *)
ObjectLoop(f, r, b, o) ==
  LET layout == Classes[ClassOf(o)]
  IN  /\ MembersLoop(f, b, layout, ContentOf(o), Len(layout))
      /\ r.outcome = f[Len(layout)].outcome
      /\ r.buf = f[Len(layout)].buf
      /\ r.value = Obj(ClassOf(o), f[Len(layout)].value)

LEMMA DecodeIsLoop ==
  ASSUME NEW o, NEW unset, HasMembers(o, unset), NEW b, NEW r, r = DecodeInto(b, o)
  PROVE  \E f : ObjectLoop(f, r, b, o)
<1>1. PICK class, content, layout, n :
        class = ClassOf(o) /\ content = ContentOf(o) /\ layout = Classes[class] /\ n = Len(layout)
  OBVIOUS
<1>2. class \in DOMAIN Classes
  BY <1>1, ObjectIs
<1>3. IsLayout(layout)
  BY <1>1, <1>2, ClassesAssumption
<1>4. n \in Nat
  BY <1>1, <1>3, LayoutType
<1>5. PICK t : t = TakeFields(b, layout, content)
  OBVIOUS
<1>6. PICK f : MembersLoop(f, b, layout, content, n) /\ t = f[n]
  BY <1>1, <1>4, <1>5, TakeFieldsLoop
<1>7. r = AsObject(class, t)
  BY <1>1, <1>5 DEF DecodeInto
<1>8. r.outcome = t.outcome /\ r.buf = t.buf /\ r.value = Obj(class, t.value)
  BY <1>7 DEF AsObject, With
<1>9. ObjectLoop(f, r, b, o)
  BY <1>1, <1>6, <1>8 DEF ObjectLoop
<1> QED
  BY <1>9

(* The classes inside the class of an object are its members' classes.     *)
LEMMA InsideLayout ==
  ASSUME NEW class \in DOMAIN Classes, NEW S, ClassesInside(class) \subseteq S
  PROVE  \A i \in DOMAIN Classes[class] : ClassesIn(Classes[class][i][2]) \subseteq S
BY DEF ClassesInside

LEMMA ObjectLoopReads ==
  ASSUME SameCode, NEW o, NEW unset, HasMembers(o, unset),
         ClassesInside(ClassOf(o)) \subseteq ReadsRight,
         NEW b \in Cursors, NEW r, NEW f, ObjectLoop(f, r, b, o)
  PROVE  \A i \in 0 .. Len(Classes[ClassOf(o)]) :
           MembersTaken(f, b, Classes[ClassOf(o)], ContentOf(o), unset, i)
<1>1. PICK class, content, layout :
        class = ClassOf(o) /\ content = ContentOf(o) /\ layout = Classes[class]
  OBVIOUS
<1>2. class \in DOMAIN Classes /\ IsContent(layout, content, unset)
  BY <1>1, ObjectIs
<1>3. IsLayout(layout)
  BY <1>1, <1>2, ClassesAssumption
<1>4. PICK n \in Nat : n = Len(layout)
  BY <1>3, LayoutType
<1>5. MembersLoop(f, b, layout, content, n)
  BY <1>1, <1>4 DEF ObjectLoop
<1>6. \A i \in DOMAIN layout : ClassesIn(layout[i][2]) \subseteq ReadsRight
  BY <1>1, <1>2, InsideLayout
<1>7. \A i \in 0 .. n : MembersTaken(f, b, layout, content, unset, i)
  BY <1>2, <1>3, <1>4, <1>5, <1>6, MembersReads
<1> QED
  BY <1>1, <1>4, <1>7

(* An object none of whose pointers is null.                               *)
LEMMA NoPaths ==
  ASSUME NEW o, NEW kinds, NEW value, NEW layout, layout = Classes[ClassOf(o)],
         \A i \in DOMAIN layout :
           /\ layout[i][2].kind \in kinds => ContentOf(o)[layout[i][1]] # value
           /\ layout[i][2].kind \in {"struct", "dynamic"} =>
                \/ ContentOf(o)[layout[i][1]] = Null
                \/ PathsToNested(ContentOf(o)[layout[i][1]], kinds, value) = {}
  PROVE  PathsTo(o, kinds, value) = {}
<1> DEFINE v(i)    == ContentOf(o)[layout[i][1]]
           here    == {i \in DOMAIN layout : layout[i][2].kind \in kinds /\ v(i) = value}
           objects == {i \in DOMAIN layout : layout[i][2].kind \in {"struct", "dynamic"} /\ v(i) # Null}
<1>1. PathsTo(o, kinds, value) =
        {<<layout[i][1]>> : i \in here} \cup
        UNION {{<<layout[i][1]>> \o path : path \in PathsToNested(v(i), kinds, value)} : i \in objects}
  BY DEF PathsTo
<1>2. here = {}
  OBVIOUS
<1>3. \A i \in objects : PathsToNested(v(i), kinds, value) = {}
  OBVIOUS
<1> HIDE DEF here, objects, v
<1> QED
  BY <1>1, <1>2, <1>3

(* Members written one after the other as they were read.                  *)
LEMMA MembersWritten ==
  ASSUME NEW layout, IsLayout(layout), NEW b \in Cursors, NEW content, NEW new, NEW unset,
         NEW n \in Nat, n = Len(layout), NEW f, MembersLoop(f, b, layout, content, n),
         f[n].value = new, f[n].outcome = "ok", MembersTaken(f, b, layout, content, unset, n)
  PROVE  PutFields(layout, new).bytes = Taken(b, f[n].buf)
<1>1. \A k \in 1 .. n :
        /\ Reaches(b, f[k - 1].buf) /\ Reaches(f[k - 1].buf, f[k].buf)
        /\ PutField(layout[k][2], new[layout[k][1]]).bytes = Taken(f[k - 1].buf, f[k].buf)
  BY DEF MembersTaken, MemberRead
<1> DEFINE chunks == [i \in 1 .. n |-> PutField(layout[i][2], new[layout[i][1]])]
<1>2. PICK g : Chain(g, chunks, n) /\ PutFields(layout, new) = g[n]
  <2> HIDE DEF chunks
  <2>1. \E g : /\ Chain(g, [i \in 1 .. Len(layout) |->
                               PutField(layout[i][2], new[layout[i][1]])], Len(layout))
               /\ PutFields(layout, new) = g[Len(layout)]
    BY PutFieldsChain
  <2> QED
    BY <2>1 DEF chunks
<1>3. \A k \in 1 .. n : chunks[k].bytes = Taken(f[k - 1].buf, f[k].buf)
  BY <1>1
<1> HIDE DEF chunks
<1> DEFINE T == {i \in Nat : i <= n => g[i].bytes = Taken(b, f[i].buf)}
<1>4. 0 \in T
  <2>1. g[0].bytes = <<>>
    BY <1>2 DEF Chain, Uncounted
  <2>2. f[0].buf = b
    BY DEF MembersLoop, Ok
  <2>3. Taken(b, b) = <<>>
    BY CursorType, TakenNothing
  <2> QED
    BY <2>1, <2>2, <2>3
<1>5. ASSUME NEW i \in Nat, i \in T PROVE i + 1 \in T
  <2> SUFFICES ASSUME i + 1 <= n PROVE g[i + 1].bytes = Taken(b, f[i + 1].buf)
    OBVIOUS
  <2>1. PICK j \in 1 .. n : j = i + 1
    OBVIOUS
  <2>2. g[j] = Joined(g[j - 1], chunks[j])
    BY <1>2 DEF Chain
  <2>3. g[j].bytes = g[j - 1].bytes \o chunks[j].bytes
    BY <2>2, JoinedBytes
  <2>4. g[j - 1].bytes = Taken(b, f[j - 1].buf)
    BY <1>5, <2>1
  <2>5. Taken(b, f[j].buf) = Taken(b, f[j - 1].buf) \o Taken(f[j - 1].buf, f[j].buf)
    BY <1>1, TakenOn
  <2> QED
    BY <1>3, <2>1, <2>3, <2>4, <2>5
<1> HIDE DEF T
<1>6. Nat \subseteq T
  BY <1>4, <1>5, SetInduction
<1> QED
  BY <1>2, <1>6 DEF T

LEMMA ObjectReads ==
  ASSUME SameCode
  PROVE  DOMAIN Classes \subseteq ReadsRight
<1>1. ASSUME NEW class \in DOMAIN Classes, ClassesInside(class) \subseteq ReadsRight
      PROVE  class \in ReadsRight
  <2> SUFFICES ASSUME NEW o, NEW unset, ClassOf(o) = class, HasMembers(o, unset),
                      NEW b \in Cursors
               PROVE  ObjectTaken(DecodeInto(b, o), b, o, unset)
    BY DEF ReadsRight
  <2>1. PICK layout, content : layout = Classes[class] /\ content = ContentOf(o)
    OBVIOUS
  <2>2. IsLayout(layout)
    BY <2>1, ClassesAssumption
  <2>3. PICK n \in Nat : n = Len(layout) /\ DOMAIN layout = 1 .. n
    BY <2>2, LayoutType
  <2>4. PICK r : r = DecodeInto(b, o)
    OBVIOUS
  <2>5. PICK f : ObjectLoop(f, r, b, o)
    BY <2>4, DecodeIsLoop
  <2>6. PICK new : new = f[n].value
    OBVIOUS
  <2>7. /\ MembersLoop(f, b, layout, content, n)
        /\ r.outcome = f[n].outcome /\ r.buf = f[n].buf /\ r.value = Obj(class, new)
    BY <2>1, <2>3, <2>5, <2>6 DEF ObjectLoop
  <2>8. MembersTaken(f, b, layout, content, unset, n)
    BY <1>1, <2>1, <2>3, <2>5, ObjectLoopReads
  <2>9. Reaches(b, r.buf) /\ r.outcome \in Outs /\ IsContent(Classes[class], new, unset)
    BY <2>1, <2>6, <2>7, <2>8 DEF MembersTaken
  <2>10. /\ HasMembers(r.value, unset) /\ ClassOf(r.value) = class
         /\ ContentOf(r.value) = new
    BY <2>7, <2>9, ObjectOf
  <2>11. CASE r.outcome = "ok"
    <3>1. \A k \in DOMAIN layout : MemberRead(layout[k][2], new[layout[k][1]], f[k - 1].buf, f[k].buf)
      BY <2>3, <2>6, <2>7, <2>8, <2>11 DEF MembersTaken
    <3>2. ASSUME NEW any PROVE HasMembers(r.value, any)
      <4>1. IsContent(Classes[class], new, any)
        BY <2>1, <2>9, <3>1 DEF IsContent, MemberRead
      <4> QED
        BY <2>7, <4>1, ObjectOf
    <3>3. PutObject(r.value).bytes = Taken(b, r.buf)
      <4>1. PutObject(r.value) = PutFields(layout, new)
        BY <2>1, <2>10 DEF PutObject
      <4>2. PutFields(layout, new).bytes = Taken(b, f[n].buf)
        <5>1. f[n].value = new /\ f[n].outcome = "ok" /\ n = Len(layout)
          BY <2>3, <2>6, <2>7, <2>11
        <5>2. /\ MembersLoop(f, b, layout, content, n)
              /\ MembersTaken(f, b, layout, content, unset, n)
          BY <2>7, <2>8
        <5> QED
          BY <2>2, <5>1, <5>2, MembersWritten
      <4> QED
        BY <2>7, <4>1, <4>2
    <3>4. PathsTo(r.value, {"dynamic"}, Null) = {}
      <4>1. layout = Classes[ClassOf(r.value)] /\ ContentOf(r.value) = new
        BY <2>1, <2>10
      <4>2. \A k \in DOMAIN layout : layout[k][2].kind \in {"struct", "dynamic"} =>
              /\ new[layout[k][1]] # Null
              /\ PathsToNested(new[layout[k][1]], {"dynamic"}, Null) = {}
        BY <3>1 DEF MemberRead
      <4> QED
        BY <4>1, <4>2, NoPaths
    <3> QED
      BY <2>4, <2>9, <2>10, <3>2, <3>3, <3>4 DEF ObjectTaken
  <2>12. CASE r.outcome # "ok"
    BY <2>4, <2>9, <2>10, <2>12 DEF ObjectTaken
  <2> QED
    BY <2>11, <2>12
<1> QED
  BY <1>1, DepthInduction

-----------------------------------------------------------------------------
(* An object that a member points to.                                      *)
LEMMA PointedTo ==
  ASSUME SameCode, NEW type, IsMember(type), type.kind \in {"struct", "dynamic"},
         NEW v, NEW unset, MemberFits(type, v, unset), v # Null
  PROVE  ClassOf(v) \in ClassesIn(type) /\ HasMembers(v, unset)
<1>1. ClassOf(v) \in ClassesIn(type) /\ HasMembersNested(v, unset)
  <2>1. CASE type.kind = "struct"
    <3>1. type.kind \notin {"list", "dynamic"}
      BY <2>1
    <3>2. ElementFits(type, v, unset)
      BY <3>1, MemberFitsCases
    <3>3. ClassOf(v) = type.class /\ HasMembersNested(v, unset)
      BY <2>1, <3>2, ElementFitsCases
    <3>4. ClassesIn(type) = {type.class}
      BY <2>1, InsideCases
    <3> QED
      BY <3>3, <3>4
  <2>2. CASE type.kind = "dynamic"
    <3>1. ClassOf(v) \in Makes(type) /\ HasMembersNested(v, unset)
      BY <2>2, MemberFitsCases
    <3>2. ClassesIn(type) = Makes(type)
      BY <2>2, InsideCases
    <3> QED
      BY <3>1, <3>2
  <2> QED
    BY <2>1, <2>2
<1>2. ClassOf(v) \in DOMAIN Classes
  BY <1>1, InsideMember
<1> QED
  BY <1>1, <1>2 DEF SameCode

(* Objects whose numbers have all been assigned.                           *)
LEMMA NumbersAreIntegers ==
  ASSUME NEW type, IsElement(type), type.kind \in {"octet", "int"}
  PROVE  Numbers(type) \subseteq Int
<1>1. PICK w \in Nat : w = IF type.kind = "octet" THEN 1 ELSE type.width
  BY DEF IsElement
<1>2. PICK p \in Nat : p = Patterns(w)
  BY PatternsPositive
<1>3. Numbers(type) = IF type.signed THEN -(p \div 2) .. p - (p \div 2) - 1 ELSE 0 .. p - 1
  BY <1>1, <1>2 DEF Numbers
<1> QED
  BY <1>3

NoneUnset ==
  {class \in DOMAIN Classes : \A o : ClassOf(o) = class /\ HasMembers(o, {}) =>
     PathsTo(o, {"octet", "int"}, Indeterminate) = {}}

LEMMA NumbersAssigned ==
  ASSUME SameCode
  PROVE  DOMAIN Classes \subseteq NoneUnset
<1>1. ASSUME NEW class \in DOMAIN Classes, ClassesInside(class) \subseteq NoneUnset
      PROVE  class \in NoneUnset
  <2> SUFFICES ASSUME NEW o, ClassOf(o) = class, HasMembers(o, {})
               PROVE  PathsTo(o, {"octet", "int"}, Indeterminate) = {}
    BY DEF NoneUnset
  <2>1. PICK layout, content : layout = Classes[ClassOf(o)] /\ content = ContentOf(o)
    OBVIOUS
  <2>2. IsLayout(layout) /\ IsContent(layout, content, {})
    BY <2>1, ClassesAssumption, ObjectIs
  <2>3. ASSUME NEW i \in DOMAIN layout, NEW type, type = layout[i][2],
               NEW v, v = content[layout[i][1]]
        PROVE  /\ type.kind \in {"octet", "int"} => v # Indeterminate
               /\ type.kind \in {"struct", "dynamic"} =>
                    v = Null \/ PathsToNested(v, {"octet", "int"}, Indeterminate) = {}
    <3>1. IsMember(type) /\ MemberFits(type, v, {}) /\ ClassesIn(type) \subseteq NoneUnset
      BY <1>1, <2>1, <2>2, <2>3, InsideLayout, LayoutType DEF IsContent
    <3>2. CASE type.kind \in {"octet", "int"}
      <4>1. IsElement(type)
        BY <3>1, <3>2 DEF IsMember
      <4>2. type.kind \notin {"list", "dynamic"}
        BY <3>2
      <4>3. ElementFits(type, v, {})
        BY <3>1, <4>2, MemberFitsCases
      <4>4. v \in Numbers(type)
        BY <3>2, <4>3, ElementFitsCases
      <4>5. v \in Int
        BY <3>2, <4>1, <4>4, NumbersAreIntegers
      <4> QED
        BY <3>2, <4>5, ReceiverAssumption
    <3>3. CASE type.kind \in {"struct", "dynamic"} /\ v # Null
      <4>1. ClassOf(v) \in ClassesIn(type) /\ HasMembers(v, {})
        BY <3>1, <3>3, PointedTo
      <4>2. PathsTo(v, {"octet", "int"}, Indeterminate) = {}
        BY <3>1, <4>1 DEF NoneUnset
      <4> QED
        BY <3>3, <4>1, <4>2 DEF SameCode
    <3>4. type.kind \in {"octet", "int"} => type.kind \notin {"struct", "dynamic"}
      OBVIOUS
    <3> QED
      BY <3>2, <3>3, <3>4
  <2>4. \A i \in DOMAIN layout :
          /\ layout[i][2].kind \in {"octet", "int"} => content[layout[i][1]] # Indeterminate
          /\ layout[i][2].kind \in {"struct", "dynamic"} =>
               \/ content[layout[i][1]] = Null
               \/ PathsToNested(content[layout[i][1]], {"octet", "int"}, Indeterminate) = {}
    BY <2>3
  <2> QED
    BY <2>1, <2>4, NoPaths
<1> QED
  BY <1>1, DepthInduction

-----------------------------------------------------------------------------
(* Paths are sequences of names, and never empty.                          *)
Names == UNION {NamesOf(Classes[class]) : class \in DOMAIN Classes}

IsPath(path) == path \in Seq(Names) /\ Len(path) >= 1

PathsRight ==
  {class \in DOMAIN Classes : \A o, unset : ClassOf(o) = class /\ HasMembers(o, unset) =>
     \A kinds, value : \A path \in PathsTo(o, kinds, value) : IsPath(path)}

(* A path to a member of the object, or on into an object inside it.       *)
Leads(path, layout, content, kinds, value) ==
  \E i \in DOMAIN layout :
    \/ /\ path = <<layout[i][1]>> /\ layout[i][2].kind \in kinds
       /\ content[layout[i][1]] = value
    \/ /\ layout[i][2].kind \in {"struct", "dynamic"}
       /\ content[layout[i][1]] # Null
       /\ \E inner \in PathsToNested(content[layout[i][1]], kinds, value) :
            path = <<layout[i][1]>> \o inner

LEMMA PathLeads ==
  ASSUME NEW o, NEW kinds, NEW value, NEW path \in PathsTo(o, kinds, value)
  PROVE  Leads(path, Classes[ClassOf(o)], ContentOf(o), kinds, value)
BY DEF PathsTo, Leads

LEMMA Longer ==
  ASSUME NEW name \in Names, NEW inner, IsPath(inner), NEW path, path = <<name>> \o inner
  PROVE  IsPath(path) /\ Len(path) > 1
<1>1. PICK one : one = <<name>>
  OBVIOUS
<1>2. one \in Seq(Names) /\ Len(one) = 1
  BY <1>1
<1>3. inner \in Seq(Names) /\ Len(inner) >= 1
  BY DEF IsPath
<1>4. path \in Seq(Names) /\ Len(path) = Len(one) + Len(inner)
  BY <1>1, <1>2, <1>3, ConcatProperties
<1> QED
  BY <1>2, <1>3, <1>4 DEF IsPath

LEMMA NestedPaths ==
  ASSUME SameCode, NEW type, IsMember(type), ClassesIn(type) \subseteq PathsRight,
         type.kind \in {"struct", "dynamic"},
         NEW v, NEW unset, MemberFits(type, v, unset), v # Null,
         NEW kinds, NEW value, NEW path \in PathsToNested(v, kinds, value)
  PROVE  IsPath(path)
<1>1. ClassOf(v) \in ClassesIn(type) /\ HasMembers(v, unset)
  BY PointedTo
<1>2. PathsToNested(v, kinds, value) = PathsTo(v, kinds, value)
  BY <1>1 DEF SameCode
<1> QED
  BY <1>1, <1>2 DEF PathsRight

LEMMA PathsAreNames ==
  ASSUME SameCode
  PROVE  DOMAIN Classes \subseteq PathsRight
<1>1. ASSUME NEW class \in DOMAIN Classes, ClassesInside(class) \subseteq PathsRight
      PROVE  class \in PathsRight
  <2> SUFFICES ASSUME NEW o, NEW unset, ClassOf(o) = class, HasMembers(o, unset),
                      NEW kinds, NEW value, NEW path \in PathsTo(o, kinds, value)
               PROVE  IsPath(path)
    BY DEF PathsRight
  <2>1. PICK layout, content : layout = Classes[ClassOf(o)] /\ content = ContentOf(o)
    OBVIOUS
  <2>2. IsLayout(layout) /\ IsContent(layout, content, unset)
    BY <2>1, ClassesAssumption, ObjectIs
  <2>3. PICK i \in DOMAIN layout :
           \/ path = <<layout[i][1]>>
           \/ /\ layout[i][2].kind \in {"struct", "dynamic"}
              /\ content[layout[i][1]] # Null
              /\ \E inner \in PathsToNested(content[layout[i][1]], kinds, value) :
                   path = <<layout[i][1]>> \o inner
    <3>1. Leads(path, layout, content, kinds, value)
      BY <2>1, PathLeads
    <3> QED
      BY <3>1 DEF Leads
  <2>4. PICK name, type, v : name = layout[i][1] /\ type = layout[i][2] /\ v = content[name]
    OBVIOUS
  <2>5. name \in Names
    BY <2>1, <2>4 DEF Names, NamesOf
  <2>6. CASE path = <<name>>
    BY <2>5, <2>6 DEF IsPath
  <2>7. CASE path # <<name>>
    <3>1. PICK inner \in PathsToNested(v, kinds, value) : path = <<name>> \o inner
      BY <2>3, <2>4, <2>7
    <3>2. /\ IsMember(type) /\ ClassesIn(type) \subseteq PathsRight
          /\ MemberFits(type, v, unset)
      BY <1>1, <2>1, <2>2, <2>4, InsideLayout, LayoutType DEF IsContent
    <3>3. type.kind \in {"struct", "dynamic"} /\ v # Null
      BY <2>3, <2>4, <2>7
    <3>4. IsPath(inner)
      BY <3>2, <3>3, NestedPaths
    <3> QED
      BY <2>5, <3>1, <3>4, Longer
  <2> QED
    BY <2>6, <2>7
<1> QED
  BY <1>1, DepthInduction

-----------------------------------------------------------------------------
(* Two decodes, of the same bytes or of bytes and more, into two objects   *)
(* of a class: what the objects had before makes no difference.            *)
SameRuns ==
  {class \in DOMAIN Classes :
     \A o, p, unset, any :
       ClassOf(o) = class /\ ClassOf(p) = class /\ HasMembers(o, unset) /\ HasMembers(p, any) =>
         \A b, e : Extends(b, e) => Same(DecodeInto(b, o), DecodeInto(e, p), b, e)}

LEMMA NestedSame ==
  ASSUME SameCode, NEW b, NEW e, Extends(b, e),
         NEW o, NEW unset, HasMembers(o, unset), NEW p, NEW any, HasMembers(p, any),
         ClassOf(p) = ClassOf(o), ClassOf(o) \in SameRuns,
         NEW r, r = DecodeNested(b, o), NEW q, q = DecodeNested(e, p)
  PROVE  Same(r, q, b, e)
<1>1. b \in ByteBufs /\ e \in ByteBufs
  BY DEF Extends, Cursors
<1>2. r = DecodeInto(b, o) /\ q = DecodeInto(e, p)
  BY <1>1 DEF SameCode
<1> QED
  BY <1>2 DEF SameRuns

LEMMA ElementSame ==
  ASSUME SameCode, NEW type, IsElement(type),
         type.kind = "struct" => type.class \in SameRuns,
         NEW b, NEW e, Extends(b, e),
         NEW r, r = TakeElement(b, type), NEW q, q = TakeElement(e, type)
  PROVE  Same(r, q, b, e)
<1>1. CASE type.kind \in {"octet", "int"}
  <2>1. PICK w \in Nat \ {0}, signed \in BOOLEAN :
          /\ w = IF type.kind = "octet" THEN 1 ELSE type.width
          /\ signed = type.signed
    BY <1>1 DEF IsElement
  <2>2. r = TakeInt(b, w, signed) /\ q = TakeInt(e, w, signed)
    BY <1>1, <2>1, TakeElementCases
  <2> QED
    BY <2>2, TakeIntSame
<1>2. CASE type.kind = "text"
  <2>1. PICK prefix \in Nat \ {0} : prefix = type.prefix
    BY <1>2 DEF IsElement
  <2>2. r = TakeText(b, prefix) /\ q = TakeText(e, prefix)
    BY <1>2, <2>1, TakeElementCases
  <2> QED
    BY <2>2, TakeTextSame
<1>3. CASE type.kind = "fixed"
  <2>1. type.size \in Nat
    BY <1>3 DEF IsElement
  <2>2. r = TakeFixed(b, type) /\ q = TakeFixed(e, type)
    BY <1>3, TakeElementCases
  <2> QED
    BY <2>1, <2>2, TakeFixedSame
<1>4. CASE type.kind = "struct"
  <2>1. type.class \in SameRuns /\ type.class \in DOMAIN Classes
    BY <1>4 DEF SameRuns
  <2>2. PICK o : o = New(type.class, 0)
    OBVIOUS
  <2>3. NewNested(type.class, 0) = o /\ HasMembers(o, {}) /\ ClassOf(o) = type.class
    BY <2>1, <2>2, NewObjectFits
  <2>4. r = DecodeNested(b, o) /\ q = DecodeNested(e, o)
    BY <1>4, <2>3, TakeElementCases
  <2> QED
    BY <2>1, <2>3, <2>4, NestedSame
<1> QED
  BY <1>1, <1>2, <1>3, <1>4 DEF IsElement

LEMMA ElementsSame ==
  ASSUME SameCode, NEW type, IsElement(type),
         type.kind = "struct" => type.class \in SameRuns \cap ReadsRight,
         NEW b, NEW e, Extends(b, e), NEW n \in Nat,
         NEW f, ElementsLoop(f, b, type, n), NEW g, ElementsLoop(g, e, type, n)
  PROVE  \A i \in 0 .. n : Same(f[i], g[i], b, e)
<1> DEFINE T == {i \in Nat : i <= n => Same(f[i], g[i], b, e)}
<1>0. b \in Cursors /\ e \in Cursors
  BY DEF Extends
<1>1. 0 \in T
  <2>1. f[0] = Ok(b, <<>>) /\ g[0] = Ok(e, <<>>)
    BY DEF ElementsLoop
  <2> QED
    BY <2>1 DEF Ok, Same, Extends
<1>2. ASSUME NEW i \in Nat, i \in T PROVE i + 1 \in T
  <2> SUFFICES ASSUME i + 1 <= n PROVE Same(f[i + 1], g[i + 1], b, e)
    OBVIOUS
  <2>1. PICK j \in 1 .. n : j = i + 1
    OBVIOUS
  <2>2. PICK r, s, q, t : r = f[i] /\ s = f[j] /\ q = g[i] /\ t = g[j]
    OBVIOUS
  <2>3. s = NextElement(r, type) /\ t = NextElement(q, type)
    <3>1. j - 1 = i
      BY <2>1
    <3>2. f[j] = NextElement(f[j - 1], type) /\ g[j] = NextElement(g[j - 1], type)
      BY DEF ElementsLoop
    <3> QED
      BY <2>2, <3>1, <3>2
  <2>4. Same(r, q, b, e)
    BY <1>2, <2>1, <2>2
  <2>5. Reaches(b, r.buf) /\ Reaches(e, q.buf)
    <3>1. \A k \in 0 .. n : ElementsTaken(f, b, type, k)
      BY <1>0, ElementsReads
    <3>2. \A k \in 0 .. n : ElementsTaken(g, e, type, k)
      BY <1>0, ElementsReads
    <3> QED
      BY <2>1, <2>2, <3>1, <3>2 DEF ElementsTaken
  <2>6. CASE r.outcome # "ok"
    <3>1. s = r
      BY <2>3, <2>6 DEF NextElement
    <3>2. q.outcome # "ok" => t = q
      BY <2>3 DEF NextElement
    <3> QED
      BY <2>1, <2>2, <2>4, <2>6, <3>1, <3>2 DEF Same
  <2>7. CASE r.outcome = "ok"
    <3>1. q.outcome = "ok" /\ q.buf.reader_index = r.buf.reader_index /\ q.value = r.value
      BY <2>4, <2>7 DEF Same
    <3>2. PICK x, y : x = TakeElement(r.buf, type) /\ y = TakeElement(q.buf, type)
      OBVIOUS
    <3>3. Extends(r.buf, q.buf) /\ (r.buf.buffer = q.buf.buffer <=> b.buffer = e.buffer)
      BY <2>5, <3>1, ExtendsOn
    <3>4. Same(x, y, r.buf, q.buf)
      BY <3>2, <3>3, ElementSame
    <3>5. /\ s = IF x.outcome = "ok" THEN Ok(x.buf, Append(r.value, x.value)) ELSE x
          /\ t = IF y.outcome = "ok" THEN Ok(y.buf, Append(q.value, y.value)) ELSE y
      BY <2>3, <2>7, <3>1, <3>2 DEF NextElement, Appended
    <3>6. PICK list : list = r.value
      OBVIOUS
    <3>7. /\ s.outcome = x.outcome /\ s.buf = x.buf
          /\ x.outcome = "ok" => s.value = Append(list, x.value)
      BY <3>5, <3>6 DEF Ok
    <3>8. /\ t.outcome = y.outcome /\ t.buf = y.buf
          /\ y.outcome = "ok" => t.value = Append(list, y.value)
      BY <3>1, <3>5, <3>6 DEF Ok
    <3>9. Same(s, t, b, e)
      BY <3>3, <3>4, <3>7, <3>8 DEF Same
    <3> QED
      BY <2>1, <2>2, <3>9
  <2> QED
    BY <2>6, <2>7
<1> HIDE DEF T
<1>3. Nat \subseteq T
  BY <1>1, <1>2, SetInduction
<1> QED
  BY <1>3 DEF T

LEMMA TakeListSame ==
  ASSUME SameCode, NEW type, IsMember(type), type.kind = "list",
         type.element.kind = "struct" => type.element.class \in SameRuns \cap ReadsRight,
         NEW b, NEW e, Extends(b, e), NEW r, r = TakeList(b, type), NEW q, q = TakeList(e, type)
  PROVE  Same(r, q, b, e)
<1>0. PICK prefix \in Nat \ {0} : prefix = type.prefix
  BY DEF IsMember, IsElement
<1>1. PICK element : prefix = type.prefix /\ element = type.element
  BY <1>0
<1>2. IsElement(element)
  BY <1>1 DEF IsMember, IsElement
<1>3. PICK t, u : t = TakeInt(b, prefix, FALSE) /\ u = TakeInt(e, prefix, FALSE)
  OBVIOUS
<1>4. Same(t, u, b, e)
  BY <1>3, TakeIntSame
<1>5. b \in Cursors /\ e \in Cursors
  BY DEF Extends
<1>6. /\ r = IF t.outcome = "ok" THEN TakeElements(t.buf, element, t.value) ELSE t
      /\ q = IF u.outcome = "ok" THEN TakeElements(u.buf, element, u.value) ELSE u
  BY <1>1, <1>3 DEF TakeList, Elements
<1>7. CASE t.outcome # "ok"
  BY <1>4, <1>6, <1>7 DEF Same
<1>8. CASE t.outcome = "ok"
  <2>1. u.outcome = "ok" /\ u.buf.reader_index = t.buf.reader_index /\ u.value = t.value
    BY <1>4, <1>8 DEF Same
  <2>2. Reaches(b, t.buf) /\ t.value \in 0 .. Patterns(prefix) - 1
    BY <1>3, <1>5, <1>8, TakeIntReads
  <2>3. Reaches(e, u.buf)
    BY <1>3, <1>5, TakeIntReads
  <2>4. PICK n \in Nat : n = t.value
    BY <2>2
  <2>5. Extends(t.buf, u.buf) /\ (t.buf.buffer = u.buf.buffer <=> b.buffer = e.buffer)
    BY <2>1, <2>2, <2>3, ExtendsOn
  <2>6. r = TakeElements(t.buf, element, n) /\ q = TakeElements(u.buf, element, n)
    BY <1>6, <1>8, <2>1, <2>4
  <2>7. PICK f : ElementsLoop(f, t.buf, element, n) /\ r = f[n]
    BY <2>6, TakeElementsLoop
  <2>8. PICK g : ElementsLoop(g, u.buf, element, n) /\ q = g[n]
    BY <2>6, TakeElementsLoop
  <2>9. \A i \in 0 .. n : Same(f[i], g[i], t.buf, u.buf)
    BY <1>1, <1>2, <2>5, <2>7, <2>8, ElementsSame
  <2>10. Same(r, q, t.buf, u.buf)
    BY <2>7, <2>8, <2>9
  <2> QED
    BY <2>5, <2>10 DEF Same
<1> QED
  BY <1>7, <1>8

LEMMA KeptSame ==
  ASSUME NEW b, NEW e, NEW t, NEW u, Same(t, u, b, e), NEW old, NEW other,
         NEW r, r = Kept(t, old), NEW q, q = Kept(u, other)
  PROVE  Same(r, q, b, e)
<1>1. /\ r.outcome = t.outcome /\ r.buf = t.buf
      /\ t.outcome = "ok" => r.value = t.value
  BY KeptIs
<1>2. /\ q.outcome = u.outcome /\ q.buf = u.buf
      /\ u.outcome = "ok" => q.value = u.value
  BY KeptIs
<1> QED
  BY <1>1, <1>2 DEF Same

LEMMA DynamicSame ==
  ASSUME SameCode, NEW type, IsMember(type), type.kind = "dynamic",
         Makes(type) \subseteq SameRuns, NEW b, NEW e, Extends(b, e), NEW key,
         NEW old, NEW other, NEW r, r = TakeDynamic(b, type, key, old),
         NEW q, q = TakeDynamic(e, type, key, other)
  PROVE  Same(r, q, b, e)
<1>1. CASE key \notin DOMAIN type.factory
  <2>1. r = NoSuchType(b, old) /\ q = NoSuchType(e, other)
    BY <1>1 DEF TakeDynamic
  <2>2. r.outcome = "no_such_type" /\ q.outcome = "no_such_type" /\ r.buf = b /\ q.buf = e
    BY <2>1 DEF NoSuchType
  <2> QED
    BY <2>2 DEF Same, Extends
<1>2. CASE key \in DOMAIN type.factory
  <2>1. PICK class : class = type.factory[key]
    OBVIOUS
  <2>2. class \in SameRuns /\ class \in DOMAIN Classes
    BY <1>2, <2>1 DEF Makes, SameRuns
  <2>3. PICK o : o = New(class, 0)
    OBVIOUS
  <2>4. NewNested(class, 0) = o /\ HasMembers(o, {}) /\ ClassOf(o) = class
    BY <2>2, <2>3, NewObjectFits
  <2>5. r = DecodeNested(b, o) /\ q = DecodeNested(e, o)
    BY <1>2, <2>1, <2>4 DEF TakeDynamic
  <2> QED
    BY <2>2, <2>4, <2>5, NestedSame
<1> QED
  BY <1>1, <1>2

LEMMA FieldSame ==
  ASSUME SameCode, NEW type, IsMember(type),
         ClassesIn(type) \subseteq SameRuns \cap ReadsRight,
         NEW b, NEW e, Extends(b, e),
         NEW old, NEW unset, MemberFits(type, old, unset),
         NEW other, NEW any, MemberFits(type, other, any),
         NEW content, NEW others, type.kind = "dynamic" => content[type.key] = others[type.key],
         NEW r, r = TakeField(b, type, old, content),
         NEW q, q = TakeField(e, type, other, others)
  PROVE  Same(r, q, b, e)
<1>1. CASE type.kind = "dynamic"
  <2>1. Makes(type) \subseteq SameRuns
    BY <1>1, InsideCases
  <2>2. PICK key : key = content[type.key] /\ key = others[type.key]
    BY <1>1
  <2>3. r = TakeDynamic(b, type, key, old)
    <3>1. TakeField(b, type, old, content) = TakeDynamic(b, type, content[type.key], old)
      BY <1>1, TakeFieldCases
    <3> QED
      BY <2>2, <3>1
  <2>4. q = TakeDynamic(e, type, key, other)
    <3>1. TakeField(e, type, other, others) = TakeDynamic(e, type, others[type.key], other)
      BY <1>1, TakeFieldCases
    <3> QED
      BY <2>2, <3>1
  <2> QED
    BY <1>1, <2>1, <2>3, <2>4, DynamicSame
<1>2. CASE type.kind = "struct"
  <2>1. type.class \in SameRuns /\ type.class \in DOMAIN Classes
    BY <1>2, InsideCases DEF SameRuns
  <2>2. type.kind \notin {"list", "dynamic"}
    BY <1>2
  <2>3. ElementFits(type, old, unset) /\ ElementFits(type, other, any)
    BY <2>2, MemberFitsCases
  <2>4. /\ ClassOf(old) = type.class /\ HasMembersNested(old, unset)
        /\ ClassOf(other) = type.class /\ HasMembersNested(other, any)
    BY <1>2, <2>3, ElementFitsCases
  <2>5. HasMembers(old, unset) /\ HasMembers(other, any)
    BY <2>1, <2>4 DEF SameCode
  <2>6. r = DecodeNested(b, old)
    BY <1>2, TakeFieldCases
  <2>7. q = DecodeNested(e, other)
    BY <1>2, TakeFieldCases
  <2> QED
    BY <2>1, <2>4, <2>5, <2>6, <2>7, NestedSame
<1>3. CASE type.kind = "list"
  <2>1. PICK t, u : t = TakeList(b, type) /\ u = TakeList(e, type)
    OBVIOUS
  <2>2. r = Kept(t, old)
    BY <1>3, <2>1, TakeFieldCases
  <2>3. q = Kept(u, other)
    BY <1>3, <2>1, TakeFieldCases
  <2>4. type.element.kind = "struct" => type.element.class \in SameRuns \cap ReadsRight
    BY <1>3, InsideCases
  <2>5. Same(t, u, b, e)
    BY <1>3, <2>1, <2>4, TakeListSame
  <2> QED
    BY <2>2, <2>3, <2>5, KeptSame
<1>4. CASE type.kind \notin {"struct", "dynamic", "list"}
  <2>1. PICK t, u : t = TakeElement(b, type) /\ u = TakeElement(e, type)
    OBVIOUS
  <2>2. r = Kept(t, old)
    BY <1>4, <2>1, TakeFieldCases
  <2>3. q = Kept(u, other)
    BY <1>4, <2>1, TakeFieldCases
  <2>4. IsElement(type)
    BY <1>4 DEF IsMember
  <2>5. Same(t, u, b, e)
    BY <1>4, <2>1, <2>4, ElementSame
  <2> QED
    BY <2>2, <2>3, <2>5, KeptSame
<1> QED
  BY <1>1, <1>2, <1>3, <1>4

-----------------------------------------------------------------------------
(* After i members of two objects.                                         *)
MembersSame(r, q, b, e, layout, i) ==
  r.outcome # "out_of_range" \/ b.buffer = e.buffer =>
    /\ q.outcome = r.outcome
    /\ q.buf.reader_index = r.buf.reader_index
    /\ r.outcome = "ok" =>
         \A k \in 1 .. i : q.value[layout[k][1]] = r.value[layout[k][1]]

(* What decoding one more member does.                                     *)
LEMMA NextMemberIs ==
  ASSUME NEW r, r.outcome = "ok", NEW member, NEW name, name = member[1],
         NEW type, type = member[2], NEW t, t = TakeField(r.buf, type, r.value[name], r.value),
         NEW s, s = NextMember(r, member)
  PROVE  /\ s.outcome = t.outcome /\ s.buf = t.buf
         /\ Replaced(s.value, r.value, name, t.value)
<1>1. PICK new : new = [r.value EXCEPT ![name] = t.value]
  OBVIOUS
<1>2. s = With(t, new)
  BY <1>1 DEF NextMember, Assigned
<1> QED
  BY <1>1, <1>2 DEF With, Replaced

LEMMA ContentsSame ==
  ASSUME SameCode, NEW layout, IsLayout(layout),
         \A i \in DOMAIN layout : ClassesIn(layout[i][2]) \subseteq SameRuns \cap ReadsRight,
         NEW b, NEW e, Extends(b, e), NEW n \in Nat, n = Len(layout),
         NEW content, NEW unset, IsContent(layout, content, unset),
         NEW others, NEW any, IsContent(layout, others, any),
         NEW f, MembersLoop(f, b, layout, content, n),
         NEW g, MembersLoop(g, e, layout, others, n)
  PROVE  \A i \in 0 .. n : MembersSame(f[i], g[i], b, e, layout, i)
<1> DEFINE T == {i \in Nat : i <= n => MembersSame(f[i], g[i], b, e, layout, i)}
<1>0. b \in Cursors /\ e \in Cursors
  BY DEF Extends
<1>1. 0 \in T
  <2>1. f[0] = Ok(b, content) /\ g[0] = Ok(e, others)
    BY DEF MembersLoop
  <2>2. /\ f[0].outcome = "ok" /\ g[0].outcome = "ok"
        /\ f[0].buf = b /\ g[0].buf = e
    BY <2>1 DEF Ok
  <2> QED
    BY <2>2 DEF MembersSame, Extends
<1>2. ASSUME NEW i \in Nat, i \in T PROVE i + 1 \in T
  <2> SUFFICES ASSUME i + 1 <= n PROVE MembersSame(f[i + 1], g[i + 1], b, e, layout, i + 1)
    OBVIOUS
  <2>1. PICK j \in 1 .. n : j = i + 1
    OBVIOUS
  <2>2. j \in DOMAIN layout /\ j - 1 = i
    BY <2>1, LayoutType
  <2>3. PICK r, s, q, t : r = f[i] /\ s = f[j] /\ q = g[i] /\ t = g[j]
    OBVIOUS
  <2>4. s = NextMember(r, layout[j]) /\ t = NextMember(q, layout[j])
    <3>1. f[j] = NextMember(f[j - 1], layout[j]) /\ g[j] = NextMember(g[j - 1], layout[j])
      BY DEF MembersLoop
    <3> QED
      BY <2>2, <2>3, <3>1
  <2>5. MembersSame(r, q, b, e, layout, i)
    BY <1>2, <2>1, <2>3
  <2>6. /\ Reaches(b, r.buf) /\ IsContent(layout, r.value, unset)
        /\ Reaches(e, q.buf) /\ IsContent(layout, q.value, any)
    <3>1. \A k \in DOMAIN layout : ClassesIn(layout[k][2]) \subseteq ReadsRight
      OBVIOUS
    <3>2. \A k \in 0 .. n : MembersTaken(f, b, layout, content, unset, k)
      BY <1>0, <3>1, MembersReads
    <3>3. \A k \in 0 .. n : MembersTaken(g, e, layout, others, any, k)
      BY <1>0, <3>1, MembersReads
    <3> QED
      BY <2>1, <2>3, <3>2, <3>3 DEF MembersTaken
  <2>7. CASE r.outcome # "ok"
    <3>1. s = r
      BY <2>4, <2>7 DEF NextMember
    <3>2. q.outcome # "ok" => t = q
      BY <2>4 DEF NextMember
    <3>3. MembersSame(s, t, b, e, layout, j)
      BY <2>5, <2>7, <3>1, <3>2 DEF MembersSame
    <3> QED
      BY <2>1, <2>3, <3>3
  <2>8. CASE r.outcome = "ok"
    <3>1. /\ q.outcome = "ok" /\ q.buf.reader_index = r.buf.reader_index
          /\ \A k \in 1 .. i : q.value[layout[k][1]] = r.value[layout[k][1]]
      BY <2>5, <2>8 DEF MembersSame
    <3>2. PICK name, type : name = layout[j][1] /\ type = layout[j][2]
      OBVIOUS
    <3>3. PICK x, y : /\ x = TakeField(r.buf, type, r.value[name], r.value)
                      /\ y = TakeField(q.buf, type, q.value[name], q.value)
      OBVIOUS
    <3>4. Extends(r.buf, q.buf) /\ (r.buf.buffer = q.buf.buffer <=> b.buffer = e.buffer)
      BY <2>6, <3>1, ExtendsOn
    <3>5. Same(x, y, r.buf, q.buf)
      <4>1. PICK old, other, rv, qv : old = rv[name] /\ other = qv[name] /\ rv = r.value /\ qv = q.value
        OBVIOUS
      <4>2. MemberFits(type, old, unset) /\ MemberFits(type, other, any)
        BY <2>2, <2>6, <3>2, <4>1 DEF IsContent
      <4>3. ASSUME type.kind = "dynamic" PROVE rv[type.key] = qv[type.key]
        <5>1. PICK k \in 1 .. j - 1 : layout[k][1] = type.key
          BY <2>2, <3>2, <4>3 DEF IsLayout
        <5>2. k \in 1 .. i
          BY <2>2, <5>1
        <5> QED
          BY <3>1, <4>1, <5>1, <5>2
      <4>4. IsMember(type) /\ ClassesIn(type) \subseteq SameRuns \cap ReadsRight
        BY <2>2, <3>2, LayoutType
      <4>5. x = TakeField(r.buf, type, old, rv) /\ y = TakeField(q.buf, type, other, qv)
        BY <3>3, <4>1
      <4> QED
        BY <3>4, <4>2, <4>3, <4>4, <4>5, FieldSame
    <3>6. s.outcome = x.outcome /\ s.buf = x.buf /\ Replaced(s.value, r.value, name, x.value)
      BY <2>4, <2>8, <3>2, <3>3, NextMemberIs
    <3>7. t.outcome = y.outcome /\ t.buf = y.buf /\ Replaced(t.value, q.value, name, y.value)
      BY <2>4, <3>1, <3>2, <3>3, NextMemberIs
    <3>8. ASSUME x.outcome # "out_of_range" \/ b.buffer = e.buffer
          PROVE  /\ y.outcome = x.outcome
                 /\ y.buf.reader_index = x.buf.reader_index
                 /\ x.outcome = "ok" => y.value = x.value
      BY <3>4, <3>5, <3>8 DEF Same
    <3>9. ASSUME x.outcome = "ok", y.value = x.value, NEW k \in 1 .. j
          PROVE  t.value[layout[k][1]] = s.value[layout[k][1]]
      <4>1. k \in DOMAIN layout /\ layout[k][1] \in NamesOf(layout)
        BY LayoutType DEF NamesOf
      <4>2. PICK v, rv, sv, qv, tv : v = x.value /\ rv = r.value /\ sv = s.value
              /\ qv = q.value /\ tv = t.value
        OBVIOUS
      <4>3. /\ rv = [a \in NamesOf(layout) |-> rv[a]]
            /\ qv = [a \in NamesOf(layout) |-> qv[a]]
        BY <2>6, <4>2 DEF IsContent
      <4>4. sv = [rv EXCEPT ![name] = v] /\ tv = [qv EXCEPT ![name] = v]
        BY <3>6, <3>7, <3>9, <4>2 DEF Replaced
      <4>5. \A a \in NamesOf(layout) : sv[a] = IF a = name THEN v ELSE rv[a]
        BY <4>3, <4>4
      <4>6. \A a \in NamesOf(layout) : tv[a] = IF a = name THEN v ELSE qv[a]
        BY <4>3, <4>4
      <4>7. CASE layout[k][1] = name
        BY <4>1, <4>2, <4>5, <4>6, <4>7
      <4>8. CASE layout[k][1] # name
        <5>1. k # j
          BY <3>2, <4>8
        <5>2. k \in 1 .. i
          BY <2>1, <5>1
        <5> QED
          BY <3>1, <4>1, <4>2, <4>5, <4>6, <4>8, <5>2
      <4> QED
        BY <4>7, <4>8
    <3>10. MembersSame(s, t, b, e, layout, j)
      BY <3>6, <3>7, <3>8, <3>9 DEF MembersSame
    <3> QED
      BY <2>1, <2>3, <3>10
  <2> QED
    BY <2>7, <2>8
<1> HIDE DEF T
<1>3. Nat \subseteq T
  BY <1>1, <1>2, SetInduction
<1> QED
  BY <1>3 DEF T

LEMMA ObjectSame ==
  ASSUME SameCode
  PROVE  DOMAIN Classes \subseteq SameRuns
<1>1. ASSUME NEW class \in DOMAIN Classes, ClassesInside(class) \subseteq SameRuns
      PROVE  class \in SameRuns
  <2> SUFFICES ASSUME NEW o, NEW p, NEW unset, NEW any, ClassOf(o) = class, ClassOf(p) = class,
                      HasMembers(o, unset), HasMembers(p, any),
                      NEW b, NEW e, Extends(b, e)
               PROVE  Same(DecodeInto(b, o), DecodeInto(e, p), b, e)
    BY DEF SameRuns
  <2>1. PICK layout, content, others :
          layout = Classes[class] /\ content = ContentOf(o) /\ others = ContentOf(p)
    OBVIOUS
  <2>2. IsLayout(layout)
    BY <2>1, ClassesAssumption
  <2>3. PICK n \in Nat : n = Len(layout) /\ DOMAIN layout = 1 .. n
    BY <2>2, LayoutType
  <2>4. PICK r, q : r = DecodeInto(b, o) /\ q = DecodeInto(e, p)
    OBVIOUS
  <2>5. PICK f : ObjectLoop(f, r, b, o)
    BY <2>4, DecodeIsLoop
  <2>6. PICK g : ObjectLoop(g, q, e, p)
    BY <2>4, DecodeIsLoop
  <2>7. /\ MembersLoop(f, b, layout, content, n)
        /\ r.outcome = f[n].outcome /\ r.buf = f[n].buf /\ r.value = Obj(class, f[n].value)
    BY <2>1, <2>3, <2>5 DEF ObjectLoop
  <2>8. /\ MembersLoop(g, e, layout, others, n)
        /\ q.outcome = g[n].outcome /\ q.buf = g[n].buf /\ q.value = Obj(class, g[n].value)
    BY <2>1, <2>3, <2>6 DEF ObjectLoop
  <2>9. IsContent(layout, content, unset) /\ IsContent(layout, others, any)
    BY <2>1, ObjectIs
  <2>10. \A i \in DOMAIN layout : ClassesIn(layout[i][2]) \subseteq ReadsRight
    <3>1. ClassesInside(class) \subseteq ReadsRight
      BY InsideAreClasses, ObjectReads
    <3> QED
      BY <2>1, <3>1, InsideLayout
  <2>11. \A i \in DOMAIN layout : ClassesIn(layout[i][2]) \subseteq SameRuns \cap ReadsRight
    BY <1>1, <2>1, <2>10, InsideLayout
  <2>12. MembersSame(f[n], g[n], b, e, layout, n)
    <3>1. \A i \in 0 .. n : MembersSame(f[i], g[i], b, e, layout, i)
      BY <2>2, <2>3, <2>7, <2>8, <2>9, <2>11, ContentsSame
    <3> QED
      BY <3>1
  <2>13. IsContent(layout, f[n].value, unset) /\ IsContent(layout, g[n].value, any)
    <3>1. b \in Cursors /\ e \in Cursors
      BY DEF Extends
    <3>2. MembersTaken(f, b, layout, content, unset, n)
      <4>1. \A i \in 0 .. n : MembersTaken(f, b, layout, content, unset, i)
        BY <2>2, <2>3, <2>7, <2>9, <2>10, <3>1, MembersReads
      <4> QED
        BY <4>1
    <3>3. MembersTaken(g, e, layout, others, any, n)
      <4>1. \A i \in 0 .. n : MembersTaken(g, e, layout, others, any, i)
        BY <2>2, <2>3, <2>8, <2>9, <2>10, <3>1, MembersReads
      <4> QED
        BY <4>1
    <3> QED
      BY <3>2, <3>3 DEF MembersTaken
  <2>14. ASSUME \A k \in 1 .. n : g[n].value[layout[k][1]] = f[n].value[layout[k][1]]
         PROVE  g[n].value = f[n].value
    <3>1. PICK fv, gv : fv = f[n].value /\ gv = g[n].value
      OBVIOUS
    <3>2. fv = [a \in NamesOf(layout) |-> fv[a]] /\ gv = [a \in NamesOf(layout) |-> gv[a]]
      BY <2>13, <3>1 DEF IsContent
    <3>3. \A a \in NamesOf(layout) : gv[a] = fv[a]
      BY <2>3, <2>14, <3>1 DEF NamesOf
    <3> QED
      BY <3>1, <3>2, <3>3
  <2>15. ASSUME r.outcome # "out_of_range" \/ b.buffer = e.buffer
         PROVE  /\ q.outcome = r.outcome
                /\ q.buf.reader_index = r.buf.reader_index
                /\ r.outcome = "ok" => q.value = r.value
    BY <2>7, <2>8, <2>12, <2>14, <2>15 DEF MembersSame
  <2> QED
    BY <2>4, <2>15 DEF Same
<1> QED
  BY <1>1, DepthInduction

-----------------------------------------------------------------------------
(* The frame: its header, its key and its body.                            *)
FrameLayout == Classes[FrameClass]

LEMMA FrameIs ==
  /\ FrameClass \in DOMAIN Classes /\ IsLayout(FrameLayout)
  /\ BodyPlace \in DOMAIN FrameLayout /\ BodyField = FrameLayout[BodyPlace]
  /\ \A i \in DOMAIN FrameLayout : FrameLayout[i][2].kind = "dynamic" <=> i = BodyPlace
  /\ \A i \in 1 .. BodyPlace - 1 : FrameLayout[i][2].kind \in {"octet", "int", "fixed"}
<1>1. PICK place \in DOMAIN FrameLayout :
        /\ \A i \in DOMAIN FrameLayout : FrameLayout[i][2].kind = "dynamic" <=> i = place
        /\ \A i \in 1 .. place - 1 : FrameLayout[i][2].kind \in {"octet", "int", "fixed"}
  BY ReceiverAssumption DEF IsFrame, FrameLayout
<1>2. BodyPlace = place
  BY <1>1 DEF BodyPlace, FrameLayout
<1>3. IsLayout(FrameLayout)
  BY ReceiverAssumption, ClassesAssumption DEF FrameLayout
<1> QED
  BY <1>1, <1>2, <1>3, ReceiverAssumption DEF BodyField, FrameLayout

(* The bytes of the header, member by member.                              *)
Sizes(f, n) ==
  /\ \A i \in 0 .. n : f[i] \in Nat
  /\ f[0] = 0
  /\ \A i \in 1 .. n : f[i] = f[i - 1] + Width(FrameLayout[i][2])

LEMMA WidthType ==
  ASSUME NEW type, IsMember(type), type.kind \in {"octet", "int", "fixed"}
  PROVE  Width(type) \in Nat
BY DEF Width, IsMember, IsElement

LEMMA HeaderSizes ==
  ASSUME NEW n \in Nat, n = BodyPlace - 1
  PROVE  \E f : Sizes(f, n) /\ HeaderSize = f[n]
<1> DEFINE Sums(f) ==
             f = [i \in 0 .. n |-> IF i = 0 THEN 0 ELSE f[i - 1] + Width(Classes[FrameClass][i][2])]
           size == CHOOSE f : Sums(f)
           step == [i \in 1 .. n |-> [x \in Nat |-> x + Width(FrameLayout[i][2])]]
<1>1. \A i \in 1 .. n : Width(FrameLayout[i][2]) \in Nat
  <2>1. DOMAIN FrameLayout = 1 .. Len(FrameLayout) /\ Len(FrameLayout) \in Nat
    BY FrameIs, LayoutType
  <2>2. \A i \in 1 .. n : i \in DOMAIN FrameLayout /\ FrameLayout[i][2].kind \in {"octet", "int", "fixed"}
    BY <2>1, FrameIs
  <2>3. \A i \in 1 .. n : IsMember(FrameLayout[i][2])
    BY <2>2, FrameIs, LayoutType
  <2> QED
    BY <2>2, <2>3, WidthType
<1>2. step \in [1 .. n -> [Nat -> Nat]]
  BY <1>1
<1>3. \A i \in 1 .. n, x \in Nat : step[i][x] = x + Width(FrameLayout[i][2])
  OBVIOUS
<1>4. HeaderSize = size[n]
  BY DEF HeaderSize
<1> HIDE DEF step
<1>5. PICK zero \in Nat : zero = 0
  OBVIOUS
<1>6. PICK f : Recursion(f, n, zero, step)
  BY <1>2, RecursionExists
<1>7. f \in [0 .. n -> Nat]
  BY <1>2, <1>6, RecursionType
<1>8. f[0] = 0
  BY <1>5, <1>6 DEF Recursion
<1>9. ASSUME NEW i \in 1 .. n PROVE f[i] = f[i - 1] + Width(FrameLayout[i][2])
  <2>1. f[i] = step[i][f[i - 1]]
    BY <1>6 DEF Recursion
  <2>2. f[i - 1] \in Nat
    BY <1>7
  <2> QED
    BY <1>3, <2>1, <2>2
<1>10. Sums(f)
  <2>1. ASSUME NEW i \in 0 .. n
        PROVE  f[i] = IF i = 0 THEN 0 ELSE f[i - 1] + Width(Classes[FrameClass][i][2])
    BY <1>8, <1>9 DEF FrameLayout
  <2> QED
    BY <1>7, <2>1
<1>11. Sums(size)
  <2> HIDE DEF Sums
  <2> QED
    BY <1>10
<1> HIDE DEF size
<1>12. size[0] = 0
  BY <1>11
<1>13. ASSUME NEW i \in 1 .. n PROVE size[i] = size[i - 1] + Width(FrameLayout[i][2])
  <2>1. i \in 0 .. n /\ i # 0
    OBVIOUS
  <2> QED
    BY <1>11, <2>1 DEF FrameLayout
<1> HIDE DEF Sums
<1>14. \A i \in 0 .. n : size[i] \in Nat
  <2> DEFINE T == {i \in Nat : i <= n => size[i] \in Nat}
  <2>1. 0 \in T
    BY <1>12
  <2>2. ASSUME NEW i \in Nat, i \in T PROVE i + 1 \in T
    <3> SUFFICES ASSUME i + 1 <= n PROVE size[i + 1] \in Nat
      OBVIOUS
    <3>1. PICK j \in 1 .. n : j = i + 1
      OBVIOUS
    <3>2. size[j] = size[j - 1] + Width(FrameLayout[j][2]) /\ Width(FrameLayout[j][2]) \in Nat
      BY <1>1, <1>13
    <3>3. size[j - 1] \in Nat
      BY <2>2, <3>1
    <3> QED
      BY <3>1, <3>2, <3>3
  <2> HIDE DEF T
  <2>3. Nat \subseteq T
    BY <2>1, <2>2, SetInduction
  <2> QED
    BY <2>3 DEF T
<1> QED
  BY <1>4, <1>12, <1>13, <1>14 DEF Sizes

LEMMA SimpleField ==
  ASSUME NEW type, IsMember(type), type.kind \in {"octet", "int", "fixed"},
         NEW b \in Cursors, NEW old, NEW content, NEW r, r = TakeField(b, type, old, content)
  PROVE  /\ r.outcome \in {"ok", "out_of_range"}
         /\ r.outcome = "ok" <=> b.reader_index + Width(type) <= Len(b.buffer)
         /\ r.outcome = "ok" => r.buf.reader_index = b.reader_index + Width(type)
<1>1. IsElement(type)
  BY DEF IsMember
<1>2. PICK t : t = TakeElement(b, type)
  OBVIOUS
<1>3. r = Kept(t, old)
  BY <1>2, TakeFieldCases
<1>4. r.outcome = t.outcome /\ r.buf = t.buf
  BY <1>3, KeptIs
<1>5. CASE type.kind \in {"octet", "int"}
  <2>1. PICK w \in Nat \ {0}, signed \in BOOLEAN :
          /\ w = IF type.kind = "octet" THEN 1 ELSE type.width
          /\ signed = type.signed
    BY <1>1, <1>5 DEF IsElement
  <2>2. t = TakeInt(b, w, signed)
    BY <1>2, <1>5, <2>1, TakeElementCases
  <2>3. /\ t.outcome \in {"ok", "out_of_range"}
        /\ t.outcome = "ok" <=> b.reader_index + w <= Len(b.buffer)
        /\ t.outcome = "ok" => t.buf.reader_index = b.reader_index + w
    BY <2>2, TakeIntReads
  <2>4. Width(type) = w
    BY <1>5, <2>1 DEF Width
  <2> QED
    BY <1>4, <2>3, <2>4
<1>6. CASE type.kind = "fixed"
  <2>1. type.size \in Nat /\ type.pad \in Byte /\ type.left \in BOOLEAN
    BY <1>1, <1>6 DEF IsElement
  <2>2. t = TakeFixed(b, type)
    BY <1>2, <1>6, TakeElementCases
  <2>3. /\ t.outcome \in {"ok", "out_of_range"}
        /\ t.outcome = "ok" <=> b.reader_index + type.size <= Len(b.buffer)
        /\ t.outcome = "ok" => t.buf.reader_index = b.reader_index + type.size
    BY <2>1, <2>2, TakeFixedReads
  <2>4. Width(type) = type.size
    BY <1>6 DEF Width
  <2> QED
    BY <1>4, <2>3, <2>4
<1> QED
  BY <1>5, <1>6

-----------------------------------------------------------------------------
(* A decode that has stopped does nothing more.                            *)
LEMMA Stopped ==
  ASSUME NEW layout, NEW b, NEW content, NEW n \in Nat, NEW f, MembersLoop(f, b, layout, content, n),
         NEW m \in 0 .. n, f[m].outcome # "ok"
  PROVE  f[n] = f[m]
<1> DEFINE T == {i \in Nat : m + i <= n => f[m + i] = f[m]}
<1>1. 0 \in T
  OBVIOUS
<1>2. ASSUME NEW i \in Nat, i \in T PROVE i + 1 \in T
  <2> SUFFICES ASSUME m + (i + 1) <= n PROVE f[m + (i + 1)] = f[m]
    OBVIOUS
  <2>1. PICK j \in 1 .. n : j = m + (i + 1)
    OBVIOUS
  <2>2. f[j] = NextMember(f[j - 1], layout[j])
    BY DEF MembersLoop
  <2>3. j - 1 = m + i
    BY <2>1
  <2>4. f[j - 1] = f[m]
    BY <1>2, <2>1, <2>3
  <2>5. f[j] = f[m]
    BY <2>2, <2>4 DEF NextMember
  <2> QED
    BY <2>1, <2>5
<1> HIDE DEF T
<1>3. PICK d \in Nat : n = m + d
  <2>1. n - m \in Nat /\ n = m + (n - m)
    OBVIOUS
  <2> QED
    BY <2>1
<1>4. d \in T
  BY <1>1, <1>2, SetInduction
<1> QED
  BY <1>3, <1>4 DEF T

(* After i members of the header.                                          *)
HeaderTaken(r, b, size) ==
  /\ r.outcome = "ok" => r.buf.reader_index = b.reader_index + size
  /\ r.outcome # "ok" => r.outcome = "out_of_range" /\ Len(b.buffer) < b.reader_index + size

LEMMA HeaderReads ==
  ASSUME NEW b \in Cursors, NEW content, NEW n \in Nat,
         NEW m \in 0 .. n, m = BodyPlace - 1, n = Len(FrameLayout),
         NEW f, MembersLoop(f, b, FrameLayout, content, n),
         \A i \in 0 .. n : Reaches(b, f[i].buf),
         NEW sizes, Sizes(sizes, m)
  PROVE  HeaderTaken(f[m], b, sizes[m])
<1>0. b.reader_index \in Nat /\ Len(b.buffer) \in Nat
  BY CursorType
<1> DEFINE T == {i \in Nat : i <= m => HeaderTaken(f[i], b, sizes[i])}
<1>1. 0 \in T
  <2>1. f[0].outcome = "ok" /\ f[0].buf = b
    BY DEF MembersLoop, Ok
  <2>2. sizes[0] = 0
    BY DEF Sizes
  <2> QED
    BY <1>0, <2>1, <2>2 DEF HeaderTaken
<1>2. ASSUME NEW i \in Nat, i \in T PROVE i + 1 \in T
  <2> SUFFICES ASSUME i + 1 <= m PROVE HeaderTaken(f[i + 1], b, sizes[i + 1])
    OBVIOUS
  <2>1. PICK j \in 1 .. m : j = i + 1 /\ j - 1 = i
    OBVIOUS
  <2>2. PICK r, s, type : r = f[i] /\ s = f[j] /\ type = FrameLayout[j][2]
    OBVIOUS
  <2>3. PICK before \in Nat, width \in Nat, after \in Nat :
          /\ before = sizes[i] /\ after = sizes[j] /\ width = Width(type) /\ after = before + width
    <3>1. j \in DOMAIN FrameLayout /\ type.kind \in {"octet", "int", "fixed"} /\ IsMember(type)
      BY <2>1, <2>2, FrameIs, LayoutType
    <3>2. Width(type) \in Nat
      BY <3>1, WidthType
    <3>3. sizes[i] \in Nat /\ sizes[j] \in Nat /\ sizes[j] = sizes[j - 1] + Width(type)
      BY <2>1, <2>2 DEF Sizes
    <3> QED
      BY <2>1, <3>2, <3>3
  <2>4. s = NextMember(r, FrameLayout[j])
    <3>1. \A k \in 1 .. n : f[k] = NextMember(f[k - 1], FrameLayout[k])
      BY DEF MembersLoop
    <3>2. j \in 1 .. n
      OBVIOUS
    <3> QED
      BY <2>1, <2>2, <3>1, <3>2
  <2>5. HeaderTaken(r, b, before)
    BY <1>2, <2>1, <2>2, <2>3
  <2>6. CASE r.outcome # "ok"
    <3>1. s = r
      BY <2>4, <2>6 DEF NextMember
    <3>2. HeaderTaken(s, b, after)
      <4>1. PICK start \in Nat, length \in Nat : start = b.reader_index /\ length = Len(b.buffer)
        BY <1>0
      <4>2. r.outcome = "out_of_range" /\ length < start + before
        BY <2>5, <2>6, <4>1 DEF HeaderTaken
      <4>3. length < start + after
        <5>1. length < start + before /\ after = before + width
          BY <2>3, <4>2
        <5>2. \A l, a, x, y \in Nat : l < a + x => l < a + (x + y)
          OBVIOUS
        <5>3. length < start + (before + width)
          BY <5>1, <5>2
        <5> QED
          BY <5>1, <5>3
      <4> QED
        BY <2>6, <3>1, <4>1, <4>2, <4>3 DEF HeaderTaken
    <3> QED
      BY <2>1, <2>2, <2>3, <3>2
  <2>7. CASE r.outcome = "ok"
    <3>1. r.buf \in Cursors /\ r.buf.buffer = b.buffer
      BY <2>1, <2>2 DEF Reaches
    <3>2. PICK name, t : name = FrameLayout[j][1] /\ t = TakeField(r.buf, type, r.value[name], r.value)
      OBVIOUS
    <3>3. s.outcome = t.outcome /\ s.buf = t.buf
      BY <2>2, <2>4, <2>7, <3>2, NextMemberIs
    <3>4. type.kind \in {"octet", "int", "fixed"} /\ IsMember(type)
      BY <2>1, <2>2, FrameIs, LayoutType
    <3>5. /\ t.outcome \in {"ok", "out_of_range"}
          /\ t.outcome = "ok" <=> r.buf.reader_index + Width(type) <= Len(r.buf.buffer)
          /\ t.outcome = "ok" => t.buf.reader_index = r.buf.reader_index + Width(type)
      BY <3>1, <3>2, <3>4, SimpleField
    <3>6. r.buf.reader_index = b.reader_index + before
      BY <2>5, <2>7 DEF HeaderTaken
    <3>7. HeaderTaken(s, b, after)
      <4>1. PICK start \in Nat, length \in Nat : start = b.reader_index /\ length = Len(b.buffer)
        BY <1>0
      <4>2. r.buf.reader_index = start + before /\ Len(r.buf.buffer) = length
        BY <3>1, <3>6, <4>1
      <4>3. s.outcome = "ok" <=> (start + before) + width <= length
        BY <2>3, <3>3, <3>5, <4>2
      <4>4. s.outcome = "ok" => s.buf.reader_index = start + after
        BY <2>3, <3>3, <3>5, <4>2
      <4>5. s.outcome # "ok" => s.outcome = "out_of_range" /\ length < start + after
        <5>1. after = before + width
          BY <2>3
        <5>2. \A l, a, x, y \in Nat : ~ ((a + x) + y <= l) => l < a + (x + y)
          OBVIOUS
        <5>3. s.outcome # "ok" => length < start + (before + width)
          BY <4>3, <5>2
        <5>4. s.outcome # "ok" => s.outcome = "out_of_range"
          BY <3>3, <3>5
        <5> QED
          BY <5>1, <5>3, <5>4
      <4> QED
        BY <4>1, <4>4, <4>5 DEF HeaderTaken
    <3> QED
      BY <2>1, <2>2, <2>3, <3>7
  <2> QED
    BY <2>6, <2>7
<1> HIDE DEF T
<1>3. m \in T
  BY <1>1, <1>2, SetInduction
<1> QED
  BY <1>3 DEF T

-----------------------------------------------------------------------------
(* The body of an object's members is what the key among them names.       *)
BodyNamed(content) ==
  LET factory == BodyField[2].factory
      key     == content[BodyField[2].key]
  IN  key \in DOMAIN factory /\ ClassOf(content[BodyField[1]]) = factory[key]

(* Making the body.                                                        *)
LEMMA BodyMade ==
  ASSUME SameCode, NEW b \in Cursors, NEW content, NEW unset,
         IsContent(FrameLayout, content, unset),
         NEW type, type = BodyField[2],
         NEW r, r = TakeDynamic(b, type, content[type.key], content[BodyField[1]])
  PROVE  \/ r.outcome = "no_such_type"
         \/ /\ content[type.key] \in DOMAIN type.factory
            /\ ClassOf(r.value) = type.factory[content[type.key]]
<1>1. PICK key, old : key = content[type.key] /\ old = content[BodyField[1]]
  OBVIOUS
<1>2. r = TakeDynamic(b, type, key, old)
  BY <1>1
<1>3. CASE key \notin DOMAIN type.factory
  BY <1>2, <1>3 DEF TakeDynamic, NoSuchType
<1>4. CASE key \in DOMAIN type.factory
  <2>1. PICK class : class = type.factory[key]
    OBVIOUS
  <2>2. class \in DOMAIN Classes
    <3>1. IsMember(type) /\ type.kind = "dynamic"
      BY FrameIs, LayoutType
    <3>2. Makes(type) \subseteq DOMAIN Classes
      BY <3>1 DEF IsMember, IsElement
    <3> QED
      BY <1>4, <2>1, <3>2 DEF Makes
  <2>3. class \in ReadsRight
    BY <2>2, ObjectReads
  <2>4. PICK o : o = New(class, 0)
    OBVIOUS
  <2>5. NewNested(class, 0) = o /\ HasMembers(o, unset) /\ ClassOf(o) = class
    BY <2>2, <2>4, NewObjectFits
  <2>6. r = DecodeNested(b, o)
    BY <1>2, <1>4, <2>1, <2>5 DEF TakeDynamic
  <2>7. ClassOf(r.value) = ClassOf(o)
    BY <2>3, <2>5, <2>6, NestedTaken
  <2> QED
    BY <1>1, <1>4, <2>1, <2>5, <2>7
<1> QED
  BY <1>3, <1>4

(* The members behind the body change neither the body nor its key.        *)
LEMMA BodyKept ==
  ASSUME SameCode, NEW b \in Cursors, NEW content, NEW unset,
         IsContent(FrameLayout, content, unset),
         NEW n \in Nat, n = Len(FrameLayout), NEW f, MembersLoop(f, b, FrameLayout, content, n),
         \A i \in 0 .. n : MembersTaken(f, b, FrameLayout, content, unset, i),
         NEW place \in 1 .. n, place = BodyPlace, BodyNamed(f[place].value)
  PROVE  BodyNamed(f[n].value)
<1> DEFINE T == {i \in Nat : place + i <= n => BodyNamed(f[place + i].value)}
<1>1. 0 \in T
  OBVIOUS
<1>2. ASSUME NEW i \in Nat, i \in T PROVE i + 1 \in T
  <2> SUFFICES ASSUME place + (i + 1) <= n PROVE BodyNamed(f[place + (i + 1)].value)
    OBVIOUS
  <2>1. PICK j \in 1 .. n : j = place + (i + 1) /\ j - 1 = place + i /\ j > place
    OBVIOUS
  <2>2. PICK r, s : r = f[j - 1] /\ s = f[j]
    OBVIOUS
  <2>3. s = NextMember(r, FrameLayout[j])
    BY <2>2 DEF MembersLoop
  <2>4. BodyNamed(r.value)
    BY <1>2, <2>1, <2>2
  <2>5. CASE r.outcome # "ok"
    <3>1. s = r
      BY <2>3, <2>5 DEF NextMember
    <3> QED
      BY <2>1, <2>2, <2>4, <3>1
  <2>6. CASE r.outcome = "ok"
    <3>1. PICK name, type, t : /\ name = FrameLayout[j][1] /\ type = FrameLayout[j][2]
                               /\ t = TakeField(r.buf, type, r.value[name], r.value)
      OBVIOUS
    <3>2. Replaced(s.value, r.value, name, t.value)
      BY <2>3, <2>6, <3>1, NextMemberIs
    <3>3. BodyField[1] # name /\ BodyField[2].key # name
      <4>1. j \in DOMAIN FrameLayout /\ place \in DOMAIN FrameLayout
        BY <2>1, FrameIs, LayoutType
      <4>2. \A k, l \in DOMAIN FrameLayout : FrameLayout[k][1] = FrameLayout[l][1] => k = l
        BY FrameIs, LayoutType
      <4>3. BodyField[1] # name
        <5>1. BodyField[1] = FrameLayout[place][1]
          BY FrameIs
        <5>2. j # place
          BY <2>1
        <5> QED
          BY <3>1, <4>1, <4>2, <5>1, <5>2
      <4>4. PICK k \in 1 .. place - 1 : FrameLayout[k][1] = BodyField[2].key
        BY FrameIs DEF IsLayout
      <4>5. k \in DOMAIN FrameLayout /\ k # j
        BY <2>1, FrameIs, LayoutType
      <4>6. BodyField[2].key # name
        BY <3>1, <4>1, <4>2, <4>4, <4>5
      <4> QED
        BY <4>3, <4>6
    <3>4. PICK rv, sv, tv : rv = r.value /\ sv = s.value /\ tv = t.value
      OBVIOUS
    <3>5. sv = [rv EXCEPT ![name] = tv]
      BY <3>2, <3>4 DEF Replaced
    <3>6. rv = [a \in NamesOf(FrameLayout) |-> rv[a]]
      <4>1. j - 1 \in 0 .. n
        BY <2>1
      <4>2. MembersTaken(f, b, FrameLayout, content, unset, j - 1)
        BY <4>1
      <4> QED
        BY <2>2, <3>4, <4>2 DEF MembersTaken, IsContent
    <3>7. \A a \in NamesOf(FrameLayout) : a # name => sv[a] = rv[a]
      BY <3>5, <3>6
    <3>8. BodyField[1] \in NamesOf(FrameLayout) /\ BodyField[2].key \in NamesOf(FrameLayout)
      <4>1. PICK k \in 1 .. place - 1 : FrameLayout[k][1] = BodyField[2].key
        BY FrameIs DEF IsLayout
      <4>2. k \in DOMAIN FrameLayout
        BY FrameIs, LayoutType
      <4> QED
        BY <4>1, <4>2, FrameIs DEF NamesOf
    <3>9. sv[BodyField[1]] = rv[BodyField[1]] /\ sv[BodyField[2].key] = rv[BodyField[2].key]
      BY <3>3, <3>7, <3>8
    <3>10. BodyNamed(sv)
      BY <2>4, <3>4, <3>9 DEF BodyNamed
    <3> QED
      BY <2>1, <2>2, <3>4, <3>10
  <2> QED
    BY <2>5, <2>6
<1> HIDE DEF T
<1>3. PICK d \in Nat : n = place + d
  <2>1. n - place \in Nat /\ n = place + (n - place)
    OBVIOUS
  <2> QED
    BY <2>1
<1>4. d \in T
  BY <1>1, <1>2, SetInduction
<1> QED
  BY <1>3, <1>4 DEF T

(* What a decode leaves between the key and the body of a frame.           *)
LEMMA FrameNamed ==
  ASSUME SameCode, NEW b \in Cursors, NEW o, NEW unset, ClassOf(o) = FrameClass, HasMembers(o, unset),
         NEW r, r = DecodeInto(b, o)
  PROVE  \/ BodyNamed(ContentOf(r.value))
         \/ r.outcome = "no_such_type"
         \/ r.outcome = "out_of_range" /\ Len(b.buffer) < b.reader_index + HeaderSize
<1>1. PICK content : content = ContentOf(o)
  OBVIOUS
<1>2. PICK n \in Nat : n = Len(FrameLayout) /\ DOMAIN FrameLayout = 1 .. n
  BY FrameIs, LayoutType
<1>3. PICK f : ObjectLoop(f, r, b, o)
  BY DecodeIsLoop
<1>4. /\ MembersLoop(f, b, FrameLayout, content, n)
      /\ r.outcome = f[n].outcome /\ r.value = Obj(FrameClass, f[n].value)
  BY <1>1, <1>2, <1>3 DEF ObjectLoop, FrameLayout
<1>5. \A i \in 0 .. n : MembersTaken(f, b, FrameLayout, content, unset, i)
  <2>1. ClassesInside(ClassOf(o)) \subseteq ReadsRight
    BY FrameIs, InsideAreClasses, ObjectReads
  <2> QED
    BY <1>1, <1>2, <1>3, <2>1, ObjectLoopReads DEF FrameLayout
<1>6. IsContent(FrameLayout, content, unset)
  BY <1>1, ObjectIs DEF FrameLayout
<1>7. PICK place \in 1 .. n, m \in 0 .. n : place = BodyPlace /\ m = place - 1
  BY <1>2, FrameIs
<1>8. PICK sizes : Sizes(sizes, m) /\ HeaderSize = sizes[m]
  BY <1>7, HeaderSizes
<1>9. HeaderTaken(f[m], b, HeaderSize)
  <2>1. \A i \in 0 .. n : Reaches(b, f[i].buf)
    BY <1>5 DEF MembersTaken
  <2>2. HeaderTaken(f[m], b, sizes[m])
    BY <1>2, <1>4, <1>7, <1>8, <2>1, HeaderReads
  <2> QED
    BY <1>8, <2>2
<1>10. ContentOf(r.value) = f[n].value
  BY <1>4 DEF Obj, ContentOf
<1>11. CASE f[m].outcome # "ok"
  <2>1. f[n] = f[m]
    BY <1>4, <1>11, Stopped
  <2> QED
    BY <1>4, <1>9, <1>11, <2>1 DEF HeaderTaken
<1>12. CASE f[m].outcome = "ok"
  <2>1. PICK q, s : q = f[m] /\ s = f[place]
    OBVIOUS
  <2>2. s = NextMember(q, BodyField)
    <3>1. f[place] = NextMember(f[place - 1], FrameLayout[place])
      BY <1>4 DEF MembersLoop
    <3> QED
      BY <1>7, <2>1, <3>1, FrameIs
  <2>3. PICK name, type : name = BodyField[1] /\ type = BodyField[2]
    OBVIOUS
  <2>4. PICK qv : qv = q.value
    OBVIOUS
  <2>5. PICK t : t = TakeField(q.buf, type, qv[name], qv)
    OBVIOUS
  <2>6. s.outcome = t.outcome /\ Replaced(s.value, qv, name, t.value)
    BY <1>12, <2>1, <2>2, <2>3, <2>4, <2>5, NextMemberIs
  <2>7. t = TakeDynamic(q.buf, type, qv[type.key], qv[name])
    <3>1. type.kind = "dynamic"
      BY <2>3, FrameIs
    <3> QED
      BY <2>5, <3>1, TakeFieldCases
  <2>8. q.buf \in Cursors /\ IsContent(FrameLayout, qv, unset)
    BY <1>5, <2>1, <2>4 DEF MembersTaken, Reaches
  <2>9. \/ t.outcome = "no_such_type"
        \/ /\ qv[type.key] \in DOMAIN type.factory
           /\ ClassOf(t.value) = type.factory[qv[type.key]]
    BY <2>3, <2>7, <2>8, BodyMade
  <2>10. CASE t.outcome = "no_such_type"
    <3>1. f[n] = f[place]
      BY <1>4, <2>1, <2>6, <2>10, Stopped
    <3> QED
      BY <1>4, <2>1, <2>6, <2>10, <3>1
  <2>11. CASE /\ qv[type.key] \in DOMAIN type.factory
              /\ ClassOf(t.value) = type.factory[qv[type.key]]
    <3>1. PICK k \in 1 .. place - 1 : FrameLayout[k][1] = type.key
      BY <1>7, <2>3, FrameIs DEF IsLayout
    <3>2. k \in DOMAIN FrameLayout /\ k # place /\ place \in DOMAIN FrameLayout
      BY <1>2, <1>7
    <3>3. type.key # name
      BY <1>7, <2>3, <3>1, <3>2, FrameIs, LayoutType
    <3>4. type.key \in NamesOf(FrameLayout) /\ name \in NamesOf(FrameLayout)
      BY <1>7, <2>3, <3>1, <3>2, FrameIs DEF NamesOf
    <3>5. PICK sv, tv : sv = s.value /\ tv = t.value
      OBVIOUS
    <3>6. qv = [a \in NamesOf(FrameLayout) |-> qv[a]] /\ sv = [qv EXCEPT ![name] = tv]
      BY <2>6, <2>8, <3>5 DEF IsContent, Replaced
    <3>7. sv[name] = tv /\ sv[type.key] = qv[type.key]
      BY <3>3, <3>4, <3>6
    <3>8. BodyNamed(sv)
      BY <2>3, <2>11, <3>5, <3>7 DEF BodyNamed
    <3>9. BodyNamed(f[n].value)
      BY <1>2, <1>4, <1>5, <1>6, <1>7, <2>1, <3>5, <3>8, BodyKept
    <3> QED
      BY <1>10, <3>9
  <2> QED
    BY <2>9, <2>10, <2>11
<1> QED
  BY <1>11, <1>12

-----------------------------------------------------------------------------
(* One decode of a copy of some bytes into an object.                      *)
LEMMA CopiedIs ==
  ASSUME NEW bytes \in Seq(Byte), NEW b, b = Copied(bytes)
  PROVE  b \in Cursors /\ b.buffer = bytes /\ b.reader_index = 0
<1>1. PICK empty : empty = <<>>
  OBVIOUS
<1>2. empty \o bytes = bytes
  BY <1>1, ConcatEmptySeq
<1>3. EmptyBuf = [buffer |-> empty, reader_index |-> 0, writer_index |-> 0]
  BY <1>1 DEF EmptyBuf
<1>4. Uncounted(bytes) = [bytes |-> bytes, counted |-> 0]
  BY DEF Uncounted
<1>5. b = [buffer |-> empty \o bytes, reader_index |-> 0, writer_index |-> 0]
  <2>1. PICK e, c : e = EmptyBuf /\ c = Uncounted(bytes)
    OBVIOUS
  <2>2. /\ e = [buffer |-> empty, reader_index |-> 0, writer_index |-> 0]
        /\ c.bytes = bytes /\ c.counted = 0
    BY <1>3, <1>4, <2>1
  <2>3. b = [e EXCEPT !.buffer = e.buffer \o c.bytes,
                      !.writer_index = e.writer_index + c.counted]
    BY <2>1 DEF Copied, Write
  <2>4. e.buffer = empty /\ e.writer_index + c.counted = 0
    BY <2>2
  <2>5. b = [e EXCEPT !.buffer = empty \o bytes, !.writer_index = 0]
    BY <2>2, <2>3, <2>4
  <2> QED
    BY <2>2, <2>5
<1>6. b = [buffer |-> bytes, reader_index |-> 0, writer_index |-> 0]
  BY <1>2, <1>5
<1>7. b.buffer = bytes /\ b.reader_index = 0 /\ b \in ByteBufs
  BY <1>6 DEF ByteBufs
<1> QED
  BY <1>7, LenProperties DEF Cursors

(* A frame object that is whole except for the numbers in a set.           *)
IsFrameObject(o, unset) == ClassOf(o) = FrameClass /\ HasMembers(o, unset)

(* The result of decoding a copy of some bytes into an object.             *)
IsDecode(r, bytes, o) == r = DecodeInto(Copied(bytes), o)

LEMMA FrameDecode ==
  ASSUME SameCode, NEW o, NEW unset, IsFrameObject(o, unset), NEW bytes \in Seq(Byte),
         NEW r, IsDecode(r, bytes, o)
  PROVE  /\ IsFrameObject(r.value, unset)
         /\ r.buf.reader_index \in 0 .. Len(bytes)
         /\ r.outcome \in Outs
         /\ r.outcome = "ok" =>
              /\ IsFrameObject(r.value, {})
              /\ PutObject(r.value).bytes = SubSeq(bytes, 1, r.buf.reader_index)
              /\ PathsTo(r.value, {"dynamic"}, Null) = {}
<1>1. PICK b : b = Copied(bytes)
  OBVIOUS
<1>2. b \in Cursors /\ b.buffer = bytes /\ b.reader_index = 0
  BY <1>1, CopiedIs
<1>3. FrameClass \in ReadsRight
  BY FrameIs, ObjectReads
<1>4. ObjectTaken(r, b, o, unset)
  BY <1>1, <1>2, <1>3 DEF ReadsRight, IsFrameObject, IsDecode
<1>5. Reaches(b, r.buf)
  BY <1>4 DEF ObjectTaken
<1>6. r.buf.reader_index \in 0 .. Len(bytes)
  <2>1. /\ r.buf.buffer = bytes /\ r.buf \in Cursors
    BY <1>2, <1>5 DEF Reaches
  <2> QED
    BY <2>1, CursorType
<1>7. Taken(b, r.buf) = SubSeq(bytes, 1, r.buf.reader_index)
  BY <1>2 DEF Taken
<1> QED
  BY <1>4, <1>6, <1>7 DEF ObjectTaken, IsFrameObject

(* Decoding bytes, and decoding them with more behind them into another    *)
(* object.                                                                 *)
LEMMA FrameSame ==
  ASSUME SameCode, NEW o, NEW unset, IsFrameObject(o, unset), NEW p, NEW any, IsFrameObject(p, any),
         NEW bytes \in Seq(Byte), NEW more \in Seq(Byte), Len(bytes) <= Len(more),
         \A i \in 1 .. Len(bytes) : bytes[i] = more[i],
         NEW r, IsDecode(r, bytes, o), NEW q, IsDecode(q, more, p)
  PROVE  r.outcome # "out_of_range" \/ bytes = more =>
           /\ q.outcome = r.outcome
           /\ q.buf.reader_index = r.buf.reader_index
           /\ r.outcome = "ok" => q.value = r.value
<1>1. PICK b, e : b = Copied(bytes) /\ e = Copied(more)
  OBVIOUS
<1>2. /\ b \in Cursors /\ b.buffer = bytes /\ b.reader_index = 0
      /\ e \in Cursors /\ e.buffer = more /\ e.reader_index = 0
  BY <1>1, CopiedIs
<1>3. Extends(b, e)
  BY <1>2 DEF Extends
<1>4. FrameClass \in SameRuns
  BY FrameIs, ObjectSame
<1>5. Same(r, q, b, e)
  BY <1>1, <1>3, <1>4 DEF SameRuns, IsFrameObject, IsDecode
<1> QED
  BY <1>2, <1>5 DEF Same

(* An object without null pointers has a body.                             *)
LEMMA BodyIsThere ==
  ASSUME NEW o, ClassOf(o) = FrameClass, PathsTo(o, {"dynamic"}, Null) = {}
  PROVE  Body(o) # Null
<1>1. PICK layout : layout = Classes[ClassOf(o)] /\ layout = FrameLayout
  BY DEF FrameLayout
<1> DEFINE here == {i \in DOMAIN layout :
                      layout[i][2].kind \in {"dynamic"} /\ ContentOf(o)[layout[i][1]] = Null}
<1>2. {<<layout[i][1]>> : i \in here} \subseteq PathsTo(o, {"dynamic"}, Null)
  BY <1>1 DEF PathsTo
<1>3. here = {}
  <2> HIDE DEF here
  <2> QED
    BY <1>2
<1>4. BodyPlace \notin here
  BY <1>3
<1> QED
  BY <1>1, <1>4, FrameIs DEF Body

(* Nor does a decode take the body away.                                   *)
LEMMA BodyStays ==
  ASSUME SameCode, NEW o, NEW unset, IsFrameObject(o, unset), Body(o) # Null,
         NEW bytes \in Seq(Byte), NEW r, IsDecode(r, bytes, o)
  PROVE  Body(r.value) # Null
<1>1. PICK b : b = Copied(bytes)
  OBVIOUS
<1>2. b \in Cursors
  BY <1>1, CopiedIs
<1>3. ClassOf(o) = FrameClass /\ HasMembers(o, unset) /\ r = DecodeInto(b, o)
  BY <1>1 DEF IsFrameObject, IsDecode
<1>4. PICK f : ObjectLoop(f, r, b, o)
  BY <1>3, DecodeIsLoop
<1>5. PICK n \in Nat : n = Len(FrameLayout)
  BY FrameIs, LayoutType
<1>6. r.value = Obj(FrameClass, f[n].value)
  BY <1>3, <1>4, <1>5 DEF ObjectLoop, FrameLayout
<1>7. MembersTaken(f, b, FrameLayout, ContentOf(o), unset, n)
  <2>1. ClassesInside(ClassOf(o)) \subseteq ReadsRight
    BY <1>3, FrameIs, InsideAreClasses, ObjectReads
  <2>2. \A i \in 0 .. Len(Classes[ClassOf(o)]) :
          MembersTaken(f, b, Classes[ClassOf(o)], ContentOf(o), unset, i)
    BY <1>2, <1>3, <1>4, <2>1, ObjectLoopReads
  <2> QED
    BY <1>3, <1>5, <2>2 DEF FrameLayout
<1>8. ContentOf(r.value) = f[n].value
  BY <1>6 DEF Obj, ContentOf
<1>9. f[n].value[FrameLayout[BodyPlace][1]] # Null
  BY <1>7, FrameIs DEF MembersTaken, Body
<1> QED
  BY <1>8, <1>9, FrameIs DEF Body

(* The null pointers of an object that has a body are further inside.      *)
LEMMA NullsAreInside ==
  ASSUME SameCode, NEW o, NEW unset, IsFrameObject(o, unset), Body(o) # Null,
         NEW path \in PathsTo(o, {"dynamic"}, Null)
  PROVE  Len(path) > 1
<1>1. PICK content : content = ContentOf(o)
  OBVIOUS
<1>2. FrameLayout = Classes[ClassOf(o)] /\ IsContent(FrameLayout, content, unset)
  BY <1>1, ObjectIs DEF FrameLayout, IsFrameObject
<1>3. PICK i \in DOMAIN FrameLayout :
        \/ path = <<FrameLayout[i][1]>> /\ FrameLayout[i][2].kind \in {"dynamic"}
           /\ content[FrameLayout[i][1]] = Null
        \/ /\ FrameLayout[i][2].kind \in {"struct", "dynamic"}
           /\ content[FrameLayout[i][1]] # Null
           /\ \E inner \in PathsToNested(content[FrameLayout[i][1]], {"dynamic"}, Null) :
                path = <<FrameLayout[i][1]>> \o inner
  <2>1. Leads(path, FrameLayout, content, {"dynamic"}, Null)
    BY <1>1, <1>2, PathLeads
  <2> QED
    BY <2>1 DEF Leads
<1>4. PICK name, type, v : name = FrameLayout[i][1] /\ type = FrameLayout[i][2] /\ v = content[name]
  OBVIOUS
<1>5. ~(type.kind \in {"dynamic"} /\ v = Null)
  BY <1>1, <1>4, FrameIs DEF Body
<1>6. type.kind \in {"struct", "dynamic"} /\ v # Null
  BY <1>3, <1>4, <1>5
<1>7. PICK inner \in PathsToNested(v, {"dynamic"}, Null) : path = <<name>> \o inner
  BY <1>3, <1>4, <1>5
<1>8. IsMember(type) /\ MemberFits(type, v, unset)
  BY <1>2, <1>4, FrameIs, LayoutType DEF IsContent
<1>9. ClassesIn(type) \subseteq PathsRight
  BY <1>8, InsideMember, PathsAreNames
<1>10. IsPath(inner)
  BY <1>6, <1>7, <1>8, <1>9, NestedPaths
<1>11. name \in Names
  BY <1>4, FrameIs DEF Names, NamesOf, FrameLayout
<1> QED
  BY <1>7, <1>10, <1>11, Longer

(* A new object of the frame's class.                                      *)
LEMMA NewFrame ==
  ASSUME SameCode, NEW number, NEW unset, number \in unset \/ number = 0,
         NEW o, o = NewObject(FrameClass, number)
  PROVE  IsFrameObject(o, unset) /\ Body(o) = Null
<1>1. FrameClass \in DOMAIN Classes
  BY FrameIs
<1>2. PICK p : p = New(FrameClass, number)
  OBVIOUS
<1>3. NewObject(FrameClass, number) = p /\ HasMembers(p, unset) /\ ClassOf(p) = FrameClass
  BY <1>1, <1>2, NewObjectFits
<1>4. IsFrameObject(o, unset)
  BY <1>3 DEF IsFrameObject
<1>5. PICK content : content = [name \in NamesOf(FrameLayout) |->
                                  InitialOf(TypeOf(FrameLayout, name), number)]
  OBVIOUS
<1>6. o = Obj(FrameClass, content)
  BY <1>2, <1>3, <1>5 DEF New, FrameLayout
<1>7. ContentOf(o) = content
  BY <1>6 DEF Obj, ContentOf
<1>8. PICK name : name = BodyField[1]
  OBVIOUS
<1>9. name \in NamesOf(FrameLayout) /\ TypeOf(FrameLayout, name) = BodyField[2]
  BY <1>8, FrameIs, TypeOfMember DEF NamesOf
<1>10. BodyField[2].kind = "dynamic"
  BY FrameIs
<1>11. content[name] = Null
  <2>1. content[name] = InitialOf(BodyField[2], number)
    BY <1>5, <1>9
  <2> QED
    BY <1>10, <2>1, InitialCases
<1> QED
  BY <1>4, <1>7, <1>8, <1>11 DEF Body

-----------------------------------------------------------------------------
(* The inductive invariant.  It says where the object, the outcome and the *)
(* cursor come from: either they are those of a new declaration, or the    *)
(* last decode, of the bytes that are there now, was into some frame       *)
(* object; which one is not in the state.  Everything that the properties  *)
(* say of a decode then follows from what one decode does.                 *)
LastDecode ==
  \E o, r : /\ IsFrameObject(o, {Indeterminate})
            /\ IsDecode(r, data, o)
            /\ object = r.value /\ outcome = r.outcome /\ cursor = r.buf.reader_index

IInv ==
  /\ IsFrameObject(object, {Indeterminate})
  /\ complete \in BOOLEAN
  /\ data \in Seq(Byte)
  /\ cursor \in 0 .. Len(data)
  /\ outcome \in {"not_decoded"} \cup Outs
  /\ outcome = "not_decoded" => data = <<>> /\ Body(object) = Null
  /\ outcome # "not_decoded" => LastDecode
  /\ complete => IsFrameObject(object, {}) /\ Body(object) # Null

LEMMA DeclaredInv ==
  ASSUME SameCode, object = Declared, complete = FALSE, data = <<>>,
         outcome = "not_decoded", cursor = 0
  PROVE  IInv
<1>1. PICK o : o = NewObject(FrameClass, Indeterminate)
  OBVIOUS
<1>2. IsFrameObject(o, {Indeterminate}) /\ Body(o) = Null
  <2>1. PICK number, unset : number = Indeterminate /\ unset = {Indeterminate}
    OBVIOUS
  <2>2. IsFrameObject(o, unset) /\ Body(o) = Null
    BY <1>1, <2>1, NewFrame
  <2> QED
    BY <2>1, <2>2
<1>3. object = o
  BY <1>1 DEF Declared
<1>4. data \in Seq(Byte) /\ cursor \in 0 .. Len(data)
  OBVIOUS
<1> QED
  BY <1>2, <1>3, <1>4 DEF IInv

LEMMA DecodeInv ==
  ASSUME SameCode, IInv, NEW bytes \in Seq(Byte), DecodeCopyOf(bytes)
  PROVE  IInv'
<1>1. PICK o : o = object
  OBVIOUS
<1>2. PICK r : IsDecode(r, bytes, o)
  BY DEF IsDecode
<1>3. IsFrameObject(o, {Indeterminate})
  BY <1>1 DEF IInv
<1>4. /\ data' = bytes /\ object' = r.value /\ outcome' = r.outcome
      /\ cursor' = r.buf.reader_index /\ complete' = (complete \/ r.outcome = "ok")
  <2>1. PICK b : b = Copied(bytes)
    OBVIOUS
  <2>2. b \in ByteBufs
    BY <2>1, CopiedIs DEF Cursors
  <2>3. DecodedInto(b, o) = DecodeInto(b, o)
    BY <1>3, <2>2 DEF SameCode, IsFrameObject
  <2>4. r = DecodedInto(Copied(bytes), object)
    BY <1>1, <1>2, <2>1, <2>3 DEF IsDecode
  <2> QED
    BY <2>4 DEF DecodeCopyOf
<1>5. /\ IsFrameObject(r.value, {Indeterminate})
      /\ r.buf.reader_index \in 0 .. Len(bytes)
      /\ r.outcome \in Outs
      /\ r.outcome = "ok" =>
           IsFrameObject(r.value, {}) /\ PathsTo(r.value, {"dynamic"}, Null) = {}
  BY <1>2, <1>3, FrameDecode
<1>6. outcome' # "not_decoded"
  BY <1>4, <1>5 DEF Outs
<1>7. LastDecode'
  BY <1>2, <1>3, <1>4 DEF LastDecode
<1>8. ASSUME complete' PROVE IsFrameObject(r.value, {}) /\ Body(r.value) # Null
  <2>1. CASE r.outcome = "ok"
    BY <1>5, <2>1, BodyIsThere DEF IsFrameObject
  <2>2. CASE complete
    <3>1. IsFrameObject(o, {}) /\ Body(o) # Null
      BY <1>1, <2>2 DEF IInv
    <3>2. IsFrameObject(r.value, {})
      BY <1>2, <3>1, FrameDecode
    <3>3. Body(r.value) # Null
      BY <1>2, <3>1, BodyStays
    <3> QED
      BY <3>2, <3>3
  <2> QED
    BY <1>4, <1>8, <2>1, <2>2
<1>9. complete' \in BOOLEAN
  BY <1>4 DEF IInv
<1> QED
  BY <1>4, <1>5, <1>6, <1>7, <1>8, <1>9 DEF IInv

LEMMA NextInv ==
  ASSUME SameCode, IInv, [Next]_vars
  PROVE  IInv'
<1>1. data \in Seq(Byte)
  BY DEF IInv
<1>2. ASSUME NEW byte \in Byte, MoreOfDatagram(byte) PROVE IInv'
  <2>1. PICK bytes \in Seq(Byte) : bytes = Append(data, byte)
    BY <1>1, AppendProperties
  <2>2. DecodeCopyOf(bytes)
    BY <1>2, <2>1 DEF MoreOfDatagram
  <2> QED
    BY <2>2, DecodeInv
<1>3. ASSUME NEW byte \in Byte, NextDatagram(byte) PROVE IInv'
  <2>1. PICK bytes \in Seq(Byte) : bytes = <<byte>>
    <3>1. <<byte>> \in Seq(Byte)
      OBVIOUS
    <3> QED
      BY <3>1
  <2>2. DecodeCopyOf(bytes)
    BY <1>3, <2>1 DEF NextDatagram
  <2> QED
    BY <2>2, DecodeInv
<1>4. CASE Declare
  <2>1. /\ object' = Declared /\ complete' = FALSE /\ data' = <<>>
        /\ outcome' = "not_decoded" /\ cursor' = 0
    BY <1>4 DEF Declare
  <2>2. PICK o : o = Declared
    OBVIOUS
  <2>3. IsFrameObject(o, {Indeterminate}) /\ Body(o) = Null
    <3>1. PICK number, unset : number = Indeterminate /\ unset = {Indeterminate}
      OBVIOUS
    <3>2. IsFrameObject(o, unset) /\ Body(o) = Null
      BY <2>2, <3>1, NewFrame DEF Declared
    <3> QED
      BY <3>1, <3>2
  <2>4. data' \in Seq(Byte) /\ cursor' \in 0 .. Len(data')
    BY <2>1
  <2> QED
    BY <2>1, <2>2, <2>3, <2>4 DEF IInv
<1>5. CASE UNCHANGED vars
  BY <1>5 DEF IInv, LastDecode, vars
<1> QED
  BY <1>2, <1>3, <1>4, <1>5 DEF Next

LEMMA Invariance ==
  ASSUME SameCode
  PROVE  Spec => []IInv
<1>1. Init => IInv
  BY DeclaredInv DEF Init
<1>2. IInv /\ [Next]_vars => IInv'
  BY NextInv
<1> QED
  BY <1>1, <1>2, PTL DEF Spec

-----------------------------------------------------------------------------
(* The object stays an object of the frame's class with all its members,   *)
(* through every decode, refused ones included, and a decode takes no more *)
(* bytes than there are.                                                   *)
THEOREM TypeCorrect ==
  ASSUME SameCode
  PROVE  Spec => []TypeOK
<1>1. IInv => TypeOK
  <2> SUFFICES ASSUME IInv PROVE TypeOK
    OBVIOUS
  <2>1. PICK o : o = object
    OBVIOUS
  <2>2. ClassOf(o) = FrameClass /\ HasMembers(o, {Indeterminate})
    BY <2>1 DEF IInv, IsFrameObject
  <2>3. IsWhole(o, {Indeterminate})
    BY <2>2, FrameIs DEF SameCode
  <2> QED
    BY <2>1, <2>2, <2>3 DEF IInv, TypeOK, Outs
<1> QED
  BY <1>1, Invariance, PTL

(* A used object decodes as a new one: no member that decode() fills in    *)
(* place, and no body that an earlier decode made, changes what is         *)
(* accepted, how many bytes it takes or which object it gives.             *)
THEOREM UsedObjectIsAsNew ==
  ASSUME SameCode
  PROVE  Spec => []DecodesAsIfNew
<1>1. IInv => DecodesAsIfNew
  <2> SUFFICES ASSUME IInv, outcome # "not_decoded"
               PROVE  LET r == DecodedInto(Copied(data), NewObject(FrameClass, 0))
                      IN  /\ outcome = r.outcome
                          /\ cursor = r.buf.reader_index
                          /\ Decoded => object = r.value
    BY DEF DecodesAsIfNew
  <2>1. PICK bytes \in Seq(Byte) : bytes = data
    BY DEF IInv
  <2>2. PICK o, r : /\ IsFrameObject(o, {Indeterminate}) /\ IsDecode(r, bytes, o)
                    /\ object = r.value /\ outcome = r.outcome /\ cursor = r.buf.reader_index
    BY <2>1 DEF IInv, LastDecode
  <2>3. PICK new : new = NewObject(FrameClass, 0)
    OBVIOUS
  <2>4. IsFrameObject(new, {})
    BY <2>3, NewFrame
  <2>5. PICK b : b = Copied(bytes)
    OBVIOUS
  <2>6. b \in ByteBufs
    BY <2>5, CopiedIs DEF Cursors
  <2>7. PICK q : q = DecodedInto(Copied(data), NewObject(FrameClass, 0))
    OBVIOUS
  <2>8. IsDecode(q, bytes, new)
    <3>1. DecodedInto(b, new) = DecodeInto(b, new)
      BY <2>4, <2>6 DEF SameCode, IsFrameObject
    <3> QED
      BY <2>1, <2>3, <2>5, <2>7, <3>1 DEF IsDecode
  <2>9. Len(bytes) <= Len(bytes)
    BY LenProperties
  <2>10. /\ q.outcome = r.outcome
         /\ q.buf.reader_index = r.buf.reader_index
         /\ r.outcome = "ok" => q.value = r.value
    BY <2>2, <2>4, <2>8, <2>9, FrameSame
  <2> QED
    BY <2>2, <2>7, <2>10 DEF Decoded
<1> QED
  BY <1>1, Invariance, PTL

(* The bytes that decode() accepts are the ones encode() writes of the     *)
(* object: no list count, string length, padding or number on the wire has *)
(* a second form that decode() would take for the same.  The members are   *)
(* written as they are; those that a frame computes are not covered.       *)
THEOREM AcceptedBytesAreTheEncoding ==
  ASSUME SameCode
  PROVE  Spec => []OneEncoding
<1>1. IInv => OneEncoding
  <2> SUFFICES ASSUME IInv, Decoded
               PROVE  Encoded(object).bytes = SubSeq(data, 1, cursor)
    BY DEF OneEncoding
  <2>1. PICK bytes \in Seq(Byte) : bytes = data
    BY DEF IInv
  <2>2. PICK o, r : /\ IsFrameObject(o, {Indeterminate}) /\ IsDecode(r, bytes, o)
                    /\ object = r.value /\ outcome = r.outcome /\ cursor = r.buf.reader_index
    BY <2>1 DEF IInv, LastDecode, Decoded
  <2>3. IsFrameObject(r.value, {}) /\ PutObject(r.value).bytes = SubSeq(bytes, 1, r.buf.reader_index)
    <3>1. r.outcome = "ok"
      BY <2>2 DEF Decoded
    <3> QED
      BY <2>2, <3>1, FrameDecode
  <2>4. Encoded(r.value) = PutObject(r.value)
    <3>1. PICK v : v = r.value
      OBVIOUS
    <3>2. HasMembers(v, {})
      BY <2>3, <3>1 DEF IsFrameObject
    <3>3. Encoded(v) = PutObject(v)
      BY <3>2 DEF SameCode
    <3> QED
      BY <3>1, <3>3
  <2> QED
    BY <2>1, <2>2, <2>3, <2>4
<1> QED
  BY <1>1, Invariance, PTL

(* Once a decode has succeeded, encode(), equals() and toString() find a   *)
(* value in every number, and an object behind every pointer but those of  *)
(* a body whose own decode was refused, whatever is decoded afterwards.    *)
THEOREM CompletedObjectStaysUsable ==
  ASSUME SameCode
  PROVE  Spec => []StaysUsable
<1>1. IInv => StaysUsable
  <2> SUFFICES ASSUME IInv, complete
               PROVE  /\ UnsetPaths(object) = {}
                      /\ \A path \in NullPaths(object) : Len(path) > 1 /\ ~ Decoded
    BY DEF StaysUsable
  <2>1. PICK v : v = object
    OBVIOUS
  <2>2. IsFrameObject(v, {}) /\ Body(v) # Null
    BY <2>1 DEF IInv
  <2>3. ClassOf(v) = FrameClass /\ HasMembers(v, {})
    BY <2>2 DEF IsFrameObject
  <2>4. \A kinds, value : Paths(v, kinds, value) = PathsTo(v, kinds, value)
    BY <2>3 DEF SameCode
  <2>5. UnsetPaths(v) = {}
    <3>1. PathsTo(v, {"octet", "int"}, Indeterminate) = {}
      BY <2>3, FrameIs, NumbersAssigned DEF NoneUnset
    <3> QED
      BY <2>4, <3>1 DEF UnsetPaths
  <2>6. NullPaths(v) = PathsTo(v, {"dynamic"}, Null)
    BY <2>4 DEF NullPaths
  <2>7. \A path \in NullPaths(v) : Len(path) > 1
    BY <2>2, <2>6, NullsAreInside
  <2>8. ASSUME Decoded PROVE NullPaths(v) = {}
    <3>1. PICK bytes \in Seq(Byte) : bytes = data
      BY DEF IInv
    <3>2. PICK o, r : /\ IsFrameObject(o, {Indeterminate}) /\ IsDecode(r, bytes, o)
                      /\ object = r.value /\ outcome = r.outcome
      BY <2>8, <3>1 DEF IInv, LastDecode, Decoded
    <3>3. r.outcome = "ok"
      BY <2>8, <3>2 DEF Decoded
    <3>4. PathsTo(r.value, {"dynamic"}, Null) = {}
      BY <3>2, <3>3, FrameDecode
    <3> QED
      BY <2>1, <2>6, <3>2, <3>4
  <2> QED
    BY <2>1, <2>5, <2>7, <2>8
<1> QED
  BY <1>1, Invariance, PTL

(* The body of the frame is of the class that its key names, unless the    *)
(* last decode threw in the header or for the key, since decode() assigns  *)
(* the key before it makes the body.                                       *)
THEOREM KeyAndBodyAgree ==
  ASSUME SameCode
  PROVE  Spec => []KeyNamesBody
<1>1. IInv => KeyNamesBody
  <2> SUFFICES ASSUME IInv, Body(object) # Null
               PROVE  \/ /\ Key(object) \in DOMAIN BodyField[2].factory
                         /\ ClassOf(Body(object)) = BodyField[2].factory[Key(object)]
                      \/ Refused
                      \/ outcome = "out_of_range" /\ Len(data) < HeaderSize
    BY DEF KeyNamesBody
  <2>1. PICK bytes \in Seq(Byte) : bytes = data
    BY DEF IInv
  <2>2. PICK o, r : /\ IsFrameObject(o, {Indeterminate}) /\ IsDecode(r, bytes, o)
                    /\ object = r.value /\ outcome = r.outcome
    BY <2>1 DEF IInv, LastDecode
  <2>3. PICK b : b = Copied(bytes)
    OBVIOUS
  <2>4. b \in Cursors /\ b.buffer = bytes /\ b.reader_index = 0
    BY <2>3, CopiedIs
  <2>5. \/ BodyNamed(ContentOf(r.value))
        \/ r.outcome = "no_such_type"
        \/ r.outcome = "out_of_range" /\ Len(b.buffer) < b.reader_index + HeaderSize
    BY <2>2, <2>3, <2>4, FrameNamed DEF IsFrameObject, IsDecode
  <2>6. HeaderSize \in Nat
    <3>1. PICK n \in Nat : n = BodyPlace - 1
      BY FrameIs, LayoutType
    <3>2. PICK f : Sizes(f, n) /\ HeaderSize = f[n]
      BY <3>1, HeaderSizes
    <3> QED
      BY <3>2 DEF Sizes
  <2>7. b.reader_index + HeaderSize = HeaderSize
    BY <2>4, <2>6
  <2> QED
    BY <2>1, <2>2, <2>4, <2>5, <2>7 DEF BodyNamed, Body, Key, Refused
<1> QED
  BY <1>1, Invariance, PTL

(* decode() of the same bytes and more, into the object that the decode of *)
(* the fewer bytes has left, accepts what it accepted, as the same object, *)
(* and refuses what it refused for a key.                                  *)
THEOREM MoreBytesChangeNothing ==
  ASSUME SameCode
  PROVE  Spec => VerdictStands
<1> DEFINE Stands == data # <<>> /\ Len(data') > Len(data) =>
                       /\ Decoded => Decoded' /\ UNCHANGED <<object, cursor>>
                       /\ Refused => Refused'
<1>1. ASSUME IInv, Next PROVE Stands
  <2> SUFFICES ASSUME data # <<>>, Len(data') > Len(data)
               PROVE  /\ Decoded => Decoded' /\ UNCHANGED <<object, cursor>>
                      /\ Refused => Refused'
    OBVIOUS
  <2>1. PICK bytes \in Seq(Byte) : bytes = data
    BY <1>1 DEF IInv
  <2>2. Len(bytes) \in Nat /\ Len(bytes) # 0
    BY <2>1, LenProperties, EmptySeq
  <2>3. PICK byte \in Byte : MoreOfDatagram(byte)
    <3>1. CASE Declare
      <4>1. Len(data') = 0
        BY <3>1 DEF Declare
      <4> QED
        BY <2>1, <2>2, <4>1
    <3>2. ASSUME NEW byte \in Byte, NextDatagram(byte) PROVE FALSE
      <4>1. Len(data') = 1
        BY <3>2 DEF NextDatagram, DecodeCopyOf
      <4> QED
        BY <2>1, <2>2, <4>1
    <3> QED
      BY <1>1, <3>1, <3>2 DEF Next
  <2>4. PICK more \in Seq(Byte) : more = Append(bytes, byte)
    BY AppendProperties
  <2>5. Len(bytes) <= Len(more) /\ \A i \in 1 .. Len(bytes) : bytes[i] = more[i]
    <3>1. Len(more) = Len(bytes) + 1 /\ \A i \in 1 .. Len(bytes) : more[i] = bytes[i]
      BY <2>4, AppendProperties
    <3> QED
      BY <2>2, <3>1
  <2>6. PICK o, r : /\ IsFrameObject(o, {Indeterminate}) /\ IsDecode(r, bytes, o)
                    /\ object = r.value /\ outcome = r.outcome /\ cursor = r.buf.reader_index
    <3>1. outcome # "not_decoded"
      BY <1>1 DEF IInv
    <3> QED
      BY <1>1, <2>1, <3>1 DEF IInv, LastDecode
  <2>7. PICK p : p = object
    OBVIOUS
  <2>8. IsFrameObject(p, {Indeterminate})
    BY <1>1, <2>7 DEF IInv
  <2>9. PICK q : IsDecode(q, more, p)
    BY DEF IsDecode
  <2>10. object' = q.value /\ outcome' = q.outcome /\ cursor' = q.buf.reader_index
    <3>1. PICK b : b = Copied(more)
      OBVIOUS
    <3>2. b \in ByteBufs
      BY <3>1, CopiedIs DEF Cursors
    <3>3. DecodedInto(b, p) = DecodeInto(b, p)
      BY <2>8, <3>2 DEF SameCode, IsFrameObject
    <3>4. q = DecodedInto(Copied(more), object)
      BY <2>7, <2>9, <3>1, <3>3 DEF IsDecode
    <3>5. DecodeCopyOf(more)
      BY <2>1, <2>3, <2>4 DEF MoreOfDatagram
    <3> QED
      BY <3>4, <3>5 DEF DecodeCopyOf
  <2>11. r.outcome # "out_of_range" \/ bytes = more =>
           /\ q.outcome = r.outcome
           /\ q.buf.reader_index = r.buf.reader_index
           /\ r.outcome = "ok" => q.value = r.value
    BY <2>5, <2>6, <2>8, <2>9, FrameSame
  <2> QED
    BY <2>6, <2>10, <2>11 DEF Decoded, Refused
<1>2. IInv /\ [Next]_vars => [Stands]_vars
  <2> HIDE DEF Stands
  <2> QED
    BY <1>1
<1>3. Spec => [][Stands]_vars
  <2> HIDE DEF Stands
  <2> QED
    BY <1>2, Invariance, PTL DEF Spec
<1> QED
  BY <1>3 DEF VerdictStands

-----------------------------------------------------------------------------
(* Integers come back: what write_le writes of a number of the type is     *)
(* what read_le assembles again.                                           *)

LEMMA Divided ==
  ASSUME NEW x \in Int
  PROVE  \E q \in Int, r \in Int : q = x \div Radix /\ r = x % Radix /\ x = Radix * q + r
<1>1. x \div Radix \in Int /\ x % Radix \in Int
  BY RadixAssumption
<1>2. x = Radix * (x \div Radix) + (x % Radix)
  BY RadixAssumption
<1> QED
  BY <1>1, <1>2

(* Bytes that are the same come from numbers that differ by a multiple of  *)
(* the bit patterns.                                                       *)
LEMMA SameBytes ==
  ASSUME NEW v \in Int, NEW u \in Int, NEW w \in Nat, LittleEndian(v, w) = LittleEndian(u, w)
  PROVE  \E k \in Int : v - u = Patterns(w) * k
<1>1. PICK f \in [0 .. w -> Int] :
        /\ f[0] = v
        /\ \A i \in 1 .. w : f[i] = f[i - 1] \div Radix
        /\ LittleEndian(v, w) = [i \in 1 .. w |-> f[i - 1] % Radix]
  BY LittleEndianShifts
<1>2. PICK g \in [0 .. w -> Int] :
        /\ g[0] = u
        /\ \A i \in 1 .. w : g[i] = g[i - 1] \div Radix
        /\ LittleEndian(u, w) = [i \in 1 .. w |-> g[i - 1] % Radix]
  BY LittleEndianShifts
<1>3. PICK p \in [0 .. w -> Nat] :
        /\ p[0] = 1
        /\ \A i \in 1 .. w : p[i] = p[i - 1] * Radix
        /\ Patterns(w) = p[w]
  BY PatternsPowers
<1>4. ASSUME NEW i \in 1 .. w
      PROVE  f[i - 1] - g[i - 1] = Radix * (f[i] - g[i])
  <2>1. f[i - 1] % Radix = g[i - 1] % Radix
    <3>1. LittleEndian(v, w)[i] = f[i - 1] % Radix
      BY <1>1
    <3>2. LittleEndian(u, w)[i] = g[i - 1] % Radix
      BY <1>2
    <3> QED
      BY <3>1, <3>2
  <2>2. PICK x \in Int, y \in Int : x = f[i - 1] /\ y = g[i - 1]
    <3>1. i - 1 \in 0 .. w
      OBVIOUS
    <3> QED
      BY <1>1, <1>2, <3>1
  <2>3. PICK c \in Int, m \in Int : c = x \div Radix /\ m = x % Radix /\ x = Radix * c + m
    BY Divided
  <2>4. PICK d \in Int, n \in Int : d = y \div Radix /\ n = y % Radix /\ y = Radix * d + n
    BY Divided
  <2>5. f[i] = c /\ g[i] = d /\ m = n
    BY <1>1, <1>2, <2>1, <2>2, <2>3, <2>4
  <2>6. x - y = Radix * (c - d)
    <3>1. x - y = Radix * c - Radix * d
      <4>1. PICK s \in Int, t \in Int : s = Radix * c /\ t = Radix * d
        BY RadixAssumption
      <4>2. x = s + m /\ y = t + m
        BY <2>3, <2>4, <2>5, <4>1
      <4> QED
        BY <4>1, <4>2
    <3>2. Radix * c - Radix * d = Radix * (c - d)
      BY RadixAssumption
    <3> QED
      BY <3>1, <3>2
  <2> QED
    BY <2>2, <2>5, <2>6
<1> DEFINE T == {i \in Nat : i <= w => v - u = p[i] * (f[i] - g[i])}
<1>5. 0 \in T
  BY <1>1, <1>2, <1>3
<1>6. ASSUME NEW i \in Nat, i \in T PROVE i + 1 \in T
  <2>1. CASE i + 1 <= w
    <3>1. v - u = p[i] * (f[i] - g[i])
      BY <1>6, <2>1
    <3>2. i + 1 \in 1 .. w /\ (i + 1) - 1 = i
      BY <2>1
    <3>3. f[i] - g[i] = Radix * (f[i + 1] - g[i + 1])
      BY <1>4, <3>2
    <3>4. p[i + 1] = p[i] * Radix
      BY <1>3, <3>2
    <3>5. PICK a \in Int, d \in Int : a = p[i] /\ d = f[i + 1] - g[i + 1]
      BY <2>1
    <3>6. a * (Radix * d) = (a * Radix) * d
      BY RadixAssumption
    <3> QED
      BY <3>1, <3>3, <3>4, <3>5, <3>6
  <2> QED
    BY <2>1
<1>7. w \in T
  <2> HIDE DEF T
  <2> QED
    BY <1>5, <1>6, SetInduction
<1>8. f[w] - g[w] \in Int /\ v - u = Patterns(w) * (f[w] - g[w])
  BY <1>3, <1>7
<1> QED
  BY <1>8

LEMMA TooFar ==
  ASSUME NEW p \in Nat, NEW k \in Int, p * k < p, -p < p * k
  PROVE  k = 0
<1>1. CASE k >= 1
  <2>1. p * k >= p
    BY <1>1
  <2> QED
    BY <2>1
<1>2. CASE k <= -1
  <2>1. p * k <= -p
    BY <1>2
  <2> QED
    BY <2>1
<1> QED
  BY <1>1, <1>2

(* The numbers that the type T of read_le<T> has.                          *)
IntegersOf(w, signed) ==
  LET half == Patterns(w) \div 2
  IN  IF signed THEN -half .. Patterns(w) - half - 1 ELSE 0 .. Patterns(w) - 1

LEMMA ReadBack ==
  ASSUME NEW w \in Nat \ {0}, NEW signed \in BOOLEAN, signed => Radix % 2 = 0,
         NEW v \in IntegersOf(w, signed)
  PROVE  v \in Int /\ ValueOf(LittleEndian(v, w), signed) = v
<1>1. PICK p \in Nat : p = Patterns(w)
  BY PatternsPositive
<1>2. v \in Int
  BY <1>1 DEF IntegersOf
<1>3. PICK bytes : bytes = LittleEndian(v, w)
  OBVIOUS
<1>4. bytes \in Seq(Byte) /\ Len(bytes) = w
  BY <1>2, <1>3, LittleEndianType
<1>5. PICK u : u = ValueOf(bytes, signed)
  OBVIOUS
<1>6. u \in Int /\ LittleEndian(u, w) = bytes
  BY <1>4, <1>5, WrittenBack
<1>7. u \in IntegersOf(w, signed)
  <2>1. CASE signed
    <3>1. u = ValueOf(bytes, TRUE)
      BY <1>5, <2>1
    <3>2. u \in -(Patterns(w) \div 2) .. Patterns(w) - (Patterns(w) \div 2) - 1
      BY <1>4, <2>1, <3>1, SignedRange
    <3> QED
      BY <2>1, <3>2 DEF IntegersOf
  <2>2. CASE ~ signed
    <3>1. u = ValueOf(bytes, FALSE)
      BY <1>5, <2>2
    <3> QED
      BY <1>4, <2>2, <3>1, UnsignedRange DEF IntegersOf
  <2> QED
    BY <2>1, <2>2
<1>8. PICK k \in Int : v - u = p * k
  <2>1. LittleEndian(v, w) = LittleEndian(u, w)
    BY <1>3, <1>6
  <2> QED
    BY <1>1, <1>2, <1>6, <2>1, SameBytes
<1>9. v - u < p /\ -p < v - u
  <2>1. PICK half \in Int : half = p \div 2
    BY <1>1
  <2>2. IntegersOf(w, signed) = IF signed THEN -half .. p - half - 1 ELSE 0 .. p - 1
    BY <1>1, <2>1 DEF IntegersOf
  <2> QED
    BY <1>2, <1>6, <1>7, <2>2
<1>10. k = 0
  BY <1>8, <1>9, TooFar
<1> QED
  BY <1>2, <1>3, <1>5, <1>6, <1>8, <1>10

LEMMA NumbersOf ==
  ASSUME NEW type, IsElement(type), type.kind \in {"octet", "int"}, NEW v \in Numbers(type),
         NEW w, w = IF type.kind = "octet" THEN 1 ELSE type.width
  PROVE  /\ w \in Nat \ {0} /\ type.signed \in BOOLEAN
         /\ v \in Int /\ LittleEndian(v, w) \in Seq(Byte) /\ Len(LittleEndian(v, w)) = w
         /\ ValueOf(LittleEndian(v, w), type.signed) = v
<1>1. w \in Nat \ {0} /\ type.signed \in BOOLEAN /\ (type.signed => Radix % 2 = 0)
  BY DEF IsElement
<1>2. v \in IntegersOf(w, type.signed)
  BY DEF Numbers, IntegersOf
<1>3. v \in Int /\ ValueOf(LittleEndian(v, w), type.signed) = v
  BY <1>1, <1>2, ReadBack
<1> QED
  BY <1>1, <1>3, LittleEndianType

(* What a count can say.                                                   *)
LEMMA CountsOf ==
  ASSUME NEW prefix \in Nat \ {0}, NEW n \in Nat, n < Patterns(prefix)
  PROVE  /\ LittleEndian(n, prefix) \in Seq(Byte) /\ Len(LittleEndian(n, prefix)) = prefix
         /\ ValueOf(LittleEndian(n, prefix), FALSE) = n
<1>1. n \in IntegersOf(prefix, FALSE)
  BY PatternsPositive DEF IntegersOf
<1>2. n \in Int /\ ValueOf(LittleEndian(n, prefix), FALSE) = n
  BY <1>1, ReadBack
<1> QED
  BY <1>2, LittleEndianType

-----------------------------------------------------------------------------
(* From the cursor on, the buffer has the given bytes, perhaps with more   *)
(* behind them.                                                            *)
Has(b, bytes) ==
  /\ b \in Cursors
  /\ bytes \in Seq(Byte)
  /\ b.reader_index + Len(bytes) <= Len(b.buffer)
  /\ \A k \in 1 .. Len(bytes) : b.buffer[b.reader_index + k] = bytes[k]

(* A call has taken so many bytes and given a value.                       *)
Gives(r, b, n, v) ==
  /\ r.outcome = "ok"
  /\ Reaches(b, r.buf)
  /\ r.buf.reader_index = b.reader_index + n
  /\ r.value = v

LEMMA HasType ==
  ASSUME NEW b, NEW bytes, Has(b, bytes)
  PROVE  /\ b \in Cursors /\ bytes \in Seq(Byte) /\ Len(bytes) \in Nat
         /\ b.reader_index \in Nat /\ b.buffer \in Seq(Byte) /\ Len(b.buffer) \in Nat
         /\ b.reader_index + Len(bytes) <= Len(b.buffer)
<1>1. b \in Cursors /\ bytes \in Seq(Byte) /\ b.reader_index + Len(bytes) <= Len(b.buffer)
  BY DEF Has
<1> QED
  BY <1>1, CursorType

LEMMA HasSplit ==
  ASSUME NEW s \in Seq(Byte), NEW t \in Seq(Byte), NEW b, Has(b, s \o t)
  PROVE  /\ Has(b, s)
         /\ \A c : Reaches(b, c) /\ c.reader_index = b.reader_index + Len(s) => Has(c, t)
<1>1. PICK m \in Nat, n \in Nat : m = Len(s) /\ n = Len(t)
  OBVIOUS
<1>2. /\ Len(s \o t) = m + n
      /\ \A i \in 1 .. m + n : (s \o t)[i] = IF i <= m THEN s[i] ELSE t[i - m]
  BY <1>1, ConcatProperties
<1>3. PICK x \in Nat, l \in Nat : x = b.reader_index /\ l = Len(b.buffer)
  BY HasType
<1>4. /\ b \in Cursors
      /\ x + (m + n) <= l
      /\ \A k \in 1 .. m + n : b.buffer[x + k] = (s \o t)[k]
  BY <1>2, <1>3 DEF Has
<1>5. Has(b, s)
  <2>1. ASSUME NEW k \in 1 .. m PROVE b.buffer[x + k] = s[k]
    <3>1. k \in 1 .. m + n /\ k <= m
      OBVIOUS
    <3> QED
      BY <1>2, <1>4, <3>1
  <2> QED
    BY <1>1, <1>3, <1>4, <2>1 DEF Has
<1>6. ASSUME NEW c, Reaches(b, c), c.reader_index = b.reader_index + Len(s)
      PROVE  Has(c, t)
  <2>1. c \in Cursors /\ c.buffer = b.buffer /\ c.reader_index = x + m
    BY <1>1, <1>3, <1>6 DEF Reaches
  <2>2. ASSUME NEW k \in 1 .. n PROVE b.buffer[(x + m) + k] = t[k]
    <3>1. PICK j \in 1 .. m + n : j = m + k /\ ~ (j <= m) /\ j - m = k
      OBVIOUS
    <3>2. (x + m) + k = x + j
      BY <3>1
    <3> QED
      BY <1>2, <1>4, <3>1, <3>2
  <2>3. (x + m) + n <= l
    BY <1>4
  <2> QED
    BY <1>1, <1>3, <2>1, <2>2, <2>3 DEF Has
<1> QED
  BY <1>5, <1>6

LEMMA ReadHas ==
  ASSUME NEW b, NEW bytes, Has(b, bytes), NEW n, n = Len(bytes), NEW r, r = ReadBytes(b, n)
  PROVE  Gives(r, b, n, bytes)
<1>1. b \in Cursors /\ bytes \in Seq(Byte) /\ n \in Nat /\ b.reader_index + n <= Len(b.buffer)
  BY HasType
<1>2. /\ Reaches(b, r.buf)
      /\ r.outcome = "ok"
      /\ r.buf.reader_index = b.reader_index + n
      /\ r.value = Taken(b, r.buf)
      /\ r.value \in Seq(Byte) /\ Len(r.value) = n
  BY <1>1, ReadBytesReads
<1>3. PICK x \in Nat : x = b.reader_index
  BY HasType
<1>4. r.value = SubSeq(b.buffer, x + 1, x + n)
  BY <1>2, <1>3 DEF Taken
<1>5. \A i \in x + 1 .. x + n : b.buffer[i] \in Byte
  <2>1. b.buffer \in Seq(Byte) /\ Len(b.buffer) \in Nat
    BY HasType
  <2> QED
    BY <1>1, <1>3, <2>1, ElementOfSeq
<1>6. \A i \in 1 .. (x + n) - (x + 1) + 1 : r.value[i] = b.buffer[(x + 1) + i - 1]
  <2>1. x + 1 \in Int /\ x + n \in Int
    BY <1>1
  <2> QED
    BY <1>4, <1>5, <2>1, SubSeqProperties
<1>7. ASSUME NEW k \in 1 .. n PROVE r.value[k] = bytes[k]
  <2>1. (x + n) - (x + 1) + 1 = n /\ (x + 1) + k - 1 = x + k
    BY <1>1
  <2>2. r.value[k] = b.buffer[x + k]
    BY <1>6, <2>1
  <2> QED
    BY <1>3, <2>2 DEF Has
<1>8. r.value = bytes
  BY <1>1, <1>2, <1>7, SeqEqual
<1> QED
  BY <1>2, <1>8 DEF Gives

(* One call after another.                                                 *)
LEMMA GivesOn ==
  ASSUME NEW b \in Cursors, NEW m \in Nat, NEW n \in Nat, NEW u, NEW v,
         NEW t, Gives(t, b, m, u), NEW r, Gives(r, t.buf, n, v)
  PROVE  Gives(r, b, m + n, v)
<1>1. Reaches(b, t.buf) /\ Reaches(t.buf, r.buf)
  BY DEF Gives
<1>2. Reaches(b, r.buf)
  BY <1>1, ReachesOn
<1>3. PICK x \in Nat : x = b.reader_index
  BY CursorType
<1>4. r.buf.reader_index = (x + m) + n
  BY <1>3 DEF Gives
<1> QED
  BY <1>2, <1>3, <1>4 DEF Gives

-----------------------------------------------------------------------------
(* Numbers and strings that are sent come back, the strings of a fixed     *)
(* size as the size and the padding leave them.                            *)
LEMMA IntGiven ==
  ASSUME NEW b, NEW w \in Nat \ {0}, NEW signed, NEW bytes, Has(b, bytes), Len(bytes) = w,
         NEW v, ValueOf(bytes, signed) = v,
         NEW r, r = TakeInt(b, w, signed)
  PROVE  Gives(r, b, w, v)
<1>1. PICK t : t = ReadBytes(b, w)
  OBVIOUS
<1>2. Gives(t, b, w, bytes)
  BY <1>1, ReadHas
<1>3. r = Ok(t.buf, ValueOf(t.value, signed))
  BY <1>1, <1>2 DEF TakeInt, AsNumber, Gives
<1> QED
  BY <1>2, <1>3 DEF Gives, Ok

LEMMA TextGiven ==
  ASSUME NEW b, NEW prefix \in Nat \ {0}, NEW s \in Seq(Byte), Len(s) < Patterns(prefix),
         NEW c, c = PutText(prefix, s)
  PROVE  /\ c.bytes \in Seq(Byte)
         /\ Has(b, c.bytes) => Gives(TakeText(b, prefix), b, Len(c.bytes), s)
<1>1. PICK n \in Nat : n = Len(s)
  OBVIOUS
<1>2. PICK count : count = LittleEndian(n, prefix)
  OBVIOUS
<1>3. count \in Seq(Byte) /\ Len(count) = prefix /\ ValueOf(count, FALSE) = n
  BY <1>1, <1>2, CountsOf
<1>4. c.bytes = count \o s
  BY <1>1, <1>2 DEF PutText, Joined, Prefix, Counted, Uncounted
<1>5. c.bytes \in Seq(Byte) /\ Len(c.bytes) = prefix + n
  <2>1. count \o s \in Seq(Byte) /\ Len(count \o s) = Len(count) + Len(s)
    <3>1. count \in Seq(Byte)
      BY <1>3
    <3> QED
      BY <3>1, ConcatType
  <2> QED
    BY <1>1, <1>3, <1>4, <2>1
<1>6. ASSUME Has(b, c.bytes)
      PROVE  Gives(TakeText(b, prefix), b, Len(c.bytes), s)
  <2>1. /\ Has(b, count)
        /\ \A d : Reaches(b, d) /\ d.reader_index = b.reader_index + prefix => Has(d, s)
    BY <1>3, <1>4, <1>6, HasSplit
  <2>2. PICK t : t = TakeInt(b, prefix, FALSE)
    OBVIOUS
  <2>3. Gives(t, b, prefix, n)
    BY <1>3, <2>1, <2>2, IntGiven
  <2>4. Has(t.buf, s)
    BY <2>1, <2>3 DEF Gives
  <2>5. PICK r : r = ReadBytes(t.buf, n)
    OBVIOUS
  <2>6. Gives(r, t.buf, n, s)
    BY <1>1, <2>4, <2>5, ReadHas
  <2>7. TakeText(b, prefix) = r
    BY <2>2, <2>3, <2>5 DEF TakeText, Characters, Gives
  <2>8. b \in Cursors
    BY <2>1, HasType
  <2> QED
    BY <1>5, <2>3, <2>6, <2>7, <2>8, GivesOn
<1> QED
  BY <1>5, <1>6

(* A string cut to a size, at most so long.                                *)
Cut(type, s) == SubSeq(s, 1, IF Len(s) < type.size THEN Len(s) ELSE type.size)

(* The string t is the string s of n bytes with padding around it.         *)
Padded(type, t, s, n) ==
  /\ t \in Seq(Byte) /\ Len(t) = type.size
  /\ s \in Seq(Byte) /\ Len(s) = n
  /\ n \in Nat /\ n <= type.size
  /\ \A i \in 1 .. type.size :
       t[i] = IF type.left
                THEN IF i <= type.size - n THEN type.pad ELSE s[i - (type.size - n)]
                ELSE IF i <= n THEN s[i] ELSE type.pad

LEMMA FittedPads ==
  ASSUME NEW type, type.size \in Nat, type.pad \in Byte, type.left \in BOOLEAN,
         NEW s \in Seq(Byte)
  PROVE  \E n : Padded(type, Fitted(type, s), Cut(type, s), n)
<1>1. PICK m \in Nat, size \in Nat, pad \in Byte : m = Len(s) /\ size = type.size /\ pad = type.pad
  OBVIOUS
<1>2. PICK t, c : t = Fitted(type, s) /\ c = Cut(type, s)
  OBVIOUS
<1>3. CASE m >= size
  <2>1. t = SubSeq(s, 1, size) /\ c = SubSeq(s, 1, size)
    <3>1. t = SubSeq(s, 1, size)
      BY <1>1, <1>2, <1>3 DEF Fitted
    <3>2. c = SubSeq(s, 1, size)
      BY <1>1, <1>2, <1>3 DEF Cut
    <3> QED
      BY <3>1, <3>2
  <2>2. \A i \in 1 .. size : s[i] \in Byte
    BY <1>1, <1>3, ElementOfSeq
  <2>3. t \in Seq(Byte) /\ Len(t) = size
    <3>1. PICK k \in Int : k = 1
      OBVIOUS
    <3>2. \A i \in k .. size : s[i] \in Byte
      BY <2>2, <3>1
    <3>3. /\ SubSeq(s, k, size) \in Seq(Byte)
          /\ Len(SubSeq(s, k, size)) = IF k <= size THEN size - k + 1 ELSE 0
      BY <3>2, SubSeqProperties
    <3>4. (IF k <= size THEN size - k + 1 ELSE 0) = size
      BY <3>1
    <3> QED
      BY <2>1, <3>1, <3>3, <3>4
  <2>4. \A i \in 1 .. size :
          /\ ~ (i <= size - size) /\ i - (size - size) = i /\ i <= size
          /\ t[i] = c[i]
    BY <2>1
  <2>5. c \in Seq(Byte) /\ Len(c) = size
    BY <2>1, <2>3
  <2>6. Padded(type, t, c, size)
    BY <1>1, <2>3, <2>4, <2>5 DEF Padded
  <2> QED
    BY <1>2, <2>6
<1>4. CASE m < size
  <2> DEFINE p == [i \in 1 .. size - m |-> pad]
  <2>1. t = IF type.left THEN p \o s ELSE s \o p
    BY <1>1, <1>2, <1>4 DEF Fitted
  <2>2. c = s
    BY <1>1, <1>2, <1>4, SubSeqFull DEF Cut
  <2>3. size - m \in Nat
    BY <1>4
  <2>4. p \in Seq(Byte) /\ Len(p) = size - m /\ \A i \in 1 .. size - m : p[i] = pad
    BY <2>3
  <2> HIDE DEF p
  <2>5. CASE type.left
    <3>1. /\ t \in Seq(Byte) /\ Len(t) = (size - m) + m
          /\ \A i \in 1 .. (size - m) + m :
               t[i] = IF i <= size - m THEN p[i] ELSE s[i - (size - m)]
      <4>1. t = p \o s
        BY <2>1, <2>5
      <4>2. /\ p \o s \in Seq(Byte) /\ Len(p \o s) = Len(p) + Len(s)
            /\ \A i \in 1 .. Len(p) + Len(s) :
                 (p \o s)[i] = IF i <= Len(p) THEN p[i] ELSE s[i - Len(p)]
        <5>1. p \in Seq(Byte)
          BY <2>4
        <5> QED
          BY <5>1, ConcatProperties
      <4> QED
        BY <1>1, <2>4, <4>1, <4>2
    <3>2. (size - m) + m = size
      OBVIOUS
    <3>3. \A i \in 1 .. size : t[i] = IF i <= size - m THEN pad ELSE s[i - (size - m)]
      BY <2>4, <3>1, <3>2
    <3>4. Padded(type, t, c, m)
      BY <1>1, <1>4, <2>2, <2>5, <3>1, <3>2, <3>3 DEF Padded
    <3> QED
      BY <1>2, <3>4
  <2>6. CASE ~ type.left
    <3>1. /\ t \in Seq(Byte) /\ Len(t) = m + (size - m)
          /\ \A i \in 1 .. m + (size - m) : t[i] = IF i <= m THEN s[i] ELSE p[i - m]
      <4>1. t = s \o p
        BY <2>1, <2>6
      <4>2. /\ s \o p \in Seq(Byte) /\ Len(s \o p) = Len(s) + Len(p)
            /\ \A i \in 1 .. Len(s) + Len(p) :
                 (s \o p)[i] = IF i <= Len(s) THEN s[i] ELSE p[i - Len(s)]
        <5>1. p \in Seq(Byte)
          BY <2>4
        <5> QED
          BY <5>1, ConcatProperties
      <4> QED
        BY <1>1, <2>4, <4>1, <4>2
    <3>2. m + (size - m) = size
      OBVIOUS
    <3>3. \A i \in 1 .. size : t[i] = IF i <= m THEN s[i] ELSE pad
      BY <2>4, <3>1, <3>2
    <3>4. Padded(type, t, c, m)
      BY <1>1, <1>4, <2>2, <2>6, <3>1, <3>2, <3>3 DEF Padded
    <3> QED
      BY <1>2, <3>4
  <2> QED
    BY <2>5, <2>6
<1> QED
  BY <1>3, <1>4

(* Slices of two strings with the same characters at other places.         *)
LEMMA SameSlice ==
  ASSUME NEW s, NEW t, NEW a \in Int, NEW z \in Int, NEW d \in Int,
         \A i \in a .. z : s[i] \in Byte /\ t[i + d] = s[i]
  PROVE  SubSeq(t, a + d, z + d) = SubSeq(s, a, z)
<1>1. PICK u, v : u = SubSeq(s, a, z) /\ v = SubSeq(t, a + d, z + d)
  OBVIOUS
<1>2. /\ u \in Seq(Byte) /\ Len(u) = IF a <= z THEN z - a + 1 ELSE 0
      /\ \A i \in 1 .. z - a + 1 : u[i] = s[a + i - 1]
  BY <1>1, SubSeqProperties
<1>3. \A i \in a + d .. z + d : t[i] \in Byte
  <2>1. ASSUME NEW i \in a + d .. z + d PROVE t[i] \in Byte
    <3>1. PICK j \in a .. z : j = i - d /\ j + d = i
      OBVIOUS
    <3> QED
      BY <3>1
  <2> QED
    BY <2>1
<1>4. /\ v \in Seq(Byte) /\ Len(v) = IF a + d <= z + d THEN (z + d) - (a + d) + 1 ELSE 0
      /\ \A i \in 1 .. (z + d) - (a + d) + 1 : v[i] = t[(a + d) + i - 1]
  <2>1. a + d \in Int /\ z + d \in Int
    OBVIOUS
  <2> QED
    BY <1>1, <1>3, <2>1, SubSeqProperties
<1>5. Len(u) = Len(v)
  BY <1>2, <1>4
<1>6. ASSUME NEW i \in 1 .. Len(u) PROVE v[i] = u[i]
  <2>1. i \in 1 .. z - a + 1
    BY <1>2
  <2>2. PICK j \in a .. z : j = a + i - 1
    BY <2>1
  <2>3. (a + d) + i - 1 = j + d /\ i \in 1 .. (z + d) - (a + d) + 1
    BY <2>1, <2>2
  <2>4. v[i] = t[j + d]
    BY <1>4, <2>3
  <2>5. u[i] = s[j]
    BY <1>2, <2>1, <2>2
  <2> QED
    BY <2>4, <2>5
<1> QED
  BY <1>1, <1>2, <1>4, <1>5, <1>6, SeqEqual

(* The first i of n characters are the padding on the left, or the ones    *)
(* behind the first i are the padding on the right.                        *)
Leading(c, n, pad, i)  == (\A j \in 1 .. i : c[j] = pad) /\ (i < n => c[i + 1] # pad)
Trailing(c, n, pad, i) == (\A j \in i + 1 .. n : c[j] = pad) /\ (i > 0 => c[i] # pad)

LEMMA PaddingUnique ==
  ASSUME NEW n \in Nat, NEW c, NEW pad, NEW i \in 0 .. n, NEW j \in 0 .. n
  PROVE  /\ Leading(c, n, pad, i) /\ Leading(c, n, pad, j) => i = j
         /\ Trailing(c, n, pad, i) /\ Trailing(c, n, pad, j) => i = j
<1>1. ASSUME NEW x \in 0 .. n, NEW y \in 0 .. n, x < y
      PROVE  /\ ~ (Leading(c, n, pad, x) /\ Leading(c, n, pad, y))
             /\ ~ (Trailing(c, n, pad, x) /\ Trailing(c, n, pad, y))
  <2>1. x < n /\ x + 1 \in 1 .. y /\ y > 0 /\ y \in x + 1 .. n
    BY <1>1
  <2> QED
    BY <2>1 DEF Leading, Trailing
<1>2. i < j \/ j < i \/ i = j
  OBVIOUS
<1> QED
  BY <1>1, <1>2

LEMMA CanonicalIs ==
  ASSUME NEW type, NEW s, NEW c, c = Cut(type, s), NEW n \in Nat, n = Len(c),
         NEW k \in 0 .. n
  PROVE  /\ type.left /\ Leading(c, n, type.pad, k) =>
              CanonicalFixed(type, s) = SubSeq(c, k + 1, n)
         /\ ~ type.left /\ Trailing(c, n, type.pad, k) =>
              CanonicalFixed(type, s) = SubSeq(c, 1, k)
<1> DEFINE cut == Cut(type, s)
           m   == Len(cut)
           lead  == CHOOSE i \in 0 .. m :
                      /\ \A j \in 1 .. i : cut[j] = type.pad
                      /\ i < m => cut[i + 1] # type.pad
           trail == CHOOSE i \in 0 .. m :
                      /\ \A j \in i + 1 .. m : cut[j] = type.pad
                      /\ i > 0 => cut[i] # type.pad
<1>1. type.left => CanonicalFixed(type, s) = SubSeq(cut, lead + 1, m)
  BY Zenon DEF CanonicalFixed, Cut
<1>2. ~ type.left => CanonicalFixed(type, s) = SubSeq(cut, 1, trail)
  BY Zenon DEF CanonicalFixed, Cut
<1>3. cut = c /\ m = n
  OBVIOUS
<1>4. ASSUME Leading(c, n, type.pad, k) PROVE lead = k
  <2>1. lead \in 0 .. n /\ Leading(c, n, type.pad, lead)
    BY <1>3, <1>4, SMTT(30) DEF Leading
  <2> HIDE DEF lead
  <2> QED
    BY <1>4, <2>1, PaddingUnique
<1>5. ASSUME Trailing(c, n, type.pad, k) PROVE trail = k
  <2>1. trail \in 0 .. n /\ Trailing(c, n, type.pad, trail)
    BY <1>3, <1>5 DEF Trailing
  <2> HIDE DEF trail
  <2> QED
    BY <1>5, <2>1, PaddingUnique
<1> HIDE DEF lead, trail, cut, m
<1> QED
  BY <1>1, <1>2, <1>3, <1>4, <1>5

LEMMA TrimmedIsCanonical ==
  ASSUME NEW type, type.size \in Nat, type.pad \in Byte, type.left \in BOOLEAN,
         NEW s \in Seq(Byte)
  PROVE  Trimmed(type, Fitted(type, s)) = CanonicalFixed(type, s)
<1>1. PICK size \in Nat, pad \in Byte : size = type.size /\ pad = type.pad
  OBVIOUS
<1>2. PICK t, c : t = Fitted(type, s) /\ c = Cut(type, s)
  OBVIOUS
<1>3. PICK n : Padded(type, t, c, n)
  BY <1>2, FittedPads
<1>4. /\ t \in Seq(Byte) /\ Len(t) = size
      /\ c \in Seq(Byte) /\ Len(c) = n
      /\ n \in Nat /\ n <= size
      /\ type.left => \A i \in 1 .. size :
           t[i] = IF i <= size - n THEN pad ELSE c[i - (size - n)]
      /\ ~ type.left => \A i \in 1 .. size : t[i] = IF i <= n THEN c[i] ELSE pad
  BY <1>1, <1>3 DEF Padded
<1>5. \A i \in 1 .. n : c[i] \in Byte
  BY <1>4, ElementOfSeq
<1> DEFINE kept == {i \in DOMAIN t : t[i] # type.pad}
<1>6. kept = {i \in 1 .. size : t[i] # pad}
  BY <1>1, <1>4
<1>7. PICK r : r = Trimmed(type, t)
  OBVIOUS
<1>8. r = IF kept = {} THEN <<>>
          ELSE IF type.left THEN SubSeq(t, First(kept), Len(t)) ELSE SubSeq(t, 1, Last(kept))
  BY <1>7 DEF Trimmed
<1> HIDE DEF kept
<1>9. PICK d \in Nat : d = size - n
  BY <1>4
<1>10. CASE type.left
  <2>1. \A i \in 1 .. n : i + d \in 1 .. size /\ t[i + d] = c[i]
    <3>1. ASSUME NEW i \in 1 .. n PROVE i + d \in 1 .. size /\ t[i + d] = c[i]
      <4>1. i + d \in 1 .. size /\ ~ (i + d <= size - n) /\ (i + d) - (size - n) = i
        BY <1>4, <1>9
      <4> QED
        BY <1>4, <1>10, <4>1
    <3> QED
      BY <3>1
  <2>2. CASE kept = {}
    <3>1. ASSUME NEW i \in 1 .. n PROVE c[i] = pad
      BY <1>6, <2>1, <2>2
    <3>2. n \in 0 .. n /\ Leading(c, n, type.pad, n)
      BY <1>1, <1>4, <3>1 DEF Leading
    <3>3. CanonicalFixed(type, s) = SubSeq(c, n + 1, n)
      BY <1>2, <1>4, <1>10, <3>2, CanonicalIs
    <3>4. SubSeq(c, n + 1, n) = <<>>
      <4>1. n + 1 \in Int /\ n \in Int /\ n < n + 1
        BY <1>4
      <4> QED
        BY <4>1, SubSeqEmpty
    <3> QED
      BY <1>2, <1>7, <1>8, <2>2, <3>3, <3>4
  <2>3. CASE kept # {}
    <3>1. kept \in SUBSET (1 .. size)
      BY <1>6
    <3>2. PICK f : f = First(kept)
      OBVIOUS
    <3>3. f \in kept /\ \A j \in kept : f <= j
      BY <2>3, <3>1, <3>2, FirstIsLeast
    <3>4. f \in 1 .. size /\ t[f] # pad
      BY <1>6, <3>3
    <3>5. ~ (f <= size - n)
      BY <1>4, <1>10, <3>4
    <3>6. PICK k \in 0 .. n : k = f - d - 1 /\ k + 1 \in 1 .. n /\ (k + 1) + d = f
      BY <1>4, <1>9, <3>4, <3>5
    <3>7. ASSUME NEW j \in 1 .. k PROVE c[j] = pad
      <4>1. j \in 1 .. n /\ ~ (f <= j + d)
        BY <1>4, <3>6
      <4>2. j + d \notin kept
        BY <3>3, <4>1
      <4> QED
        BY <1>6, <2>1, <4>1, <4>2
    <3>8. c[k + 1] # pad
      BY <2>1, <3>4, <3>6
    <3>9. Leading(c, n, type.pad, k)
      BY <1>1, <3>7, <3>8 DEF Leading
    <3>10. CanonicalFixed(type, s) = SubSeq(c, k + 1, n)
      BY <1>2, <1>4, <1>10, <3>9, CanonicalIs
    <3>11. SubSeq(t, (k + 1) + d, n + d) = SubSeq(c, k + 1, n)
      <4>1. k + 1 \in Int /\ n \in Int /\ d \in Int
        BY <1>4
      <4>2. \A i \in k + 1 .. n : i \in 1 .. n
        BY <1>4
      <4>3. \A i \in k + 1 .. n : c[i] \in Byte /\ t[i + d] = c[i]
        BY <1>5, <2>1, <4>2
      <4> QED
        BY <4>1, <4>3, SameSlice
    <3>12. n + d = size
      BY <1>4, <1>9
    <3> QED
      BY <1>2, <1>4, <1>7, <1>8, <1>10, <2>3, <3>2, <3>6, <3>10, <3>11, <3>12
  <2> QED
    BY <2>2, <2>3
<1>11. CASE ~ type.left
  <2>1. CASE kept = {}
    <3>1. ASSUME NEW i \in 1 .. n PROVE c[i] = pad
      <4>1. i \in 1 .. size /\ i <= n
        BY <1>4
      <4> QED
        BY <1>4, <1>6, <1>11, <2>1, <4>1
    <3>2. 0 \in 0 .. n /\ Trailing(c, n, type.pad, 0)
      BY <1>1, <1>4, <3>1 DEF Trailing
    <3>3. CanonicalFixed(type, s) = SubSeq(c, 1, 0)
      BY <1>2, <1>4, <1>11, <3>2, CanonicalIs
    <3>4. SubSeq(c, 1, 0) = <<>>
      BY SubSeqEmpty
    <3> QED
      BY <1>2, <1>7, <1>8, <2>1, <3>3, <3>4
  <2>2. CASE kept # {}
    <3>1. kept \in SUBSET (1 .. size)
      BY <1>6
    <3>2. PICK l : l = Last(kept)
      OBVIOUS
    <3>3. l \in kept /\ \A j \in kept : j <= l
      BY <2>2, <3>1, <3>2, LastIsGreatest
    <3>4. l \in 1 .. size /\ t[l] # pad
      BY <1>6, <3>3
    <3>5. l <= n
      BY <1>4, <1>11, <3>4
    <3>6. l \in 0 .. n /\ l > 0 /\ c[l] # pad
      BY <1>4, <1>11, <3>4, <3>5
    <3>7. ASSUME NEW j \in l + 1 .. n PROVE c[j] = pad
      <4>1. j \in 1 .. size /\ j <= n /\ ~ (j <= l)
        BY <1>4, <3>4
      <4>2. j \notin kept
        BY <3>3, <4>1
      <4> QED
        BY <1>4, <1>6, <1>11, <4>1, <4>2
    <3>8. Trailing(c, n, type.pad, l)
      BY <1>1, <3>6, <3>7 DEF Trailing
    <3>9. CanonicalFixed(type, s) = SubSeq(c, 1, l)
      BY <1>2, <1>4, <1>11, <3>6, <3>8, CanonicalIs
    <3>10. SubSeq(t, 1 + 0, l + 0) = SubSeq(c, 1, l)
      <4>1. \A i \in 1 .. l : i \in 1 .. n /\ i \in 1 .. size /\ i <= n /\ i + 0 = i
        BY <1>4, <3>4, <3>5
      <4>2. \A i \in 1 .. l : c[i] \in Byte /\ t[i + 0] = c[i]
        BY <1>4, <1>5, <1>11, <4>1
      <4>3. l \in Int
        BY <3>4
      <4> QED
        BY <4>2, <4>3, SameSlice
    <3>11. l + 0 = l /\ 1 + 0 = 1
      BY <3>4
    <3>12. SubSeq(t, 1, l) = SubSeq(c, 1, l)
      BY <3>10, <3>11
    <3> QED
      BY <1>2, <1>7, <1>8, <1>11, <2>2, <3>2, <3>9, <3>12
  <2> QED
    BY <2>1, <2>2
<1> QED
  BY <1>10, <1>11

LEMMA FixedGiven ==
  ASSUME NEW b, NEW type, type.size \in Nat, type.pad \in Byte, type.left \in BOOLEAN,
         NEW s \in Seq(Byte), NEW bytes, bytes = Fitted(type, s)
  PROVE  /\ bytes \in Seq(Byte)
         /\ Has(b, bytes) => Gives(TakeFixed(b, type), b, Len(bytes), CanonicalFixed(type, s))
<1>1. bytes \in Seq(Byte) /\ Len(bytes) = type.size
  BY FittedPads DEF Padded
<1>2. ASSUME Has(b, bytes)
      PROVE  Gives(TakeFixed(b, type), b, Len(bytes), CanonicalFixed(type, s))
  <2>1. PICK t : t = ReadBytes(b, type.size)
    OBVIOUS
  <2>2. Gives(t, b, type.size, bytes)
    BY <1>1, <1>2, <2>1, ReadHas
  <2>3. TakeFixed(b, type) = Ok(t.buf, Trimmed(type, t.value))
    BY <2>1, <2>2 DEF TakeFixed, AsText, Gives
  <2>4. Trimmed(type, t.value) = CanonicalFixed(type, s)
    BY <2>2, TrimmedIsCanonical DEF Gives
  <2> QED
    BY <1>1, <2>2, <2>3, <2>4 DEF Gives, Ok
<1> QED
  BY <1>1, <1>2

-----------------------------------------------------------------------------
(* The hypothesis about the reference: what Expected says of an object     *)
(* inside an object is what it says of any object, as Canonical ties it.   *)
SameReference ==
  /\ \A o : ClassOf(o) \in DOMAIN Classes => (SendableNested(o) <=> Sendable(o))
  /\ \A o : Sendable(o) => CanonicalNested(o) = CanonicalObject(o)

(* The definitions by cases, for the provers that know no CASE.            *)
LEMMA CanonicalElementCases ==
  ASSUME NEW type, NEW v
  PROVE  /\ type.kind = "fixed" => CanonicalElement(type, v) = CanonicalFixed(type, v)
         /\ type.kind \in {"struct", "dynamic"} => CanonicalElement(type, v) = CanonicalNested(v)
         /\ type.kind \notin {"fixed", "struct", "dynamic"} => CanonicalElement(type, v) = v
BY Zenon DEF CanonicalElement

LEMMA SendableElementCases ==
  ASSUME NEW type, NEW v
  PROVE  /\ type.kind \in {"octet", "int"} => (SendableElement(type, v) <=> v \in Numbers(type))
         /\ type.kind = "text" =>
              (SendableElement(type, v) <=> v \in Seq(Byte) /\ Len(v) < Patterns(type.prefix))
         /\ type.kind = "fixed" => (SendableElement(type, v) <=> v \in Seq(Byte))
         /\ type.kind = "struct" =>
              (SendableElement(type, v) <=> ClassOf(v) = type.class /\ SendableNested(v))
BY Zenon DEF SendableElement

(* A member of an object that can be sent, `key` being what the receiver   *)
(* gets of its key when it is a pointer.                                   *)
MemberSendable(type, v, key) ==
  /\ type.kind = "list" => SendableList(type, v)
  /\ type.kind = "dynamic" =>
       /\ key \in DOMAIN type.factory
       /\ ClassOf(v) = type.factory[key]
       /\ SendableNested(v)
  /\ type.kind \notin {"list", "dynamic"} => SendableElement(type, v)

LEMMA SendableMemberCases ==
  ASSUME NEW layout, NEW content, NEW name, SendableMember(layout, content, name),
         NEW type, type = TypeOf(layout, name)
  PROVE  MemberSendable(type, content[name], CanonicalMember(layout, content, type.key))
<1>1. type.kind = "list" => SendableList(type, content[name])
  BY Zenon DEF SendableMember
<1>2. type.kind = "dynamic" =>
        /\ CanonicalMember(layout, content, type.key) \in DOMAIN type.factory
        /\ ClassOf(content[name]) = type.factory[CanonicalMember(layout, content, type.key)]
        /\ SendableNested(content[name])
  BY Zenon DEF SendableMember
<1>3. type.kind \notin {"list", "dynamic"} => SendableElement(type, content[name])
  BY Zenon DEF SendableMember
<1> QED
  BY <1>1, <1>2, <1>3 DEF MemberSendable

-----------------------------------------------------------------------------
(* A class whose objects, when they can be sent, have their members and    *)
(* come back from the bytes that encode() writes, in whatever object of    *)
(* the class they are decoded into.                                        *)
ObjectSent(o) ==
  /\ HasMembers(o, {})
  /\ PutObject(o) \in Chunks
  /\ \A p, unset : ClassOf(p) = ClassOf(o) /\ HasMembers(p, unset) =>
       \A b : Has(b, PutObject(o).bytes) =>
         Gives(DecodeInto(b, p), b, Len(PutObject(o).bytes), CanonicalObject(o))

SentRight == {class \in DOMAIN Classes : \A o : ClassOf(o) = class /\ Sendable(o) => ObjectSent(o)}

(* The same of an object inside an object, and of an element or a member.  *)
NestedSent(o) ==
  /\ HasMembersNested(o, {})
  /\ PutNested(o) \in Chunks
  /\ \A p, unset : ClassOf(p) = ClassOf(o) /\ HasMembers(p, unset) =>
       \A b : Has(b, PutNested(o).bytes) =>
         Gives(DecodeNested(b, p), b, Len(PutNested(o).bytes), CanonicalNested(o))

ElementSent(c, type, v) ==
  /\ c \in Chunks
  /\ ElementFits(type, v, {})
  /\ \A b : Has(b, c.bytes) =>
       Gives(TakeElement(b, type), b, Len(c.bytes), CanonicalElement(type, v))

LEMMA SentIsNestedSent ==
  ASSUME SameCode, SameReference, NEW o, SendableNested(o), ClassOf(o) \in SentRight
  PROVE  NestedSent(o)
<1>1. ClassOf(o) \in DOMAIN Classes
  BY DEF SentRight
<1>2. Sendable(o) /\ CanonicalNested(o) = CanonicalObject(o)
  BY <1>1 DEF SameReference
<1>3. ObjectSent(o)
  BY <1>2 DEF SentRight
<1>4. HasMembers(o, {})
  BY <1>3 DEF ObjectSent
<1>5. HasMembersNested(o, {}) /\ PutNested(o) = PutObject(o)
  BY <1>1, <1>4 DEF SameCode
<1>6. ASSUME NEW p, NEW unset, ClassOf(p) = ClassOf(o), HasMembers(p, unset),
             NEW b, Has(b, PutNested(o).bytes)
      PROVE  Gives(DecodeNested(b, p), b, Len(PutNested(o).bytes), CanonicalNested(o))
  <2>1. Gives(DecodeInto(b, p), b, Len(PutObject(o).bytes), CanonicalObject(o))
    BY <1>3, <1>5, <1>6 DEF ObjectSent
  <2>2. b \in ByteBufs
    BY <1>6 DEF Has, Cursors
  <2>3. DecodeNested(b, p) = DecodeInto(b, p)
    BY <1>6, <2>2 DEF SameCode
  <2> QED
    BY <1>2, <1>5, <2>1, <2>3
<1> QED
  BY <1>3, <1>5, <1>6 DEF ObjectSent, NestedSent

LEMMA ElementIsSent ==
  ASSUME SameCode, SameReference, NEW type, IsElement(type),
         type.kind = "struct" => type.class \in SentRight,
         NEW v, SendableElement(type, v), NEW c, c = PutElement(type, v)
  PROVE  ElementSent(c, type, v)
<1>1. CASE type.kind \in {"octet", "int"}
  <2>1. PICK w : w = IF type.kind = "octet" THEN 1 ELSE type.width
    OBVIOUS
  <2>2. PICK bytes : bytes = LittleEndian(v, w)
    OBVIOUS
  <2>3. v \in Numbers(type)
    BY <1>1, SendableElementCases
  <2>4. /\ w \in Nat \ {0} /\ type.signed \in BOOLEAN
        /\ bytes \in Seq(Byte) /\ Len(bytes) = w
        /\ ValueOf(bytes, type.signed) = v
    BY <1>1, <2>1, <2>2, <2>3, NumbersOf
  <2>5. c = Uncounted(bytes) \/ c = Counted(bytes)
    BY <1>1, <2>1, <2>2, PutElementCases
  <2>6. c \in Chunks /\ c.bytes = bytes
    BY <2>4, <2>5, ChunkTypes
  <2>7. ElementFits(type, v, {})
    BY <1>1, <2>3, ElementFitsCases
  <2>8. CanonicalElement(type, v) = v
    BY <1>1, CanonicalElementCases
  <2>9. ASSUME NEW b, Has(b, c.bytes) PROVE Gives(TakeElement(b, type), b, Len(c.bytes), v)
    <3>1. TakeElement(b, type) = TakeInt(b, w, type.signed)
      BY <1>1, <2>1, TakeElementCases
    <3>2. Has(b, bytes)
      BY <2>6, <2>9
    <3>3. Gives(TakeInt(b, w, type.signed), b, w, v)
      BY <2>4, <3>2, IntGiven
    <3> QED
      BY <2>4, <2>6, <3>1, <3>3
  <2> QED
    BY <2>6, <2>7, <2>8, <2>9 DEF ElementSent
<1>2. CASE type.kind = "text"
  <2>1. v \in Seq(Byte) /\ Len(v) < Patterns(type.prefix)
    BY <1>2, SendableElementCases
  <2>2. type.prefix \in Nat \ {0}
    BY <1>2 DEF IsElement
  <2>3. c = PutText(type.prefix, v)
    BY <1>2, PutElementCases
  <2>4. /\ c.bytes \in Seq(Byte)
        /\ \A b : Has(b, c.bytes) => Gives(TakeText(b, type.prefix), b, Len(c.bytes), v)
    BY <2>1, <2>2, <2>3, TextGiven
  <2>5. c \in Chunks
    <3>1. PICK n \in Nat : n = Len(v)
      BY <2>1
    <3>2. Len(LittleEndian(n, type.prefix)) \in Nat
      BY <2>1, <2>2, <3>1, CountsOf
    <3>3. c = [bytes |-> c.bytes, counted |-> Len(LittleEndian(n, type.prefix)) + 0]
      BY <2>3, <3>1 DEF PutText, Joined, Prefix, Counted, Uncounted
    <3>4. Len(LittleEndian(n, type.prefix)) + 0 \in Nat
      BY <3>2
    <3> QED
      BY <2>4, <3>3, <3>4 DEF Chunks
  <2>6. ElementFits(type, v, {})
    BY <1>2, <2>1, ElementFitsCases
  <2>7. CanonicalElement(type, v) = v
    BY <1>2, CanonicalElementCases
  <2>8. \A b : TakeElement(b, type) = TakeText(b, type.prefix)
    BY <1>2, TakeElementCases
  <2> QED
    BY <2>4, <2>5, <2>6, <2>7, <2>8 DEF ElementSent
<1>3. CASE type.kind = "fixed"
  <2>1. v \in Seq(Byte)
    BY <1>3, SendableElementCases
  <2>2. type.size \in Nat /\ type.pad \in Byte /\ type.left \in BOOLEAN
    BY <1>3 DEF IsElement
  <2>3. PICK bytes : bytes = Fitted(type, v)
    OBVIOUS
  <2>4. /\ bytes \in Seq(Byte)
        /\ \A b : Has(b, bytes) =>
             Gives(TakeFixed(b, type), b, Len(bytes), CanonicalFixed(type, v))
    BY <2>1, <2>2, <2>3, FixedGiven
  <2>5. c = Uncounted(bytes)
    BY <1>3, <2>3, PutElementCases
  <2>6. c \in Chunks /\ c.bytes = bytes
    BY <2>4, <2>5, ChunkTypes
  <2>7. ElementFits(type, v, {})
    BY <1>3, <2>1, ElementFitsCases
  <2>8. CanonicalElement(type, v) = CanonicalFixed(type, v)
    BY <1>3, CanonicalElementCases
  <2>9. \A b : TakeElement(b, type) = TakeFixed(b, type)
    BY <1>3, TakeElementCases
  <2> QED
    BY <2>4, <2>6, <2>7, <2>8, <2>9 DEF ElementSent
<1>4. CASE type.kind = "struct"
  <2>1. ClassOf(v) = type.class /\ SendableNested(v)
    BY <1>4, SendableElementCases
  <2>2. type.class \in DOMAIN Classes /\ type.class \in SentRight
    BY <1>4 DEF SentRight
  <2>3. NestedSent(v)
    BY <2>1, <2>2, SentIsNestedSent
  <2>4. c = PutNested(v) /\ CanonicalElement(type, v) = CanonicalNested(v)
    BY <1>4, PutElementCases, CanonicalElementCases
  <2>5. ElementFits(type, v, {})
    BY <1>4, <2>1, <2>3, ElementFitsCases DEF NestedSent
  <2>6. PICK p : p = New(type.class, 0)
    OBVIOUS
  <2>7. NewNested(type.class, 0) = p /\ HasMembers(p, {}) /\ ClassOf(p) = type.class
    BY <2>2, <2>6, NewObjectFits
  <2>8. \A b : TakeElement(b, type) = DecodeNested(b, p)
    BY <1>4, <2>7, TakeElementCases
  <2>9. ASSUME NEW b, Has(b, c.bytes)
        PROVE  Gives(DecodeNested(b, p), b, Len(c.bytes), CanonicalNested(v))
    BY <2>1, <2>3, <2>4, <2>7, <2>9 DEF NestedSent
  <2>10. c \in Chunks
    BY <2>3, <2>4 DEF NestedSent
  <2> QED
    BY <2>4, <2>5, <2>8, <2>9, <2>10 DEF ElementSent
<1> QED
  BY <1>1, <1>2, <1>3, <1>4 DEF IsElement

LEMMA JoinedChunks ==
  ASSUME NEW c \in Chunks, NEW d \in Chunks, NEW j, j = Joined(c, d)
  PROVE  /\ j \in Chunks
         /\ c.bytes \in Seq(Byte) /\ d.bytes \in Seq(Byte)
         /\ Len(c.bytes) \in Nat /\ Len(d.bytes) \in Nat
         /\ j.bytes = c.bytes \o d.bytes
         /\ Len(j.bytes) = Len(c.bytes) + Len(d.bytes)
<1>1. c.bytes \in Seq(Byte) /\ d.bytes \in Seq(Byte) /\ c.counted \in Nat /\ d.counted \in Nat
  BY DEF Chunks
<1>2. j = [bytes |-> c.bytes \o d.bytes, counted |-> c.counted + d.counted]
  BY DEF Joined
<1>3. /\ c.bytes \o d.bytes \in Seq(Byte)
      /\ Len(c.bytes \o d.bytes) = Len(c.bytes) + Len(d.bytes)
  BY <1>1, ConcatProperties
<1>4. c.counted + d.counted \in Nat
  BY <1>1
<1>5. j \in Chunks
  BY <1>2, <1>3, <1>4 DEF Chunks
<1>6. j.bytes = c.bytes \o d.bytes
  BY JoinedBytes
<1>7. Len(c.bytes) \in Nat /\ Len(d.bytes) \in Nat
  BY <1>1
<1> QED
  BY <1>1, <1>3, <1>5, <1>6, <1>7

LEMMA NoChunk ==
  /\ Uncounted(<<>>) \in Chunks
  /\ Uncounted(<<>>).bytes = <<>>
  /\ Len(<<>>) = 0
BY DEF Uncounted, Chunks

(* Chunks that are written one after the other are chunks.                 *)
LEMMA ChainChunks ==
  ASSUME NEW n \in Nat, NEW chunks, \A i \in 1 .. n : chunks[i] \in Chunks,
         NEW f, Chain(f, chunks, n)
  PROVE  \A i \in 0 .. n : f[i] \in Chunks
<1> DEFINE T == {i \in Nat : i <= n => f[i] \in Chunks}
<1>1. 0 \in T
  BY NoChunk DEF Chain
<1>2. ASSUME NEW i \in Nat, i \in T PROVE i + 1 \in T
  <2>1. CASE i + 1 <= n
    <3>1. PICK j \in 1 .. n : j = i + 1 /\ j - 1 = i
      BY <2>1
    <3>2. f[i] \in Chunks /\ chunks[j] \in Chunks
      BY <1>2, <2>1
    <3>3. f[j] = Joined(f[i], chunks[j])
      BY <3>1 DEF Chain
    <3>4. f[j] \in Chunks
      BY <3>2, <3>3, JoinedChunks
    <3> QED
      BY <3>1, <3>4
  <2> QED
    BY <2>1
<1>3. Nat \subseteq T
  <2> HIDE DEF T
  <2> QED
    BY <1>1, <1>2, SetInduction
<1> QED
  BY <1>3

-----------------------------------------------------------------------------
(* After i elements of a list that was sent.                               *)
ElementsGiven(r, b, n, type, v, i) ==
  /\ r.outcome = "ok"
  /\ Reaches(b, r.buf)
  /\ r.buf.reader_index = b.reader_index + n
  /\ IsList(r.value, i)
  /\ \A k \in 1 .. i : r.value[k] = CanonicalElement(type, v[k])

LEMMA ElementGivenOn ==
  ASSUME NEW type, NEW v, NEW i \in Nat, NEW j, j = i + 1,
         NEW x, NEW d \in Chunks, ElementSent(d, type, x), x = v[j],
         NEW b \in Cursors, NEW c \in Chunks, Has(b, c.bytes \o d.bytes),
         NEW r, ElementsGiven(r, b, Len(c.bytes), type, v, i),
         NEW s, s = NextElement(r, type)
  PROVE  ElementsGiven(s, b, Len(c.bytes) + Len(d.bytes), type, v, j)
<1>1. /\ r.outcome = "ok"
      /\ Reaches(b, r.buf)
      /\ r.buf.reader_index = b.reader_index + Len(c.bytes)
      /\ IsList(r.value, i)
      /\ \A k \in 1 .. i : r.value[k] = CanonicalElement(type, v[k])
  BY DEF ElementsGiven
<1>2. c.bytes \in Seq(Byte) /\ d.bytes \in Seq(Byte)
  BY DEF Chunks
<1>3. Has(r.buf, d.bytes)
  BY <1>1, <1>2, HasSplit
<1>4. PICK e : e = TakeElement(r.buf, type)
  OBVIOUS
<1>5. Gives(e, r.buf, Len(d.bytes), CanonicalElement(type, x))
  BY <1>3, <1>4 DEF ElementSent
<1>6. s = Ok(e.buf, Append(r.value, e.value))
  BY <1>1, <1>4, <1>5 DEF NextElement, Appended, Gives
<1>7. s.outcome = "ok" /\ s.buf = e.buf /\ s.value = Append(r.value, e.value)
  BY <1>6 DEF Ok
<1>8. /\ Reaches(b, s.buf)
      /\ s.buf.reader_index = b.reader_index + (Len(c.bytes) + Len(d.bytes))
  <2>1. Reaches(r.buf, e.buf) /\ e.buf.reader_index = r.buf.reader_index + Len(d.bytes)
    BY <1>5 DEF Gives
  <2>2. b.reader_index \in Nat /\ Len(c.bytes) \in Nat /\ Len(d.bytes) \in Nat
    BY <1>2, CursorType
  <2>3. PICK x0 \in Nat, m \in Nat, l \in Nat :
          x0 = b.reader_index /\ m = Len(c.bytes) /\ l = Len(d.bytes)
    BY <2>2
  <2>4. e.buf.reader_index = x0 + (m + l)
    <3>1. r.buf.reader_index = x0 + m
      BY <1>1, <2>3
    <3>2. e.buf.reader_index = r.buf.reader_index + l
      BY <2>1, <2>3
    <3>3. (x0 + m) + l = x0 + (m + l)
      OBVIOUS
    <3> QED
      BY <3>1, <3>2, <3>3
  <2>5. Reaches(b, e.buf)
    BY <1>1, <2>1, ReachesOn
  <2> QED
    BY <1>7, <2>3, <2>4, <2>5
<1>9. PICK old, new, y : old = r.value /\ new = s.value /\ y = e.value
  OBVIOUS
<1>10. Grown(new, old, i, y)
  BY <1>1, <1>7, <1>9, AppendedList
<1>11. /\ IsList(new, j)
       /\ \A k \in 1 .. i : new[k] = old[k]
       /\ new[j] = y
  BY <1>10 DEF Grown
<1>12. ASSUME NEW k \in 1 .. j PROVE s.value[k] = CanonicalElement(type, v[k])
  <2>1. CASE k = j
    BY <1>5, <1>9, <1>11, <2>1 DEF Gives
  <2>2. CASE k # j
    <3>1. k \in 1 .. i
      BY <2>2
    <3> QED
      BY <1>1, <1>9, <1>11, <3>1
  <2> QED
    BY <2>1, <2>2
<1> QED
  BY <1>7, <1>8, <1>9, <1>11, <1>12 DEF ElementsGiven

CanonicalElements(type, v) == [i \in DOMAIN v |-> CanonicalElement(type, v[i])]

LEMMA ElementsAreSent ==
  ASSUME SameCode, SameReference, NEW type, IsElement(type),
         type.kind = "struct" => type.class \in SentRight,
         NEW n \in Nat, NEW v, IsList(v, n), \A i \in 1 .. n : SendableElement(type, v[i]),
         NEW c, c = PutElements(type, v)
  PROVE  /\ c \in Chunks
         /\ \A i \in 1 .. n : ElementFits(type, v[i], {})
         /\ \A b : Has(b, c.bytes) =>
              Gives(TakeElements(b, type, n), b, Len(c.bytes), CanonicalElements(type, v))
<1> DEFINE chunks == [i \in 1 .. Len(v) |-> PutElement(type, v[i])]
<1>1. Len(v) = n /\ DOMAIN v = 1 .. n
  BY DEF IsList
<1>2. PICK f : Chain(f, chunks, n) /\ c = f[n]
  <2>1. Len(v) \in Nat
    BY <1>1
  <2> QED
    BY <1>1, <2>1, PutElementsChain
<1>3. \A i \in 1 .. n : chunks[i] = PutElement(type, v[i])
  BY <1>1
<1> HIDE DEF chunks
<1>4. ASSUME NEW i \in 1 .. n PROVE ElementSent(chunks[i], type, v[i])
  <2>1. PICK x : x = v[i]
    OBVIOUS
  <2>2. SendableElement(type, x) /\ chunks[i] = PutElement(type, x)
    BY <1>3, <2>1
  <2>3. ElementSent(chunks[i], type, x)
    BY <2>2, ElementIsSent
  <2> QED
    BY <2>1, <2>3
<1>5. \A i \in 1 .. n : chunks[i] \in Chunks /\ ElementFits(type, v[i], {})
  BY <1>4 DEF ElementSent
<1>6. \A i \in 0 .. n : f[i] \in Chunks
  BY <1>2, <1>5, ChainChunks
<1>7. ASSUME NEW b, Has(b, c.bytes)
      PROVE  Gives(TakeElements(b, type, n), b, Len(c.bytes), CanonicalElements(type, v))
  <2>1. PICK g : ElementsLoop(g, b, type, n) /\ TakeElements(b, type, n) = g[n]
    BY TakeElementsLoop
  <2>2. b \in Cursors
    BY <1>7, HasType
  <2> DEFINE T == {i \in Nat : i <= n =>
                     (Has(b, f[i].bytes) => ElementsGiven(g[i], b, Len(f[i].bytes), type, v, i))}
  <2>3. 0 \in T
    <3>1. g[0].outcome = "ok" /\ g[0].buf = b /\ g[0].value = <<>>
      BY <2>1 DEF ElementsLoop, Ok
    <3>2. PICK w : w = <<>>
      OBVIOUS
    <3>3. IsList(w, 0)
      BY <3>2 DEF IsList
    <3>4. IsList(g[0].value, 0)
      BY <3>1, <3>2, <3>3
    <3>5. f[0].bytes = <<>>
      BY <1>2, NoChunk DEF Chain
    <3>6. Reaches(b, b) /\ b.reader_index = b.reader_index + 0
      BY <2>2, CursorType
    <3>7. Len(f[0].bytes) = 0
      BY <3>5, NoChunk
    <3>8. ElementsGiven(g[0], b, 0, type, v, 0)
      BY <3>1, <3>4, <3>6 DEF ElementsGiven
    <3> QED
      BY <3>7, <3>8
  <2>4. ASSUME NEW i \in Nat, i \in T PROVE i + 1 \in T
    <3> SUFFICES ASSUME i + 1 <= n, Has(b, f[i + 1].bytes)
                 PROVE  ElementsGiven(g[i + 1], b, Len(f[i + 1].bytes), type, v, i + 1)
      OBVIOUS
    <3>1. PICK j \in 1 .. n : j = i + 1 /\ j - 1 = i
      OBVIOUS
    <3>2. PICK d, e, x : d = f[i] /\ e = chunks[j] /\ x = v[j]
      OBVIOUS
    <3>3. d \in Chunks /\ e \in Chunks /\ ElementSent(e, type, x)
      <4>1. i \in 0 .. n
        OBVIOUS
      <4> QED
        BY <1>4, <1>5, <1>6, <3>2, <4>1
    <3>4. f[j] = Joined(d, e)
      BY <1>2, <3>1, <3>2 DEF Chain
    <3>5. /\ f[j].bytes = d.bytes \o e.bytes
          /\ Len(f[j].bytes) = Len(d.bytes) + Len(e.bytes)
          /\ d.bytes \in Seq(Byte) /\ e.bytes \in Seq(Byte)
      BY <3>3, <3>4, JoinedChunks
    <3>6. Has(b, d.bytes \o e.bytes)
      BY <3>1, <3>5
    <3>7. Has(b, d.bytes)
      BY <3>5, <3>6, HasSplit
    <3>8. PICK r, s : r = g[i] /\ s = g[j]
      OBVIOUS
    <3>9. ElementsGiven(r, b, Len(d.bytes), type, v, i)
      <4>1. i <= n
        BY <3>1
      <4> QED
        BY <2>4, <3>2, <3>7, <3>8, <4>1
    <3>10. s = NextElement(r, type)
      BY <2>1, <3>1, <3>8 DEF ElementsLoop
    <3>11. ElementsGiven(s, b, Len(d.bytes) + Len(e.bytes), type, v, j)
      BY <2>2, <3>1, <3>2, <3>3, <3>6, <3>9, <3>10, ElementGivenOn
    <3> QED
      BY <3>1, <3>5, <3>8, <3>11
  <2>5. n \in T
    <3> HIDE DEF T
    <3> QED
      BY <2>3, <2>4, SetInduction
  <2>6. PICK r : r = g[n]
    OBVIOUS
  <2>7. ElementsGiven(r, b, Len(c.bytes), type, v, n)
    BY <1>2, <1>7, <2>5, <2>6
  <2>8. r.value = CanonicalElements(type, v)
    <3>1. IsList(r.value, n) /\ \A k \in 1 .. n : r.value[k] = CanonicalElement(type, v[k])
      BY <2>7 DEF ElementsGiven
    <3>2. PICK w : w = r.value
      OBVIOUS
    <3>3. DOMAIN w = 1 .. n /\ w = [k \in DOMAIN w |-> w[k]]
      <4>1. PICK S : w \in Seq(S) /\ DOMAIN w = 1 .. n
        BY <3>1, <3>2 DEF IsList
      <4> QED
        BY <4>1
    <3>4. w = [k \in 1 .. n |-> CanonicalElement(type, v[k])]
      BY <3>1, <3>2, <3>3
    <3> QED
      BY <1>1, <3>2, <3>4 DEF CanonicalElements
  <2> QED
    BY <2>1, <2>6, <2>7, <2>8 DEF ElementsGiven, Gives
<1> QED
  BY <1>2, <1>5, <1>6, <1>7

-----------------------------------------------------------------------------
(* A member of an object that was sent.                                    *)
MemberSent(c, type, v, key) ==
  /\ c \in Chunks
  /\ MemberFits(type, v, {})
  /\ \A b, old, unset, content :
       /\ Has(b, c.bytes)
       /\ MemberFits(type, old, unset)
       /\ type.kind = "dynamic" => content[type.key] = key
       => Gives(TakeField(b, type, old, content), b, Len(c.bytes), CanonicalValue(type, v))

LEMMA ListIsSent ==
  ASSUME SameCode, SameReference, NEW type, IsMember(type), type.kind = "list",
         type.element.kind = "struct" => type.element.class \in SentRight,
         NEW v, SendableList(type, v), NEW c, c = PutField(type, v), NEW key
  PROVE  MemberSent(c, type, v, key)
<1>1. type.prefix \in Nat \ {0} /\ IsElement(type.element)
  BY DEF IsMember, IsElement
<1>2. PICK element : element = type.element
  OBVIOUS
<1>0. PICK prefix \in Nat \ {0} : prefix = type.prefix
  BY <1>1
<1>3. PICK n \in Nat : n = Len(v)
  BY DEF SendableList
<1>4. IsList(v, n) /\ n < Patterns(prefix) /\ \A i \in 1 .. n : SendableElement(element, v[i])
  BY <1>2, <1>0, <1>3 DEF IsList, SendableList
<1>5. PICK d : d = PutElements(element, v)
  OBVIOUS
<1>6. /\ d \in Chunks
      /\ \A i \in 1 .. n : ElementFits(element, v[i], {})
      /\ \A b : Has(b, d.bytes) =>
           Gives(TakeElements(b, element, n), b, Len(d.bytes), CanonicalElements(element, v))
  BY <1>1, <1>2, <1>0, <1>4, <1>5, ElementsAreSent
<1>7. PICK count : count = LittleEndian(n, prefix)
  OBVIOUS
<1>8. count \in Seq(Byte) /\ Len(count) = prefix /\ ValueOf(count, FALSE) = n
  BY <1>4, <1>7, CountsOf
<1>9. PICK p : p = Counted(count)
  OBVIOUS
<1>10. p \in Chunks /\ p.bytes = count
  BY <1>8, <1>9, ChunkTypes
<1>11. c = Joined(p, d)
  BY <1>2, <1>0, <1>3, <1>5, <1>7, <1>9 DEF PutField, Prefix
<1>12. /\ c \in Chunks
       /\ c.bytes = count \o d.bytes
       /\ Len(c.bytes) = prefix + Len(d.bytes)
       /\ d.bytes \in Seq(Byte) /\ Len(d.bytes) \in Nat
  BY <1>6, <1>8, <1>10, <1>11, JoinedChunks
<1>13. MemberFits(type, v, {})
  <2>1. v \in Seq({v[i] : i \in DOMAIN v}) /\ DOMAIN v = 1 .. n
    BY <1>4 DEF IsList
  <2> QED
    BY <1>2, <1>0, <1>6, <2>1, MemberFitsCases
<1>14. CanonicalValue(type, v) = CanonicalElements(element, v)
  BY <1>2, <1>0 DEF CanonicalValue, CanonicalElements
<1>15. ASSUME NEW b, NEW old, NEW content, Has(b, c.bytes)
       PROVE  Gives(TakeField(b, type, old, content), b, Len(c.bytes), CanonicalElements(element, v))
  <2>1. /\ Has(b, count)
        /\ \A e : Reaches(b, e) /\ e.reader_index = b.reader_index + prefix => Has(e, d.bytes)
    BY <1>8, <1>12, <1>15, HasSplit
  <2>2. PICK t : t = TakeInt(b, prefix, FALSE)
    OBVIOUS
  <2>3. Gives(t, b, prefix, n)
    BY <1>8, <2>1, <2>2, IntGiven
  <2>4. Has(t.buf, d.bytes)
    BY <2>1, <2>3 DEF Gives
  <2>5. PICK r : r = TakeElements(t.buf, element, n)
    OBVIOUS
  <2>6. Gives(r, t.buf, Len(d.bytes), CanonicalElements(element, v))
    BY <1>6, <2>4, <2>5
  <2>7. b \in Cursors
    BY <2>1, HasType
  <2>8. Gives(r, b, prefix + Len(d.bytes), CanonicalElements(element, v))
    BY <1>12, <2>3, <2>6, <2>7, GivesOn
  <2>9. TakeList(b, type) = r
    BY <1>2, <1>0, <2>2, <2>3, <2>5 DEF TakeList, Elements, Gives
  <2>10. TakeField(b, type, old, content) = Kept(r, old)
    BY <2>9, TakeFieldCases
  <2>11. Kept(r, old) = r
    BY <2>8 DEF Kept, Gives
  <2> QED
    BY <1>12, <2>8, <2>10, <2>11
<1> QED
  BY <1>12, <1>13, <1>14, <1>15 DEF MemberSent

LEMMA MemberIsSent ==
  ASSUME SameCode, SameReference, NEW type, IsMember(type), ClassesIn(type) \subseteq SentRight,
         NEW v, NEW key, MemberSendable(type, v, key), NEW c, c = PutField(type, v)
  PROVE  MemberSent(c, type, v, key)
<1>1. CASE type.kind = "list"
  <2>1. type.element.kind = "struct" => type.element.class \in SentRight
    BY <1>1, InsideCases
  <2>2. SendableList(type, v)
    BY <1>1 DEF MemberSendable
  <2> QED
    BY <1>1, <2>1, <2>2, ListIsSent
<1>2. CASE type.kind = "dynamic"
  <2>1. key \in DOMAIN type.factory /\ ClassOf(v) = type.factory[key] /\ SendableNested(v)
    BY <1>2 DEF MemberSendable
  <2>2. PICK class : class = type.factory[key]
    OBVIOUS
  <2>3. class \in Makes(type) /\ Makes(type) \subseteq SentRight
    BY <1>2, <2>1, <2>2, InsideCases DEF Makes
  <2>4. class \in SentRight /\ class \in DOMAIN Classes
    BY <2>3 DEF SentRight
  <2>5. NestedSent(v)
    BY <2>1, <2>2, <2>4, SentIsNestedSent
  <2>6. c = PutNested(v) /\ CanonicalValue(type, v) = CanonicalNested(v)
    BY <1>2, PutElementCases, CanonicalElementCases DEF PutField, CanonicalValue
  <2>7. MemberFits(type, v, {})
    BY <1>2, <2>1, <2>2, <2>3, <2>5, MemberFitsCases DEF NestedSent
  <2>8. PICK p : p = New(class, 0)
    OBVIOUS
  <2>9. NewNested(class, 0) = p /\ HasMembers(p, {}) /\ ClassOf(p) = class
    BY <2>4, <2>8, NewObjectFits
  <2>10. ASSUME NEW b, NEW old, NEW content, Has(b, c.bytes), content[type.key] = key
         PROVE  Gives(TakeField(b, type, old, content), b, Len(c.bytes), CanonicalNested(v))
    <3>1. TakeField(b, type, old, content) = TakeDynamic(b, type, key, old)
      BY <1>2, <2>10, TakeFieldCases
    <3>2. TakeDynamic(b, type, key, old) = DecodeNested(b, p)
      BY <2>1, <2>2, <2>9 DEF TakeDynamic
    <3>3. Gives(DecodeNested(b, p), b, Len(c.bytes), CanonicalNested(v))
      BY <2>1, <2>2, <2>5, <2>6, <2>9, <2>10 DEF NestedSent
    <3> QED
      BY <3>1, <3>2, <3>3
  <2>11. c \in Chunks
    BY <2>5, <2>6 DEF NestedSent
  <2> QED
    BY <1>2, <2>6, <2>7, <2>10, <2>11 DEF MemberSent
<1>3. CASE type.kind = "struct"
  <2>1. SendableElement(type, v)
    BY <1>3 DEF MemberSendable
  <2>2. ClassOf(v) = type.class /\ SendableNested(v)
    BY <1>3, <2>1, SendableElementCases
  <2>3. type.class \in SentRight
    BY <1>3, InsideCases
  <2>4. NestedSent(v)
    BY <2>2, <2>3, SentIsNestedSent
  <2>5. c = PutNested(v) /\ CanonicalValue(type, v) = CanonicalNested(v)
    BY <1>3, PutElementCases, CanonicalElementCases DEF PutField, CanonicalValue
  <2>6. MemberFits(type, v, {})
    BY <1>3, <2>2, <2>4, MemberFitsCases, ElementFitsCases DEF NestedSent
  <2>7. ASSUME NEW b, NEW old, NEW unset, NEW content, Has(b, c.bytes),
               MemberFits(type, old, unset)
        PROVE  Gives(TakeField(b, type, old, content), b, Len(c.bytes), CanonicalNested(v))
    <3>1. TakeField(b, type, old, content) = DecodeNested(b, old)
      BY <1>3, TakeFieldCases
    <3>2. ClassOf(old) = type.class /\ HasMembersNested(old, unset)
      BY <1>3, <2>7, MemberFitsCases, ElementFitsCases
    <3>3. ClassOf(old) \in DOMAIN Classes
      BY <2>3, <3>2 DEF SentRight
    <3>4. HasMembers(old, unset)
      BY <3>2, <3>3 DEF SameCode
    <3>5. Gives(DecodeNested(b, old), b, Len(c.bytes), CanonicalNested(v))
      BY <2>2, <2>4, <2>5, <2>7, <3>2, <3>4 DEF NestedSent
    <3> QED
      BY <3>1, <3>5
  <2>8. c \in Chunks
    BY <2>4, <2>5 DEF NestedSent
  <2> QED
    BY <1>3, <2>5, <2>6, <2>7, <2>8 DEF MemberSent
<1>4. CASE type.kind \notin {"list", "dynamic", "struct"}
  <2>1. IsElement(type)
    BY <1>4 DEF IsMember
  <2>2. SendableElement(type, v)
    BY <1>4 DEF MemberSendable
  <2>3. c = PutElement(type, v)
    BY <1>4 DEF PutField
  <2>4. ElementSent(c, type, v)
    BY <1>4, <2>1, <2>2, <2>3, ElementIsSent
  <2>5. CanonicalValue(type, v) = CanonicalElement(type, v)
    BY <1>4 DEF CanonicalValue
  <2>6. MemberFits(type, v, {})
    BY <1>4, <2>4, MemberFitsCases DEF ElementSent
  <2>7. ASSUME NEW b, NEW old, NEW content, Has(b, c.bytes)
        PROVE  Gives(TakeField(b, type, old, content), b, Len(c.bytes), CanonicalElement(type, v))
    <3>1. PICK r : r = TakeElement(b, type)
      OBVIOUS
    <3>2. Gives(r, b, Len(c.bytes), CanonicalElement(type, v))
      BY <2>4, <2>7, <3>1 DEF ElementSent
    <3>3. TakeField(b, type, old, content) = Kept(r, old)
      BY <1>4, <3>1, TakeFieldCases
    <3>4. Kept(r, old) = r
      BY <3>2 DEF Kept, Gives
    <3> QED
      BY <3>2, <3>3, <3>4
  <2>8. c \in Chunks
    BY <2>4 DEF ElementSent
  <2> QED
    BY <1>4, <2>5, <2>6, <2>7, <2>8 DEF MemberSent
<1> QED
  BY <1>1, <1>2, <1>3, <1>4

-----------------------------------------------------------------------------
(* After i members of an object that was sent, decoded into one with other *)
(* members.                                                                *)
MembersGiven(r, b, n, layout, content, i) ==
  /\ r.outcome = "ok"
  /\ Reaches(b, r.buf)
  /\ r.buf.reader_index = b.reader_index + n
  /\ \A k \in 1 .. i :
       r.value[layout[k][1]] = CanonicalMember(layout, content, layout[k][1])

(* The members of an object that can be sent.                              *)
SentContent(layout, content) ==
  \A i \in DOMAIN layout : SendableMember(layout, content, layout[i][1])

LEMMA LayoutMemberIsSent ==
  ASSUME SameCode, SameReference, NEW layout, IsLayout(layout),
         NEW j \in DOMAIN layout, ClassesIn(layout[j][2]) \subseteq SentRight,
         NEW content, SentContent(layout, content),
         NEW type, type = layout[j][2], NEW v, v = content[layout[j][1]],
         NEW c, c = PutField(type, v)
  PROVE  /\ MemberSent(c, type, v, CanonicalMember(layout, content, type.key))
         /\ CanonicalValue(type, v) = CanonicalMember(layout, content, layout[j][1])
<1>1. type = TypeOf(layout, layout[j][1]) /\ IsMember(type)
  BY TypeOfMember, LayoutType
<1>2. SendableMember(layout, content, layout[j][1])
  BY DEF SentContent
<1>3. MemberSendable(type, v, CanonicalMember(layout, content, type.key))
  BY <1>1, <1>2, SendableMemberCases
<1>4. MemberSent(c, type, v, CanonicalMember(layout, content, type.key))
  BY <1>1, <1>3, MemberIsSent
<1>5. CanonicalValue(type, v) = CanonicalMember(layout, content, layout[j][1])
  BY <1>1 DEF CanonicalMember
<1> QED
  BY <1>4, <1>5

LEMMA MemberGivenOn ==
  ASSUME SameCode, SameReference, NEW layout, IsLayout(layout),
         \A i \in DOMAIN layout : ClassesIn(layout[i][2]) \subseteq SentRight,
         NEW content, SentContent(layout, content),
         NEW j \in DOMAIN layout, NEW i \in Nat, j = i + 1,
         NEW d, d = PutField(layout[j][2], content[layout[j][1]]),
         NEW b \in Cursors, NEW c \in Chunks, Has(b, c.bytes \o d.bytes),
         NEW r, NEW unset, IsContent(layout, r.value, unset),
         MembersGiven(r, b, Len(c.bytes), layout, content, i),
         NEW s, s = NextMember(r, layout[j])
  PROVE  MembersGiven(s, b, Len(c.bytes) + Len(d.bytes), layout, content, j)
<1>1. /\ r.outcome = "ok"
      /\ Reaches(b, r.buf)
      /\ r.buf.reader_index = b.reader_index + Len(c.bytes)
      /\ \A k \in 1 .. i :
           r.value[layout[k][1]] = CanonicalMember(layout, content, layout[k][1])
  BY DEF MembersGiven
<1>2. PICK name, type, v, key : /\ name = layout[j][1] /\ type = layout[j][2]
                                /\ v = content[layout[j][1]]
                                /\ key = CanonicalMember(layout, content, type.key)
  OBVIOUS
<1>3. /\ MemberSent(d, type, v, key)
      /\ CanonicalValue(type, v) = CanonicalMember(layout, content, name)
  BY <1>2, LayoutMemberIsSent
<1>4. d \in Chunks /\ c.bytes \in Seq(Byte) /\ d.bytes \in Seq(Byte)
  BY <1>3 DEF MemberSent, Chunks
<1>5. Has(r.buf, d.bytes)
  BY <1>1, <1>4, HasSplit
<1>6. PICK old, t : old = r.value[name] /\ t = TakeField(r.buf, type, old, r.value)
  OBVIOUS
<1>7. MemberFits(type, old, unset)
  BY <1>2, <1>6 DEF IsContent
<1>8. type.kind = "dynamic" => r.value[type.key] = key
  <2>1. CASE type.kind = "dynamic"
    <3>1. PICK k \in 1 .. j - 1 : layout[k][1] = type.key
      BY <1>2, <2>1 DEF IsLayout
    <3>2. k \in 1 .. i
      BY <3>1
    <3> QED
      BY <1>1, <1>2, <3>1, <3>2
  <2> QED
    BY <2>1
<1>9. Gives(t, r.buf, Len(d.bytes), CanonicalValue(type, v))
  BY <1>3, <1>5, <1>6, <1>7, <1>8 DEF MemberSent
<1>10. PICK x : x = t.value
  OBVIOUS
<1>11. /\ s.outcome = t.outcome /\ s.buf = t.buf
       /\ Replaced(s.value, r.value, name, x)
  BY <1>1, <1>2, <1>6, <1>10, NextMemberIs
<1>12. MemberFits(type, x, unset)
  <2>1. IsMember(type) /\ ClassesIn(type) \subseteq ReadsRight
    <3>1. ClassesIn(type) \subseteq DOMAIN Classes
      BY <1>2, LayoutType, InsideMember
    <3> QED
      BY <1>2, <3>1, LayoutType, ObjectReads
  <2>2. r.buf \in Cursors
    BY <1>1 DEF Reaches
  <2>3. MemberTaken(t, r.buf, type, old, unset)
    BY <1>6, <1>7, <2>1, <2>2, FieldReads
  <2> QED
    BY <1>10, <2>3 DEF MemberTaken
<1>13. PICK rv, new : rv = r.value /\ new = s.value
  OBVIOUS
<1>14. OnlyDiffers(new, rv, layout, j, x)
  <2>1. IsContent(layout, rv, unset) /\ MemberFits(layout[j][2], x, unset)
    BY <1>2, <1>12, <1>13
  <2>2. Replaced(new, rv, layout[j][1], x)
    BY <1>2, <1>11, <1>13
  <2> QED
    BY <2>1, <2>2, ContentWith
<1>15. ASSUME NEW k \in 1 .. j
       PROVE  new[layout[k][1]] = CanonicalMember(layout, content, layout[k][1])
  <2>1. CASE k = j
    BY <1>2, <1>3, <1>9, <1>10, <1>14, <2>1 DEF OnlyDiffers, Gives
  <2>2. CASE k # j
    <3>1. k \in 1 .. i /\ k \in DOMAIN layout
      BY <2>2, LayoutType
    <3>2. new[layout[k][1]] = rv[layout[k][1]]
      BY <1>14, <2>2, <3>1 DEF OnlyDiffers
    <3> QED
      BY <1>1, <1>13, <3>1, <3>2
  <2> QED
    BY <2>1, <2>2
<1>16. /\ Reaches(b, s.buf)
       /\ s.buf.reader_index = b.reader_index + (Len(c.bytes) + Len(d.bytes))
  <2>1. Reaches(r.buf, t.buf) /\ t.buf.reader_index = r.buf.reader_index + Len(d.bytes)
    BY <1>9 DEF Gives
  <2>2. Reaches(b, t.buf)
    BY <1>1, <2>1, ReachesOn
  <2>3. PICK at \in Nat, m \in Nat, l \in Nat :
          at = b.reader_index /\ m = Len(c.bytes) /\ l = Len(d.bytes)
    BY <1>4, CursorType
  <2>4. r.buf.reader_index = at + m
    BY <1>1, <2>3
  <2>5. t.buf.reader_index = r.buf.reader_index + l
    BY <2>1, <2>3
  <2>6. (at + m) + l = at + (m + l)
    OBVIOUS
  <2> QED
    BY <1>11, <2>2, <2>3, <2>4, <2>5, <2>6
<1> QED
  BY <1>9, <1>11, <1>13, <1>15, <1>16 DEF MembersGiven, Gives

LEMMA MembersAreSent ==
  ASSUME SameCode, SameReference, NEW layout, IsLayout(layout),
         \A i \in DOMAIN layout : ClassesIn(layout[i][2]) \subseteq SentRight,
         NEW content, SentContent(layout, content),
         NEW n \in Nat, n = Len(layout), NEW c, c = PutFields(layout, content)
  PROVE  /\ c \in Chunks
         /\ \A i \in DOMAIN layout : MemberFits(layout[i][2], content[layout[i][1]], {})
         /\ \A b, others, unset, g :
              /\ Has(b, c.bytes)
              /\ IsContent(layout, others, unset)
              /\ MembersLoop(g, b, layout, others, n)
              => /\ MembersGiven(g[n], b, Len(c.bytes), layout, content, n)
                 /\ IsContent(layout, g[n].value, unset)
<1> DEFINE chunks == [i \in 1 .. Len(layout) |-> PutField(layout[i][2], content[layout[i][1]])]
<1>1. DOMAIN layout = 1 .. n
  BY LayoutType
<1>2. PICK f : Chain(f, chunks, n) /\ c = f[n]
  BY PutFieldsChain
<1>3. \A i \in 1 .. n : chunks[i] = PutField(layout[i][2], content[layout[i][1]])
  OBVIOUS
<1> HIDE DEF chunks
<1>4. ASSUME NEW i \in 1 .. n
      PROVE  chunks[i] \in Chunks /\ MemberFits(layout[i][2], content[layout[i][1]], {})
  <2>1. PICK type, v, d : type = layout[i][2] /\ v = content[layout[i][1]] /\ d = PutField(type, v)
    OBVIOUS
  <2>2. MemberSent(d, type, v, CanonicalMember(layout, content, type.key))
    <3>1. i \in DOMAIN layout
      BY <1>1
    <3> QED
      BY <2>1, <3>1, LayoutMemberIsSent
  <2> QED
    BY <1>3, <2>1, <2>2 DEF MemberSent
<1>5. \A i \in 0 .. n : f[i] \in Chunks
  BY <1>2, <1>4, ChainChunks
<1>6. ASSUME NEW b, NEW others, NEW unset, NEW g, Has(b, c.bytes),
             IsContent(layout, others, unset), MembersLoop(g, b, layout, others, n)
      PROVE  /\ MembersGiven(g[n], b, Len(c.bytes), layout, content, n)
             /\ IsContent(layout, g[n].value, unset)
  <2>1. b \in Cursors
    BY <1>6, HasType
  <2>2. \A i \in 0 .. n : MembersTaken(g, b, layout, others, unset, i)
    <3>1. \A i \in DOMAIN layout : ClassesIn(layout[i][2]) \subseteq ReadsRight
      <4>1. \A i \in DOMAIN layout : ClassesIn(layout[i][2]) \subseteq DOMAIN Classes
        BY LayoutType, InsideMember
      <4> QED
        BY <4>1, ObjectReads
    <3> QED
      BY <1>6, <2>1, <3>1, MembersReads
  <2>3. \A i \in 0 .. n : IsContent(layout, g[i].value, unset)
    BY <2>2 DEF MembersTaken
  <2> DEFINE T == {i \in Nat : i <= n =>
                     (Has(b, f[i].bytes) => MembersGiven(g[i], b, Len(f[i].bytes), layout, content, i))}
  <2>4. 0 \in T
    <3>1. g[0].outcome = "ok" /\ g[0].buf = b
      BY <1>6 DEF MembersLoop, Ok
    <3>2. f[0].bytes = <<>>
      BY <1>2, NoChunk DEF Chain
    <3>3. Reaches(b, b) /\ b.reader_index = b.reader_index + 0
      BY <2>1, CursorType
    <3>4. Len(f[0].bytes) = 0
      BY <3>2, NoChunk
    <3>5. MembersGiven(g[0], b, 0, layout, content, 0)
      BY <3>1, <3>3 DEF MembersGiven
    <3> QED
      BY <3>4, <3>5
  <2>5. ASSUME NEW i \in Nat, i \in T PROVE i + 1 \in T
    <3> SUFFICES ASSUME i + 1 <= n, Has(b, f[i + 1].bytes)
                 PROVE  MembersGiven(g[i + 1], b, Len(f[i + 1].bytes), layout, content, i + 1)
      OBVIOUS
    <3>1. PICK j \in 1 .. n : j = i + 1 /\ j - 1 = i
      OBVIOUS
    <3>2. PICK d, e : d = f[i] /\ e = chunks[j]
      OBVIOUS
    <3>3. d \in Chunks /\ e \in Chunks /\ e = PutField(layout[j][2], content[layout[j][1]])
      <4>1. i \in 0 .. n
        OBVIOUS
      <4> QED
        BY <1>3, <1>4, <1>5, <3>2, <4>1
    <3>4. f[j] = Joined(d, e)
      BY <1>2, <3>1, <3>2 DEF Chain
    <3>5. /\ f[j].bytes = d.bytes \o e.bytes
          /\ Len(f[j].bytes) = Len(d.bytes) + Len(e.bytes)
          /\ d.bytes \in Seq(Byte) /\ e.bytes \in Seq(Byte)
      BY <3>3, <3>4, JoinedChunks
    <3>6. Has(b, d.bytes \o e.bytes)
      BY <3>1, <3>5
    <3>7. Has(b, d.bytes)
      BY <3>5, <3>6, HasSplit
    <3>8. PICK r, s : r = g[i] /\ s = g[j]
      OBVIOUS
    <3>9. i <= n /\ i \in 0 .. n
      BY <3>1
    <3>10. MembersGiven(r, b, Len(d.bytes), layout, content, i)
      BY <2>5, <3>2, <3>7, <3>8, <3>9
    <3>11. IsContent(layout, r.value, unset)
      BY <2>3, <3>8, <3>9
    <3>12. s = NextMember(r, layout[j])
      BY <1>6, <3>1, <3>8 DEF MembersLoop
    <3>13. j \in DOMAIN layout
      BY <1>1
    <3>14. MembersGiven(s, b, Len(d.bytes) + Len(e.bytes), layout, content, j)
      BY <2>1, <3>1, <3>3, <3>6, <3>10, <3>11, <3>12, <3>13, MemberGivenOn
    <3> QED
      BY <3>1, <3>5, <3>8, <3>14
  <2>6. n \in T
    <3> HIDE DEF T
    <3> QED
      BY <2>4, <2>5, SetInduction
  <2> QED
    BY <1>2, <1>6, <2>3, <2>6
<1> QED
  BY <1>1, <1>2, <1>4, <1>5, <1>6

LEMMA ObjectIsSent ==
  ASSUME SameCode, SameReference
  PROVE  DOMAIN Classes \subseteq SentRight
<1>1. ASSUME NEW class \in DOMAIN Classes, ClassesInside(class) \subseteq SentRight
      PROVE  class \in SentRight
  <2> SUFFICES ASSUME NEW o, ClassOf(o) = class, Sendable(o)
               PROVE  ObjectSent(o)
    BY DEF SentRight
  <2>1. PICK layout, content : layout = Classes[class] /\ content = ContentOf(o)
    OBVIOUS
  <2>2. IsLayout(layout)
    BY <2>1, ClassesAssumption
  <2>3. PICK n \in Nat : n = Len(layout) /\ DOMAIN layout = 1 .. n
    BY <2>2, LayoutType
  <2>4. \A i \in DOMAIN layout : ClassesIn(layout[i][2]) \subseteq SentRight
    <3>1. \A i \in DOMAIN Classes[class] : ClassesIn(Classes[class][i][2]) \subseteq SentRight
      BY <1>1, InsideLayout
    <3> QED
      BY <2>1, <3>1
  <2>5. /\ o = Obj(class, [name \in NamesOf(layout) |-> content[name]])
        /\ \A name \in NamesOf(layout) : SendableMember(layout, content, name)
    BY <2>1 DEF Sendable
  <2>6. SentContent(layout, content)
    BY <2>5 DEF SentContent, NamesOf
  <2>7. PICK c : c = PutFields(layout, content)
    OBVIOUS
  <2>8. PutObject(o) = c
    BY <2>1, <2>7 DEF PutObject
  <2>9. /\ c \in Chunks
        /\ \A i \in DOMAIN layout : MemberFits(layout[i][2], content[layout[i][1]], {})
        /\ \A b, others, unset, g :
             /\ Has(b, c.bytes)
             /\ IsContent(layout, others, unset)
             /\ MembersLoop(g, b, layout, others, n)
             => /\ MembersGiven(g[n], b, Len(c.bytes), layout, content, n)
                /\ IsContent(layout, g[n].value, unset)
    <3>1. n = Len(layout)
      BY <2>3
    <3> QED
      BY <2>2, <2>4, <2>6, <2>7, <3>1, MembersAreSent
  <2>10. HasMembers(o, {})
    BY <2>1, <2>5, <2>9 DEF HasMembers
  <2>11. ASSUME NEW p, NEW unset, ClassOf(p) = class, HasMembers(p, unset),
                NEW b, Has(b, c.bytes)
         PROVE  Gives(DecodeInto(b, p), b, Len(c.bytes), CanonicalObject(o))
    <3>1. PICK r : r = DecodeInto(b, p)
      OBVIOUS
    <3>2. PICK g : ObjectLoop(g, r, b, p)
      BY <2>11, <3>1, DecodeIsLoop
    <3>3. PICK s, new : s = g[n] /\ new = s.value
      OBVIOUS
    <3>4. /\ MembersLoop(g, b, layout, ContentOf(p), n)
          /\ r.outcome = s.outcome /\ r.buf = s.buf /\ r.value = Obj(class, new)
      BY <2>1, <2>3, <2>11, <3>2, <3>3 DEF ObjectLoop
    <3>5. IsContent(layout, ContentOf(p), unset)
      BY <2>1, <2>11, ObjectIs
    <3>6. /\ MembersGiven(s, b, Len(c.bytes), layout, content, n)
          /\ IsContent(layout, new, unset)
      BY <2>9, <2>11, <3>3, <3>4, <3>5
    <3>7. new = [name \in NamesOf(layout) |-> CanonicalMember(layout, content, name)]
      <4>1. \A k \in 1 .. n :
              new[layout[k][1]] = CanonicalMember(layout, content, layout[k][1])
        BY <3>3, <3>6 DEF MembersGiven
      <4>2. \A name \in NamesOf(layout) : new[name] = CanonicalMember(layout, content, name)
        BY <2>3, <4>1 DEF NamesOf
      <4>3. new = [name \in NamesOf(layout) |-> new[name]]
        BY <3>6 DEF IsContent
      <4> QED
        BY <4>2, <4>3
    <3>8. CanonicalObject(o) = Obj(class, new)
      BY <2>1, <3>7 DEF CanonicalObject
    <3> QED
      BY <3>1, <3>4, <3>6, <3>8 DEF MembersGiven, Gives
  <2> QED
    BY <2>8, <2>9, <2>10, <2>11 DEF ObjectSent
<1> QED
  BY <1>1, DepthInduction

-----------------------------------------------------------------------------
(* The hypothesis about the codec of a Session: its messages are objects   *)
(* that can be sent and that are not empty, their kinds are the classes,   *)
(* and they are encoded and decoded as Encoding and Decoding say.  The     *)
(* receiver decodes into any objects that it has, new or used, complete or *)
(* left behind by a decode that was refused.                               *)
ObjectCodec ==
  /\ \A m \in Messages :
       /\ Sendable(m) /\ PutObject(m).bytes # <<>>
       /\ KindOf(m) = ClassOf(m) /\ Promised(m) = CanonicalObject(m)
  /\ \A o : HasMembers(o, {}) =>
       /\ Delivered(o) = o
       /\ \A b \in ByteBufs : EncodeInto(o, b) = Ok(Write(b, PutObject(o)), <<>>)
  /\ \A class \in DOMAIN Classes : \A b \in ByteBufs : \E p, unset :
       /\ ClassOf(p) = class /\ HasMembers(p, unset)
       /\ DecodeFrom(class, b) = DecodeInto(b, p)

LEMMA EncodedIs ==
  ASSUME ObjectCodec, NEW o, HasMembers(o, {}), NEW c, c = PutObject(o), c.bytes \in Seq(Byte)
  PROVE  BytesOf(o) = c.bytes
<1>1. EmptyBuf \in ByteBufs /\ EmptyBuf.buffer = <<>>
  BY DEF EmptyBuf, ByteBufs
<1>2. EncodeInto(o, EmptyBuf) = Ok(Write(EmptyBuf, c), <<>>)
  BY <1>1 DEF ObjectCodec
<1>3. BytesOf(o) = <<>> \o c.bytes
  <2>1. PICK e, d : e = EmptyBuf /\ d = Write(e, c)
    OBVIOUS
  <2>2. d.buffer = e.buffer \o c.bytes
    <3>1. e = [buffer |-> e.buffer, reader_index |-> e.reader_index, writer_index |-> e.writer_index]
      BY <2>1 DEF EmptyBuf
    <3> QED
      BY <2>1, <3>1 DEF Write
  <2>3. EncodeInto(o, EmptyBuf).buf = d
    BY <1>2, <2>1 DEF Ok
  <2> QED
    BY <1>1, <2>1, <2>2, <2>3 DEF BytesOf
<1> QED
  BY <1>3, ConcatEmptySeq

LEMMA EncodeAppends ==
  ASSUME ObjectCodec, NEW o, HasMembers(o, {}), NEW c \in Chunks, c = PutObject(o),
         NEW b \in ByteBufs
  PROVE  Appends(EncodeInto(o, b), b, c.bytes)
<1>1. EncodeInto(o, b) = Ok(Write(b, c), <<>>)
  BY DEF ObjectCodec
<1>2. PICK d : d = Write(b, c)
  OBVIOUS
<1>3. d \in ByteBufs /\ d.buffer = b.buffer \o c.bytes /\ d.reader_index = b.reader_index
  BY <1>2, WriteType
<1>4. PICK r : r = EncodeInto(o, b)
  OBVIOUS
<1>5. r.outcome = "ok" /\ r.buf = d
  BY <1>1, <1>2, <1>4 DEF Ok
<1> QED
  BY <1>3, <1>4, <1>5 DEF Appends

(* A buffer that has the first of some bytes at its cursor, and perhaps no *)
(* more, is the beginning of one that has them all.                        *)
LEMMA Completed ==
  ASSUME NEW b \in Cursors, NEW bytes \in Seq(Byte), BeginsWith(bytes, b),
         b.reader_index + Len(bytes) > Len(b.buffer)
  PROVE  \E e : Extends(b, e) /\ Has(e, bytes)
<1>1. PICK x \in Nat, l \in Nat, n \in Nat :
        x = b.reader_index /\ l = Len(b.buffer) /\ n = Len(bytes)
  BY CursorType
<1>2. x <= l /\ l < x + n /\ b.buffer \in Seq(Byte) /\ b.writer_index \in Nat
  BY <1>1, CursorType DEF ByteBufs
<1> DEFINE all == [i \in 1 .. x + n |-> IF i <= l THEN b.buffer[i] ELSE bytes[i - x]]
<1>3. ASSUME NEW i \in 1 .. x + n
      PROVE  (IF i <= l THEN b.buffer[i] ELSE bytes[i - x]) \in Byte
  <2>1. CASE i <= l
    <3>1. i \in 1 .. Len(b.buffer)
      BY <1>1, <2>1
    <3> QED
      BY <1>2, <2>1, <3>1, ElementOfSeq
  <2>2. CASE ~ (i <= l)
    <3>1. x <= l
      BY <1>2
    <3>2. i - x \in 1 .. n
      BY <2>2, <3>1
    <3>3. i - x \in 1 .. Len(bytes)
      BY <1>1, <3>2
    <3> QED
      BY <2>2, <3>3, ElementOfSeq
  <2> QED
    BY <2>1, <2>2
<1>4. /\ all \in Seq(Byte) /\ Len(all) = x + n
      /\ \A i \in 1 .. x + n : all[i] = IF i <= l THEN b.buffer[i] ELSE bytes[i - x]
  <2>1. x + n \in Nat
    OBVIOUS
  <2> QED
    BY <1>3, <2>1
<1> HIDE DEF all
<1>5. PICK e : e = [buffer |-> all, reader_index |-> x, writer_index |-> b.writer_index]
  OBVIOUS
<1>6. e.buffer = all /\ e.reader_index = x /\ e \in ByteBufs
  BY <1>2, <1>4, <1>5 DEF ByteBufs
<1>7. e \in Cursors
  BY <1>1, <1>4, <1>6 DEF Cursors
<1>8. Extends(b, e)
  <2>1. \A i \in 1 .. l : b.buffer[i] = all[i]
    <3>1. \A i \in 1 .. l : i \in 1 .. x + n /\ i <= l
      BY <1>2
    <3> QED
      BY <1>4, <3>1
  <2>2. l <= x + n
    BY <1>2
  <2> QED
    BY <1>1, <1>4, <1>6, <1>7, <2>1, <2>2 DEF Extends
<1>9. ASSUME NEW k \in 1 .. n PROVE all[x + k] = bytes[k]
  <2>1. x + k \in 1 .. x + n /\ (x + k) - x = k
    OBVIOUS
  <2>2. CASE x + k <= l
    <3>1. b.buffer[x + k] = bytes[k]
      BY <1>1, <2>2 DEF BeginsWith
    <3> QED
      BY <1>4, <2>1, <2>2, <3>1
  <2>3. CASE ~ (x + k <= l)
    BY <1>4, <2>1, <2>3
  <2> QED
    BY <2>2, <2>3
<1>10. Has(e, bytes)
  BY <1>1, <1>4, <1>6, <1>7, <1>9 DEF Has
<1> QED
  BY <1>8, <1>10

(* Every decode of an object from a buffer that has the bytes of a         *)
(* message, all of them or the first ones.                                 *)
LEMMA MessageIsTaken ==
  ASSUME SameCode, SameReference, ObjectCodec, NEW m \in Messages,
         NEW b \in Cursors, Begins(m, b)
  PROVE  TakesOwnBytes(m, b)
<1>1. PICK class, c : class = ClassOf(m) /\ c = PutObject(m)
  OBVIOUS
<1>2. Sendable(m) /\ KindOf(m) = class /\ Promised(m) = CanonicalObject(m)
  BY <1>1 DEF ObjectCodec
<1>3. class \in DOMAIN Classes
  BY <1>1, <1>2 DEF Sendable
<1>4. ObjectSent(m)
  BY <1>1, <1>2, <1>3, ObjectIsSent DEF SentRight
<1>5. HasMembers(m, {}) /\ c \in Chunks
  BY <1>1, <1>4 DEF ObjectSent
<1>6. PICK bytes : bytes = c.bytes
  OBVIOUS
<1>7. BytesOf(m) = bytes /\ bytes \in Seq(Byte)
  BY <1>1, <1>5, <1>6, EncodedIs DEF Chunks
<1>8. b \in ByteBufs
  BY DEF Cursors
<1>9. PICK p, unset :
        /\ ClassOf(p) = class /\ HasMembers(p, unset)
        /\ DecodeFrom(class, b) = DecodeInto(b, p)
  BY <1>3, <1>8 DEF ObjectCodec
<1>10. PICK r : r = DecodeInto(b, p)
  OBVIOUS
<1>11. ClassOf(p) = class /\ HasMembers(p, unset)
  BY <1>9
<1>12. DecodeFrom(KindOf(m), b) = r
  BY <1>2, <1>9, <1>10
<1>13. ObjectTaken(r, b, p, unset)
  BY <1>3, <1>9, <1>10, ObjectReads DEF ReadsRight
<1>14. /\ Reaches(b, r.buf) /\ r.outcome \in Outs
       /\ r.outcome = "ok" =>
            HasMembers(r.value, {}) /\ PutObject(r.value).bytes = Taken(b, r.buf)
  BY <1>13 DEF ObjectTaken
<1>15. PICK x \in Nat, l \in Nat, n \in Nat :
         x = b.reader_index /\ l = Len(b.buffer) /\ n = Len(bytes)
  BY <1>7, CursorType
<1>16. /\ r.buf \in ByteBufs /\ r.buf.buffer = b.buffer
       /\ r.buf.reader_index \in x .. l
  <2>1. r.buf \in Cursors /\ r.buf.buffer = b.buffer /\ x <= r.buf.reader_index
    BY <1>14, <1>15 DEF Reaches
  <2>2. r.buf.reader_index \in Nat /\ r.buf.reader_index <= Len(r.buf.buffer) /\ r.buf \in ByteBufs
    BY <2>1, CursorType
  <2> QED
    BY <1>15, <2>1, <2>2
<1>17. ASSUME NEW e, Has(e, bytes), NEW q, q = DecodeInto(e, p)
       PROVE  Gives(q, e, n, CanonicalObject(m))
  BY <1>1, <1>4, <1>6, <1>9, <1>15, <1>17 DEF ObjectSent
<1>18. ASSUME x + n <= l
       PROVE  /\ r.outcome = "ok"
              /\ r.buf.reader_index = x + n
              /\ Delivered(r.value) = Promised(m)
              /\ BytesOf(r.value) = bytes
  <2>1. Has(b, bytes)
    <3>1. ASSUME NEW k \in 1 .. n PROVE b.buffer[x + k] = bytes[k]
      <4>1. x + k <= l
        BY <1>18
      <4> QED
        BY <1>7, <1>15, <4>1 DEF Begins, BeginsWith
    <3> QED
      BY <1>7, <1>15, <1>18, <3>1 DEF Has
  <2>2. Gives(r, b, n, CanonicalObject(m))
    BY <1>10, <1>17, <2>1
  <2>3. r.outcome = "ok" /\ r.buf.reader_index = x + n /\ r.value = CanonicalObject(m)
    BY <1>15, <2>2 DEF Gives
  <2>4. PICK o : o = r.value
    OBVIOUS
  <2>5. HasMembers(o, {}) /\ PutObject(o).bytes = Taken(b, r.buf)
    BY <1>14, <2>3, <2>4
  <2>6. Delivered(r.value) = Promised(m)
    BY <1>2, <2>3, <2>4, <2>5 DEF ObjectCodec
  <2>7. BytesOf(o) = PutObject(o).bytes
    <3>1. Taken(b, r.buf) \in Seq(Byte)
      BY <1>14, TakenType
    <3> QED
      BY <2>5, <3>1, EncodedIs
  <2>8. Taken(b, r.buf) = bytes
    <3>1. PICK t : t = ReadBytes(b, n)
      OBVIOUS
    <3>2. Gives(t, b, n, bytes)
      BY <1>15, <2>1, <3>1, ReadHas
    <3>3. t.value = Taken(b, t.buf) /\ t.buf.reader_index = x + n
      BY <1>15, <3>1, <3>2, ReadBytesReads DEF Gives
    <3> QED
      BY <2>3, <3>2, <3>3 DEF Taken, Gives
  <2> QED
    BY <2>3, <2>4, <2>5, <2>6, <2>7, <2>8
<1>19. ASSUME x + n > l PROVE r.outcome = "out_of_range"
  <2>1. PICK e : Extends(b, e) /\ Has(e, bytes)
    BY <1>7, <1>15, <1>19, Completed DEF Begins
  <2>2. PICK q : q = DecodeInto(e, p)
    OBVIOUS
  <2>3. Gives(q, e, n, CanonicalObject(m))
    BY <1>17, <2>1, <2>2
  <2>4. e.reader_index = x
    BY <1>15, <2>1 DEF Extends
  <2>5. q.buf.reader_index = x + n
    BY <2>3, <2>4 DEF Gives
  <2>6. Same(r, q, b, e)
    BY <1>3, <1>9, <1>10, <2>1, <2>2, ObjectSame DEF SameRuns
  <2>7. r.buf.reader_index # q.buf.reader_index
    BY <1>16, <1>19, <2>5
  <2> QED
    BY <2>6, <2>7 DEF Same
<1> QED
  BY <1>7, <1>12, <1>15, <1>16, <1>18, <1>19 DEF TakesOwnBytes, Takes

(* What encode() writes of an object that can be sent, decode() of any     *)
(* object of its class takes, no byte more or less, wherever the bytes     *)
(* stand in a buffer and whatever comes behind them; it gives the object   *)
(* up to padding and cut strings, and is refused while bytes are missing.  *)
THEOREM ObjectsAreSelfContained ==
  ASSUME SameCode, SameReference, ObjectCodec
  PROVE  CodecIsSelfContained
<1>1. ASSUME NEW m \in Messages
      PROVE  /\ BytesOf(m) \in Seq(Byte) \ {<<>>}
             /\ \A b \in ByteBufs : b.reader_index <= Len(b.buffer) => SelfContained(m, b)
  <2>1. PICK c : c = PutObject(m)
    OBVIOUS
  <2>2. Sendable(m) /\ c.bytes # <<>>
    BY <2>1 DEF ObjectCodec
  <2>3. ObjectSent(m)
    <3>1. ClassOf(m) \in DOMAIN Classes
      BY <2>2 DEF Sendable
    <3> QED
      BY <2>2, <3>1, ObjectIsSent DEF SentRight
  <2>4. HasMembers(m, {}) /\ c \in Chunks
    BY <2>1, <2>3 DEF ObjectSent
  <2>5. c.bytes \in Seq(Byte)
    BY <2>4 DEF Chunks
  <2>6. /\ BytesOf(m) = c.bytes
        /\ \A b \in ByteBufs : Appends(EncodeInto(m, b), b, c.bytes)
    BY <2>1, <2>4, <2>5, EncodedIs, EncodeAppends
  <2>7. ASSUME NEW b \in ByteBufs, b.reader_index <= Len(b.buffer)
        PROVE  SelfContained(m, b)
    <3>1. b \in Cursors
      BY <2>7 DEF Cursors
    <3>2. AppendsOwnBytes(m, b)
      BY <2>6 DEF AppendsOwnBytes
    <3>3. Begins(m, b) => TakesOwnBytes(m, b)
      BY <3>1, MessageIsTaken
    <3> QED
      BY <3>2, <3>3 DEF SelfContained
  <2> QED
    BY <2>2, <2>6, <2>5, <2>7
<1> QED
  BY <1>1 DEF CodecIsSelfContained

-----------------------------------------------------------------------------
(* Frames whose encode() is not that of the layout: it does not write the  *)
(* length and the checksum that the object has, but patches in what        *)
(* writer_index() has counted of the body and asks a service for a sum.    *)

(* The length field is at place k, the body behind it, and after that      *)
(* perhaps the checksum.                                                   *)
HasLength(layout, k) ==
  /\ k \in DOMAIN layout
  /\ layout[k][2].kind = "int"
  /\ Len(layout) \in {k + 1, k + 2}
  /\ Len(layout) = k + 2 => layout[k + 2][2].kind = "int"

HeaderOf(layout, content, k) == PutFields(SubSeq(layout, 1, k - 1), content).bytes

BodyOf(layout, content, k) == PutField(layout[k + 1][2], content[layout[k + 1][1]])

(* encode() up to the patch, and all of it when the checksum member of the *)
(* object is what the service answers.                                     *)
Patched(layout, content, k, b) ==
  EncodePatched(b, Counted(HeaderOf(layout, content, k)), layout[k][2].width,
                BodyOf(layout, content, k))

Summed(layout, content, k) ==
  LittleEndian(content[layout[k + 2][1]], layout[k + 2][2].width)

Framed(layout, content, k, b) ==
  LET r == Patched(layout, content, k, b)
  IN  IF Len(layout) = k + 1 \/ r.outcome # "ok" THEN r
      ELSE Ok(Write(r.buf, Counted(Summed(layout, content, k))), <<>>)

(* Chains of the same chunks are the same.                                 *)
AgreeUpTo(n, chunks, others) == \A i \in 1 .. n : chunks[i] = others[i]

LEMMA ChainsAgree ==
  ASSUME NEW n \in Nat, NEW m \in Nat, n <= m, NEW chunks, NEW others,
         AgreeUpTo(n, chunks, others),
         NEW f, Chain(f, chunks, n), NEW g, Chain(g, others, m)
  PROVE  f[n] = g[n]
<1> DEFINE T == {i \in Nat : i <= n => f[i] = g[i]}
<1>1. 0 \in T
  BY DEF Chain
<1>2. ASSUME NEW i \in Nat, i \in T PROVE i + 1 \in T
  <2>1. CASE i + 1 <= n
    <3>1. PICK j \in 1 .. n : j = i + 1 /\ j - 1 = i
      BY <2>1
    <3>2. j \in 1 .. m /\ f[i] = g[i]
      BY <1>2, <2>1, <3>1
    <3>3. f[j] = Joined(f[i], chunks[j]) /\ g[j] = Joined(g[i], others[j])
      BY <3>1, <3>2 DEF Chain
    <3> QED
      BY <3>1, <3>2, <3>3 DEF AgreeUpTo
  <2> QED
    BY <2>1
<1>3. Nat \subseteq T
  <2> HIDE DEF T
  <2> QED
    BY <1>1, <1>2, SetInduction
<1> QED
  BY <1>3

(* The first members are written alike with and without those behind them. *)
LEMMA HeaderIs ==
  ASSUME NEW layout, IsLayout(layout), NEW content, NEW k \in DOMAIN layout,
         NEW n \in Nat, n = Len(layout),
         NEW f, Chain(f, [i \in 1 .. n |-> PutField(layout[i][2], content[layout[i][1]])], n)
  PROVE  HeaderOf(layout, content, k) = f[k - 1].bytes
<1>1. layout \in Seq({layout[i] : i \in DOMAIN layout}) /\ k \in 1 .. n
  BY LayoutType DEF IsLayout
<1>2. PICK m \in Nat : m = k - 1 /\ m <= n
  BY <1>1
<1>3. PICK front : front = SubSeq(layout, 1, m)
  OBVIOUS
<1>4. Len(front) = m /\ \A i \in 1 .. m : front[i] = layout[i]
  <2>1. \A i \in 1 .. m : i \in 1 .. n
    BY <1>2
  <2> QED
    BY <1>1, <1>2, <1>3, <2>1, SubSeqProperties
<1> DEFINE some == [i \in 1 .. m |-> PutField(front[i][2], content[front[i][1]])]
           all  == [i \in 1 .. n |-> PutField(layout[i][2], content[layout[i][1]])]
<1>5. PICK g : Chain(g, some, m) /\ PutFields(front, content) = g[m]
  <2>1. \E g : /\ Chain(g, [i \in 1 .. Len(front) |->
                              PutField(front[i][2], content[front[i][1]])], Len(front))
               /\ PutFields(front, content) = g[Len(front)]
    BY <1>4, PutFieldsChain
  <2> QED
    BY <1>4, <2>1
<1>6. \A i \in 1 .. m : some[i] = all[i]
  BY <1>2, <1>4
<1>7. Chain(f, all, n)
  OBVIOUS
<1> HIDE DEF some, all
<1>8. g[m] = f[m]
  <2>1. PICK e \in Nat : e = n
    OBVIOUS
  <2>2. PICK s, a : s = some /\ a = all
    OBVIOUS
  <2>3. Chain(g, s, m) /\ Chain(f, a, e) /\ m <= e /\ AgreeUpTo(m, s, a)
    BY <1>2, <1>5, <1>6, <1>7, <2>1, <2>2 DEF AgreeUpTo
  <2> QED
    BY <2>3, ChainsAgree
<1> QED
  BY <1>2, <1>3, <1>5, <1>8 DEF HeaderOf

LengthIsCounted(layout, content, k) ==
  content[layout[k][1]] = BodyOf(layout, content, k).counted

WritesChunks(layout, content) ==
  \A i \in DOMAIN layout : PutField(layout[i][2], content[layout[i][1]]) \in Chunks

(* An object whose length member is what its body counts is written, as    *)
(* the layout says, with the bytes of the frame and of its checksum.       *)
LEMMA FrameIsPut ==
  ASSUME NEW layout, IsLayout(layout), NEW content, NEW k, HasLength(layout, k),
         WritesChunks(layout, content), LengthIsCounted(layout, content, k),
         NEW w, w = FrameBytes(Counted(HeaderOf(layout, content, k)), layout[k][2].width,
                               BodyOf(layout, content, k))
  PROVE  /\ HeaderOf(layout, content, k) \in Seq(Byte)
         /\ BodyOf(layout, content, k) \in Chunks
         /\ Len(layout) = k + 1 => PutFields(layout, content).bytes = w
         /\ Len(layout) = k + 2 =>
              /\ Counted(Summed(layout, content, k)) \in Chunks
              /\ PutFields(layout, content).bytes = w \o Summed(layout, content, k)
<1>1. PICK n \in Nat : n = Len(layout) /\ DOMAIN layout = 1 .. n
  BY LayoutType
<1>2. k \in 1 .. n /\ n \in {k + 1, k + 2} /\ k \in Nat
  BY <1>1 DEF HasLength
<1> DEFINE chunks == [i \in 1 .. n |-> PutField(layout[i][2], content[layout[i][1]])]
<1>3. PICK f : Chain(f, chunks, n) /\ PutFields(layout, content) = f[n]
  BY <1>1, PutFieldsChain
<1>4. PICK m \in Nat, o \in Nat : m = k - 1 /\ m <= n /\ o = k + 1 /\ o - 1 = k /\ o \in 1 .. n
  BY <1>2
<1>5. \A i \in 1 .. n : chunks[i] = PutField(layout[i][2], content[layout[i][1]])
  OBVIOUS
<1> HIDE DEF chunks
<1>6. \A i \in 0 .. n : f[i] \in Chunks
  <2>1. \A i \in 1 .. n : chunks[i] \in Chunks
    BY <1>1, <1>5 DEF WritesChunks
  <2>2. Chain(f, chunks, n)
    BY <1>3
  <2> QED
    BY <2>1, <2>2, ChainChunks
<1>7. PICK h, c, v, l : h = f[m].bytes /\ c = chunks[o] /\ v = content[layout[k][1]]
                        /\ l = LittleEndian(v, layout[k][2].width)
  OBVIOUS
<1>8. HeaderOf(layout, content, k) = h
  <2>1. Chain(f, [i \in 1 .. n |-> PutField(layout[i][2], content[layout[i][1]])], n)
    BY <1>3 DEF chunks
  <2>2. k \in DOMAIN layout /\ n = Len(layout)
    BY <1>1, <1>2
  <2>3. HeaderOf(layout, content, k) = f[k - 1].bytes
    BY <2>1, <2>2, HeaderIs
  <2>4. k - 1 = m
    BY <1>4
  <2> QED
    BY <1>7, <2>3, <2>4
<1>9. BodyOf(layout, content, k) = c /\ c \in Chunks /\ c.counted = v
  BY <1>1, <1>4, <1>5, <1>7 DEF BodyOf, WritesChunks, LengthIsCounted
<1>10. f[m] \in Chunks /\ h \in Seq(Byte)
  BY <1>4, <1>6, <1>7 DEF Chunks
<1>11. f[k].bytes = h \o l
  <2>1. PutField(layout[k][2], content[layout[k][1]]) = Counted(l)
    BY <1>7, PutElementCases DEF HasLength, PutField
  <2>2. f[k] = Joined(f[m], Counted(l))
    BY <1>1, <1>2, <1>3, <1>4, <1>5, <2>1 DEF Chain
  <2>3. PICK u : u = Counted(l)
    OBVIOUS
  <2>4. u.bytes = l
    BY <2>3 DEF Counted
  <2>5. Joined(f[m], u).bytes = f[m].bytes \o u.bytes
    BY JoinedBytes
  <2> QED
    BY <1>7, <2>2, <2>3, <2>4, <2>5
<1>12. f[o].bytes = (h \o l) \o c.bytes
  <2>1. f[o] = Joined(f[k], c)
    BY <1>3, <1>4, <1>7 DEF Chain
  <2> QED
    BY <1>11, <2>1, JoinedBytes
<1>13. w = (h \o l) \o c.bytes
  BY <1>7, <1>8, <1>9 DEF FrameBytes, Counted
<1>14. ASSUME n = k + 2
       PROVE  /\ Counted(Summed(layout, content, k)) \in Chunks
              /\ f[n].bytes = w \o Summed(layout, content, k)
  <2>1. n - 1 = o /\ k + 2 \in 1 .. n
    BY <1>4, <1>14
  <2>2. PICK t : t = Summed(layout, content, k)
    OBVIOUS
  <2>3. PutField(layout[n][2], content[layout[n][1]]) = Counted(t)
    BY <1>1, <1>14, <2>2, PutElementCases DEF HasLength, PutField, Summed
  <2>4. Counted(t) \in Chunks
    BY <1>1, <1>14, <2>1, <2>3 DEF WritesChunks
  <2>5. f[n] = Joined(f[o], Counted(t))
    BY <1>3, <1>5, <1>14, <2>1, <2>3 DEF Chain
  <2>6. f[n].bytes = w \o t
    <3>1. PICK u : u = Counted(t)
      OBVIOUS
    <3>2. u.bytes = t
      BY <3>1 DEF Counted
    <3>3. Joined(f[o], u).bytes = f[o].bytes \o u.bytes
      BY JoinedBytes
    <3> QED
      BY <1>12, <1>13, <2>5, <3>1, <3>2, <3>3
  <2> QED
    BY <2>2, <2>4, <2>6
<1>15. n = k + 1 => f[n].bytes = w
  BY <1>4, <1>12, <1>13
<1> QED
  BY <1>1, <1>3, <1>8, <1>9, <1>10, <1>14, <1>15

(* An object that can be sent, as its frame: the length member is what its *)
(* body counts.                                                            *)
SentFrame(o, layout, content, k) ==
  /\ Sendable(o) /\ layout = Classes[ClassOf(o)] /\ content = ContentOf(o)
  /\ HasLength(layout, k) /\ LengthIsCounted(layout, content, k)

LEMMA FrameIsEncoded ==
  ASSUME SameCode, SameReference,
         NEW o, NEW layout, NEW content, NEW k, SentFrame(o, layout, content, k),
         NEW b \in ByteBufs, AllCounted(b),
         NEW r, r = Patched(layout, content, k, b), NEW e, e = Framed(layout, content, k, b)
  PROVE  /\ r.buf \in ByteBufs
         /\ Appends(e, b, PutObject(o).bytes)
         /\ Len(layout) = k + 2 =>
              /\ Counted(Summed(layout, content, k)) \in Chunks
              /\ e.buf.buffer = Glued(r.buf.buffer, Summed(layout, content, k))
<1>0. /\ Sendable(o) /\ layout = Classes[ClassOf(o)] /\ content = ContentOf(o)
      /\ HasLength(layout, k) /\ LengthIsCounted(layout, content, k)
  BY DEF SentFrame
<1>1. ClassOf(o) \in DOMAIN Classes /\ IsLayout(layout)
  BY <1>0, ClassesAssumption DEF Sendable
<1>2. \A i \in DOMAIN layout : ClassesIn(layout[i][2]) \subseteq SentRight
  <2>1. ClassesInside(ClassOf(o)) \subseteq SentRight
    BY <1>1, ObjectIsSent, InsideAreClasses
  <2> QED
    BY <1>0, <1>1, <2>1, InsideLayout
<1>3. SentContent(layout, content)
  BY <1>0 DEF Sendable, SentContent, NamesOf
<1>4. WritesChunks(layout, content)
  <2> SUFFICES ASSUME NEW i \in DOMAIN layout
               PROVE  PutField(layout[i][2], content[layout[i][1]]) \in Chunks
    BY DEF WritesChunks
  <2>1. PICK type, v, c : type = layout[i][2] /\ v = content[layout[i][1]] /\ c = PutField(type, v)
    OBVIOUS
  <2>2. MemberSent(c, type, v, CanonicalMember(layout, content, type.key))
    BY <1>1, <1>2, <1>3, <2>1, LayoutMemberIsSent
  <2> QED
    BY <2>1, <2>2 DEF MemberSent
<1>5. PICK h, body, width, w :
        /\ h = HeaderOf(layout, content, k) /\ body = BodyOf(layout, content, k)
        /\ width = layout[k][2].width /\ w = FrameBytes(Counted(h), width, body)
  OBVIOUS
<1>6. PICK put : put = PutFields(layout, content).bytes /\ put = PutObject(o).bytes
  BY <1>0 DEF PutObject
<1>7. /\ h \in Seq(Byte) /\ body \in Chunks
      /\ Len(layout) = k + 1 => put = w
      /\ Len(layout) = k + 2 =>
           Counted(Summed(layout, content, k)) \in Chunks /\ put = w \o Summed(layout, content, k)
  <2>1. HasLength(layout, k) /\ LengthIsCounted(layout, content, k)
    BY <1>0
  <2>2. w = FrameBytes(Counted(HeaderOf(layout, content, k)), layout[k][2].width,
                       BodyOf(layout, content, k))
    BY <1>5
  <2>3. /\ HeaderOf(layout, content, k) \in Seq(Byte)
        /\ BodyOf(layout, content, k) \in Chunks
        /\ Len(layout) = k + 1 => PutFields(layout, content).bytes = w
        /\ Len(layout) = k + 2 =>
             /\ Counted(Summed(layout, content, k)) \in Chunks
             /\ PutFields(layout, content).bytes = w \o Summed(layout, content, k)
    BY <1>1, <1>4, <2>1, <2>2, FrameIsPut
  <2> QED
    BY <1>5, <1>6, <2>3
<1>8. width \in Nat
  <2>1. k \in DOMAIN layout /\ layout[k][2].kind = "int"
    BY <1>0 DEF HasLength
  <2>2. IsMember(layout[k][2])
    <3>1. \A i \in DOMAIN layout : IsMember(layout[i][2])
      BY <1>1, LayoutType
    <3> QED
      BY <2>1, <3>1
  <2> QED
    BY <1>5, <2>1, <2>2 DEF IsMember, IsElement
<1>9. /\ r.outcome = "ok" /\ r.buf \in ByteBufs /\ r.buf.reader_index = b.reader_index
      /\ r.buf.buffer = b.buffer \o w
  <2>1. r = EncodePatched(b, Counted(h), width, body)
    BY <1>5 DEF Patched
  <2>2. PICK q : q = EncodePatched(b, Counted(h), width, body)
    OBVIOUS
  <2>3. /\ q.outcome = "ok" /\ q.buf \in ByteBufs /\ q.buf.reader_index = b.reader_index
        /\ q.buf.buffer = b.buffer \o FrameBytes(Counted(h), width, body)
    <3>1. h \in Seq(Byte) /\ body \in Chunks
      BY <1>7
    <3>2. LET v == EncodePatched(b, Counted(h), width, body)
          IN  /\ v.outcome = "ok"
              /\ v.buf \in ByteBufs
              /\ v.buf.reader_index = b.reader_index
              /\ v.buf.buffer = b.buffer \o FrameBytes(Counted(h), width, body)
      BY <1>8, <3>1, PatchedAppends
    <3> QED
      BY <2>2, <3>2
  <2> QED
    BY <1>5, <2>1, <2>2, <2>3
<1>10. CASE Len(layout) = k + 1
  <2>1. e = r
    BY <1>10 DEF Framed
  <2>2. ~ (Len(layout) = k + 2)
    <3>1. k \in Nat
      BY <1>0, <1>1, LayoutType DEF HasLength
    <3> QED
      BY <1>10, <3>1
  <2> QED
    BY <1>6, <1>7, <1>9, <1>10, <2>1, <2>2 DEF Appends
<1>11. CASE Len(layout) = k + 2
  <2>1. ~ (Len(layout) = k + 1)
    <3>1. k \in Nat
      BY <1>0, <1>1, LayoutType DEF HasLength
    <3> QED
      BY <1>11, <3>1
  <2>2. PICK t, c : t = Summed(layout, content, k) /\ c = Counted(t)
    OBVIOUS
  <2>3. c \in Chunks /\ c.bytes = t /\ put = w \o t
    BY <1>7, <1>11, <2>2 DEF Counted
  <2>4. e.outcome = "ok" /\ e.buf = Write(r.buf, c)
    BY <1>9, <2>1, <2>2 DEF Framed, Ok
  <2>5. /\ e.buf \in ByteBufs /\ e.buf.buffer = r.buf.buffer \o c.bytes
        /\ e.buf.reader_index = r.buf.reader_index
    <3>1. PICK q \in ByteBufs : q = r.buf
      BY <1>9
    <3>2. PICK a : a = Write(q, c)
      OBVIOUS
    <3>3. a \in ByteBufs /\ a.buffer = q.buffer \o c.bytes /\ a.reader_index = q.reader_index
      BY <2>3, <3>2, WriteType
    <3> QED
      BY <2>4, <3>1, <3>2, <3>3
  <2>6. (b.buffer \o w) \o t = b.buffer \o (w \o t)
    <3>1. w \in Seq(Byte)
      <4>1. LittleEndian(body.counted, width) \in Seq(Byte)
        <5>1. body.counted \in Int
          BY <1>7 DEF Chunks
        <5> QED
          BY <1>8, <5>1, LittleEndianType
      <4>2. body.bytes \in Seq(Byte)
        BY <1>7 DEF Chunks
      <4>3. Counted(h).bytes = h
        BY DEF Counted
      <4>4. h \o LittleEndian(body.counted, width) \in Seq(Byte)
        BY <1>7, <4>1, ConcatProperties
      <4> QED
        BY <1>5, <4>2, <4>3, <4>4, ConcatProperties DEF FrameBytes
    <3>2. t \in Seq(Byte) /\ b.buffer \in Seq(Byte)
      BY <2>3 DEF Chunks, ByteBufs
    <3>3. PICK x \in Seq(Byte), y \in Seq(Byte), v \in Seq(Byte) : x = b.buffer /\ y = w /\ v = t
      BY <3>1, <3>2
    <3>4. (x \o y) \o v = x \o (y \o v)
      BY ConcatAssociative
    <3> QED
      BY <3>3, <3>4
  <2>7. e.buf.buffer = Glued(r.buf.buffer, t)
    BY <2>3, <2>5 DEF Glued
  <2>8. Appends(e, b, put)
    BY <1>9, <2>3, <2>4, <2>5, <2>6 DEF Appends
  <2> QED
    BY <1>6, <1>9, <2>2, <2>3, <2>7, <2>8
<1> QED
  BY <1>0, <1>10, <1>11 DEF HasLength

(* A frame is encoded with a length and a checksum of its own, whatever    *)
(* its members for these say.  With what encode() computes in their place  *)
(* it comes back: encode() never throws, appends what the layout writes of *)
(* the object with these members, and whatever object of the class decodes *)
(* these bytes has them and all the others, up to padding and cut strings. *)
(* The buffer must have counted all that was written before.               *)
THEOREM PatchedFramesComeBack ==
  ASSUME SameCode, SameReference,
         NEW o, NEW layout, NEW content, NEW k, SentFrame(o, layout, content, k),
         NEW b \in ByteBufs, AllCounted(b)
  PROVE  /\ Appends(Framed(layout, content, k, b), b, PutObject(o).bytes)
         /\ \A d, p, unset :
              /\ Has(d, PutObject(o).bytes)
              /\ ClassOf(p) = ClassOf(o) /\ HasMembers(p, unset)
              => Gives(DecodeInto(d, p), d, Len(PutObject(o).bytes), CanonicalObject(o))
<1>1. PICK r, e : r = Patched(layout, content, k, b) /\ e = Framed(layout, content, k, b)
  OBVIOUS
<1>2. Appends(e, b, PutObject(o).bytes)
  BY <1>1, FrameIsEncoded
<1>3. ObjectSent(o)
  <2>1. Sendable(o) /\ ClassOf(o) \in DOMAIN Classes
    BY DEF SentFrame, Sendable
  <2> QED
    BY <2>1, ObjectIsSent DEF SentRight
<1> QED
  BY <1>1, <1>2, <1>3 DEF ObjectSent

-----------------------------------------------------------------------------
(* The checksum of a frame, for the receiver.                              *)
LEMMA FirstOfGlued ==
  ASSUME NEW s \in Seq(Byte), NEW t \in Seq(Byte), NEW w, w = Len(t), NEW g, g = Glued(s, t)
  PROVE  SubSeq(g, 1, Len(g) - w) = s
<1>1. PICK n \in Nat, z \in Nat : n = Len(s) /\ z = 0
  OBVIOUS
<1>2. SubSeq(s \o t, z + 1, z + n) = SubSeq(s, z + 1, z + n)
  BY <1>1, SliceOfPrefix
<1>3. z + 1 = 1 /\ z + n = n
  BY <1>1
<1>4. SubSeq(s, 1, n) = s
  BY <1>1, SubSeqFull
<1>5. Len(g) - w = n
  BY <1>1, ConcatType DEF Glued
<1>6. SubSeq(g, 1, n) = s
  BY <1>2, <1>3, <1>4 DEF Glued
<1> QED
  BY <1>5, <1>6

(* A receiver that has taken all before the frame.                         *)
ReadUpTo(e, at) == [e EXCEPT !.reader_index = at]

LEMMA AppendedIsThere ==
  ASSUME NEW b \in ByteBufs, NEW put \in Seq(Byte), NEW r, Appends(r, b, put),
         NEW e, e = r.buf, NEW d, d = ReadUpTo(e, Len(b.buffer))
  PROVE  /\ Has(d, put)
         /\ d.reader_index + Len(put) = Len(e.buffer)
<1>1. e \in ByteBufs /\ e.buffer = b.buffer \o put
  BY DEF Appends
<1>2. PICK s \in Seq(Byte) : s = b.buffer
  BY DEF ByteBufs
<1>3. PICK n \in Nat, m \in Nat : n = Len(s) /\ m = Len(put)
  OBVIOUS
<1>4. /\ e.buffer \in Seq(Byte) /\ Len(e.buffer) = n + m
      /\ \A i \in 1 .. m : e.buffer[n + i] = put[i]
  <2>1. /\ s \o put \in Seq(Byte) /\ Len(s \o put) = Len(s) + Len(put)
        /\ \A i \in 1 .. Len(put) : (s \o put)[Len(s) + i] = put[i]
    BY ConcatType
  <2>2. e.buffer = s \o put
    BY <1>1, <1>2
  <2> QED
    BY <1>3, <2>1, <2>2
<1>5. d.buffer = e.buffer /\ d.reader_index = n /\ d \in ByteBufs
  BY <1>1, <1>2, <1>3 DEF ReadUpTo, ByteBufs
<1>6. d \in Cursors
  BY <1>3, <1>4, <1>5 DEF Cursors
<1>7. d.reader_index + Len(put) = n + m /\ Len(d.buffer) = n + m
  BY <1>3, <1>4, <1>5
<1>8. d.reader_index + Len(put) <= Len(d.buffer)
  BY <1>7
<1>9. ASSUME NEW i \in 1 .. Len(put) PROVE d.buffer[d.reader_index + i] = put[i]
  <2>1. i \in 1 .. m /\ d.buffer = e.buffer /\ d.reader_index = n
    BY <1>3, <1>5
  <2>2. e.buffer[n + i] = put[i]
    BY <1>4, <2>1
  <2> QED
    BY <2>1, <2>2
<1>10. Has(d, put)
  BY <1>6, <1>8, <1>9 DEF Has
<1> QED
  BY <1>4, <1>7, <1>10

(* What the receiver of a frame needs to check its sum: all of the frame   *)
(* has been taken, and what it says is the sum of the bytes before it.     *)
Verifies(q, e, name, width) ==
  /\ q.outcome = "ok"
  /\ q.buf.reader_index = Len(e.buffer)
  /\ ContentOf(q.value)[name] = SumOf(SubSeq(e.buffer, 1, Len(e.buffer) - width)) % Radix

(* The sum that ends a frame is of all bytes before it in the buffer, the  *)
(* length field with its patched value among them: the receiver finds it   *)
(* in the object and can compute it again from the bytes alone.  This is   *)
(* for the frames that ask SSE_BIN or SZSE_BIN, which sum data().          *)
THEOREM FrameChecksumsVerify ==
  ASSUME SameCode, SameReference,
         NEW o, NEW layout, NEW content, NEW k, SentFrame(o, layout, content, k),
         Len(layout) = k + 2,
         NEW b \in ByteBufs, AllCounted(b),
         NEW x, x = Patched(layout, content, k, b).buf,
         content[layout[k + 2][1]] \in {SseBin(x), SzseBin(x)},
         NEW e, e = Framed(layout, content, k, b).buf,
         NEW p, NEW unset, ClassOf(p) = ClassOf(o), HasMembers(p, unset)
  PROVE  Verifies(DecodeInto(ReadUpTo(e, Len(b.buffer)), p), e,
                  layout[k + 2][1], layout[k + 2][2].width)
<1>1. PICK r, f, put, sum :
        /\ r = Patched(layout, content, k, b) /\ f = Framed(layout, content, k, b)
        /\ put = PutObject(o).bytes /\ sum = Summed(layout, content, k)
  OBVIOUS
<1>2. PICK d, q : d = ReadUpTo(e, Len(b.buffer)) /\ q = DecodeInto(d, p)
  OBVIOUS
<1>3. PICK j : j = k + 2
  OBVIOUS
<1>4. PICK type, name, v : type = layout[j][2] /\ name = layout[j][1] /\ v = content[name]
  OBVIOUS
<1>5. /\ r.buf \in ByteBufs /\ Appends(f, b, put)
      /\ Counted(sum) \in Chunks /\ f.buf.buffer = Glued(r.buf.buffer, sum)
  BY <1>1, FrameIsEncoded
<1>6. /\ Sendable(o) /\ ClassOf(o) \in DOMAIN Classes
      /\ layout = Classes[ClassOf(o)] /\ content = ContentOf(o) /\ HasLength(layout, k)
  BY DEF SentFrame, Sendable
<1>7. IsLayout(layout)
  BY <1>6, ClassesAssumption
<1>8. j \in DOMAIN layout /\ type.kind = "int"
  <2>1. k \in DOMAIN layout
    BY <1>6 DEF HasLength
  <2>2. j \in 1 .. Len(layout)
    BY <1>3, <1>7, <2>1, LayoutType
  <2>3. type.kind = "int"
    BY <1>3, <1>4, <1>6 DEF HasLength
  <2> QED
    BY <1>7, <2>2, <2>3, LayoutType
<1>9. ObjectSent(o)
  BY <1>6, ObjectIsSent DEF SentRight
<1>10. put \in Seq(Byte)
  BY <1>1, <1>9 DEF ObjectSent, Chunks
<1>11. Has(d, put) /\ d.reader_index + Len(put) = Len(e.buffer)
  BY <1>1, <1>2, <1>5, <1>10, AppendedIsThere
<1>12. Gives(q, d, Len(put), CanonicalObject(o))
  BY <1>1, <1>2, <1>9, <1>11 DEF ObjectSent
<1>13. v \in Numbers(type) /\ CanonicalMember(layout, content, name) = v
  <2>1. type = TypeOf(layout, name)
    BY <1>4, <1>7, <1>8, TypeOfMember
  <2>2. name \in NamesOf(layout)
    BY <1>4, <1>8 DEF NamesOf
  <2>3. SendableMember(layout, content, name)
    BY <1>6, <2>2 DEF Sendable
  <2>4. MemberSendable(type, v, CanonicalMember(layout, content, type.key))
    BY <1>4, <2>1, <2>3, SendableMemberCases
  <2>5. SendableElement(type, v)
    BY <1>8, <2>4 DEF MemberSendable
  <2>6. CanonicalElement(type, v) = v
    BY <1>8, CanonicalElementCases
  <2> QED
    BY <1>4, <1>8, <2>1, <2>5, <2>6, SendableElementCases DEF CanonicalMember, CanonicalValue
<1>14. sum \in Seq(Byte) /\ Len(sum) = type.width
  <2>1. IsElement(type)
    <3>1. IsMember(type)
      BY <1>4, <1>7, <1>8, LayoutType
    <3> QED
      BY <1>8, <3>1 DEF IsMember
  <2>2. v \in Int /\ type.width \in Nat
    BY <1>8, <1>13, <2>1, NumbersOf
  <2>3. sum = LittleEndian(v, type.width)
    BY <1>1, <1>3, <1>4 DEF Summed
  <2> QED
    BY <2>2, <2>3, LittleEndianType
<1>15. SubSeq(e.buffer, 1, Len(e.buffer) - type.width) = r.buf.buffer
  <2>1. r.buf.buffer \in Seq(Byte)
    BY <1>5 DEF ByteBufs
  <2>2. e.buffer = Glued(r.buf.buffer, sum)
    BY <1>1, <1>5
  <2>3. PICK s \in Seq(Byte), u \in Seq(Byte) : s = r.buf.buffer /\ u = sum
    BY <1>14, <2>1
  <2>4. PICK w, g : w = Len(u) /\ g = Glued(s, u)
    OBVIOUS
  <2>5. SubSeq(g, 1, Len(g) - w) = s
    BY <2>4, FirstOfGlued
  <2> QED
    BY <1>14, <2>2, <2>3, <2>4, <2>5
<1>16. v = SumOf(r.buf.buffer) % Radix
  BY <1>1, <1>3, <1>4 DEF SseBin, SzseBin
<1>17. ContentOf(CanonicalObject(o))[name] = v
  <2>1. PICK new : new = [nm \in NamesOf(layout) |-> CanonicalMember(layout, content, nm)]
    OBVIOUS
  <2>2. CanonicalObject(o) = Obj(ClassOf(o), new)
    BY <1>6, <2>1 DEF CanonicalObject
  <2>3. name \in NamesOf(layout)
    BY <1>4, <1>8 DEF NamesOf
  <2>4. ContentOf(CanonicalObject(o)) = new
    BY <2>2 DEF Obj, ContentOf
  <2> QED
    BY <1>13, <2>1, <2>3, <2>4
<1>18. q.outcome = "ok" /\ q.buf.reader_index = Len(e.buffer) /\ ContentOf(q.value)[name] = v
  BY <1>11, <1>12, <1>17 DEF Gives
<1> QED
  BY <1>2, <1>3, <1>4, <1>15, <1>16, <1>18 DEF Verifies
-----------------------------------------------------------------------------
(* A session whose messages are objects of the table: the hypothesis that  *)
(* SessionProofs have about any codec is the theorem above.                *)
CONSTANTS Contents, MaxQueue, Follows(_, _), CutEvery

VARIABLES buf, sent, ends, whole, received, result

Channel == INSTANCE SessionProofs WITH outcome <- result

LEMMA ChannelIsSelfContained ==
  ASSUME SameCode, SameReference, ObjectCodec
  PROVE  Channel!CodecIsSelfContained
<1>1. CodecIsSelfContained
  BY ObjectsAreSelfContained
<1> QED
  BY <1>1
  DEF CodecIsSelfContained, SelfContained, AppendsOwnBytes, Appends, Begins, BeginsWith,
      TakesOwnBytes, Takes, BytesOf, EmptyBuf, ByteBufs, Byte,
      Channel!CodecIsSelfContained, Channel!SelfContained, Channel!AppendsOwnBytes,
      Channel!Appends, Channel!Begins, Channel!BeginsWith, Channel!TakesOwnBytes,
      Channel!Takes, Channel!BytesOf, Channel!EmptyBuf, Channel!ByteBufs, Channel!Byte

(* Objects of the table that can be sent arrive in order, up to padding    *)
(* and cut strings; each takes exactly its bytes, is refused as long as    *)
(* some are missing and has the same bytes when it is forwarded: for every *)
(* table, any number of them in the buffer and every cut.                  *)
THEOREM ObjectsArriveInOrder ==
  ASSUME SameCode, SameReference, ObjectCodec, Channel!SessionAssumption
  PROVE  Channel!Spec => []( /\ Channel!InOrder
                             /\ Channel!ExactlyConsumed
                             /\ Channel!RefusedWhenIncomplete
                             /\ Channel!ForwardedUnchanged)
<1>1. Channel!CodecIsSelfContained
  BY ChannelIsSelfContained
<1>2. Channel!Spec => []Channel!InOrder
  BY <1>1, RadixAssumption, Channel!SessionAssumption, Channel!MessagesInOrder
<1>3. Channel!Spec => []Channel!ExactlyConsumed
  BY <1>1, RadixAssumption, Channel!SessionAssumption, Channel!MessagesConsumed
<1>4. Channel!Spec => []Channel!RefusedWhenIncomplete
  BY <1>1, RadixAssumption, Channel!SessionAssumption, Channel!IncompleteRefused
<1>5. Channel!Spec => []Channel!ForwardedUnchanged
  BY <1>1, RadixAssumption, Channel!SessionAssumption, Channel!BytesForwarded
<1> QED
  BY <1>2, <1>3, <1>4, <1>5, PTL

(* A buffer with such objects is a queue of messages, the queue of which   *)
(* the transport may lose the end.                                         *)
THEOREM ObjectsAreQueued ==
  ASSUME SameCode, SameReference, ObjectCodec, Channel!SessionAssumption
  PROVE  Channel!Spec => Channel!ImplementsMessageQueue
<1>1. Channel!CodecIsSelfContained
  BY ChannelIsSelfContained
<1> QED
  BY <1>1, RadixAssumption, Channel!SessionAssumption, Channel!SessionImplementsQueue
=============================================================================
