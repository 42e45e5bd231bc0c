--------------------------- MODULE ByteBufProofs ---------------------------
(***************************************************************************)
(* Facts about the integers that a ByteBuf writes and reads, for every     *)
(* value, every width and every Radix, and the induction that they need;   *)
(* and what encode() of a frame does to the buffer up to its patch.        *)
(***************************************************************************)
EXTENDS Frame, TLAPS, WellFoundedInduction, SequenceTheorems

-----------------------------------------------------------------------------
(* Induction over the naturals for a set instead of for a predicate: a     *)
(* first-order statement, which any prover can use.                        *)

(* A non-empty set of naturals has a least element.                        *)
LEMMA LeastElement ==
  ASSUME NEW T \in SUBSET Nat, T # {}
  PROVE  \E x \in T : \A y \in T : x <= y
<1>1. IsWellFoundedOn(OpToRel(<, Nat), Nat)
  BY NatLessThanWellFounded, Zenon
<1>2. PICK x \in T : \A y \in T : ~(<<y, x>> \in OpToRel(<, Nat))
  BY <1>1, WFMin
<1>3. \A y \in T : ~(y < x)
  BY <1>2 DEF OpToRel
<1> QED
  BY <1>3

(* A set that holds 0 and is closed under successor holds every natural.   *)
LEMMA SetInduction ==
  ASSUME NEW T, 0 \in T, \A n \in Nat : n \in T => n + 1 \in T
  PROVE  Nat \subseteq T
<1> SUFFICES ASSUME Nat \ T # {} PROVE FALSE
  OBVIOUS
<1>1. PICK x \in Nat \ T : \A y \in Nat \ T : x <= y
  BY LeastElement
<1>2. /\ x - 1 \in Nat
      /\ x - 1 \notin Nat \ T
  BY <1>1
<1>3. (x - 1) + 1 \in T
  BY <1>2
<1> QED
  BY <1>1, <1>3

(* Primitive recursion over 0 .. N, the step being a function.             *)
Recursion(f, N, start, step) ==
  /\ DOMAIN f = 0 .. N
  /\ f = [i \in 0 .. N |-> f[i]]
  /\ f[0] = start
  /\ \A i \in 1 .. N : f[i] = step[i][f[i - 1]]

(* Every function that obeys the recursion has the values of its step.     *)
LEMMA RecursionType ==
  ASSUME NEW N \in Nat, NEW S, NEW start \in S, NEW step \in [1 .. N -> [S -> S]],
         NEW f, Recursion(f, N, start, step)
  PROVE  f \in [0 .. N -> S]
<1> DEFINE T == {i \in Nat : i <= N => f[i] \in S}
<1>1. 0 \in T
  BY DEF Recursion
<1>2. ASSUME NEW i \in Nat, i \in T PROVE i + 1 \in T
  <2> SUFFICES ASSUME i + 1 <= N PROVE f[i + 1] \in S
    OBVIOUS
  <2>1. PICK j \in 1 .. N : j = i + 1
    OBVIOUS
  <2>2. f[j] = step[j][f[j - 1]]
    BY DEF Recursion
  <2>3. j - 1 = i /\ f[i] \in S
    BY <1>2, <2>1
  <2>4. f[j] \in S
    BY <2>2, <2>3
  <2> QED
    BY <2>1, <2>4
<1> HIDE DEF T
<1>3. Nat \subseteq T
  BY <1>1, <1>2, SetInduction
<1>4. \A i \in 0 .. N : f[i] \in S
  BY <1>3 DEF T
<1> QED
  BY <1>4 DEF Recursion

(* There is a function that obeys the recursion.                           *)
LEMMA RecursionExists ==
  ASSUME NEW N \in Nat, NEW S, NEW start \in S, NEW step \in [1 .. N -> [S -> S]]
  PROVE  \E f : Recursion(f, N, start, step)
<1> DEFINE T == {n \in Nat : n <= N => \E f \in [0 .. n -> S] :
                                Recursion(f, n, start, step)}
<1>1. 0 \in T
  <2> DEFINE g == [i \in 0 .. 0 |-> start]
  <2>1. g \in [0 .. 0 -> S] /\ Recursion(g, 0, start, step)
    BY DEF Recursion
  <2> HIDE DEF g
  <2> QED
    BY <2>1
<1>2. ASSUME NEW n \in Nat, n \in T PROVE n + 1 \in T
  <2>1. CASE ~(n + 1 <= N)
    BY <2>1
  <2>2. CASE n + 1 <= N
    <3>1. PICK f \in [0 .. n -> S] : Recursion(f, n, start, step)
      BY <1>2, <2>2
    <3> DEFINE g == [i \in 0 .. n + 1 |-> IF i <= n THEN f[i] ELSE step[n + 1][f[n]]]
    <3>2. g \in [0 .. n + 1 -> S]
      BY <2>2
    <3>3. ASSUME NEW i \in 1 .. n + 1 PROVE g[i] = step[i][g[i - 1]]
      <4>1. CASE i <= n
        <5>0. i \in 1 .. n
          BY <4>1
        <5>1. f[i] = step[i][f[i - 1]]
          BY <3>1, <5>0 DEF Recursion
        <5>2. g[i] = f[i] /\ g[i - 1] = f[i - 1]
          BY <4>1
        <5> QED
          BY <5>1, <5>2
      <4>2. CASE i = n + 1
        BY <4>2
      <4> QED
        BY <4>1, <4>2
    <3>4. g[0] = start
      BY <3>1 DEF Recursion
    <3> HIDE DEF g
    <3>5. Recursion(g, n + 1, start, step)
      BY <3>2, <3>3, <3>4 DEF Recursion
    <3>6. \E h \in [0 .. n + 1 -> S] : Recursion(h, n + 1, start, step)
      BY <3>2, <3>5
    <3> QED
      BY <3>6
  <2> QED
    BY <2>1, <2>2
<1> HIDE DEF T
<1>3. N \in T
  <2>1. Nat \subseteq T
    BY <1>1, <1>2, SetInduction
  <2> QED
    BY <2>1
<1> QED
  BY <1>3 DEF T

-----------------------------------------------------------------------------
(* The shifts behind the bytes of write_le<T>.                             *)
LEMMA LittleEndianShifts ==
  ASSUME NEW v \in Int, NEW w \in Nat
  PROVE  \E f \in [0 .. w -> Int] :
           /\ f[0] = v
           /\ \A i \in 1 .. w : f[i] = f[i - 1] \div Radix
           /\ LittleEndian(v, w) = [i \in 1 .. w |-> f[i - 1] % Radix]
<1> DEFINE Shifting(f) ==
             f = [i \in 0 .. w |-> IF i = 0 THEN v ELSE f[i - 1] \div Radix]
           shifted == CHOOSE f : Shifting(f)
           step == [i \in 1 .. w |-> [x \in Int |-> x \div Radix]]
<1> USE RadixAssumption
<1>1. step \in [1 .. w -> [Int -> Int]]
  OBVIOUS
<1>2. \A i \in 1 .. w, x \in Int : step[i][x] = x \div Radix
  OBVIOUS
<1> HIDE DEF step
<1>3. PICK f : Recursion(f, w, v, step)
  BY <1>1, RecursionExists
<1>4. f \in [0 .. w -> Int]
  BY <1>1, <1>3, RecursionType
<1>5. ASSUME NEW i \in 0 .. w
      PROVE  f[i] = IF i = 0 THEN v ELSE f[i - 1] \div Radix
  <2>1. CASE i = 0
    BY <1>3, <2>1 DEF Recursion
  <2>2. CASE i \in 1 .. w
    <3>1. f[i] = step[i][f[i - 1]]
      BY <1>3, <2>2 DEF Recursion
    <3>2. f[i - 1] \in Int
      BY <1>4, <2>2
    <3> QED
      BY <1>2, <2>2, <3>1, <3>2
  <2> QED
    BY <2>1, <2>2
<1>6. Shifting(f)
  BY <1>4, <1>5
<1>7. Shifting(shifted)
  <2> HIDE DEF Shifting
  <2> QED
    BY <1>6
<1> HIDE DEF shifted
<1>8. \A i \in 0 .. w : shifted[i] \in Int
  <2> DEFINE T == {i \in Nat : i <= w => shifted[i] \in Int}
  <2>2. 0 \in T
    BY <1>7
  <2>3. ASSUME NEW i \in Nat, i \in T PROVE i + 1 \in T
    <3>1. i + 1 <= w => shifted[i + 1] = shifted[i] \div Radix
      BY <1>7
    <3> QED
      BY <2>3, <3>1
  <2> HIDE DEF T
  <2>4. Nat \subseteq T
    BY <2>2, <2>3, SetInduction
  <2> QED
    BY <2>4 DEF T
<1>9. LittleEndian(v, w) = [i \in 1 .. w |-> shifted[i - 1] % Radix]
  BY DEF LittleEndian, shifted
<1>10. shifted \in [0 .. w -> Int]
  BY <1>7, <1>8
<1>11. shifted[0] = v
  BY <1>7
<1>12. ASSUME NEW i \in 1 .. w PROVE shifted[i] = shifted[i - 1] \div Radix
  <2>1. i \in 0 .. w /\ i # 0
    OBVIOUS
  <2> QED
    BY <1>7, <2>1
<1> QED
  BY <1>9, <1>10, <1>11, <1>12

(* write_le<T> makes sizeof(T) bytes of any integer.                       *)
LEMMA LittleEndianType ==
  ASSUME NEW v \in Int, NEW w \in Nat
  PROVE  /\ LittleEndian(v, w) \in Seq(Byte)
         /\ Len(LittleEndian(v, w)) = w
<1>1. PICK f \in [0 .. w -> Int] :
        LittleEndian(v, w) = [i \in 1 .. w |-> f[i - 1] % Radix]
  BY LittleEndianShifts
<1>2. LittleEndian(v, w) \in [1 .. w -> Byte]
  BY <1>1, RadixAssumption DEF Byte
<1> QED
  BY <1>2

-----------------------------------------------------------------------------
(* The byte that holds the sign, as the type that is read takes it.        *)
Top(bytes, signed) ==
  LET w == Len(bytes)
  IN  IF signed /\ bytes[w] >= Radix \div 2 THEN bytes[w] - Radix ELSE bytes[w]

(* What read_le<T> has assembled from the upper bytes after each of them.  *)
LEMMA ValueOfHighs ==
  ASSUME NEW w \in Nat \ {0}, NEW bytes \in Seq(Byte), Len(bytes) = w,
         NEW signed \in BOOLEAN
  PROVE  \E f \in [1 .. w -> Int] :
           /\ f[1] = Top(bytes, signed)
           /\ \A i \in 2 .. w : f[i] = f[i - 1] * Radix + bytes[w + 1 - i]
           /\ ValueOf(bytes, signed) = f[w]
<1> DEFINE top == Top(bytes, signed)
           Assembling(f) ==
             f = [i \in 1 .. w |->
                    IF i = 1 THEN top ELSE f[i - 1] * Radix + bytes[w + 1 - i]]
           high == CHOOSE f : Assembling(f)
           step == [i \in 1 .. w - 1 |-> [x \in Int |-> x * Radix + bytes[w - i]]]
<1> USE RadixAssumption
<1>1. \A i \in 1 .. w : bytes[i] \in Int
  BY ElementOfSeq DEF Byte
<1>2. top \in Int
  BY <1>1 DEF Top
<1>3. step \in [1 .. w - 1 -> [Int -> Int]]
  <2>1. \A i \in 1 .. w - 1 : bytes[w - i] \in Int
    BY <1>1
  <2> QED
    BY <2>1
<1>4. \A i \in 1 .. w - 1, x \in Int : step[i][x] = x * Radix + bytes[w - i]
  OBVIOUS
<1>5. ValueOf(bytes, signed) = high[w]
  BY DEF ValueOf, Top
<1> HIDE DEF step, top
<1>6. PICK n \in Nat : n = w - 1
  OBVIOUS
<1>7. PICK g : Recursion(g, n, top, step)
  BY <1>2, <1>3, <1>6, RecursionExists
<1>8. g \in [0 .. n -> Int]
  BY <1>2, <1>3, <1>6, <1>7, RecursionType
<1> DEFINE f == [i \in 1 .. w |-> g[i - 1]]
<1>9. f \in [1 .. w -> Int]
  BY <1>6, <1>8
<1>10. f[1] = top
  BY <1>7 DEF Recursion
<1>11. ASSUME NEW i \in 2 .. w PROVE f[i] = f[i - 1] * Radix + bytes[w + 1 - i]
  <2>1. PICK j \in 1 .. n : j = i - 1
    BY <1>6
  <2>2. g[j] = step[j][g[j - 1]]
    BY <1>7 DEF Recursion
  <2>3. g[j - 1] \in Int
    BY <1>8
  <2>4. g[j] = g[j - 1] * Radix + bytes[w - j]
    BY <1>4, <1>6, <2>2, <2>3
  <2>5. f[i] = g[j] /\ f[i - 1] = g[j - 1] /\ w + 1 - i = w - j
    BY <2>1
  <2> QED
    BY <2>4, <2>5
<1> HIDE DEF f
<1>12. Assembling(f)
  <2>1. ASSUME NEW i \in 1 .. w
        PROVE  f[i] = IF i = 1 THEN top ELSE f[i - 1] * Radix + bytes[w + 1 - i]
    BY <1>10, <1>11
  <2> QED
    BY <1>9, <2>1
<1>13. Assembling(high)
  <2> HIDE DEF Assembling
  <2> QED
    BY <1>12
<1> HIDE DEF high
<1>14. high[1] = top
  BY <1>13
<1>15. ASSUME NEW i \in 2 .. w PROVE high[i] = high[i - 1] * Radix + bytes[w + 1 - i]
  <2>1. i \in 1 .. w /\ i # 1
    OBVIOUS
  <2> QED
    BY <1>13, <2>1
<1> HIDE DEF Assembling
<1>16. \A i \in 1 .. w : high[i] \in Int
  <2> DEFINE T == {i \in Nat : i + 1 <= w => high[i + 1] \in Int}
  <2>1. 0 \in T
    BY <1>2, <1>14
  <2>2. ASSUME NEW i \in Nat, i \in T PROVE i + 1 \in T
    <3> SUFFICES ASSUME i + 2 <= w PROVE high[i + 2] \in Int
      OBVIOUS
    <3>1. PICK j \in 2 .. w : j = i + 2
      OBVIOUS
    <3>2. high[j] = high[j - 1] * Radix + bytes[w + 1 - j]
      BY <1>15
    <3>3. j - 1 = i + 1 /\ high[i + 1] \in Int
      BY <2>2, <3>1
    <3>4. bytes[w + 1 - j] \in Int
      BY <1>1
    <3>5. high[j] \in Int
      BY <3>2, <3>3, <3>4
    <3> QED
      BY <3>1, <3>5
  <2> HIDE DEF T
  <2>3. Nat \subseteq T
    BY <2>1, <2>2, SetInduction
  <2>4. \A i \in 1 .. w : i - 1 \in T /\ (i - 1) + 1 = i
    BY <2>3
  <2> QED
    BY <2>4 DEF T
<1>17. high \in [1 .. w -> Int]
  BY <1>13, <1>16 DEF Assembling
<1> QED
  BY <1>5, <1>14, <1>15, <1>17 DEF top

(* A quotient and a remainder determine each other.                        *)
LEMMA DivisionUnique ==
  ASSUME NEW q \in Int, NEW r \in Byte
  PROVE  (q * Radix + r) \div Radix = q /\ (q * Radix + r) % Radix = r
BY RadixAssumption DEF Byte

(* The shifts of write_le and read_le are inverse.                         *)
LEMMA WrittenBack ==
  ASSUME NEW w \in Nat \ {0}, NEW bytes \in Seq(Byte), Len(bytes) = w,
         NEW signed \in BOOLEAN
  PROVE  /\ ValueOf(bytes, signed) \in Int
         /\ LittleEndian(ValueOf(bytes, signed), w) = bytes
<1> USE RadixAssumption
<1>1. PICK high \in [1 .. w -> Int] :
        /\ high[1] = Top(bytes, signed)
        /\ \A i \in 2 .. w : high[i] = high[i - 1] * Radix + bytes[w + 1 - i]
        /\ ValueOf(bytes, signed) = high[w]
  BY ValueOfHighs
<1>2. PICK v \in Int : v = ValueOf(bytes, signed)
  BY <1>1
<1>3. PICK shifted \in [0 .. w -> Int] :
        /\ shifted[0] = v
        /\ \A i \in 1 .. w : shifted[i] = shifted[i - 1] \div Radix
        /\ LittleEndian(v, w) = [i \in 1 .. w |-> shifted[i - 1] % Radix]
  BY LittleEndianShifts
<1>4. \A i \in 1 .. w : bytes[i] \in Byte
  BY ElementOfSeq
<1>5. \A i \in 0 .. w - 1 : shifted[i] = high[w - i]
  <2> DEFINE T == {i \in Nat : i <= w - 1 => shifted[i] = high[w - i]}
  <2>1. 0 \in T
    BY <1>1, <1>2, <1>3
  <2>2. ASSUME NEW i \in Nat, i \in T PROVE i + 1 \in T
    <3> SUFFICES ASSUME i + 1 <= w - 1 PROVE shifted[i + 1] = high[w - (i + 1)]
      OBVIOUS
    <3>1. PICK j \in 1 .. w : j = i + 1
      OBVIOUS
    <3>2. PICK k \in 2 .. w : k = w - i
      OBVIOUS
    <3>3. shifted[j] = high[k] \div Radix
      BY <1>3, <2>2, <3>1, <3>2
    <3>4. high[k] = high[k - 1] * Radix + bytes[w + 1 - k]
      BY <1>1
    <3>5. high[k - 1] \in Int /\ bytes[w + 1 - k] \in Byte
      BY <1>4
    <3>6. shifted[j] = high[k - 1]
      BY <3>3, <3>4, <3>5, DivisionUnique
    <3> QED
      BY <3>1, <3>2, <3>6
  <2> HIDE DEF T
  <2>3. Nat \subseteq T
    BY <2>1, <2>2, SetInduction
  <2> QED
    BY <2>3 DEF T
<1>6. ASSUME NEW i \in 1 .. w PROVE shifted[i - 1] % Radix = bytes[i]
  <2>1. PICK k \in 1 .. w : k = w + 1 - i
    OBVIOUS
  <2>2. shifted[i - 1] = high[k]
    BY <1>5, <2>1
  <2>3. PICK byte \in Byte : byte = bytes[i]
    BY <1>4
  <2>4. \E q \in Int : high[k] = q * Radix + byte
    <3>1. CASE k = 1
      <4>1. i = w
        BY <2>1, <3>1
      <4>2. high[k] = 0 * Radix + byte \/ high[k] = (-1) * Radix + byte
        <5>1. high[k] = Top(bytes, signed) /\ bytes[w] = byte
          BY <1>1, <2>3, <3>1, <4>1
        <5>2. Top(bytes, signed) = byte \/ Top(bytes, signed) = byte - Radix
          BY <5>1 DEF Top
        <5>3. 0 * Radix + byte = byte /\ (-1) * Radix + byte = byte - Radix
          BY RadixAssumption DEF Byte
        <5> QED
          BY <5>1, <5>2, <5>3
      <4>3. 0 \in Int /\ -1 \in Int
        OBVIOUS
      <4> QED
        BY <4>2, <4>3, Zenon
    <3>2. CASE k \in 2 .. w
      <4>1. high[k] = high[k - 1] * Radix + bytes[w + 1 - k]
        BY <1>1, <3>2
      <4>2. PICK rest \in Int : rest = high[k - 1]
        BY <3>2
      <4>3. byte = bytes[w + 1 - k]
        <5>1. w + 1 - k = i
          BY <2>1
        <5> QED
          BY <2>3, <5>1
      <4>4. high[k] = rest * Radix + byte
        BY <4>1, <4>2, <4>3
      <4> QED
        BY <4>4
    <3> QED
      BY <3>1, <3>2
  <2>5. PICK q \in Int : high[k] = q * Radix + byte
    BY <2>4
  <2>6. (q * Radix + byte) % Radix = byte
    BY DivisionUnique
  <2> QED
    BY <2>2, <2>3, <2>5, <2>6
<1>7. LittleEndian(v, w) = [i \in 1 .. w |-> bytes[i]]
  BY <1>3, <1>6
<1>8. bytes = [i \in 1 .. w |-> bytes[i]]
  BY LenProperties
<1> QED
  BY <1>2, <1>7, <1>8

-----------------------------------------------------------------------------
(* How many bit patterns a number of bytes has, byte by byte.              *)
LEMMA PatternsPowers ==
  ASSUME NEW w \in Nat
  PROVE  \E f \in [0 .. w -> Nat] :
           /\ f[0] = 1
           /\ \A i \in 1 .. w : f[i] = f[i - 1] * Radix
           /\ Patterns(w) = f[w]
<1> DEFINE Powers(f) ==
             f = [i \in 0 .. w |-> IF i = 0 THEN 1 ELSE f[i - 1] * Radix]
           power == CHOOSE f : Powers(f)
           step == [i \in 1 .. w |-> [x \in Nat |-> x * Radix]]
<1> USE RadixAssumption
<1>1. step \in [1 .. w -> [Nat -> Nat]]
  OBVIOUS
<1>2. \A i \in 1 .. w, x \in Nat : step[i][x] = x * Radix
  OBVIOUS
<1>3. Patterns(w) = power[w]
  BY DEF Patterns
<1> HIDE DEF step
<1>4. PICK one \in Nat : one = 1
  OBVIOUS
<1>5. PICK f : Recursion(f, w, one, step)
  BY <1>1, RecursionExists
<1>6. f \in [0 .. w -> Nat]
  BY <1>1, <1>5, RecursionType
<1>7. f[0] = 1
  BY <1>4, <1>5 DEF Recursion
<1>8. ASSUME NEW i \in 1 .. w PROVE f[i] = f[i - 1] * Radix
  <2>1. f[i] = step[i][f[i - 1]]
    BY <1>5 DEF Recursion
  <2>2. f[i - 1] \in Nat
    BY <1>6
  <2> QED
    BY <1>2, <2>1, <2>2
<1>9. Powers(f)
  <2>1. ASSUME NEW i \in 0 .. w
        PROVE  f[i] = IF i = 0 THEN 1 ELSE f[i - 1] * Radix
    BY <1>7, <1>8
  <2> QED
    BY <1>6, <2>1
<1>10. Powers(power)
  <2> HIDE DEF Powers
  <2> QED
    BY <1>9
<1> HIDE DEF power
<1>11. power[0] = 1
  BY <1>10
<1>12. ASSUME NEW i \in 1 .. w PROVE power[i] = power[i - 1] * Radix
  <2>1. i \in 0 .. w /\ i # 0
    OBVIOUS
  <2> QED
    BY <1>10, <2>1
<1>13. DOMAIN power = 0 .. w /\ power = [i \in 0 .. w |-> power[i]]
  BY <1>10
<1> HIDE DEF Powers
<1>14. \A i \in 0 .. w : power[i] \in Nat
  <2> DEFINE T == {i \in Nat : i <= w => power[i] \in Nat}
  <2>1. 0 \in T
    BY <1>11
  <2>2. ASSUME NEW i \in Nat, i \in T PROVE i + 1 \in T
    <3>1. i + 1 <= w => power[i + 1] = power[i] * Radix
      BY <1>12
    <3> QED
      BY <2>2, <3>1
  <2> HIDE DEF T
  <2>3. Nat \subseteq T
    BY <2>1, <2>2, SetInduction
  <2> QED
    BY <2>3 DEF T
<1>15. power \in [0 .. w -> Nat]
  BY <1>13, <1>14
<1> QED
  BY <1>3, <1>11, <1>12, <1>15

(* One more byte behind a value between two bounds.                        *)
LEMMA NextHigh ==
  ASSUME NEW low \in Int, NEW top \in Int, NEW h \in Int, low <= h, h <= top - 1,
         NEW byte \in Byte
  PROVE  low * Radix <= h * Radix + byte /\ h * Radix + byte <= top * Radix - 1
<1> USE RadixAssumption DEF Byte
<1>1. low * Radix <= h * Radix
  OBVIOUS
<1>2. h * Radix <= (top - 1) * Radix
  OBVIOUS
<1>3. (top - 1) * Radix = top * Radix - Radix
  OBVIOUS
<1>4. low * Radix \in Int /\ h * Radix \in Int /\ top * Radix \in Int
  OBVIOUS
<1> QED
  BY <1>1, <1>2, <1>3, <1>4

(* Values read as unsigned are as many as the bit patterns.                *)
LEMMA UnsignedRange ==
  ASSUME NEW w \in Nat \ {0}, NEW bytes \in Seq(Byte), Len(bytes) = w
  PROVE  ValueOf(bytes, FALSE) \in 0 .. Patterns(w) - 1
<1>1. PICK high \in [1 .. w -> Int] :
        /\ high[1] = Top(bytes, FALSE)
        /\ \A i \in 2 .. w : high[i] = high[i - 1] * Radix + bytes[w + 1 - i]
        /\ ValueOf(bytes, FALSE) = high[w]
  BY ValueOfHighs
<1>2. PICK power \in [0 .. w -> Nat] :
        /\ power[0] = 1
        /\ \A i \in 1 .. w : power[i] = power[i - 1] * Radix
        /\ Patterns(w) = power[w]
  BY PatternsPowers
<1>3. \A i \in 1 .. w : bytes[i] \in Byte
  BY ElementOfSeq
<1> DEFINE T == {i \in Nat : i + 1 <= w =>
                   0 <= high[i + 1] /\ high[i + 1] <= power[i + 1] - 1}
<1>4. 0 \in T
  <2>1. high[1] \in 0 .. Radix - 1
    <3>1. high[1] = bytes[w]
      BY <1>1 DEF Top
    <3>2. w \in 1 .. w
      OBVIOUS
    <3> QED
      BY <1>3, <3>1, <3>2 DEF Byte
  <2>2. 1 \in 1 .. w
    OBVIOUS
  <2>3. power[1] = 1 * Radix
    BY <1>2, <2>2
  <2> QED
    BY <2>1, <2>3, RadixAssumption
<1>5. ASSUME NEW i \in Nat, i \in T PROVE i + 1 \in T
  <2> SUFFICES ASSUME i + 2 <= w
               PROVE  0 <= high[i + 2] /\ high[i + 2] <= power[i + 2] - 1
    OBVIOUS
  <2>1. PICK j \in 2 .. w : j = i + 2
    OBVIOUS
  <2>2. PICK h \in Int, p \in Int : h = high[j - 1] /\ p = power[j - 1]
    BY <2>1, SMTT(20)
  <2>3. 0 <= h /\ h <= p - 1
    BY <1>5, <2>1, <2>2
  <2>4. PICK byte \in Byte : byte = bytes[w + 1 - j]
    BY <1>3
  <2>5. high[j] = h * Radix + byte /\ power[j] = p * Radix
    <3>1. high[j] = high[j - 1] * Radix + bytes[w + 1 - j]
      BY <1>1
    <3>2. power[j] = power[j - 1] * Radix
      BY <1>2
    <3> QED
      BY <2>2, <2>4, <3>1, <3>2
  <2>6. 0 * Radix <= h * Radix + byte /\ h * Radix + byte <= p * Radix - 1
    BY <2>3, NextHigh
  <2>7. 0 * Radix = 0
    BY RadixAssumption
  <2> QED
    BY <2>1, <2>5, <2>6, <2>7
<1> HIDE DEF T
<1>6. Nat \subseteq T
  BY <1>4, <1>5, SetInduction
<1>7. w - 1 \in T /\ (w - 1) + 1 = w
  BY <1>6
<1>8. 0 <= high[w] /\ high[w] <= power[w] - 1
  BY <1>7 DEF T
<1>9. w \in 1 .. w /\ w \in 0 .. w
  OBVIOUS
<1>10. PICK v \in Int, p \in Nat : v = high[w] /\ p = power[w]
  BY <1>9
<1>11. v \in 0 .. p - 1
  BY <1>8, <1>10
<1> QED
  BY <1>1, <1>2, <1>10, <1>11

(* Those read as signed are as many, half of them negative.                *)
LEMMA SignedRange ==
  ASSUME NEW w \in Nat \ {0}, NEW bytes \in Seq(Byte), Len(bytes) = w,
         Radix % 2 = 0
  PROVE  LET half == Patterns(w) \div 2
         IN  ValueOf(bytes, TRUE) \in -half .. Patterns(w) - half - 1
<1>1. PICK high \in [1 .. w -> Int] :
        /\ high[1] = Top(bytes, TRUE)
        /\ \A i \in 2 .. w : high[i] = high[i - 1] * Radix + bytes[w + 1 - i]
        /\ ValueOf(bytes, TRUE) = high[w]
  BY ValueOfHighs
<1>2. PICK power \in [0 .. w -> Nat] :
        /\ power[0] = 1
        /\ \A i \in 1 .. w : power[i] = power[i - 1] * Radix
        /\ Patterns(w) = power[w]
  BY PatternsPowers
<1>3. \A i \in 1 .. w : bytes[i] \in Byte
  BY ElementOfSeq
<1>4. PICK part \in Nat : Radix = 2 * part
  <2>1. Radix = 2 * (Radix \div 2) /\ Radix \div 2 \in Nat
    BY RadixAssumption
  <2> QED
    BY <2>1
(* The patterns of i bytes, of which half are negative.                    *)
<1> DEFINE Halves(i, h) == h \in Nat /\ power[i] = 2 * h
           Within(i, h) == -h <= high[i] /\ high[i] <= h - 1
           T == {i \in Nat : i + 1 <= w =>
                   \E h \in Nat : Halves(i + 1, h) /\ Within(i + 1, h)}
<1>5. 0 \in T
  <2>1. Radix \div 2 = part
    BY <1>4
  <2>2. bytes[w] \in 0 .. Radix - 1
    BY <1>3 DEF Byte
  <2>3. high[1] = IF bytes[w] >= part THEN bytes[w] - Radix ELSE bytes[w]
    BY <1>1, <2>1 DEF Top
  <2>4. Within(1, part)
    BY <1>4, <2>2, <2>3
  <2>5. power[1] = Radix
    <3>1. 1 \in 1 .. w
      OBVIOUS
    <3>2. power[1] = 1 * Radix
      BY <1>2, <3>1
    <3> QED
      BY <3>2, RadixAssumption
  <2>6. Halves(1, part)
    BY <1>4, <2>5
  <2> QED
    BY <2>4, <2>6
<1>6. ASSUME NEW i \in Nat, i \in T PROVE i + 1 \in T
  <2> SUFFICES ASSUME i + 2 <= w
               PROVE  \E h \in Nat : Halves(i + 2, h) /\ Within(i + 2, h)
    OBVIOUS
  <2>1. PICK j \in 2 .. w : j = i + 2
    OBVIOUS
  <2>2. PICK h \in Nat : Halves(j - 1, h) /\ Within(j - 1, h)
    BY <1>6, <2>1
  <2>3. PICK v \in Int : v = high[j - 1]
    BY <2>1
  <2>4. PICK byte \in Byte : byte = bytes[w + 1 - j]
    BY <1>3
  <2>5. high[j] = v * Radix + byte
    <3>1. high[j] = high[j - 1] * Radix + bytes[w + 1 - j]
      BY <1>1
    <3> QED
      BY <2>3, <2>4, <3>1
  <2>6. PICK low \in Int : low = -h
    BY <2>2
  <2>7. low * Radix <= v * Radix + byte /\ v * Radix + byte <= h * Radix - 1
    BY <2>2, <2>3, <2>6, NextHigh, SMTT(20)
  <2>8. PICK g \in Nat : g = h * Radix
    BY RadixAssumption
  <2>9. low * Radix = -g
    BY <2>6, <2>8, RadixAssumption
  <2>10. Within(j, g)
    BY <2>5, <2>7, <2>8, <2>9
  <2>11. power[j] = 2 * g
    <3>1. power[j] = power[j - 1] * Radix
      BY <1>2
    <3>2. power[j - 1] = 2 * h
      BY <2>2
    <3>3. (2 * h) * Radix = 2 * (h * Radix)
      BY RadixAssumption
    <3> QED
      BY <2>8, <3>1, <3>2, <3>3
  <2> QED
    BY <2>1, <2>10, <2>11
<1> HIDE DEF T
<1>7. Nat \subseteq T
  BY <1>5, <1>6, SetInduction
<1>8. w - 1 \in T /\ (w - 1) + 1 = w
  BY <1>7
<1>9. PICK h \in Nat : Halves(w, h) /\ Within(w, h)
  BY <1>8 DEF T
<1>10. Patterns(w) = 2 * h /\ Patterns(w) \div 2 = h
  BY <1>2, <1>9
<1>11. w \in 1 .. w
  OBVIOUS
<1>12. PICK v \in Int : v = high[w]
  BY <1>11
<1>13. -h <= v /\ v <= h - 1
  BY <1>9, <1>12
<1>14. v \in -h .. Patterns(w) - h - 1
  BY <1>10, <1>13
<1> QED
  BY <1>1, <1>10, <1>12, <1>14

-----------------------------------------------------------------------------
(* Appending a chunk keeps the type, and counts at most what it appends.   *)
LEMMA WriteType ==
  ASSUME NEW b \in ByteBufs, NEW c \in Chunks
  PROVE  LET r == Write(b, c)
         IN  /\ r \in ByteBufs
             /\ r.buffer = b.buffer \o c.bytes
             /\ Len(r.buffer) = Len(b.buffer) + Len(c.bytes)
             /\ r.reader_index = b.reader_index
             /\ r.writer_index = b.writer_index + c.counted
<1> DEFINE longer  == b.buffer \o c.bytes
           counted == b.writer_index + c.counted
<1>1. /\ b.buffer \in Seq(Byte)
      /\ c.bytes \in Seq(Byte)
      /\ counted \in Nat
  BY DEF ByteBufs, Chunks
<1>2. /\ longer \in Seq(Byte)
      /\ Len(longer) = Len(b.buffer) + Len(c.bytes)
  BY <1>1, ConcatProperties
<1>3. Write(b, c) = [b EXCEPT !.buffer = longer, !.writer_index = counted]
  BY DEF Write
<1> HIDE DEF longer, counted
<1>4. Write(b, c) = [buffer |-> longer, reader_index |-> b.reader_index,
                     writer_index |-> counted]
  BY <1>3 DEF ByteBufs
<1> QED
  BY <1>1, <1>2, <1>4 DEF ByteBufs, longer, counted

(* The chunks of integers and of byte sequences.                           *)
LEMMA ChunkTypes ==
  /\ \A bytes \in Seq(Byte) :
       /\ Counted(bytes) \in Chunks
       /\ Uncounted(bytes) \in Chunks
       /\ Counted(bytes).counted <= Len(bytes)
       /\ Uncounted(bytes).counted <= Len(bytes)
       /\ Counted(bytes).bytes = bytes
       /\ Uncounted(bytes).bytes = bytes
BY DEF Counted, Uncounted, Chunks

(* Overwriting in place keeps the type and the length of the buffer.       *)
LEMMA OverwrittenType ==
  ASSUME NEW s \in Seq(Byte), NEW pos \in Nat, NEW bytes \in Seq(Byte)
  PROVE  LET t == Overwritten(s, pos, bytes)
         IN  /\ t \in Seq(Byte)
             /\ Len(t) = Len(s)
             /\ \A i \in 1 .. Len(s) :
                  t[i] = IF i \in pos + 1 .. pos + Len(bytes)
                           THEN bytes[i - pos] ELSE s[i]
<1> DEFINE t == Overwritten(s, pos, bytes)
<1>1. \A i \in 1 .. Len(s) : t[i] \in Byte
  BY ElementOfSeq DEF Overwritten
<1>2. t \in Seq(Byte) /\ Len(t) = Len(s)
  BY <1>1 DEF Overwritten
<1> QED
  BY <1>2 DEF Overwritten

LEMMA WriteAtType ==
  ASSUME NEW b \in ByteBufs, NEW pos \in Nat, NEW bytes \in Seq(Byte)
  PROVE  LET r == WriteAt(b, pos, bytes)
         IN  /\ r.buf \in ByteBufs
             /\ Len(r.buf.buffer) = Len(b.buffer)
             /\ r.buf.reader_index = b.reader_index
             /\ r.buf.writer_index = b.writer_index
             /\ r.outcome \in {"ok", "out_of_range"}
             /\ r.value = <<>>
             /\ r.outcome = "ok" <=> pos + Len(bytes) <= Len(b.buffer)
             /\ r.outcome = "ok" => r.buf.buffer = Overwritten(b.buffer, pos, bytes)
             /\ r.outcome # "ok" => r.buf = b
<1>1. /\ Len(b.buffer) \in Nat
      /\ Len(bytes) \in Nat
  BY DEF ByteBufs
<1>2. CASE pos + Len(bytes) > Len(b.buffer)
  BY <1>1, <1>2 DEF WriteAt, OutOfRange
<1>3. CASE pos + Len(bytes) <= Len(b.buffer)
  <2> DEFINE new == Overwritten(b.buffer, pos, bytes)
  <2>1. new \in Seq(Byte) /\ Len(new) = Len(b.buffer)
    BY OverwrittenType DEF ByteBufs
  <2>2. WriteAt(b, pos, bytes) = Ok([b EXCEPT !.buffer = new], <<>>)
    BY <1>1, <1>3 DEF WriteAt
  <2>3. [b EXCEPT !.buffer = new] =
          [buffer |-> new, reader_index |-> b.reader_index,
           writer_index |-> b.writer_index]
    BY DEF ByteBufs
  <2> QED
    BY <1>3, <2>1, <2>2, <2>3 DEF Ok, ByteBufs
<1> QED
  BY <1>1, <1>2, <1>3

(* Reading keeps the type and never takes the cursor past the data.        *)
LEMMA ReadBytesType ==
  ASSUME NEW b \in ByteBufs, b.reader_index <= Len(b.buffer), NEW n \in Nat
  PROVE  LET r == ReadBytes(b, n)
         IN  /\ r.buf \in ByteBufs
             /\ r.buf.buffer = b.buffer
             /\ r.buf.reader_index <= Len(b.buffer)
             /\ r.buf.writer_index = b.writer_index
             /\ r.outcome \in {"ok", "out_of_range"}
             /\ r.value \in Seq(Byte)
<1> USE DEF ReadBytes, ReadableBytes, ByteBufs
<1>1. CASE ReadableBytes(b) < n
  BY <1>1, EmptySeq DEF OutOfRange
<1>2. CASE ~(ReadableBytes(b) < n)
  <2> DEFINE taken == SubSeq(b.buffer, b.reader_index + 1, b.reader_index + n)
  <2>1. taken \in Seq(Byte)
    BY <1>2, SubSeqProperties
  <2>2. ReadBytes(b, n) = Ok([b EXCEPT !.reader_index = @ + n], taken)
    BY <1>2
  <2>3. [b EXCEPT !.reader_index = @ + n] =
          [buffer |-> b.buffer, reader_index |-> b.reader_index + n,
           writer_index |-> b.writer_index]
    OBVIOUS
  <2> HIDE DEF taken, ReadBytes
  <2> QED
    BY <1>2, <2>1, <2>2, <2>3 DEF Ok
<1> QED
  BY <1>1, <1>2

-----------------------------------------------------------------------------
(* The length of a concatenation and its pieces.                           *)
LEMMA ConcatType ==
  ASSUME NEW s \in Seq(Byte), NEW t \in Seq(Byte)
  PROVE  /\ s \o t \in Seq(Byte)
         /\ Len(s \o t) = Len(s) + Len(t)
         /\ Len(s) \in Nat
         /\ Len(t) \in Nat
         /\ \A i \in 1 .. Len(s) : (s \o t)[i] = s[i]
         /\ \A i \in 1 .. Len(t) : (s \o t)[Len(s) + i] = t[i]
<1>1. /\ s \o t \in Seq(Byte)
      /\ Len(s \o t) = Len(s) + Len(t)
      /\ \A i \in 1 .. Len(s) + Len(t) :
           (s \o t)[i] = IF i <= Len(s) THEN s[i] ELSE t[i - Len(s)]
  BY ConcatProperties
<1>2. Len(s) \in Nat /\ Len(t) \in Nat
  OBVIOUS
<1>3. ASSUME NEW i \in 1 .. Len(s) PROVE (s \o t)[i] = s[i]
  BY <1>1, <1>2
<1>4. ASSUME NEW i \in 1 .. Len(t) PROVE (s \o t)[Len(s) + i] = t[i]
  <2>1. PICK j \in 1 .. Len(s) + Len(t) : j = Len(s) + i
    BY <1>2
  <2>2. (s \o t)[j] = t[j - Len(s)]
    BY <1>1, <1>2, <2>1
  <2>3. j - Len(s) = i
    BY <1>2, <2>1
  <2> QED
    BY <2>1, <2>2, <2>3
<1> QED
  BY <1>1, <1>2, <1>3, <1>4

LEMMA SliceOfPrefix ==
  ASSUME NEW s \in Seq(Byte), NEW t \in Seq(Byte),
         NEW at \in Nat, NEW n \in Nat, at + n <= Len(s)
  PROVE  SubSeq(s \o t, at + 1, at + n) = SubSeq(s, at + 1, at + n)
<1> DEFINE left  == SubSeq(s \o t, at + 1, at + n)
           right == SubSeq(s, at + 1, at + n)
<1>1. \A i \in at + 1 .. at + n :
        /\ i \in 1 .. Len(s)
        /\ s[i] \in Byte
        /\ (s \o t)[i] = s[i]
  BY ConcatType, ElementOfSeq
<1>2. /\ left \in Seq(Byte)
      /\ Len(left) = IF at + 1 <= at + n THEN at + n - (at + 1) + 1 ELSE 0
      /\ \A i \in 1 .. at + n - (at + 1) + 1 : left[i] = (s \o t)[at + 1 + i - 1]
  BY <1>1, SubSeqProperties
<1>3. /\ right \in Seq(Byte)
      /\ Len(right) = IF at + 1 <= at + n THEN at + n - (at + 1) + 1 ELSE 0
      /\ \A i \in 1 .. at + n - (at + 1) + 1 : right[i] = s[at + 1 + i - 1]
  BY <1>1, SubSeqProperties
<1> HIDE DEF left, right
<1>4. Len(left) = n /\ Len(right) = n
  BY <1>2, <1>3
<1>5. ASSUME NEW i \in 1 .. Len(left) PROVE left[i] = right[i]
  <2>1. i \in 1 .. at + n - (at + 1) + 1
    BY <1>4
  <2>2. at + 1 + i - 1 \in at + 1 .. at + n
    BY <1>4
  <2> QED
    BY <1>1, <1>2, <1>3, <2>1, <2>2
<1>6. left = right
  BY <1>2, <1>3, <1>4, <1>5, SeqEqual
<1> QED
  BY <1>6 DEF left, right

(* Concatenation under names that the provers do not look into.            *)
Glued(s, t)     == s \o t
Pieces(p, m, d) == Glued(Glued(p, m), d)

LEMMA PiecesType ==
  ASSUME NEW p \in Seq(Byte), NEW m \in Seq(Byte), NEW d \in Seq(Byte)
  PROVE  /\ Pieces(p, m, d) \in Seq(Byte)
         /\ Len(Pieces(p, m, d)) = Len(p) + Len(m) + Len(d)
         /\ \A i \in 1 .. Len(p) + Len(m) + Len(d) :
              Pieces(p, m, d)[i] =
                 IF i <= Len(p) THEN p[i]
                 ELSE IF i <= Len(p) + Len(m) THEN m[i - Len(p)]
                 ELSE d[i - Len(p) - Len(m)]
<1>0. PICK np \in Nat, nm \in Nat, nd \in Nat :
        np = Len(p) /\ nm = Len(m) /\ nd = Len(d)
  OBVIOUS
<1>1. /\ p \o m \in Seq(Byte)
      /\ Len(p \o m) = np + nm
      /\ \A i \in 1 .. np + nm : (p \o m)[i] = IF i <= np THEN p[i] ELSE m[i - np]
  BY <1>0, ConcatProperties
<1>2. PICK q \in Seq(Byte) : q = p \o m
  BY <1>1
<1>3. /\ q \o d \in Seq(Byte)
      /\ Len(q \o d) = np + nm + nd
      /\ \A i \in 1 .. np + nm + nd :
           (q \o d)[i] = IF i <= np + nm THEN q[i] ELSE d[i - (np + nm)]
  BY <1>0, <1>1, <1>2, ConcatProperties
<1>4. ASSUME NEW i \in 1 .. np + nm + nd
      PROVE  (q \o d)[i] = IF i <= np THEN p[i]
                           ELSE IF i <= np + nm THEN m[i - np] ELSE d[i - np - nm]
  <2>1. CASE i <= np + nm
    <3>1. i \in 1 .. np + nm
      BY <2>1
    <3> QED
      BY <1>1, <1>2, <1>3, <2>1, <3>1
  <2>2. CASE ~(i <= np + nm)
    <3>1. (q \o d)[i] = d[i - (np + nm)]
      BY <1>3, <2>2
    <3>2. i - (np + nm) = i - np - nm /\ ~(i <= np)
      BY <2>2
    <3> QED
      BY <2>2, <3>1, <3>2
  <2> QED
    BY <2>1, <2>2
<1>5. q \o d = Pieces(p, m, d)
  BY <1>2 DEF Pieces, Glued
<1> QED
  BY <1>0, <1>3, <1>4, <1>5

(* Overwriting exactly the middle of three pieces.                         *)
LEMMA OverwriteMiddle ==
  ASSUME NEW p \in Seq(Byte), NEW z \in Seq(Byte), NEW l \in Seq(Byte),
         NEW d \in Seq(Byte), Len(z) = Len(l)
  PROVE  Overwritten(Pieces(p, z, d), Len(p), l) = Pieces(p, l, d)
<1> DEFINE laid == Pieces(p, z, d)
           want == Pieces(p, l, d)
           new  == Overwritten(laid, Len(p), l)
<1>1. PICK np \in Nat, nl \in Nat, nd \in Nat :
        np = Len(p) /\ nl = Len(l) /\ nd = Len(d)
  OBVIOUS
<1>2. /\ laid \in Seq(Byte)
      /\ Len(laid) = Len(p) + Len(z) + Len(d)
      /\ \A i \in 1 .. Len(p) + Len(z) + Len(d) :
           laid[i] = IF i <= Len(p) THEN p[i]
                     ELSE IF i <= Len(p) + Len(z) THEN z[i - Len(p)]
                     ELSE d[i - Len(p) - Len(z)]
  BY PiecesType
<1>3. /\ want \in Seq(Byte)
      /\ Len(want) = Len(p) + Len(l) + Len(d)
      /\ \A i \in 1 .. Len(p) + Len(l) + Len(d) :
           want[i] = IF i <= Len(p) THEN p[i]
                     ELSE IF i <= Len(p) + Len(l) THEN l[i - Len(p)]
                     ELSE d[i - Len(p) - Len(l)]
  BY PiecesType
<1> HIDE DEF laid, want
<1>4. /\ new \in Seq(Byte)
      /\ Len(new) = Len(laid)
      /\ \A i \in 1 .. Len(laid) :
           new[i] = IF i \in Len(p) + 1 .. Len(p) + Len(l)
                      THEN l[i - Len(p)] ELSE laid[i]
  <2>1. laid \in Seq(Byte) /\ Len(p) \in Nat
    BY <1>1, <1>2
  <2> QED
    BY <2>1, OverwrittenType
<1> HIDE DEF new
<1>5. ASSUME NEW i \in 1 .. np + nl + nd PROVE new[i] = want[i]
  <2>1. new[i] = IF i \in np + 1 .. np + nl THEN l[i - np] ELSE laid[i]
    BY <1>1, <1>2, <1>4
  <2>2. CASE i \in np + 1 .. np + nl
    BY <1>1, <1>3, <2>1, <2>2
  <2>3. CASE ~(i \in np + 1 .. np + nl)
    <3>1. new[i] = laid[i]
      BY <2>1, <2>3
    <3>2. i <= np \/ ~(i <= np + nl)
      BY <2>3
    <3> QED
      BY <1>1, <1>2, <1>3, <3>1, <3>2
  <2> QED
    BY <2>2, <2>3
<1>6. new = want
  BY <1>1, <1>2, <1>3, <1>4, <1>5, SeqEqual
<1> QED
  BY <1>6 DEF new, want, laid

LEMMA GluedAssociative ==
  ASSUME NEW s \in Seq(Byte), NEW t \in Seq(Byte), NEW u \in Seq(Byte)
  PROVE  Glued(Glued(s, t), u) = Glued(s, Glued(t, u))
BY ConcatAssociative DEF Glued

(* A patch that lands on the place reserved for it turns the bytes laid    *)
(* down into those of the frame, and touches nothing before them.          *)
LEMMA AlignedPatch ==
  ASSUME NEW s \in Seq(Byte), NEW h \in Seq(Byte), NEW z \in Seq(Byte),
         NEW l \in Seq(Byte), NEW d \in Seq(Byte), Len(z) = Len(l)
  PROVE  Overwritten(Pieces(Glued(s, h), z, d), Len(s) + Len(h), l) =
           Glued(s, Pieces(h, l, d))
<1>1. /\ Glued(s, h) \in Seq(Byte)
      /\ Glued(h, l) \in Seq(Byte)
      /\ Len(Glued(s, h)) = Len(s) + Len(h)
  BY ConcatProperties DEF Glued
<1>2. Overwritten(Pieces(Glued(s, h), z, d), Len(Glued(s, h)), l) =
        Pieces(Glued(s, h), l, d)
  <2>1. PICK p \in Seq(Byte) : p = Glued(s, h)
    BY <1>1
  <2>2. Overwritten(Pieces(p, z, d), Len(p), l) = Pieces(p, l, d)
    BY OverwriteMiddle
  <2> QED
    BY <2>1, <2>2
<1>3. Glued(Glued(s, h), l) = Glued(s, Glued(h, l))
  BY GluedAssociative
<1>4. Glued(Glued(s, Glued(h, l)), d) = Glued(s, Glued(Glued(h, l), d))
  <2>1. PICK q \in Seq(Byte) : q = Glued(h, l)
    BY <1>1
  <2>2. Glued(Glued(s, q), d) = Glued(s, Glued(q, d))
    BY GluedAssociative
  <2> QED
    BY <2>1, <2>2
<1>5. Pieces(Glued(s, h), l, d) = Glued(s, Glued(Glued(h, l), d))
  BY <1>3, <1>4 DEF Pieces
<1> QED
  BY <1>1, <1>2, <1>5 DEF Pieces

(* What encode does up to the patch, from any buffer whose writer_index is *)
(* inside it.                                                              *)
LEMMA EncodePatchedType ==
  ASSUME NEW b \in ByteBufs, b.writer_index <= Len(b.buffer),
         NEW h \in Seq(Byte), NEW width \in Nat,
         NEW body \in Chunks
  PROVE  LET r    == EncodePatched(b, Counted(h), width, body)
             laid == ((b.buffer \o h) \o LittleEndian(0, width)) \o body.bytes
         IN  /\ r.outcome = "ok"
             /\ r.buf \in ByteBufs
             /\ r.buf.reader_index = b.reader_index
             /\ r.buf.writer_index = b.writer_index + Len(h) + width + body.counted
             /\ Len(r.buf.buffer) =
                  Len(b.buffer) + Len(h) + width + Len(body.bytes)
             /\ r.buf.buffer = Overwritten(laid, b.writer_index + Len(h),
                                           LittleEndian(body.counted, width))
<1> DEFINE zeros  == LittleEndian(0, width)
           begun  == Write(b, Counted(h))
           placed == Write(begun, Counted(zeros))
           filled == Write(placed, body)
<1>1. zeros \in Seq(Byte) /\ Len(zeros) = width
  BY LittleEndianType
<1> HIDE DEF zeros
<1>2. /\ Counted(h) \in Chunks
      /\ Counted(h).bytes = h
      /\ Counted(h).counted = Len(h)
      /\ Counted(zeros) \in Chunks
      /\ Counted(zeros).bytes = zeros
      /\ Counted(zeros).counted = width
  BY <1>1 DEF Counted, Chunks
<1>3. /\ begun \in ByteBufs
      /\ begun.buffer = b.buffer \o h
      /\ Len(begun.buffer) = Len(b.buffer) + Len(h)
      /\ begun.reader_index = b.reader_index
      /\ begun.writer_index = b.writer_index + Len(h)
  <2>1. PICK c \in Chunks : c = Counted(h)
    BY <1>2
  <2>2. PICK after : after = Write(b, c)
    OBVIOUS
  <2>3. /\ after \in ByteBufs
        /\ after.buffer = b.buffer \o c.bytes
        /\ Len(after.buffer) = Len(b.buffer) + Len(c.bytes)
        /\ after.reader_index = b.reader_index
        /\ after.writer_index = b.writer_index + c.counted
    BY <2>2, WriteType
  <2> QED
    BY <1>2, <2>1, <2>2, <2>3
<1> HIDE DEF begun
<1>4. /\ placed \in ByteBufs
      /\ placed.buffer = (b.buffer \o h) \o zeros
      /\ Len(placed.buffer) = Len(b.buffer) + Len(h) + width
      /\ placed.reader_index = b.reader_index
      /\ placed.writer_index = b.writer_index + Len(h) + width
  <2>1. /\ placed \in ByteBufs
        /\ placed.buffer = begun.buffer \o Counted(zeros).bytes
        /\ Len(placed.buffer) = Len(begun.buffer) + Len(Counted(zeros).bytes)
        /\ placed.reader_index = begun.reader_index
        /\ placed.writer_index = begun.writer_index + Counted(zeros).counted
    BY <1>2, <1>3, WriteType
  <2> HIDE DEF placed
  <2> QED
    BY <1>1, <1>2, <1>3, <2>1
<1> HIDE DEF placed
<1>5. /\ filled \in ByteBufs
      /\ filled.buffer = ((b.buffer \o h) \o zeros) \o body.bytes
      /\ Len(filled.buffer) = Len(b.buffer) + Len(h) + width + Len(body.bytes)
      /\ filled.reader_index = b.reader_index
      /\ filled.writer_index = b.writer_index + Len(h) + width + body.counted
  <2>1. /\ filled \in ByteBufs
        /\ filled.buffer = placed.buffer \o body.bytes
        /\ Len(filled.buffer) = Len(placed.buffer) + Len(body.bytes)
        /\ filled.reader_index = placed.reader_index
        /\ filled.writer_index = placed.writer_index + body.counted
    BY <1>4, WriteType
  <2> HIDE DEF filled
  <2> QED
    BY <1>4, <2>1
<1> HIDE DEF filled
<1>6. /\ Len(b.buffer) \in Nat
      /\ Len(h) \in Nat
      /\ Len(body.bytes) \in Nat
      /\ b.writer_index \in Nat
      /\ body.counted \in Nat
  BY DEF ByteBufs, Chunks
<1>7. filled.writer_index - placed.writer_index = body.counted
  BY <1>4, <1>5, <1>6
<1>12. PICK pos \in Nat : pos = b.writer_index + Len(h)
  BY <1>6
<1>13. PICK counted \in Int : counted = body.counted
  BY <1>6
<1> DEFINE field == LittleEndian(counted, width)
<1>8. EncodePatched(b, Counted(h), width, body) = WriteAt(filled, pos, field)
  BY <1>3, <1>7, <1>12, <1>13 DEF EncodePatched, begun, placed, filled, zeros
<1>9. /\ field \in Seq(Byte)
      /\ Len(field) = width
  BY LittleEndianType
<1> HIDE DEF field
<1>10. pos + Len(field) <= Len(filled.buffer)
  <2>1. Len(filled.buffer) = Len(b.buffer) + Len(h) + width + Len(body.bytes)
    BY <1>5
  <2>2. pos + Len(field) = b.writer_index + Len(h) + width
    BY <1>9, <1>12
  <2> QED
    BY <1>6, <2>1, <2>2 DEF ByteBufs, Chunks
<1> DEFINE r == WriteAt(filled, pos, field)
<1>11. /\ r.buf \in ByteBufs
       /\ Len(r.buf.buffer) = Len(filled.buffer)
       /\ r.buf.reader_index = filled.reader_index
       /\ r.buf.writer_index = filled.writer_index
       /\ r.outcome = "ok"
       /\ r.buf.buffer = Overwritten(filled.buffer, pos, field)
  BY <1>5, <1>9, <1>10, WriteAtType
<1> HIDE DEF r
<1> QED
  BY <1>5, <1>8, <1>11, <1>12, <1>13 DEF field, zeros, r

(* A buffer that has counted all its bytes.  To such a one a frame is      *)
(* appended with its length field in place.                                *)
AllCounted(b) == b.writer_index = Len(b.buffer)

LEMMA PatchedAppends ==
  ASSUME NEW b \in ByteBufs, AllCounted(b),
         NEW h \in Seq(Byte), NEW width \in Nat, NEW body \in Chunks
  PROVE  LET r == EncodePatched(b, Counted(h), width, body)
         IN  /\ r.outcome = "ok"
             /\ r.buf \in ByteBufs
             /\ r.buf.reader_index = b.reader_index
             /\ r.buf.buffer = b.buffer \o FrameBytes(Counted(h), width, body)
<1>1. b.writer_index <= Len(b.buffer)
  <2>1. Len(b.buffer) \in Nat
    BY DEF ByteBufs
  <2> QED
    BY <2>1 DEF AllCounted
<1> DEFINE r == EncodePatched(b, Counted(h), width, body)
<1>2. /\ r.outcome = "ok"
      /\ r.buf \in ByteBufs
      /\ r.buf.reader_index = b.reader_index
      /\ r.buf.buffer = Overwritten(((b.buffer \o h) \o LittleEndian(0, width)) \o body.bytes,
                                    b.writer_index + Len(h), LittleEndian(body.counted, width))
  BY <1>1, EncodePatchedType
<1> HIDE DEF r
<1>3. PICK s \in Seq(Byte), d \in Seq(Byte), c \in Int, o \in Int :
        s = b.buffer /\ d = body.bytes /\ c = body.counted /\ o = 0
  BY DEF ByteBufs, Chunks
<1>4. PICK z, l : z = LittleEndian(o, width) /\ l = LittleEndian(c, width)
  OBVIOUS
<1>5. z \in Seq(Byte) /\ l \in Seq(Byte) /\ Len(z) = Len(l)
  BY <1>4, LittleEndianType
<1>6. Overwritten(Pieces(Glued(s, h), z, d), Len(s) + Len(h), l) = Glued(s, Pieces(h, l, d))
  BY <1>5, AlignedPatch
<1>7. FrameBytes(Counted(h), width, body) = Pieces(h, l, d)
  BY <1>3, <1>4 DEF FrameBytes, Counted, Pieces, Glued
<1>8. r.buf.buffer = s \o Pieces(h, l, d)
  BY <1>2, <1>3, <1>4, <1>6 DEF AllCounted, Pieces, Glued
<1> QED
  BY <1>2, <1>3, <1>7, <1>8 DEF r
=============================================================================
