----------------------- MODULE ChecksumServicesProofs -----------------------
(***************************************************************************)
(* That the loops of the checksum services compute what their names        *)
(* promise, and which damage a receiver finds, for data of any length.     *)
(***************************************************************************)
EXTENDS ChecksumServices, ByteBufProofs, FiniteSetTheorems

LEMMA SymDiffMember ==
  \A S, T, x : x \in SymDiff(S, T) <=> ~(x \in S <=> x \in T)
BY DEF SymDiff

LEMMA SymDiffEmpty ==
  \A S : SymDiff(S, {}) = S
BY DEF SymDiff

LEMMA SymDiffType ==
  ASSUME NEW U, NEW S \in SUBSET U, NEW T \in SUBSET U
  PROVE  SymDiff(S, T) \in SUBSET U
BY DEF SymDiff

(* The byte with given ones has these ones.                                *)
LEMMA BitsInvert ==
  ASSUME NEW bits \in SUBSET (0 .. 7)
  PROVE  ByteOf(bits) \in 0 .. 255 /\ Bits(ByteOf(bits)) = bits
<1> DEFINE v == ByteOf(bits)
<1>1. PICK a \in {0, 1}, b \in {0, 1}, c \in {0, 1}, d \in {0, 1},
           e \in {0, 1}, f \in {0, 1}, g \in {0, 1}, h \in {0, 1} :
        /\ v = a + 2 * b + 4 * c + 8 * d + 16 * e + 32 * f + 64 * g + 128 * h
        /\ 0 \in bits <=> a = 1
        /\ 1 \in bits <=> b = 1
        /\ 2 \in bits <=> c = 1
        /\ 3 \in bits <=> d = 1
        /\ 4 \in bits <=> e = 1
        /\ 5 \in bits <=> f = 1
        /\ 6 \in bits <=> g = 1
        /\ 7 \in bits <=> h = 1
  BY DEF ByteOf
<1> HIDE DEF v
<1>2. v \in 0 .. 255
  BY <1>1
<1>3. /\ (v \div 1) % 2 = a
      /\ (v \div 2) % 2 = b
      /\ (v \div 4) % 2 = c
      /\ (v \div 8) % 2 = d
      /\ (v \div 16) % 2 = e
      /\ (v \div 32) % 2 = f
      /\ (v \div 64) % 2 = g
      /\ (v \div 128) % 2 = h
  BY <1>1
<1>4. /\ 2^0 = 1 /\ 2^1 = 2 /\ 2^2 = 4 /\ 2^3 = 8
      /\ 2^4 = 16 /\ 2^5 = 32 /\ 2^6 = 64 /\ 2^7 = 128
  OBVIOUS
<1>5. ASSUME NEW k \in 0 .. 7 PROVE (v \div 2^k) % 2 = 1 <=> k \in bits
  <2>1. CASE k = 0
    BY <1>1, <1>3, <1>4, <2>1
  <2>2. CASE k = 1
    BY <1>1, <1>3, <1>4, <2>2
  <2>3. CASE k = 2
    BY <1>1, <1>3, <1>4, <2>3
  <2>4. CASE k = 3
    BY <1>1, <1>3, <1>4, <2>4
  <2>5. CASE k = 4
    BY <1>1, <1>3, <1>4, <2>5
  <2>6. CASE k = 5
    BY <1>1, <1>3, <1>4, <2>6
  <2>7. CASE k = 6
    BY <1>1, <1>3, <1>4, <2>7
  <2>8. CASE k = 7
    BY <1>1, <1>3, <1>4, <2>8
  <2> QED
    BY <2>1, <2>2, <2>3, <2>4, <2>5, <2>6, <2>7, <2>8
<1>6. Bits(v) = bits
  BY <1>5 DEF Bits
<1> QED
  BY <1>2, <1>6 DEF v

(* A byte has the ones that its value says.                                *)
LEMMA BytesInvert ==
  ASSUME NEW v \in 0 .. 255
  PROVE  ByteOf(Bits(v)) = v
<1>1. /\ 2^0 = 1 /\ 2^1 = 2 /\ 2^2 = 4 /\ 2^3 = 8
      /\ 2^4 = 16 /\ 2^5 = 32 /\ 2^6 = 64 /\ 2^7 = 128
  OBVIOUS
<1>2. PICK a \in 0 .. 127 : a = v \div 2
  OBVIOUS
<1>3. PICK b \in 0 .. 63 : b = v \div 4
  OBVIOUS
<1>4. PICK c \in 0 .. 31 : c = v \div 8
  OBVIOUS
<1>5. PICK d \in 0 .. 15 : d = v \div 16
  OBVIOUS
<1>6. PICK e \in 0 .. 7 : e = v \div 32
  OBVIOUS
<1>7. PICK f \in 0 .. 3 : f = v \div 64
  OBVIOUS
<1>8. PICK g \in 0 .. 1 : g = v \div 128
  OBVIOUS
<1>9. /\ v = 2 * a + (v % 2)
      /\ a = 2 * b + (a % 2)
      /\ b = 2 * c + (b % 2)
      /\ c = 2 * d + (c % 2)
      /\ d = 2 * e + (d % 2)
      /\ e = 2 * f + (e % 2)
      /\ f = 2 * g + (f % 2)
      /\ g = g % 2
  BY <1>2, <1>3, <1>4, <1>5, <1>6, <1>7, <1>8
<1>10. /\ 0 \in Bits(v) <=> v % 2 = 1
       /\ 1 \in Bits(v) <=> a % 2 = 1
       /\ 2 \in Bits(v) <=> b % 2 = 1
       /\ 3 \in Bits(v) <=> c % 2 = 1
       /\ 4 \in Bits(v) <=> d % 2 = 1
       /\ 5 \in Bits(v) <=> e % 2 = 1
       /\ 6 \in Bits(v) <=> f % 2 = 1
       /\ 7 \in Bits(v) <=> g % 2 = 1
  BY <1>1, <1>2, <1>3, <1>4, <1>5, <1>6, <1>7, <1>8 DEF Bits
<1>11. /\ v % 2 \in {0, 1} /\ a % 2 \in {0, 1} /\ b % 2 \in {0, 1} /\ c % 2 \in {0, 1}
       /\ d % 2 \in {0, 1} /\ e % 2 \in {0, 1} /\ f % 2 \in {0, 1} /\ g % 2 \in {0, 1}
  OBVIOUS
<1>12. ByteOf(Bits(v)) = (v % 2) + 2 * (a % 2) + 4 * (b % 2) + 8 * (c % 2)
          + 16 * (d % 2) + 32 * (e % 2) + 64 * (f % 2) + 128 * (g % 2)
  BY <1>1, <1>10, <1>11 DEF ByteOf
<1> QED
  BY <1>9, <1>11, <1>12

-----------------------------------------------------------------------------
(* Words of W bits, and the divisors that the loops can have: the highest  *)
(* bit is always a tap.                                                    *)
Words(W) == SUBSET (0 .. W - 1)

Divides(W, taps) == W \in Nat /\ 8 <= W /\ taps \in Words(W) /\ W - 1 \in taps

LEMMA ShiftMember ==
  ASSUME NEW word \in SUBSET Nat
  PROVE  /\ ShiftRight(word) \in SUBSET Nat
         /\ \A i \in Nat : i \in ShiftRight(word) <=> i + 1 \in word
<1>1. \A i \in ShiftRight(word) : i \in Nat
  BY DEF ShiftRight
<1>2. \A i \in Nat : i \in ShiftRight(word) <=> i + 1 \in word
  BY DEF ShiftRight
<1> QED
  BY <1>1, <1>2

LEMMA ShiftOutType ==
  ASSUME NEW W, NEW taps, Divides(W, taps), NEW word \in Words(W)
  PROVE  ShiftRight(word) \in Words(W) /\ ShiftOut(word, taps) \in Words(W)
<1>1. \A i \in ShiftRight(word) : i \in 0 .. W - 1
  BY DEF Divides, Words, ShiftRight
<1>2. \A i \in SymDiff(ShiftRight(word), taps) : i \in 0 .. W - 1
  BY <1>1 DEF Divides, Words, SymDiff
<1> QED
  BY <1>1, <1>2 DEF Words, ShiftOut

LEMMA BitsType ==
  ASSUME NEW W, NEW taps, Divides(W, taps), NEW word \in Words(W), NEW v
  PROVE  SymDiff(word, Bits(v)) \in Words(W)
<1>1. \A i \in Bits(v) : i \in 0 .. W - 1
  BY DEF Divides, Bits
<1> QED
  BY <1>1 DEF Words, SymDiff

(* The turns of the inner loop.                                            *)
Turns(turn, crc, byte, W, taps) ==
  /\ turn \in [0 .. 8 -> Words(W)]
  /\ turn[0] = SymDiff(crc, Bits(byte))
  /\ \A i \in 1 .. 8 : turn[i] = ShiftOut(turn[i - 1], taps)
  /\ Absorb(crc, byte, taps) = turn[8]

LEMMA AbsorbTurns ==
  ASSUME NEW W, NEW taps, Divides(W, taps), NEW crc \in Words(W), NEW byte
  PROVE  \E turn : Turns(turn, crc, byte, W, taps)
<1> DEFINE first == SymDiff(crc, Bits(byte))
           Turning(f) ==
             f = [i \in 0 .. 8 |-> IF i = 0 THEN first ELSE ShiftOut(f[i - 1], taps)]
           turn == CHOOSE f : Turning(f)
           step == [i \in 1 .. 8 |-> [word \in Words(W) |-> ShiftOut(word, taps)]]
<1>1. first \in Words(W)
  BY BitsType
<1>2. step \in [1 .. 8 -> [Words(W) -> Words(W)]]
  BY ShiftOutType
<1>3. \A i \in 1 .. 8, word \in Words(W) : step[i][word] = ShiftOut(word, taps)
  OBVIOUS
<1>4. Absorb(crc, byte, taps) = turn[8]
  BY DEF Absorb
<1> HIDE DEF step, first
<1>5. PICK n \in Nat : n = 8
  OBVIOUS
<1>6. PICK f : Recursion(f, n, first, step)
  BY <1>1, <1>2, <1>5, RecursionExists
<1>7. f \in [0 .. 8 -> Words(W)]
  BY <1>1, <1>2, <1>5, <1>6, RecursionType
<1>8. f[0] = first
  BY <1>6 DEF Recursion
<1>9. ASSUME NEW i \in 1 .. 8 PROVE f[i] = ShiftOut(f[i - 1], taps)
  <2>1. f[i] = step[i][f[i - 1]]
    BY <1>5, <1>6 DEF Recursion
  <2>2. f[i - 1] \in Words(W)
    BY <1>7
  <2> QED
    BY <1>3, <2>1, <2>2
<1>10. Turning(f)
  <2>1. ASSUME NEW i \in 0 .. 8
        PROVE  f[i] = IF i = 0 THEN first ELSE ShiftOut(f[i - 1], taps)
    BY <1>8, <1>9
  <2> QED
    BY <1>7, <2>1
<1>11. Turning(turn)
  <2> HIDE DEF Turning
  <2> QED
    BY <1>10
<1> HIDE DEF turn
<1>12. turn[0] = first
  BY <1>11
<1>13. ASSUME NEW i \in 1 .. 8 PROVE turn[i] = ShiftOut(turn[i - 1], taps)
  <2>1. i \in 0 .. 8 /\ i # 0
    OBVIOUS
  <2> QED
    BY <1>11, <2>1
<1>14. turn = [i \in 0 .. 8 |-> turn[i]]
  BY <1>11
<1> HIDE DEF Turning
<1>15. \A i \in 0 .. 8 : turn[i] \in Words(W)
  <2> DEFINE T == {i \in Nat : i <= 8 => turn[i] \in Words(W)}
  <2>1. 0 \in T
    BY <1>1, <1>12
  <2>2. ASSUME NEW i \in Nat, i \in T PROVE i + 1 \in T
    <3>1. i + 1 <= 8 => turn[i + 1] = ShiftOut(turn[i], taps)
      BY <1>13
    <3> QED
      BY <2>2, <3>1, ShiftOutType
  <2> HIDE DEF T
  <2>3. Nat \subseteq T
    BY <2>1, <2>2, SetInduction
  <2> QED
    BY <2>3 DEF T
<1>16. turn \in [0 .. 8 -> Words(W)]
  BY <1>14, <1>15
<1>17. Turns(turn, crc, byte, W, taps)
  BY <1>4, <1>12, <1>13, <1>16 DEF Turns, first
<1> QED
  BY <1>17

(* The turns of the outer loop.                                            *)
LEMMA CyclicAbsorbs ==
  ASSUME NEW W, NEW taps, Divides(W, taps), NEW start \in Words(W),
         NEW bytes \in Seq(Byte)
  PROVE  \E crc \in [0 .. Len(bytes) -> Words(W)] :
           /\ crc[0] = start
           /\ \A i \in 1 .. Len(bytes) : crc[i] = Absorb(crc[i - 1], bytes[i], taps)
           /\ Cyclic(bytes, start, taps) = crc[Len(bytes)]
<1> DEFINE Absorbing(f) ==
             f = [i \in 0 .. Len(bytes) |->
                    IF i = 0 THEN start ELSE Absorb(f[i - 1], bytes[i], taps)]
           crc == CHOOSE f : Absorbing(f)
           step == [i \in 1 .. Len(bytes) |->
                      [word \in Words(W) |-> Absorb(word, bytes[i], taps)]]
<1>1. ASSUME NEW word \in Words(W), NEW byte PROVE Absorb(word, byte, taps) \in Words(W)
  <2>1. PICK turn : Turns(turn, word, byte, W, taps)
    BY AbsorbTurns
  <2> QED
    BY <2>1 DEF Turns
<1>2. step \in [1 .. Len(bytes) -> [Words(W) -> Words(W)]]
  BY <1>1
<1>3. \A i \in 1 .. Len(bytes), word \in Words(W) : step[i][word] = Absorb(word, bytes[i], taps)
  OBVIOUS
<1>4. Cyclic(bytes, start, taps) = crc[Len(bytes)]
  BY DEF Cyclic
<1> HIDE DEF step
<1>5. PICK n \in Nat : n = Len(bytes)
  BY LenProperties
<1>6. PICK f : Recursion(f, n, start, step)
  BY <1>2, <1>5, RecursionExists
<1>7. f \in [0 .. n -> Words(W)]
  BY <1>2, <1>5, <1>6, RecursionType
<1>8. f[0] = start
  BY <1>6 DEF Recursion
<1>9. ASSUME NEW i \in 1 .. n PROVE f[i] = Absorb(f[i - 1], bytes[i], taps)
  <2>1. f[i] = step[i][f[i - 1]]
    BY <1>6 DEF Recursion
  <2>2. f[i - 1] \in Words(W)
    BY <1>7
  <2> QED
    BY <1>3, <1>5, <2>1, <2>2
<1>10. Absorbing(f)
  <2>1. ASSUME NEW i \in 0 .. n
        PROVE  f[i] = IF i = 0 THEN start ELSE Absorb(f[i - 1], bytes[i], taps)
    BY <1>8, <1>9
  <2> QED
    BY <1>5, <1>7, <2>1
<1>11. Absorbing(crc)
  <2> HIDE DEF Absorbing
  <2> QED
    BY <1>10
<1> HIDE DEF crc
<1>12. crc[0] = start
  BY <1>5, <1>11
<1>13. ASSUME NEW i \in 1 .. n PROVE crc[i] = Absorb(crc[i - 1], bytes[i], taps)
  <2>1. i \in 0 .. n /\ i # 0
    OBVIOUS
  <2> QED
    BY <1>5, <1>11, <2>1
<1>14. crc = [i \in 0 .. n |-> crc[i]]
  BY <1>5, <1>11
<1> HIDE DEF Absorbing
<1>15. \A i \in 0 .. n : crc[i] \in Words(W)
  <2> DEFINE T == {i \in Nat : i <= n => crc[i] \in Words(W)}
  <2>1. 0 \in T
    BY <1>12
  <2>2. ASSUME NEW i \in Nat, i \in T PROVE i + 1 \in T
    <3>1. i + 1 <= n => crc[i + 1] = Absorb(crc[i], bytes[i + 1], taps)
      BY <1>13
    <3> QED
      BY <1>1, <2>2, <3>1
  <2> HIDE DEF T
  <2>3. Nat \subseteq T
    BY <2>1, <2>2, SetInduction
  <2> QED
    BY <2>3 DEF T
<1>16. crc \in [0 .. n -> Words(W)]
  BY <1>14, <1>15
<1> QED
  BY <1>4, <1>5, <1>12, <1>13, <1>16

LEMMA CyclicType ==
  ASSUME NEW W, NEW taps, Divides(W, taps), NEW start \in Words(W),
         NEW bytes \in Seq(Byte)
  PROVE  Cyclic(bytes, start, taps) \in Words(W)
BY CyclicAbsorbs, LenProperties

-----------------------------------------------------------------------------
(* Bit n of the data on the wire, as the bits that it adds to a word.      *)
BitAt(bytes, n) == n % 8 \in Bits(bytes[n \div 8 + 1])

First(bytes, n) == IF BitAt(bytes, n) THEN {0} ELSE {}

(* The register of a check that takes the data bit by bit.                 *)
Registers(r, bytes, start, W, taps) ==
  /\ r \in [0 .. 8 * Len(bytes) -> Words(W)]
  /\ r[0] = start
  /\ \A n \in 0 .. 8 * Len(bytes) - 1 :
       r[n + 1] = ShiftOut(SymDiff(r[n], First(bytes, n)), taps)

LEMMA RegistersExist ==
  ASSUME NEW W, NEW taps, Divides(W, taps), NEW start \in Words(W),
         NEW bytes \in Seq(Byte)
  PROVE  \E r : Registers(r, bytes, start, W, taps)
<1>1. PICK N \in Nat : N = 8 * Len(bytes)
  BY LenProperties
<1> DEFINE step == [i \in 1 .. N |->
                      [word \in Words(W) |-> ShiftOut(SymDiff(word, First(bytes, i - 1)), taps)]]
<1>2. ASSUME NEW word \in Words(W), NEW n \in Nat
      PROVE  ShiftOut(SymDiff(word, First(bytes, n)), taps) \in Words(W)
  <2>1. 0 \in 0 .. W - 1
    BY DEF Divides
  <2>2. SymDiff(word, First(bytes, n)) \in Words(W)
    BY <2>1 DEF Words, SymDiff, First
  <2> QED
    BY <2>2, ShiftOutType
<1>3. step \in [1 .. N -> [Words(W) -> Words(W)]]
  <2>1. \A i \in 1 .. N : i - 1 \in Nat
    OBVIOUS
  <2> QED
    BY <1>2, <2>1
<1>4. \A i \in 1 .. N, word \in Words(W) :
        step[i][word] = ShiftOut(SymDiff(word, First(bytes, i - 1)), taps)
  OBVIOUS
<1> HIDE DEF step
<1>5. PICK r : Recursion(r, N, start, step)
  BY <1>3, RecursionExists
<1>6. r \in [0 .. N -> Words(W)]
  BY <1>3, <1>5, RecursionType
<1>7. ASSUME NEW n \in 0 .. N - 1
      PROVE  r[n + 1] = ShiftOut(SymDiff(r[n], First(bytes, n)), taps)
  <2>1. PICK i \in 1 .. N : i = n + 1
    OBVIOUS
  <2>2. r[i] = step[i][r[i - 1]]
    BY <1>5 DEF Recursion
  <2>3. r[i - 1] \in Words(W) /\ i - 1 = n
    BY <1>6, <2>1
  <2> QED
    BY <1>4, <2>1, <2>2, <2>3
<1>8. r[0] = start
  BY <1>5 DEF Recursion
<1> QED
  BY <1>1, <1>6, <1>7, <1>8 DEF Registers

(* The bits of a byte that j turns have not yet reached the lowest place.  *)
Ahead(byte, j) == {m - j : m \in {k \in Bits(byte) : k >= j}}

LEMMA AheadMember ==
  ASSUME NEW byte, NEW j \in Nat
  PROVE  /\ Ahead(byte, j) \in SUBSET Nat
         /\ \A i \in Nat : i \in Ahead(byte, j) <=> i + j \in Bits(byte)
<1>1. Bits(byte) \in SUBSET Nat
  BY DEF Bits
<1> QED
  BY <1>1 DEF Ahead

(* That the bits of a byte are put into the word before the turns makes no *)
(* difference: none but the lowest decides on anything.                    *)
LEMMA AheadShifts ==
  ASSUME NEW word \in SUBSET Nat, NEW taps \in SUBSET Nat, NEW byte, NEW j \in Nat
  PROVE  LET first == IF j \in Bits(byte) THEN {0} ELSE {}
         IN  ShiftOut(SymDiff(word, Ahead(byte, j)), taps) =
               SymDiff(ShiftOut(SymDiff(word, first), taps), Ahead(byte, j + 1))
<1> DEFINE first == IF j \in Bits(byte) THEN {0} ELSE {}
<1>1. PICK whole \in SUBSET Nat : whole = SymDiff(word, Ahead(byte, j))
  <2>1. Ahead(byte, j) \in SUBSET Nat
    BY AheadMember
  <2> QED
    BY <2>1, SymDiffType
<1>2. PICK single \in SUBSET Nat : single = SymDiff(word, first)
  <2>1. first \in SUBSET Nat
    OBVIOUS
  <2> QED
    BY <2>1, SymDiffType
<1>3. 0 \in whole <=> 0 \in single
  BY <1>1, <1>2, AheadMember DEF SymDiff
<1>4. ASSUME NEW i \in Nat
      PROVE  i + 1 \in whole <=> ~(i + 1 \in single <=> i \in Ahead(byte, j + 1))
  <2>1. i + 1 \in Ahead(byte, j) <=> i \in Ahead(byte, j + 1)
    <3>1. (i + 1) + j = i + (j + 1)
      OBVIOUS
    <3> QED
      BY <3>1, AheadMember
  <2>2. i + 1 \in single <=> i + 1 \in word
    BY <1>2 DEF SymDiff
  <2>3. i + 1 \in whole <=> ~(i + 1 \in word <=> i + 1 \in Ahead(byte, j))
    BY <1>1 DEF SymDiff
  <2> QED
    BY <2>1, <2>2, <2>3
<1>5. ASSUME NEW i \in Nat
      PROVE  i \in ShiftRight(whole) <=>
               ~(i \in ShiftRight(single) <=> i \in Ahead(byte, j + 1))
  BY <1>4, ShiftMember
<1>6. PICK a \in SUBSET Nat, b \in SUBSET Nat :
        a = ShiftRight(whole) /\ b = ShiftRight(single)
  BY ShiftMember
<1>7. PICK c \in SUBSET Nat : c = Ahead(byte, j + 1)
  BY AheadMember
<1>8. a = SymDiff(b, c) /\ SymDiff(a, taps) = SymDiff(SymDiff(b, taps), c)
  <2>1. \A i \in Nat : i \in a <=> ~(i \in b <=> i \in c)
    BY <1>5, <1>6, <1>7
  <2> QED
    BY <2>1 DEF SymDiff
<1>9. ShiftOut(whole, taps) = SymDiff(ShiftOut(single, taps), c)
  BY <1>3, <1>6, <1>8 DEF ShiftOut
<1> QED
  BY <1>1, <1>2, <1>7, <1>9

(* Taking the data byte by byte is taking it bit by bit.                   *)
LEMMA AbsorbIsEightBits ==
  ASSUME NEW W, NEW taps, Divides(W, taps), NEW start, NEW bytes \in Seq(Byte),
         NEW r, Registers(r, bytes, start, W, taps), NEW i \in 1 .. Len(bytes)
  PROVE  Absorb(r[8 * (i - 1)], bytes[i], taps) = r[8 * i]
<1>1. PICK base \in Nat : base = 8 * (i - 1) /\ base + 8 = 8 * i /\ base + 8 <= 8 * Len(bytes)
  BY LenProperties
<1>2. PICK byte : byte = bytes[i]
  OBVIOUS
<1>3. ASSUME NEW n \in 0 .. 8 PROVE r[base + n] \in Words(W)
  <2>1. PICK N \in Nat : N = 8 * Len(bytes)
    BY LenProperties
  <2>2. r \in [0 .. N -> Words(W)]
    BY <2>1 DEF Registers
  <2>3. base + n \in 0 .. N
    BY <1>1, <2>1
  <2> QED
    BY <2>2, <2>3
<1>4. r[base] \in Words(W)
  <2>1. base + 0 = base /\ 0 \in 0 .. 8
    BY <1>1
  <2> QED
    BY <1>3, <2>1
<1>5. PICK turn : Turns(turn, r[base], byte, W, taps)
  BY <1>4, AbsorbTurns
<1> DEFINE T == {j \in Nat : j <= 8 => turn[j] = SymDiff(r[base + j], Ahead(byte, j))}
<1>6. 0 \in T
  <2>1. Ahead(byte, 0) = Bits(byte)
    <3>1. Bits(byte) \in SUBSET Nat
      BY DEF Bits
    <3> QED
      BY <3>1 DEF Ahead
  <2> QED
    BY <1>1, <1>5, <2>1 DEF Turns
<1>7. ASSUME NEW j \in Nat, j \in T PROVE j + 1 \in T
  <2> SUFFICES ASSUME j + 1 <= 8
               PROVE  turn[j + 1] = SymDiff(r[base + (j + 1)], Ahead(byte, j + 1))
    OBVIOUS
  <2>1. PICK n \in 0 .. 8 * Len(bytes) - 1 : n = base + j /\ n + 1 = base + (j + 1)
    BY <1>1
  <2>2. turn[j + 1] = ShiftOut(turn[j], taps)
    <3>1. PICK k \in 1 .. 8 : k = j + 1 /\ k - 1 = j
      OBVIOUS
    <3> QED
      BY <1>5, <3>1 DEF Turns
  <2>3. turn[j] = SymDiff(r[n], Ahead(byte, j))
    BY <1>7, <2>1
  <2>4. r[n + 1] = ShiftOut(SymDiff(r[n], First(bytes, n)), taps)
    BY DEF Registers
  <2>5. First(bytes, n) = IF j \in Bits(byte) THEN {0} ELSE {}
    <3>1. n % 8 = j /\ n \div 8 + 1 = i
      BY <1>1, <2>1
    <3> QED
      BY <1>2, <3>1 DEF First, BitAt
  <2>6. r[n] \in SUBSET Nat /\ taps \in SUBSET Nat
    <3>1. j \in 0 .. 8
      OBVIOUS
    <3>2. r[n] \in Words(W) /\ taps \in Words(W)
      BY <1>3, <2>1, <3>1 DEF Divides
    <3>3. 0 .. W - 1 \subseteq Nat
      OBVIOUS
    <3> QED
      BY <3>2, <3>3 DEF Words
  <2> QED
    BY <2>1, <2>2, <2>3, <2>4, <2>5, <2>6, AheadShifts
<1> HIDE DEF T
<1>8. 8 \in T
  BY <1>6, <1>7, SetInduction
<1>9. Ahead(byte, 8) = {}
  BY DEF Ahead, Bits
<1>10. turn[8] = r[base + 8]
  <2>1. turn[8] = SymDiff(r[base + 8], Ahead(byte, 8))
    BY <1>8 DEF T
  <2> QED
    BY <1>9, <2>1, SymDiffEmpty
<1> QED
  BY <1>1, <1>2, <1>5, <1>10 DEF Turns

LEMMA CyclicIsBitwise ==
  ASSUME NEW W, NEW taps, Divides(W, taps), NEW start \in Words(W),
         NEW bytes \in Seq(Byte), NEW r, Registers(r, bytes, start, W, taps)
  PROVE  Cyclic(bytes, start, taps) = r[8 * Len(bytes)]
<1>1. PICK crc \in [0 .. Len(bytes) -> Words(W)] :
        /\ crc[0] = start
        /\ \A i \in 1 .. Len(bytes) : crc[i] = Absorb(crc[i - 1], bytes[i], taps)
        /\ Cyclic(bytes, start, taps) = crc[Len(bytes)]
  BY CyclicAbsorbs
<1> DEFINE T == {i \in Nat : i <= Len(bytes) => crc[i] = r[8 * i]}
<1>2. 0 \in T
  BY <1>1 DEF Registers
<1>3. ASSUME NEW i \in Nat, i \in T PROVE i + 1 \in T
  <2> SUFFICES ASSUME i + 1 <= Len(bytes) PROVE crc[i + 1] = r[8 * (i + 1)]
    OBVIOUS
  <2>1. PICK k \in 1 .. Len(bytes) : k = i + 1 /\ k - 1 = i
    BY LenProperties
  <2>2. crc[k] = Absorb(r[8 * (k - 1)], bytes[k], taps)
    BY <1>1, <1>3, <2>1, LenProperties
  <2> QED
    BY <2>1, <2>2, AbsorbIsEightBits
<1> HIDE DEF T
<1>4. Nat \subseteq T
  BY <1>2, <1>3, SetInduction
<1>5. Len(bytes) \in T
  BY <1>4, LenProperties
<1> QED
  BY <1>1, <1>5 DEF T

-----------------------------------------------------------------------------
(* The steps of a long division.                                           *)
Division(left, poly, divisor, degree, highest) ==
  /\ left[highest + 1] = poly
  /\ \A e \in degree .. highest : left[e] = Cancelled(left[e + 1], divisor, degree, e)
  /\ Remainder(poly, divisor, highest) = left[degree]

LEMMA CancelledType ==
  ASSUME NEW poly \in SUBSET Int, NEW divisor \in SUBSET Int, NEW degree \in Int, NEW e \in Int
  PROVE  Cancelled(poly, divisor, degree, e) \in SUBSET Int
<1>1. PICK multiple \in SUBSET Int : multiple = Times(divisor, e - degree)
  <2>1. \A x \in Times(divisor, e - degree) : x \in Int
    BY DEF Times
  <2> QED
    BY <2>1
<1>2. SymDiff(poly, multiple) \in SUBSET Int
  BY SymDiffType
<1> QED
  BY <1>1, <1>2 DEF Cancelled

LEMMA DivisionExists ==
  ASSUME NEW poly \in SUBSET Int, NEW divisor \in SUBSET Int, NEW highest \in Int,
         NEW degree \in divisor, \A e \in divisor : e <= degree, degree <= highest + 1
  PROVE  \E left : Division(left, poly, divisor, degree, highest)
<1> DEFINE Dividing(f) ==
             f = [e \in degree .. highest + 1 |->
                    IF e = highest + 1 THEN poly ELSE Cancelled(f[e + 1], divisor, degree, e)]
           left == CHOOSE f : Dividing(f)
           top == highest + 1
           N == top - degree
           step == [i \in 1 .. N |->
                      [p \in SUBSET Int |-> Cancelled(p, divisor, degree, top - i)]]
<1>1. degree = CHOOSE d \in divisor : \A e \in divisor : e <= d
  <2> DEFINE Highest(d) == d \in divisor /\ \A e \in divisor : e <= d
  <2>1. Highest(degree)
    OBVIOUS
  <2>2. Highest(CHOOSE d : Highest(d))
    BY <2>1
  <2>3. \A d : Highest(d) => d = degree
    BY <2>1
  <2>4. (CHOOSE d : Highest(d)) = degree
    BY <2>2, <2>3
  <2> QED
    BY <2>4
<1>2. Remainder(poly, divisor, highest) = left[degree]
  BY <1>1 DEF Remainder
<1>3. degree \in Int /\ top \in Int /\ N \in Nat
  OBVIOUS
<1>4. step \in [1 .. N -> [SUBSET Int -> SUBSET Int]]
  <2>1. \A i \in 1 .. N : top - i \in Int
    BY <1>3
  <2> QED
    BY <1>3, <2>1, CancelledType
<1>5. \A i \in 1 .. N, p \in SUBSET Int :
        step[i][p] = Cancelled(p, divisor, degree, top - i)
  OBVIOUS
<1> HIDE DEF step
<1>6. PICK g : Recursion(g, N, poly, step)
  <2> HIDE DEF N
  <2> QED
    BY <1>3, <1>4, RecursionExists
<1>7. g \in [0 .. N -> SUBSET Int]
  <2> HIDE DEF N
  <2> QED
    BY <1>3, <1>4, <1>6, RecursionType
<1> DEFINE f == [e \in degree .. top |-> g[top - e]]
<1>8. f[top] = poly
  BY <1>3, <1>6 DEF Recursion
<1>9. ASSUME NEW e \in degree .. highest
      PROVE  f[e] = Cancelled(f[e + 1], divisor, degree, e)
  <2>1. PICK i \in 1 .. N : i = top - e
    BY <1>3
  <2>2. g[i] = step[i][g[i - 1]]
    BY <1>6 DEF Recursion
  <2>3. g[i - 1] \in SUBSET Int
    BY <1>3, <1>7
  <2>4. g[i] = Cancelled(g[i - 1], divisor, degree, top - i)
    BY <1>5, <2>2, <2>3
  <2>5. f[e] = g[i] /\ f[e + 1] = g[i - 1] /\ top - i = e
    BY <1>3, <2>1
  <2> QED
    BY <2>4, <2>5
<1>10. Dividing(f)
  <2>1. ASSUME NEW e \in degree .. top
        PROVE  f[e] = IF e = highest + 1 THEN poly ELSE Cancelled(f[e + 1], divisor, degree, e)
    <3> HIDE DEF f
    <3>1. CASE e = highest + 1
      BY <1>8, <3>1
    <3>2. CASE e # highest + 1
      <4>1. e \in degree .. highest
        BY <1>3, <3>2
      <4> QED
        BY <1>9, <3>2, <4>1
    <3> QED
      BY <3>1, <3>2
  <2>2. f = [e \in degree .. top |-> f[e]]
    OBVIOUS
  <2> HIDE DEF f
  <2> QED
    BY <2>1, <2>2
<1>11. Dividing(left)
  <2> HIDE DEF Dividing, f
  <2> QED
    BY <1>10
<1> HIDE DEF left
<1>12. left[highest + 1] = poly
  BY <1>3, <1>11
<1>13. ASSUME NEW e \in degree .. highest
       PROVE  left[e] = Cancelled(left[e + 1], divisor, degree, e)
  <2>1. e \in degree .. highest + 1 /\ e # highest + 1
    BY <1>3
  <2> QED
    BY <1>11, <2>1
<1>14. Division(left, poly, divisor, degree, highest)
  BY <1>2, <1>12, <1>13 DEF Division
<1> QED
  BY <1>14

-----------------------------------------------------------------------------
(* The polynomial of a word whose lowest place has a given exponent.       *)
Placed(word, high) == {high - j : j \in word}

LEMMA PlacedMember ==
  ASSUME NEW word \in SUBSET Int, NEW high \in Int
  PROVE  /\ Placed(word, high) \in SUBSET Int
         /\ \A e \in Int : e \in Placed(word, high) <=> high - e \in word
<1>1. \A e \in Placed(word, high) : e \in Int
  BY DEF Placed
<1>2. ASSUME NEW e \in Int PROVE e \in Placed(word, high) <=> high - e \in word
  <2>1. high - (high - e) = e
    OBVIOUS
  <2>2. \A j \in Int : high - j = e => j = high - e
    OBVIOUS
  <2> QED
    BY <2>1, <2>2 DEF Placed
<1> QED
  BY <1>1, <1>2

(* The divisor with the taps of a loop.                                    *)
DivisorOf(W, taps) == {W} \cup {W - 1 - t : t \in taps}

(* Cancelling the highest exponent is shifting a one out of the word.      *)
LEMMA CancelIsShift ==
  ASSUME NEW W, NEW taps, Divides(W, taps), NEW word \in Words(W),
         NEW high \in Int, NEW rest \in SUBSET Int, high \notin rest
  PROVE  Cancelled(SymDiff(Placed(word, high), rest), DivisorOf(W, taps), W, high) =
           SymDiff(Placed(ShiftOut(word, taps), high - 1), rest)
<1>0. W \in Int /\ word \in SUBSET Nat /\ taps \in SUBSET Nat /\ word \in SUBSET Int
      /\ taps \in SUBSET Int
  <2>1. 0 .. W - 1 \subseteq Nat /\ 0 .. W - 1 \subseteq Int
    OBVIOUS
  <2> QED
    BY <2>1 DEF Divides, Words
<1>1. PICK p \in SUBSET Int : p = Placed(word, high)
  BY <1>0, PlacedMember
<1>2. \A e \in Int : e \in p <=> high - e \in word
  BY <1>0, <1>1, PlacedMember
<1>3. high \in SymDiff(p, rest) <=> 0 \in word
  BY <1>2 DEF SymDiff
<1>4. PICK shifted \in SUBSET Nat : shifted = ShiftRight(word)
  BY <1>0, ShiftMember
<1>5. \A i \in Nat : i \in shifted <=> i + 1 \in word
  BY <1>0, <1>4, ShiftMember
<1>6. ASSUME NEW e \in Int
      PROVE  (high - 1) - e \in shifted <=> high - e \in word /\ e # high
  <2>1. CASE (high - 1) - e \in Nat
    BY <1>5, <2>1
  <2>2. CASE (high - 1) - e \notin Nat
    BY <1>0, <2>2
  <2> QED
    BY <2>1, <2>2
<1>7. CASE 0 \notin word
  <2>1. ShiftOut(word, taps) = shifted
    BY <1>4, <1>7 DEF ShiftOut
  <2>2. Placed(shifted, high - 1) = p
    <3>1. shifted \in SUBSET Int /\ high - 1 \in Int
      OBVIOUS
    <3>2. /\ Placed(shifted, high - 1) \in SUBSET Int
          /\ \A e \in Int : e \in Placed(shifted, high - 1) <=> (high - 1) - e \in shifted
      BY <3>1, PlacedMember
    <3>3. \A e \in Int : e \in Placed(shifted, high - 1) <=> e \in p
      BY <1>2, <1>6, <1>7, <3>2
    <3> QED
      BY <3>2, <3>3
  <2> QED
    BY <1>1, <1>3, <1>7, <2>1, <2>2 DEF Cancelled
<1>8. CASE 0 \in word
  <2>1. PICK new \in SUBSET Int : new = SymDiff(shifted, taps) /\ new = ShiftOut(word, taps)
    <3>1. shifted \in SUBSET Int /\ taps \in SUBSET Int
      BY <1>0
    <3>2. \A i \in SymDiff(shifted, taps) : i \in Int
      BY <3>1 DEF SymDiff
    <3> QED
      BY <1>4, <1>8, <3>2 DEF ShiftOut
  <2>2. PICK q \in SUBSET Int : q = Placed(new, high - 1)
    BY PlacedMember
  <2>3. \A e \in Int : e \in q <=> (high - 1) - e \in new
    BY <2>2, PlacedMember
  <2>4. PICK t \in SUBSET Int : t = Times(DivisorOf(W, taps), high - W)
    <3>1. \A e \in Times(DivisorOf(W, taps), high - W) : e \in Int
      BY <1>0 DEF Times, DivisorOf
    <3> QED
      BY <3>1
  <2>5. ASSUME NEW e \in Int
        PROVE  e \in t <=> e = high \/ (high - 1) - e \in taps
    <3>1. e \in t <=> \E d \in DivisorOf(W, taps) : e = d + (high - W)
      BY <2>4 DEF Times
    <3>2. e = W + (high - W) <=> e = high
      BY <1>0
    <3>3. \A j \in taps : e = (W - 1 - j) + (high - W) <=> j = (high - 1) - e
      BY <1>0
    <3> QED
      BY <3>1, <3>2, <3>3 DEF DivisorOf
  <2>6. \A e \in Int : e \in q <=> ~(e \in p <=> e \in t)
    <3> SUFFICES ASSUME NEW e \in Int PROVE e \in q <=> ~(e \in p <=> e \in t)
      OBVIOUS
    <3>1. e \in q <=> ~((high - 1) - e \in shifted <=> (high - 1) - e \in taps)
      BY <2>1, <2>3 DEF SymDiff
    <3>2. CASE e = high
      <4>1. (high - 1) - e \notin Nat
        BY <3>2
      <4>2. e \notin q
        BY <1>0, <3>1, <4>1
      <4>3. e \in p /\ e \in t
        BY <1>2, <1>8, <2>5, <3>2
      <4> QED
        BY <4>2, <4>3
    <3>3. CASE e # high
      BY <1>2, <1>6, <2>5, <3>1, <3>3
    <3> QED
      BY <3>2, <3>3
  <2>7. SymDiff(SymDiff(p, rest), t) = SymDiff(q, rest)
    BY <2>6 DEF SymDiff
  <2> QED
    BY <1>1, <1>3, <1>8, <2>1, <2>2, <2>4, <2>7 DEF Cancelled
<1> QED
  BY <1>7, <1>8

-----------------------------------------------------------------------------
(* The bits that a register has not yet taken, and what is left of the     *)
(* dividend then: the register in front of these bits.                     *)
Later(bytes, k) == {n \in k .. 8 * Len(bytes) - 1 : BitAt(bytes, n)}

Dividend(word, bytes, k, W) ==
  SymDiff(Placed(word, 8 * Len(bytes) + W - 1 - k),
          Placed(Later(bytes, k), 8 * Len(bytes) + W - 1))

LEMMA LaterType ==
  ASSUME NEW bytes, NEW k \in Int
  PROVE  Later(bytes, k) \in SUBSET Int
BY DEF Later

LEMMA WordsAreSets ==
  ASSUME NEW W \in Nat, NEW word \in Words(W)
  PROVE  /\ word \in SUBSET Int
         /\ word \in SUBSET Nat
         /\ word \subseteq 0 .. W - 1
BY DEF Words

(* At the start the dividend is the message with its preset.               *)
LEMMA DividendStart ==
  ASSUME NEW W, NEW taps, Divides(W, taps), NEW bytes \in Seq(Byte)
  PROVE  Dividend(0 .. W - 1, bytes, 0, W) =
           SymDiff(Times(PolynomialOf(bytes), W), 8 * Len(bytes) .. 8 * Len(bytes) + W - 1)
<1>1. PICK N \in Nat : N = 8 * Len(bytes)
  BY LenProperties
<1>2. W \in Nat
  BY DEF Divides
<1>3. PICK later \in SUBSET Int : later = Later(bytes, 0)
  BY LaterType
<1>4. PICK word \in SUBSET Int : word = 0 .. W - 1
  OBVIOUS
<1>5. PICK h \in Int : h = N + W - 1 /\ h = N + W - 1 - 0
  <2>1. N + W - 1 \in Int /\ N + W - 1 = N + W - 1 - 0
    BY <1>2
  <2> QED
    BY <2>1
<1>6. PICK p \in SUBSET Int, q \in SUBSET Int : p = Placed(later, h) /\ q = Placed(word, h)
  BY <1>5, PlacedMember
<1>7. \A e \in Int : (e \in p <=> h - e \in later) /\ (e \in q <=> h - e \in word)
  BY <1>5, <1>6, PlacedMember
<1>8. q = N .. N + W - 1
  <2>1. \A e \in Int : h - e \in word <=> e \in N .. N + W - 1
    BY <1>2, <1>4, <1>5
  <2>2. \A e \in N .. N + W - 1 : e \in Int
    OBVIOUS
  <2> QED
    BY <1>7, <2>1, <2>2
<1>9. p = Times(PolynomialOf(bytes), W)
  <2>1. PolynomialOf(bytes) = {N - 1 - n : n \in later}
    BY <1>1, <1>3 DEF PolynomialOf, Later, BitAt
  <2>2. Times(PolynomialOf(bytes), W) = {e + W : e \in {N - 1 - n : n \in later}}
    BY <2>1 DEF Times
  <2>3. \A n \in later : (N - 1 - n) + W = h - n
    BY <1>2, <1>5
  <2>4. {e + W : e \in {N - 1 - n : n \in later}} = {h - n : n \in later}
    BY <2>3
  <2> QED
    BY <1>6, <2>2, <2>4 DEF Placed
<1>10. Dividend(0 .. W - 1, bytes, 0, W) = SymDiff(q, p)
  BY <1>1, <1>3, <1>4, <1>5, <1>6 DEF Dividend
<1>11. SymDiff(q, p) = SymDiff(p, q)
  BY DEF SymDiff
<1> QED
  BY <1>1, <1>8, <1>9, <1>10, <1>11

(* Every step of the division is a turn of the inner loop.                 *)
LEMMA DividendStep ==
  ASSUME NEW W, NEW taps, Divides(W, taps), NEW bytes \in Seq(Byte),
         NEW k \in 0 .. 8 * Len(bytes) - 1, NEW word \in Words(W)
  PROVE  Cancelled(Dividend(word, bytes, k, W), DivisorOf(W, taps), W,
                   8 * Len(bytes) + W - 1 - k) =
           Dividend(ShiftOut(SymDiff(word, First(bytes, k)), taps), bytes, k + 1, W)
<1>1. PICK N \in Nat : N = 8 * Len(bytes)
  BY LenProperties
<1>2. W \in Nat /\ W >= 8
  BY DEF Divides
<1>3. PICK top \in Int : top = N + W - 1
  BY <1>2
<1>4. PICK high \in Int : high = N + W - 1 - k /\ high - 1 = N + W - 1 - (k + 1)
                          /\ high = top - k
  <2>1. /\ N + W - 1 - k \in Int
        /\ (N + W - 1 - k) - 1 = N + W - 1 - (k + 1)
        /\ N + W - 1 - k = top - k
    BY <1>1, <1>2, <1>3
  <2> QED
    BY <2>1
<1>5. PICK new \in Words(W) : new = SymDiff(word, First(bytes, k))
  <2>1. 0 \in 0 .. W - 1
    BY <1>2
  <2> QED
    BY <2>1 DEF Words, SymDiff, First
<1>6. PICK later \in SUBSET Int, next \in SUBSET Int :
        later = Later(bytes, k) /\ next = Later(bytes, k + 1)
  BY <1>1, LaterType
<1>7. PICK rest \in SUBSET Int, p \in SUBSET Int, q \in SUBSET Int, l \in SUBSET Int :
        /\ rest = Placed(next, top)
        /\ l = Placed(later, top)
        /\ p = Placed(word, high)
        /\ q = Placed(new, high)
  BY <1>2, WordsAreSets, PlacedMember
<1>8. /\ \A e \in Int : e \in rest <=> top - e \in next
      /\ \A e \in Int : e \in l <=> top - e \in later
      /\ \A e \in Int : e \in p <=> high - e \in word
      /\ \A e \in Int : e \in q <=> high - e \in new
  BY <1>2, <1>7, WordsAreSets, PlacedMember
<1>9. high \notin rest
  <2>1. top - high = k
    BY <1>1, <1>4
  <2>2. k \notin next
    BY <1>1, <1>6 DEF Later
  <2> QED
    BY <1>8, <2>1, <2>2
<1>10. SymDiff(p, l) = SymDiff(q, rest)
  <2>1. ASSUME NEW e \in Int
        PROVE  ~(e \in p <=> e \in l) <=> ~(e \in q <=> e \in rest)
    <3>1. PICK n \in Int : n = top - e
      OBVIOUS
    <3>2. n \in later <=> (n = k /\ BitAt(bytes, k)) \/ n \in next
      BY <1>1, <1>6, <3>1 DEF Later
    <3>3. n \in next => n # k
      BY <1>1, <1>6 DEF Later
    <3>4. n = k <=> high - e = 0
      BY <1>1, <1>4, <3>1
    <3>5. high - e \in new <=>
            ~(high - e \in word <=> (high - e = 0 /\ BitAt(bytes, k)))
      BY <1>5 DEF SymDiff, First
    <3> QED
      BY <1>8, <3>1, <3>2, <3>3, <3>4, <3>5
  <2>2. \A e : e \in SymDiff(p, l) <=> e \in SymDiff(q, rest)
    BY <2>1 DEF SymDiff
  <2> QED
    BY <2>2
<1>11. Dividend(word, bytes, k, W) = SymDiff(Placed(new, high), rest)
  BY <1>1, <1>3, <1>4, <1>6, <1>7, <1>10 DEF Dividend
<1>12. Cancelled(SymDiff(Placed(new, high), rest), DivisorOf(W, taps), W, high) =
         SymDiff(Placed(ShiftOut(new, taps), high - 1), rest)
  BY <1>9, CancelIsShift
<1>13. Dividend(ShiftOut(new, taps), bytes, k + 1, W) =
         SymDiff(Placed(ShiftOut(new, taps), high - 1), rest)
  BY <1>1, <1>3, <1>4, <1>6, <1>7 DEF Dividend
<1> QED
  BY <1>1, <1>4, <1>5, <1>11, <1>12, <1>13

(* What the bitwise register holds at the end is the remainder.            *)
LEMMA RegisterIsRemainder ==
  ASSUME NEW W, NEW taps, Divides(W, taps), NEW bytes \in Seq(Byte),
         NEW r, Registers(r, bytes, 0 .. W - 1, W, taps)
  PROVE  CyclicCheck(bytes, DivisorOf(W, taps), W) = r[8 * Len(bytes)]
<1>1. PICK N \in Nat : N = 8 * Len(bytes)
  BY LenProperties
<1>2. W \in Nat /\ W >= 8 /\ taps \subseteq 0 .. W - 1
  BY DEF Divides, Words
<1>3. PICK top \in Int : top = N + W - 1
  <2>1. N + W - 1 \in Int
    BY <1>2
  <2> QED
    BY <2>1
<1>4. r \in [0 .. N -> Words(W)]
  BY <1>1 DEF Registers
<1>5. PICK preset : preset = Dividend(0 .. W - 1, bytes, 0, W)
  OBVIOUS
<1>6. preset \in SUBSET Int
  <2>1. PICK h \in Int : h = 8 * Len(bytes) + W - 1 - 0
    <3>1. N + W - 1 - 0 \in Int
      BY <1>2
    <3> QED
      BY <1>1, <3>1
  <2>2. PICK h0 \in Int : h0 = 8 * Len(bytes) + W - 1
    BY <1>1, <1>3
  <2>3. Placed(0 .. W - 1, h) \in SUBSET Int
    BY <2>1 DEF Placed
  <2>4. Placed(Later(bytes, 0), h0) \in SUBSET Int
    BY <2>2 DEF Placed, Later
  <2>5. preset = SymDiff(Placed(0 .. W - 1, h), Placed(Later(bytes, 0), h0))
    BY <1>5, <2>1, <2>2 DEF Dividend
  <2> QED
    BY <2>3, <2>4, <2>5 DEF SymDiff
<1>7. PICK divisor \in SUBSET Int : divisor = DivisorOf(W, taps)
  <2>1. \A e \in DivisorOf(W, taps) : e \in Int
    BY <1>2 DEF DivisorOf
  <2> QED
    BY <2>1
<1>8. W \in divisor /\ \A e \in divisor : e <= W
  BY <1>2, <1>7 DEF DivisorOf
<1>9. PICK left : Division(left, preset, divisor, W, top)
  <2>1. W <= top + 1
    BY <1>2, <1>3
  <2> QED
    BY <1>6, <1>8, <2>1, DivisionExists
<1>10. CyclicCheck(bytes, divisor, W) = {W - 1 - e : e \in left[W]}
  <2>1. Remainder(preset, divisor, top) = left[W]
    BY <1>9 DEF Division
  <2>2. preset = SymDiff(Times(PolynomialOf(bytes), W), N .. N + W - 1)
    BY <1>1, <1>5, DividendStart
  <2> QED
    BY <1>1, <1>3, <2>1, <2>2 DEF CyclicCheck
<1> DEFINE T == {k \in Nat : k <= N => left[N + W - k] = Dividend(r[k], bytes, k, W)}
<1>11. 0 \in T
  <2>1. N + W - 0 = top + 1
    BY <1>2, <1>3
  <2>2. left[top + 1] = preset
    BY <1>9 DEF Division
  <2>3. r[0] = 0 .. W - 1
    BY DEF Registers
  <2> QED
    BY <1>5, <2>1, <2>2, <2>3
<1>12. ASSUME NEW k \in Nat, k \in T PROVE k + 1 \in T
  <2> SUFFICES ASSUME k + 1 <= N
               PROVE  left[N + W - (k + 1)] = Dividend(r[k + 1], bytes, k + 1, W)
    OBVIOUS
  <2>1. PICK n \in 0 .. 8 * Len(bytes) - 1 : n = k
    BY <1>1
  <2>2. PICK e \in W .. top : e = N + W - 1 - k
    <3>1. N + W - 1 - k \in W .. top
      BY <1>2, <1>3
    <3> QED
      BY <3>1
  <2>3. e + 1 = N + W - k /\ e = N + W - (k + 1)
    BY <1>2, <2>2
  <2>4. left[e] = Cancelled(left[e + 1], divisor, W, e)
    BY <1>9 DEF Division
  <2>5. left[e + 1] = Dividend(r[n], bytes, n, W)
    BY <1>12, <2>1, <2>3
  <2>6. r[n] \in Words(W)
    BY <1>1, <1>4, <2>1
  <2>7. r[n + 1] = ShiftOut(SymDiff(r[n], First(bytes, n)), taps)
    BY DEF Registers
  <2>8. e = 8 * Len(bytes) + W - 1 - n
    BY <1>1, <2>1, <2>2
  <2>9. left[e] = Dividend(r[n + 1], bytes, n + 1, W)
    BY <1>7, <2>4, <2>5, <2>6, <2>7, <2>8, DividendStep
  <2> QED
    BY <2>1, <2>3, <2>9
<1> HIDE DEF T
<1>13. N \in T
  BY <1>11, <1>12, SetInduction
<1>14. left[W] = Dividend(r[N], bytes, N, W)
  <2>1. N + W - N = W
    BY <1>2
  <2> QED
    BY <1>13, <2>1 DEF T
<1>15. PICK word \in Words(W) : word = r[N]
  BY <1>4
<1>16. left[W] = Placed(word, W - 1)
  <2>1. Later(bytes, N) = {}
    BY <1>1 DEF Later
  <2>2. Placed({}, top) = {}
    BY DEF Placed
  <2>3. N + W - 1 - N = W - 1
    BY <1>2
  <2>4. Dividend(word, bytes, N, W) = SymDiff(Placed(word, W - 1), {})
    BY <1>1, <1>3, <2>1, <2>2, <2>3 DEF Dividend
  <2> QED
    BY <1>14, <1>15, <2>4, SymDiffEmpty
<1>17. {W - 1 - e : e \in Placed(word, W - 1)} = word
  <2>1. word \in SUBSET Int
    BY <1>2, WordsAreSets
  <2>2. \A j \in word : W - 1 - (W - 1 - j) = j
    BY <1>2, <2>1
  <2> QED
    BY <2>2 DEF Placed
<1> QED
  BY <1>1, <1>7, <1>10, <1>15, <1>16, <1>17

(* The loops of the CRC services divide by the polynomial of their taps,   *)
(* whatever bytes they are given.                                          *)
LEMMA CyclicIsCyclicCheck ==
  ASSUME NEW W, NEW taps, Divides(W, taps), NEW bytes \in Seq(Byte)
  PROVE  Cyclic(bytes, 0 .. W - 1, taps) = CyclicCheck(bytes, DivisorOf(W, taps), W)
<1>1. PICK start \in Words(W) : start = 0 .. W - 1
  BY DEF Words
<1>2. PICK r : Registers(r, bytes, start, W, taps)
  BY RegistersExist
<1> QED
  BY <1>1, <1>2, CyclicIsBitwise, RegisterIsRemainder

Taps16 == {0, 13, 15}
Taps32 == {5, 8, 9, 15, 19, 20, 21, 23, 24, 26, 27, 29, 30, 31}

LEMMA DivisorsOfTheCode ==
  /\ Divides(16, Taps16) /\ DivisorOf(16, Taps16) = Crc16Divisor
  /\ Divides(32, Taps32) /\ DivisorOf(32, Taps32) = Crc32Divisor
<1>1. Divides(16, Taps16) /\ Divides(32, Taps32)
  BY DEF Divides, Words, Taps16, Taps32
<1>2. DivisorOf(16, Taps16) = Crc16Divisor
  BY DEF DivisorOf, Taps16, Crc16Divisor
<1>3. \A e : e \in {31 - t : t \in Taps32} <=>
               e \in {26, 23, 22, 16, 12, 11, 10, 8, 7, 5, 4, 2, 1, 0}
  BY DEF Taps32
<1>4. DivisorOf(32, Taps32) = {32} \cup {31 - t : t \in Taps32}
  BY DEF DivisorOf
<1>5. DivisorOf(32, Taps32) = Crc32Divisor
  BY <1>3, <1>4 DEF Crc32Divisor
<1> QED
  BY <1>1, <1>2, <1>5

-----------------------------------------------------------------------------
(* The running sums of the summing services.                               *)
SumRun(sum, bytes) ==
  /\ sum \in [0 .. Len(bytes) -> Nat]
  /\ sum[0] = 0
  /\ \A i \in 1 .. Len(bytes) : sum[i] = sum[i - 1] + bytes[i]
  /\ Sums!SumOf(bytes) = sum[Len(bytes)]

LEMMA SumRunExists ==
  ASSUME NEW bytes \in Seq(Byte)
  PROVE  \E sum : SumRun(sum, bytes)
<1> DEFINE Summing(f) ==
             f = [i \in 0 .. Len(bytes) |-> IF i = 0 THEN 0 ELSE f[i - 1] + bytes[i]]
           sum  == CHOOSE f : Summing(f)
           step == [i \in 1 .. Len(bytes) |-> [x \in Nat |-> x + bytes[i]]]
<1>1. \A i \in 1 .. Len(bytes) : bytes[i] \in Nat
  BY ElementOfSeq, RadixAssumption DEF Byte
<1>2. step \in [1 .. Len(bytes) -> [Nat -> Nat]]
  BY <1>1
<1>3. \A i \in 1 .. Len(bytes), x \in Nat : step[i][x] = x + bytes[i]
  OBVIOUS
<1> HIDE DEF step
<1>4. PICK n \in Nat, zero \in Nat : n = Len(bytes) /\ zero = 0
  BY LenProperties
<1>5. PICK f : Recursion(f, n, zero, step)
  BY <1>2, <1>4, RecursionExists
<1>6. f \in [0 .. n -> Nat]
  BY <1>2, <1>4, <1>5, RecursionType
<1>7. Summing(f)
  <2>1. ASSUME NEW i \in 0 .. n
        PROVE  f[i] = IF i = 0 THEN 0 ELSE f[i - 1] + bytes[i]
    <3>1. CASE i = 0
      BY <1>4, <1>5, <3>1 DEF Recursion
    <3>2. CASE i \in 1 .. n
      <4>1. f[i] = step[i][f[i - 1]]
        BY <1>5, <3>2 DEF Recursion
      <4>2. f[i - 1] \in Nat
        BY <1>6, <3>2
      <4> QED
        BY <1>3, <1>4, <3>2, <4>1, <4>2
    <3> QED
      BY <3>1, <3>2
  <2> QED
    BY <1>4, <1>6, <2>1
<1>8. Summing(sum)
  <2> HIDE DEF Summing
  <2> QED
    BY <1>7
<1>9. Sums!SumOf(bytes) = sum[Len(bytes)]
  BY DEF Sums!SumOf, sum
<1> HIDE DEF sum
<1>10. sum[0] = 0
  BY <1>4, <1>8
<1>11. ASSUME NEW i \in 1 .. n PROVE sum[i] = sum[i - 1] + bytes[i]
  <2>1. i \in 0 .. n /\ i # 0
    OBVIOUS
  <2> QED
    BY <1>4, <1>8, <2>1
<1>12. sum = [i \in 0 .. n |-> sum[i]]
  BY <1>4, <1>8
<1> HIDE DEF Summing
<1>13. \A i \in 0 .. n : sum[i] \in Nat
  <2> DEFINE T == {i \in Nat : i <= n => sum[i] \in Nat}
  <2>1. 0 \in T
    BY <1>10
  <2>2. ASSUME NEW i \in Nat, i \in T PROVE i + 1 \in T
    <3>1. i + 1 <= n => sum[i + 1] = sum[i] + bytes[i + 1]
      BY <1>11
    <3>2. i + 1 <= n => bytes[i + 1] \in Nat
      BY <1>1, <1>4
    <3> QED
      BY <2>2, <3>1, <3>2
  <2> HIDE DEF T
  <2>3. Nat \subseteq T
    BY <2>1, <2>2, SetInduction
  <2> QED
    BY <2>3 DEF T
<1> QED
  BY <1>4, <1>9, <1>10, <1>11, <1>12, <1>13 DEF SumRun

(* Cutting the sum at every byte or once at the end is the same.           *)
LEMMA CutSums ==
  ASSUME NEW b \in ByteBufs
  PROVE  /\ SseBin(b) = Sums!SumOf(b.buffer) % 256
         /\ SzseBin(b) = Sums!SumOf(b.buffer) % 256
<1> DEFINE Summing(f) ==
             f = [i \in 0 .. Len(b.buffer) |->
                    IF i = 0 THEN 0 ELSE (f[i - 1] + b.buffer[i]) % 256]
           cut == CHOOSE f : Summing(f)
<1>1. SzseBin(b) = Sums!SumOf(b.buffer) % 256
  BY DEF SzseBin, Sums!SumOf
<1>2. SseBin(b) = cut[Len(b.buffer)]
  BY DEF SseBin
<1>3. PICK bytes \in Seq(Byte), n \in Nat : bytes = b.buffer /\ n = Len(bytes)
  BY LenProperties DEF ByteBufs
<1>4. \A i \in 1 .. n : bytes[i] \in Nat
  BY <1>3, ElementOfSeq, RadixAssumption DEF Byte
<1>5. PICK sum : SumRun(sum, bytes)
  BY SumRunExists
<1>6. /\ sum \in [0 .. n -> Nat]
      /\ sum[0] = 0
      /\ \A i \in 1 .. n : sum[i] = sum[i - 1] + bytes[i]
      /\ Sums!SumOf(bytes) = sum[n]
  BY <1>3, <1>5 DEF SumRun
<1> DEFINE g == [i \in 0 .. n |-> sum[i] % 256]
<1>7. Summing(g)
  <2>1. ASSUME NEW i \in 0 .. n
        PROVE  g[i] = IF i = 0 THEN 0 ELSE (g[i - 1] + bytes[i]) % 256
    <3>1. CASE i = 0
      BY <1>6, <3>1
    <3>2. CASE i \in 1 .. n
      <4>1. PICK x \in Nat, y \in Nat : x = sum[i - 1] /\ y = bytes[i] /\ sum[i] = x + y
        BY <1>4, <1>6, <3>2
      <4>2. (x + y) % 256 = ((x % 256) + y) % 256
        OBVIOUS
      <4>3. g[i] = (x + y) % 256 /\ g[i - 1] = x % 256
        BY <3>2, <4>1
      <4> QED
        BY <3>2, <4>1, <4>2, <4>3
    <3> QED
      BY <3>1, <3>2
  <2>2. g = [i \in 0 .. n |-> g[i]]
    OBVIOUS
  <2> HIDE DEF g
  <2> QED
    BY <1>3, <2>1, <2>2
<1>8. Summing(cut)
  <2> HIDE DEF Summing, g
  <2> QED
    BY <1>7
<1> HIDE DEF cut
<1>9. cut[0] = 0
  BY <1>3, <1>8
<1>10. ASSUME NEW i \in 1 .. n PROVE cut[i] = (cut[i - 1] + bytes[i]) % 256
  <2>1. i \in 0 .. n /\ i # 0
    OBVIOUS
  <2> QED
    BY <1>3, <1>8, <2>1
<1> HIDE DEF Summing
<1> DEFINE T == {i \in Nat : i <= n => cut[i] = sum[i] % 256}
<1>11. 0 \in T
  BY <1>6, <1>9
<1>12. ASSUME NEW i \in Nat, i \in T PROVE i + 1 \in T
  <2> SUFFICES ASSUME i + 1 <= n PROVE cut[i + 1] = sum[i + 1] % 256
    OBVIOUS
  <2>1. PICK j \in 1 .. n : j = i + 1 /\ j - 1 = i
    OBVIOUS
  <2>2. PICK x \in Nat, y \in Nat : x = sum[i] /\ y = bytes[j] /\ sum[j] = x + y
    <3>1. i \in 0 .. n /\ sum[i] \in Nat
      BY <1>6, <2>1
    <3>2. sum[j] = sum[i] + bytes[j] /\ bytes[j] \in Nat
      BY <1>4, <1>6, <2>1
    <3> QED
      BY <3>1, <3>2
  <2>3. (x + y) % 256 = ((x % 256) + y) % 256
    OBVIOUS
  <2>4. cut[j] = (cut[i] + y) % 256
    BY <1>10, <2>1, <2>2
  <2>5. cut[i] = x % 256
    BY <1>12, <2>2
  <2> QED
    BY <2>1, <2>2, <2>3, <2>4, <2>5
<1> HIDE DEF T
<1>13. n \in T
  BY <1>11, <1>12, SetInduction
<1>14. cut[n] = sum[n] % 256
  BY <1>13 DEF T
<1> QED
  BY <1>1, <1>2, <1>3, <1>6, <1>14

-----------------------------------------------------------------------------

StartsAs(x, s) == \A i \in 1 .. Len(x) : x[i] = s[i]

(* What a calc() makes of the bytes that it answers for.                   *)
Answers(answer, service, bytes) ==
  /\ service = "CRC16" => answer = Cyclic(bytes, 0 .. 15, Taps16)
  /\ service = "CRC32" => answer = (0 .. 31) \ Cyclic(bytes, 0 .. 31, Taps32)
  /\ service \in {"SSE_BIN", "SZSE_BIN"} => answer = Sums!SumOf(bytes) % 256

Covering(covered, b, service) ==
  /\ covered \in Seq(Byte)
  /\ covered = Covered(service, b.buffer, b.reader_index)
  /\ Len(covered) <= Len(b.buffer)
  /\ StartsAs(covered, b.buffer)
  /\ Answers(Calc(service, b), service, covered)

LEMMA CalcForms ==
  ASSUME NEW b \in ByteBufs, b.reader_index <= Len(b.buffer), NEW service \in Services
  PROVE  \E covered : Covering(covered, b, service)
<1>1. PICK bytes \in Seq(Byte), n \in Nat :
        bytes = b.buffer /\ n = Len(bytes)
  BY LenProperties DEF ByteBufs
<1>2. CASE service = "CRC16"
  <2>1. Covered(service, b.buffer, b.reader_index) = bytes
    BY <1>1, <1>2 DEF Covered
  <2>2. Calc(service, b) = Cyclic(bytes, 0 .. 15, Taps16)
    BY <1>1, <1>2 DEF Calc, Crc16, Taps16
  <2> QED
    BY <1>1, <1>2, <2>1, <2>2, LenProperties DEF Covering, Answers, StartsAs
<1>3. CASE service = "CRC32"
  <2>1. PICK m \in Int : m = n - b.reader_index /\ m <= n /\ m >= 0
    BY <1>1 DEF ByteBufs
  <2>2. PICK part : part = SubSeq(bytes, 1, m)
    OBVIOUS
  <2>3. part \in Seq(Byte) /\ Len(part) = m /\ \A i \in 1 .. m : part[i] = bytes[i]
    <3>1. \A i \in 1 .. m : bytes[i] \in Byte
      BY <1>1, <2>1, ElementOfSeq
    <3>2. /\ part \in Seq(Byte)
          /\ Len(part) = IF 1 <= m THEN m - 1 + 1 ELSE 0
          /\ \A i \in 1 .. m - 1 + 1 : part[i] = bytes[1 + i - 1]
      BY <2>1, <2>2, <3>1, SubSeqProperties
    <3>3. m - 1 + 1 = m /\ \A i \in 1 .. m : 1 + i - 1 = i
      BY <2>1
    <3> QED
      BY <2>1, <3>2, <3>3
  <2>4. Covered(service, b.buffer, b.reader_index) = part
    BY <1>1, <1>3, <2>1, <2>2 DEF Covered
  <2>5. Calc(service, b) = (0 .. 31) \ Cyclic(part, 0 .. 31, Taps32)
    BY <1>1, <1>3, <2>1, <2>2 DEF Calc, Crc32, ZlibCrc32, ReadableBytes, Taps32
  <2> QED
    BY <1>1, <1>3, <2>1, <2>3, <2>4, <2>5 DEF Covering, Answers, StartsAs
<1>4. CASE service \in {"SSE_BIN", "SZSE_BIN"}
  <2>1. Covered(service, b.buffer, b.reader_index) = bytes
    BY <1>1, <1>4 DEF Covered
  <2>2. Calc(service, b) = Sums!SumOf(bytes) % 256
    BY <1>1, <1>4, CutSums DEF Calc
  <2> QED
    BY <1>1, <1>4, <2>1, <2>2, LenProperties DEF Covering, Answers, StartsAs
<1> QED
  BY <1>2, <1>3, <1>4 DEF Services

(* A calc() is what the name of its service promises, of the bytes that it *)
(* answers for.                                                            *)
LEMMA CalcIsPromised ==
  ASSUME NEW b \in ByteBufs, b.reader_index <= Len(b.buffer), NEW service \in Services
  PROVE  /\ Calc(service, b) = Promised(service, Covered(service, b.buffer, b.reader_index))
         /\ service = "CRC16" => Calc(service, b) \subseteq 0 .. 15
         /\ service = "CRC32" => Calc(service, b) \subseteq 0 .. 31
         /\ service \in {"SSE_BIN", "SZSE_BIN"} => Calc(service, b) \in 0 .. 255
<1>1. PICK covered \in Seq(Byte) :
        /\ covered = Covered(service, b.buffer, b.reader_index)
        /\ service = "CRC16" => Calc(service, b) = Cyclic(covered, 0 .. 15, Taps16)
        /\ service = "CRC32" =>
             Calc(service, b) = (0 .. 31) \ Cyclic(covered, 0 .. 31, Taps32)
        /\ service \in {"SSE_BIN", "SZSE_BIN"} =>
             Calc(service, b) = Sums!SumOf(covered) % 256
  BY CalcForms DEF Covering, Answers
<1>2. PICK answer : answer = Calc(service, b)
  OBVIOUS
<1>3. CASE service = "CRC16"
  <2>1. PICK start \in Words(16) : start = 0 .. 15 /\ 16 - 1 = 15
    <3>1. 0 .. 15 \in Words(16)
      BY DEF Words
    <3> QED
      BY <3>1
  <2>2. answer = CyclicCheck(covered, Crc16Divisor, 16)
    BY <1>1, <1>2, <1>3, <2>1, CyclicIsCyclicCheck, DivisorsOfTheCode
  <2>3. Cyclic(covered, start, Taps16) \in Words(16)
    BY CyclicAbsorbs, DivisorsOfTheCode, LenProperties
  <2>4. answer \subseteq 0 .. 15
    BY <1>1, <1>2, <1>3, <2>1, <2>3 DEF Words
  <2>5. Promised(service, covered) = CyclicCheck(covered, Crc16Divisor, 16)
    BY <1>3 DEF Promised
  <2> QED
    BY <1>1, <1>2, <1>3, <2>2, <2>4, <2>5
<1>4. CASE service = "CRC32"
  <2>1. PICK W : W = 32 /\ W - 1 = 31
    OBVIOUS
  <2>2. answer = (0 .. 31) \ CyclicCheck(covered, Crc32Divisor, 32)
    <3>1. Divides(W, Taps32) /\ DivisorOf(W, Taps32) = Crc32Divisor
      BY <2>1, DivisorsOfTheCode
    <3>2. Cyclic(covered, 0 .. W - 1, Taps32) = CyclicCheck(covered, Crc32Divisor, W)
      BY <3>1, CyclicIsCyclicCheck
    <3> QED
      BY <1>1, <1>2, <1>4, <2>1, <3>2
  <2>3. Promised(service, covered) = (0 .. 31) \ CyclicCheck(covered, Crc32Divisor, 32)
    BY <1>4 DEF Promised
  <2>4. answer \subseteq 0 .. 31
    BY <2>2
  <2> QED
    BY <1>1, <1>2, <1>4, <2>2, <2>3, <2>4
<1>5. CASE service \in {"SSE_BIN", "SZSE_BIN"}
  <2>1. PICK sum : SumRun(sum, covered)
    BY SumRunExists
  <2>2. PICK total \in Nat : total = Sums!SumOf(covered)
    BY <2>1, LenProperties DEF SumRun
  <2>3. answer = total % 256
    BY <1>1, <1>2, <1>5, <2>2
  <2>4. Promised(service, covered) = total % 256
    BY <1>5, <2>2, BytesOfEightBits DEF Promised, Sums!SseBin, Sums!SzseBin, EmptyBuf
  <2>5. total % 256 \in 0 .. 255
    OBVIOUS
  <2> QED
    BY <1>1, <1>2, <1>5, <2>3, <2>4, <2>5
<1> QED
  BY <1>3, <1>4, <1>5 DEF Services

-----------------------------------------------------------------------------
(* What a turn of the inner loop shifts out of a word can be told from the *)
(* word it leaves: the highest bit of that word is a tap, and nothing else *)
(* reaches it.                                                             *)
LEMMA TurnBack ==
  ASSUME NEW W, NEW taps, Divides(W, taps), NEW a \in Words(W), NEW b \in Words(W),
         NEW m \in 0 .. W - 1,
         \A i \in m .. W - 1 : i \in ShiftOut(a, taps) <=> i \in ShiftOut(b, taps)
  PROVE  /\ 0 \in a <=> 0 \in b
         /\ \A i \in m + 1 .. W - 1 : i \in a <=> i \in b
<1>1. W \in Nat /\ W >= 8 /\ W - 1 \in taps
  BY DEF Divides
<1>2. ASSUME NEW word \in Words(W), NEW i \in Nat
      PROVE  i \in ShiftOut(word, taps) <=>
               IF 0 \in word /\ i \in taps THEN i + 1 \notin word ELSE i + 1 \in word
  <2>1. word \in SUBSET Nat
    BY <1>1, WordsAreSets
  <2>2. i \in ShiftRight(word) <=> i + 1 \in word
    BY <2>1, ShiftMember
  <2> QED
    BY <2>2 DEF ShiftOut, SymDiff
<1>3. ASSUME NEW word \in Words(W) PROVE W - 1 \in ShiftOut(word, taps) <=> 0 \in word
  <2>1. PICK i \in Nat : i = W - 1 /\ i + 1 = W
    BY <1>1
  <2>2. W \notin word
    BY <1>1, WordsAreSets
  <2> QED
    BY <1>1, <1>2, <2>1, <2>2
<1>4. 0 \in a <=> 0 \in b
  <2>1. W - 1 \in m .. W - 1
    BY <1>1
  <2> QED
    BY <1>3, <2>1
<1>5. ASSUME NEW i \in m + 1 .. W - 1 PROVE i \in a <=> i \in b
  <2>1. PICK j \in Nat : j = i - 1 /\ j + 1 = i /\ j \in m .. W - 1
    BY <1>1
  <2>2. j \in ShiftOut(a, taps) <=> j \in ShiftOut(b, taps)
    BY <2>1
  <2>3. /\ j \in ShiftOut(a, taps) <=>
             IF 0 \in a /\ j \in taps THEN i \notin a ELSE i \in a
        /\ j \in ShiftOut(b, taps) <=>
             IF 0 \in b /\ j \in taps THEN i \notin b ELSE i \in b
    BY <1>2, <2>1
  <2> QED
    BY <1>4, <2>2, <2>3
<1> QED
  BY <1>4, <1>5

AgreeFrom(m, a, b, W) == \A i \in m .. W - 1 : i \in a <=> i \in b

(* Two registers that agree from place m on, one bit later, agree from the *)
(* next place on, one bit earlier, and their lowest places differ exactly  *)
(* if the bits of the data do.                                             *)
LEMMA RegistersBack ==
  ASSUME NEW W, NEW taps, Divides(W, taps), NEW a \in Words(W), NEW b \in Words(W),
         NEW m \in 0 .. W - 1, NEW x, NEW y, NEW n,
         NEW a1, a1 = ShiftOut(SymDiff(a, First(x, n)), taps),
         NEW b1, b1 = ShiftOut(SymDiff(b, First(y, n)), taps),
         AgreeFrom(m, a1, b1, W)
  PROVE  /\ (BitAt(x, n) <=> BitAt(y, n)) <=> (0 \in a <=> 0 \in b)
         /\ AgreeFrom(m + 1, a, b, W)
<1>1. 0 \in 0 .. W - 1 /\ W \in Nat
  BY DEF Divides
<1>2. PICK a0 \in Words(W), b0 \in Words(W) :
        a0 = SymDiff(a, First(x, n)) /\ b0 = SymDiff(b, First(y, n))
  <2>1. SymDiff(a, First(x, n)) \in Words(W) /\ SymDiff(b, First(y, n)) \in Words(W)
    BY <1>1 DEF Words, SymDiff, First
  <2> QED
    BY <2>1
<1>3. \A i \in m .. W - 1 : i \in ShiftOut(a0, taps) <=> i \in ShiftOut(b0, taps)
  BY <1>2 DEF AgreeFrom
<1>4. /\ 0 \in a0 <=> 0 \in b0
      /\ \A i \in m + 1 .. W - 1 : i \in a0 <=> i \in b0
  BY <1>3, TurnBack
<1>5. /\ 0 \in a0 <=> ~(0 \in a <=> BitAt(x, n))
      /\ 0 \in b0 <=> ~(0 \in b <=> BitAt(y, n))
  BY <1>2 DEF SymDiff, First
<1>6. \A i \in m + 1 .. W - 1 : (i \in a0 <=> i \in a) /\ (i \in b0 <=> i \in b)
  BY <1>2 DEF SymDiff, First
<1> QED
  BY <1>4, <1>5, <1>6 DEF AgreeFrom

Runs(r, bytes, start, W, taps) ==
  Registers(r, bytes, start, W, taps) /\ Cyclic(bytes, start, taps) = r[8 * Len(bytes)]

LEMMA RunsExist ==
  ASSUME NEW W, NEW taps, Divides(W, taps), NEW start \in Words(W),
         NEW bytes \in Seq(Byte)
  PROVE  \E r : Runs(r, bytes, start, W, taps)
<1>1. PICK r : Registers(r, bytes, start, W, taps)
  BY RegistersExist
<1>2. Cyclic(bytes, start, taps) = r[8 * Len(bytes)]
  BY <1>1, CyclicIsBitwise
<1> QED
  BY <1>1, <1>2 DEF Runs

(* A cyclic redundancy check of at least sixteen bits finds every damage   *)
(* that stays within sixteen bits in a row.                                *)
LEMMA BurstIsFound ==
  ASSUME NEW W, NEW taps, Divides(W, taps), 16 <= W,
         NEW x \in Seq(Byte), NEW y \in Seq(Byte), Len(x) = Len(y), NEW s \in Nat,
         \A n \in 0 .. 8 * Len(x) - 1 : n \notin s .. s + 15 => (BitAt(x, n) <=> BitAt(y, n)),
         NEW start \in Words(W), Cyclic(x, start, taps) = Cyclic(y, start, taps)
  PROVE  \A n \in 0 .. 8 * Len(x) - 1 : BitAt(x, n) <=> BitAt(y, n)
<1>1. PICK N \in Nat : N = 8 * Len(x) /\ N = 8 * Len(y)
  BY LenProperties
<1>2. PICK r, q : Runs(r, x, start, W, taps) /\ Runs(q, y, start, W, taps)
  BY RunsExist
<1>3. r[N] = q[N]
  BY <1>1, <1>2 DEF Runs
<1>4. /\ r \in [0 .. N -> Words(W)] /\ q \in [0 .. N -> Words(W)]
      /\ r[0] = q[0]
      /\ \A n \in 0 .. N - 1 : r[n + 1] = ShiftOut(SymDiff(r[n], First(x, n)), taps)
      /\ \A n \in 0 .. N - 1 : q[n + 1] = ShiftOut(SymDiff(q[n], First(y, n)), taps)
  BY <1>1, <1>2 DEF Registers, Runs
<1>5. W \in Nat
  BY DEF Divides
<1>words. \A n \in 0 .. N - 1 : n \in 0 .. N /\ r[n] \in Words(W) /\ q[n] \in Words(W)
  <2>1. \A n \in 0 .. N - 1 : n \in 0 .. N
    OBVIOUS
  <2> QED
    BY <1>4, <2>1
<1> DEFINE Differs == {n \in Nat : n <= N - 1 /\ ~(BitAt(x, n) <=> BitAt(y, n))}
<1> SUFFICES ASSUME Differs # {} PROVE FALSE
  BY <1>1
<1>6. PICK d \in Differs : \A n \in Differs : d <= n
  BY LeastElement
<1>7. d \in Nat /\ d <= N - 1 /\ ~(BitAt(x, d) <=> BitAt(y, d)) /\ d \in s .. s + 15
  BY <1>1, <1>6
<1>8. r[d] = q[d]
  <2> DEFINE T == {n \in Nat : n <= d => r[n] = q[n]}
  <2>1. 0 \in T
    BY <1>4
  <2>2. ASSUME NEW n \in Nat, n \in T PROVE n + 1 \in T
    <3> SUFFICES ASSUME n + 1 <= d PROVE r[n + 1] = q[n + 1]
      OBVIOUS
    <3>1. n \notin Differs /\ n \in 0 .. N - 1
      BY <1>6, <1>7
    <3>2. First(x, n) = First(y, n)
      BY <3>1 DEF First
    <3>3. r[n] = q[n]
      BY <2>2
    <3> QED
      BY <1>4, <3>1, <3>2, <3>3
  <2> HIDE DEF T
  <2>3. d \in T
    BY <1>7, <2>1, <2>2, SetInduction
  <2> QED
    BY <2>3 DEF T
<1>9. PICK K \in d + 1 .. N : K <= d + 16 /\ \A n \in K .. N - 1 : n \notin Differs
  <2>1. CASE d + 16 <= N
    <3>1. PICK k \in d + 1 .. N : k = d + 16
      BY <1>7, <2>1
    <3>2. ASSUME NEW n \in k .. N - 1 PROVE n \notin Differs
      <4>1. n \in 0 .. 8 * Len(x) - 1 /\ n \notin s .. s + 15
        BY <1>1, <1>7, <3>1
      <4> QED
        BY <4>1
    <3>3. k \in d + 1 .. N /\ k <= d + 16
      BY <1>7, <3>1
    <3> HIDE DEF Differs
    <3> QED
      BY <3>2, <3>3
  <2>2. CASE ~(d + 16 <= N)
    <3>1. N \in d + 1 .. N /\ N <= d + 16 /\ \A n \in N .. N - 1 : n \notin Differs
      BY <1>7, <2>2
    <3> QED
      BY <3>1
  <2> QED
    BY <2>1, <2>2
<1>10. K \in Nat /\ K <= N /\ d + 1 <= K
  BY <1>7, <1>9
<1> HIDE DEF Differs
<1>11. r[K] = q[K]
  <2> DEFINE T == {m \in Nat : K <= N - m => r[N - m] = q[N - m]}
  <2>1. 0 \in T
    BY <1>3
  <2>2. ASSUME NEW m \in Nat, m \in T PROVE m + 1 \in T
    <3> SUFFICES ASSUME K <= N - (m + 1) PROVE r[N - (m + 1)] = q[N - (m + 1)]
      OBVIOUS
    <3>1. PICK n \in 0 .. N - 1 : n = N - (m + 1) /\ n + 1 = N - m
      <4>1. N - (m + 1) \in 0 .. N - 1 /\ (N - (m + 1)) + 1 = N - m
        BY <1>10
      <4> QED
        BY <4>1
    <3>2. n \notin Differs
      BY <1>9, <1>10, <3>1
    <3>3. BitAt(x, n) <=> BitAt(y, n)
      BY <3>1, <3>2 DEF Differs
    <3>4. r[n + 1] = q[n + 1]
      BY <1>10, <2>2, <3>1
    <3>5. PICK a \in Words(W), b \in Words(W) : a = r[n] /\ b = q[n]
      BY <1>words, <3>1
    <3>6. PICK a1, b1 : /\ a1 = ShiftOut(SymDiff(a, First(x, n)), taps) /\ a1 = r[n + 1]
                        /\ b1 = ShiftOut(SymDiff(b, First(y, n)), taps) /\ b1 = q[n + 1]
      BY <1>4, <3>5
    <3>7. PICK zero \in 0 .. W - 1 : zero = 0
      BY DEF Divides
    <3>8. AgreeFrom(zero, a1, b1, W)
      BY <3>4, <3>6 DEF AgreeFrom
    <3>9. /\ (BitAt(x, n) <=> BitAt(y, n)) <=> (0 \in a <=> 0 \in b)
          /\ AgreeFrom(zero + 1, a, b, W)
      BY <3>6, <3>8, RegistersBack
    <3>10. \A i \in 0 .. W - 1 : i \in a <=> i \in b
      BY <1>5, <3>3, <3>7, <3>9 DEF AgreeFrom
    <3>11. a = b
      BY <1>5, <3>10, WordsAreSets
    <3> QED
      BY <3>1, <3>5, <3>11
  <2> HIDE DEF T
  <2>3. Nat \subseteq T
    BY <2>1, <2>2, SetInduction
  <2>4. PICK m \in Nat : m = N - K /\ N - m = K
    <3>1. N - K \in Nat /\ N - (N - K) = K
      BY <1>10
    <3> QED
      BY <3>1
  <2>5. m \in T
    BY <2>3
  <2> QED
    BY <1>10, <2>4, <2>5 DEF T
<1> DEFINE U == {m \in Nat : m <= K - d =>
                   AgreeFrom(m, r[K - m], q[K - m], W)}
<1>12. 0 \in U
  BY <1>10, <1>11 DEF AgreeFrom
<1>13. ASSUME NEW m \in Nat, m <= K - (d + 1), m \in U
       PROVE  /\ m + 1 \in U
              /\ m = K - (d + 1) => (BitAt(x, d) <=> BitAt(y, d))
  <2>1. PICK n \in 0 .. N - 1 : n = K - (m + 1) /\ n + 1 = K - m
    <3>1. K - (m + 1) \in 0 .. N - 1 /\ (K - (m + 1)) + 1 = K - m
      BY <1>7, <1>10, <1>13
    <3> QED
      BY <3>1
  <2>2. m \in 0 .. W - 1
    BY <1>5, <1>7, <1>9, <1>10, <1>13
  <2>3. m <= K - d
    BY <1>7, <1>10, <1>13
  <2>4. AgreeFrom(m, r[n + 1], q[n + 1], W)
    BY <1>13, <2>1, <2>3
  <2>5. PICK a \in Words(W), b \in Words(W) : a = r[n] /\ b = q[n]
    BY <1>words, <2>1
  <2>6. PICK a1, b1 : /\ a1 = ShiftOut(SymDiff(a, First(x, n)), taps) /\ a1 = r[n + 1]
                      /\ b1 = ShiftOut(SymDiff(b, First(y, n)), taps) /\ b1 = q[n + 1]
    BY <1>4, <2>5
  <2>7. /\ (BitAt(x, n) <=> BitAt(y, n)) <=> (0 \in a <=> 0 \in b)
        /\ AgreeFrom(m + 1, a, b, W)
    <3>1. AgreeFrom(m, a1, b1, W)
      BY <2>4, <2>6
    <3> QED
      BY <2>2, <2>6, <3>1, RegistersBack
  <2>8. m + 1 \in U
    BY <2>1, <2>5, <2>7
  <2>9. ASSUME m = K - (d + 1) PROVE BitAt(x, d) <=> BitAt(y, d)
    <3>1. n = d
      BY <1>7, <1>10, <2>1, <2>9
    <3> QED
      BY <1>8, <2>5, <2>7, <3>1
  <2> QED
    BY <2>8, <2>9
<1> HIDE DEF U
<1> DEFINE T == {m \in Nat : m <= K - (d + 1) => m \in U}
<1>14. 0 \in T
  BY <1>12
<1>15. ASSUME NEW m \in Nat, m \in T PROVE m + 1 \in T
  <2> SUFFICES ASSUME m + 1 <= K - (d + 1) PROVE m + 1 \in U
    OBVIOUS
  <2>1. m <= K - (d + 1)
    BY <1>7, <1>10
  <2> QED
    BY <1>13, <1>15, <2>1
<1> HIDE DEF T
<1>16. Nat \subseteq T
  BY <1>14, <1>15, SetInduction
<1>17. PICK m \in Nat : m = K - (d + 1)
  BY <1>7, <1>10
<1>both. m \in U /\ m <= K - (d + 1)
  BY <1>16, <1>17 DEF T
<1>19. BitAt(x, d) <=> BitAt(y, d)
  BY <1>13, <1>17, <1>both
<1> QED
  BY <1>7, <1>19

-----------------------------------------------------------------------------
(* The damage flips the bits that it names and no other.                   *)
LEMMA FlippedBits ==
  ASSUME NEW data \in Seq(Byte), NEW damage \in SUBSET Nat
  PROVE  LET t == Flipped(data, damage)
         IN  /\ t \in Seq(Byte)
             /\ Len(t) = Len(data)
             /\ \A n \in 0 .. 8 * Len(data) - 1 :
                  n \notin damage => (BitAt(data, n) <=> BitAt(t, n))
<1>1. PICK L \in Nat : L = Len(data)
  BY LenProperties
<1>2. PICK t : t = Flipped(data, damage)
  OBVIOUS
<1> DEFINE Hit(i) == {k \in 0 .. 7 : 8 * (i - 1) + k \in damage}
<1>3. t = [i \in 1 .. L |-> ByteOf(SymDiff(Bits(data[i]), Hit(i)))]
  BY <1>1, <1>2 DEF Flipped
<1>4. ASSUME NEW i \in 1 .. L
      PROVE  t[i] \in Byte /\ Bits(t[i]) = SymDiff(Bits(data[i]), Hit(i))
  <2>1. PICK bits \in SUBSET (0 .. 7) : bits = SymDiff(Bits(data[i]), Hit(i))
    <3>1. SymDiff(Bits(data[i]), Hit(i)) \subseteq 0 .. 7
      BY DEF SymDiff, Bits
    <3> QED
      BY <3>1
  <2>2. ByteOf(bits) \in 0 .. 255 /\ Bits(ByteOf(bits)) = bits
    BY BitsInvert
  <2>3. t[i] = ByteOf(bits)
    BY <1>3, <2>1
  <2> QED
    BY <2>1, <2>2, <2>3, BytesOfEightBits DEF Byte
<1>5. t \in Seq(Byte) /\ Len(t) = L
  <2>1. t \in [1 .. L -> Byte]
    BY <1>3, <1>4
  <2> QED
    BY <1>1, <2>1, SeqDef, LenProperties
<1>6. ASSUME NEW n \in 0 .. 8 * L - 1, n \notin damage
      PROVE  BitAt(data, n) <=> BitAt(t, n)
  <2>1. PICK i \in 1 .. L, k \in 0 .. 7 : i = n \div 8 + 1 /\ k = n % 8
    BY <1>1
  <2>2. 8 * (i - 1) + k = n
    BY <2>1
  <2>3. k \notin Hit(i)
    BY <1>6, <2>2
  <2>4. k \in Bits(t[i]) <=> k \in Bits(data[i])
    BY <1>4, <2>3 DEF SymDiff
  <2> QED
    BY <2>1, <2>4 DEF BitAt
<1> QED
  BY <1>1, <1>2, <1>5, <1>6

(* Data with the same bits are the same.                                   *)
LEMMA SameBits ==
  ASSUME NEW x \in Seq(Byte), NEW y \in Seq(Byte), Len(x) = Len(y),
         \A n \in 0 .. 8 * Len(x) - 1 : BitAt(x, n) <=> BitAt(y, n)
  PROVE  \A i \in 1 .. Len(x) : x[i] = y[i]
<1>1. PICK L \in Nat : L = Len(x) /\ L = Len(y)
  BY LenProperties
<1> SUFFICES ASSUME NEW i \in 1 .. L PROVE x[i] = y[i]
  BY <1>1
<1>2. x[i] \in 0 .. 255 /\ y[i] \in 0 .. 255
  BY <1>1, ElementOfSeq, BytesOfEightBits DEF Byte
<1>3. ASSUME NEW k \in 0 .. 7 PROVE k \in Bits(x[i]) <=> k \in Bits(y[i])
  <2>1. PICK n \in 0 .. 8 * L - 1 : n = 8 * (i - 1) + k
    <3>1. 8 * (i - 1) + k \in 0 .. 8 * L - 1
      OBVIOUS
    <3> QED
      BY <3>1
  <2>2. n \div 8 + 1 = i /\ n % 8 = k
    BY <2>1
  <2>3. BitAt(x, n) <=> BitAt(y, n)
    BY <1>1
  <2> QED
    BY <2>2, <2>3 DEF BitAt
<1>4. Bits(x[i]) = Bits(y[i])
  BY <1>3 DEF Bits
<1> QED
  BY <1>2, <1>4, BytesInvert

(* A sum modulo 256 finds every damage that stays within one byte.         *)
LEMMA OneByteIsFound ==
  ASSUME NEW x \in Seq(Byte), NEW y \in Seq(Byte), Len(x) = Len(y),
         NEW j \in 1 .. Len(x), x[j] # y[j],
         \A i \in 1 .. Len(x) : i # j => x[i] = y[i]
  PROVE  Sums!SumOf(x) % 256 # Sums!SumOf(y) % 256
<1>1. PICK L \in Nat : L = Len(x) /\ L = Len(y)
  BY LenProperties
<1>2. PICK s, t : SumRun(s, x) /\ SumRun(t, y)
  BY SumRunExists
<1>3. /\ s \in [0 .. L -> Nat] /\ t \in [0 .. L -> Nat]
      /\ s[0] = 0 /\ t[0] = 0
      /\ \A i \in 1 .. L : s[i] = s[i - 1] + x[i]
      /\ \A i \in 1 .. L : t[i] = t[i - 1] + y[i]
      /\ Sums!SumOf(x) = s[L] /\ Sums!SumOf(y) = t[L]
  BY <1>1, <1>2 DEF SumRun
<1>4. \A i \in 1 .. L : x[i] \in 0 .. 255 /\ y[i] \in 0 .. 255
  BY <1>1, ElementOfSeq, BytesOfEightBits DEF Byte
<1>5. PICK d \in Int : d = y[j] - x[j] /\ d # 0 /\ -255 <= d /\ d <= 255
  <2>1. PICK a \in 0 .. 255, c \in 0 .. 255 : a = x[j] /\ c = y[j]
    BY <1>1, <1>4
  <2>2. a # c
    BY <2>1
  <2>3. c - a \in Int /\ c - a # 0 /\ -255 <= c - a /\ c - a <= 255
    BY <2>2
  <2> QED
    BY <2>1, <2>3
<1> DEFINE T == {i \in Nat : i <= L => t[i] = s[i] + (IF j <= i THEN d ELSE 0)}
<1>6. 0 \in T
  BY <1>3
<1>7. ASSUME NEW i \in Nat, i \in T PROVE i + 1 \in T
  <2> SUFFICES ASSUME i + 1 <= L
               PROVE  t[i + 1] = s[i + 1] + (IF j <= i + 1 THEN d ELSE 0)
    OBVIOUS
  <2>1. PICK k \in 1 .. L : k = i + 1 /\ k - 1 = i
    OBVIOUS
  <2>2. PICK a \in Nat, c \in Nat : a = s[i] /\ c = t[i]
    <3>1. i \in 0 .. L
      OBVIOUS
    <3> QED
      BY <1>3, <3>1
  <2>3. PICK xx \in Nat, yy \in Nat : xx = x[k] /\ yy = y[k]
    <3>1. x[k] \in 0 .. 255 /\ y[k] \in 0 .. 255
      BY <1>4
    <3>2. 0 .. 255 \subseteq Nat
      OBVIOUS
    <3> HIDE DEF T
    <3> QED
      BY <3>1, <3>2
  <2>4. s[k] = a + xx /\ t[k] = c + yy
    BY <1>3, <2>1, <2>2, <2>3
  <2>5. c = a + (IF j <= i THEN d ELSE 0)
    BY <1>7, <2>2
  <2>6. yy = xx + (IF k = j THEN d ELSE 0)
    <3>1. CASE k = j
      BY <1>5, <2>3, <3>1
    <3>2. CASE k # j
      BY <1>1, <2>3, <3>2
    <3> QED
      BY <3>1, <3>2
  <2>7. c + yy = a + xx + (IF j <= k THEN d ELSE 0)
    BY <1>5, <2>1, <2>5, <2>6
  <2> QED
    BY <2>1, <2>4, <2>7
<1> HIDE DEF T
<1>8. L \in T
  BY <1>6, <1>7, SetInduction
<1>9. PICK a \in Nat, c \in Nat : a = s[L] /\ c = t[L]
  BY <1>3
<1>10. c = a + d
  <2>1. j <= L
    BY <1>1
  <2> QED
    BY <1>5, <1>8, <1>9, <2>1 DEF T
<1>11. a % 256 # c % 256
  <2>1. /\ a = 256 * (a \div 256) + (a % 256)
        /\ c = 256 * (c \div 256) + (c % 256)
        /\ a \div 256 \in Int /\ c \div 256 \in Int
        /\ a % 256 \in Int /\ c % 256 \in Int
    OBVIOUS
  <2>2. PICK qa \in Int, qc \in Int : qa = a \div 256 /\ qc = c \div 256
    BY <2>1
  <2>3. a % 256 = c % 256 => d = 256 * (qc - qa)
    BY <1>10, <2>1, <2>2
  <2>4. d # 256 * (qc - qa)
    <3>1. PICK m \in Int : m = qc - qa
      OBVIOUS
    <3>2. d # 256 * m
      BY <1>5
    <3> QED
      BY <3>1, <3>2
  <2> QED
    BY <2>3, <2>4
<1> QED
  BY <1>3, <1>9, <1>11

(* The same part of the data and of what arrived.                          *)
Parts(x, y, data, t) ==
  /\ x \in Seq(Byte) /\ y \in Seq(Byte)
  /\ Len(x) = Len(y) /\ Len(x) <= Len(data)
  /\ StartsAs(x, data) /\ StartsAs(y, t)

(* Parts with equal checks are equal.                                      *)
LEMMA EqualChecks ==
  ASSUME NEW W, NEW taps, Divides(W, taps), 16 <= W, NEW start \in Words(W),
         NEW data \in Seq(Byte), NEW damage \in SUBSET Nat,
         NEW s \in Nat, damage \subseteq s .. s + 15,
         NEW t, t = Flipped(data, damage), NEW x, NEW y, Parts(x, y, data, t),
         Cyclic(x, start, taps) = Cyclic(y, start, taps)
  PROVE  StartsAs(x, y)
<1>0. x \in Seq(Byte) /\ y \in Seq(Byte) /\ Len(x) = Len(y)
  BY DEF Parts
<1>1. PICK L \in Nat, m \in Nat : L = Len(data) /\ m = Len(x) /\ m <= L
  BY <1>0, LenProperties DEF Parts
<1>2. \A i \in 1 .. m : x[i] = data[i] /\ y[i] = t[i]
  BY <1>0, <1>1 DEF StartsAs, Parts
<1>3. \A n \in 0 .. 8 * L - 1 : n \notin damage => (BitAt(data, n) <=> BitAt(t, n))
  BY <1>1, FlippedBits
<1>4. ASSUME NEW n \in 0 .. 8 * m - 1, n \notin s .. s + 15
      PROVE  BitAt(x, n) <=> BitAt(y, n)
  <2>1. PICK i \in 1 .. m : i = n \div 8 + 1
    BY <1>1
  <2>2. x[i] = data[i] /\ y[i] = t[i]
    BY <1>1, <1>2
  <2>3. n \in 0 .. 8 * L - 1 /\ n \notin damage
    BY <1>1, <1>4
  <2> QED
    BY <1>3, <2>1, <2>2, <2>3 DEF BitAt
<1>5. \A n \in 0 .. 8 * Len(x) - 1 : n \notin s .. s + 15 => (BitAt(x, n) <=> BitAt(y, n))
  BY <1>1, <1>4
<1>6. \A n \in 0 .. 8 * Len(x) - 1 : BitAt(x, n) <=> BitAt(y, n)
  BY <1>0, <1>5, BurstIsFound
<1> QED
  BY <1>0, <1>6, SameBits DEF StartsAs

-----------------------------------------------------------------------------
(* The buffer that the sender asked for.                                   *)
Asked == [buffer |-> sent.data, reader_index |-> sent.read, writer_index |-> 0]

(* The objects: nothing here counts written bytes.                         *)
Objects ==
  /\ buf \in ByteBufs
  /\ buf.reader_index <= Len(buf.buffer)
  /\ buf.writer_index = 0
  /\ arrived \in BOOLEAN
  /\ verdict \in {"none", "accepted", "refused"}

Answered ==
  sent # <<>> =>
    /\ sent.service \in Services
    /\ Asked \in ByteBufs
    /\ Asked.reader_index <= Len(Asked.buffer)
    /\ sent.sum = Calc(sent.service, Asked)

Delivered ==
  arrived =>
    /\ sent # <<>>
    /\ \E damage \in Damages \cup {{}} : buf.buffer = Flipped(sent.data, damage)

Judged ==
  verdict # "none" =>
    /\ arrived
    /\ verdict = IF Calc(sent.service, buf) = sent.sum THEN "accepted" ELSE "refused"

Inductive == Objects /\ Answered /\ Delivered /\ Judged

LEMMA InitInductive == Init => Inductive
<1> SUFFICES ASSUME Init PROVE Inductive
  OBVIOUS
<1>1. Objects
  <2>1. <<>> \in Seq(Byte) /\ Len(<<>>) = 0
    OBVIOUS
  <2>2. EmptyBuf \in ByteBufs
    BY <2>1 DEF EmptyBuf, ByteBufs
  <2>3. EmptyBuf.reader_index = 0 /\ EmptyBuf.buffer = <<>> /\ EmptyBuf.writer_index = 0
    BY DEF EmptyBuf
  <2>4. /\ buf = EmptyBuf
        /\ arrived \in BOOLEAN
        /\ verdict \in {"none", "accepted", "refused"}
    BY DEF Init
  <2>5. EmptyBuf.reader_index <= Len(EmptyBuf.buffer)
    BY <2>1, <2>3
  <2> QED
    BY <2>2, <2>3, <2>4, <2>5 DEF Objects
<1> QED
  BY <1>1 DEF Init, Inductive, Answered, Delivered, Judged

LEMMA StepInductive == Inductive /\ [Next]_vars => Inductive'
<1> SUFFICES ASSUME Inductive, [Next]_vars PROVE Inductive'
  OBVIOUS
<1>0. Objects /\ Answered /\ Delivered /\ Judged
  BY DEF Inductive
<1>1. ASSUME NEW bytes \in Writes, WriteBytes(bytes) PROVE Inductive'
  <2>1. /\ sent = <<>> /\ ~arrived /\ verdict = "none"
        /\ UNCHANGED <<sent, arrived, verdict>>
    BY <1>0, <1>1 DEF WriteBytes, Delivered, Judged
  <2>2. bytes \in Seq(Byte)
    BY ServicesAssumption
  <2>3. PICK c \in Chunks : c = Uncounted(bytes)
    BY <2>2, ChunkTypes
  <2>4. buf' = Write(buf, c)
    BY <1>1, <2>3 DEF WriteBytes
  <2>5. /\ buf' \in ByteBufs
        /\ Len(buf'.buffer) = Len(buf.buffer) + Len(c.bytes)
        /\ buf'.reader_index = buf.reader_index
    BY <1>0, <2>4, WriteType DEF Objects
  <2>6. buf'.writer_index = 0
    BY <1>0, <2>3, <2>4 DEF Objects, ByteBufs, Write, Uncounted
  <2>7. Objects'
    <3>1. c.bytes \in Seq(Byte)
      BY DEF Chunks
    <3>2. Len(c.bytes) \in Nat /\ Len(buf.buffer) \in Nat /\ buf.reader_index \in Nat
      BY <1>0, <3>1, LenProperties DEF Objects, ByteBufs
    <3>3. PICK l \in Nat, k \in Nat, i \in Nat :
            l = Len(buf.buffer) /\ k = Len(c.bytes) /\ i = buf.reader_index
      BY <3>2
    <3>4. i <= l + k
      <4>1. buf.reader_index <= Len(buf.buffer)
        BY <1>0 DEF Objects
      <4>2. i <= l
        BY <3>3, <4>1
      <4> QED
        BY <4>2
    <3>5. buf'.reader_index <= Len(buf'.buffer)
      BY <2>5, <3>3, <3>4
    <3> QED
      BY <1>0, <2>1, <2>5, <2>6, <3>5 DEF Objects
  <2> QED
    BY <2>1, <2>7 DEF Inductive, Answered, Delivered, Judged
<1>2. CASE ReadByte
  <2>1. verdict = "none" /\ UNCHANGED <<sent, arrived, verdict>>
    BY <1>2 DEF ReadByte
  <2>2. PICK r : r = ReadBytes(buf, 1)
    OBVIOUS
  <2>3. buf' = r.buf
    BY <1>2, <2>2 DEF ReadByte
  <2>4. /\ buf' \in ByteBufs
        /\ buf'.buffer = buf.buffer
        /\ buf'.reader_index <= Len(buf.buffer)
        /\ buf'.writer_index = buf.writer_index
    BY <1>0, <2>2, <2>3, ReadBytesType DEF Objects
  <2>5. Objects'
    BY <1>0, <2>1, <2>4 DEF Objects
  <2>6. Answered'
    BY <1>0, <2>1 DEF Answered, Asked
  <2>7. Delivered'
    BY <1>0, <2>1, <2>4 DEF Delivered
  <2> QED
    BY <2>1, <2>5, <2>6, <2>7 DEF Inductive, Judged
<1>3. ASSUME NEW service \in Services, Ask(service) PROVE Inductive'
  <2>1. /\ sent = <<>> /\ ~arrived /\ verdict = "none"
        /\ UNCHANGED <<buf, arrived, verdict>>
    BY <1>0, <1>3 DEF Ask, Delivered, Judged
  <2>2. /\ sent'.service = service
        /\ sent'.data = buf.buffer
        /\ sent'.read = buf.reader_index
        /\ sent'.sum = Calc(service, buf)
    BY <1>3 DEF Ask
  <2>3. Asked' = buf
    BY <1>0, <2>2 DEF Asked, Objects, ByteBufs
  <2>4. Answered'
    BY <1>0, <2>2, <2>3 DEF Answered, Objects
  <2>5. Objects'
    BY <1>0, <2>1 DEF Objects
  <2> QED
    BY <2>1, <2>4, <2>5 DEF Inductive, Delivered, Judged
<1>4. ASSUME NEW damage \in Damages \cup {{}}, Arrive(damage) PROVE Inductive'
  <2>1. /\ sent # <<>> /\ verdict = "none" /\ arrived'
        /\ UNCHANGED <<sent, verdict>>
    BY <1>0, <1>4 DEF Arrive, Judged
  <2>2. PICK data \in Seq(Byte) : data = sent.data
    BY <1>0, <2>1 DEF Answered, Asked, ByteBufs
  <2>3. damage \in SUBSET Nat
    BY ServicesAssumption
  <2>4. PICK bytes \in Seq(Byte) : bytes = Flipped(data, damage)
    BY <2>2, <2>3, FlippedBits
  <2>5. PICK c \in Chunks : c = Uncounted(bytes) /\ c.bytes = bytes /\ c.counted = 0
    BY <2>4, ChunkTypes DEF Uncounted
  <2>6. buf' = Write(EmptyBuf, c)
    BY <1>4, <2>2, <2>4, <2>5 DEF Arrive
  <2>7. buf' = [buffer |-> bytes, reader_index |-> 0, writer_index |-> 0]
    <3>1. <<>> \o bytes = bytes
      BY ConcatEmptySeq
    <3>2. buf' = [EmptyBuf EXCEPT !.buffer = @ \o c.bytes, !.writer_index = @ + c.counted]
      BY <2>6 DEF Write
    <3>3. buf' = [buffer |-> <<>> \o c.bytes, reader_index |-> 0, writer_index |-> 0 + c.counted]
      BY <3>2 DEF EmptyBuf
    <3> QED
      BY <2>5, <3>1, <3>3
  <2>8. Objects'
    BY <1>0, <2>1, <2>7, LenProperties DEF Objects, ByteBufs
  <2>9. Answered'
    BY <1>0, <2>1 DEF Answered, Asked
  <2>10. Delivered'
    BY <2>1, <2>2, <2>4, <2>7 DEF Delivered
  <2> QED
    BY <2>1, <2>8, <2>9, <2>10 DEF Inductive, Judged
<1>5. CASE Check
  <2>1. /\ arrived /\ UNCHANGED <<buf, sent, arrived>>
        /\ verdict' = IF Calc(sent.service, buf) = sent.sum THEN "accepted" ELSE "refused"
    BY <1>5 DEF Check
  <2>2. Objects'
    BY <1>0, <2>1 DEF Objects
  <2>3. Answered'
    BY <1>0, <2>1 DEF Answered, Asked
  <2>4. Delivered'
    BY <1>0, <2>1 DEF Delivered
  <2>5. Judged'
    BY <2>1 DEF Judged
  <2> QED
    BY <2>2, <2>3, <2>4, <2>5 DEF Inductive
<1>6. CASE UNCHANGED vars
  BY <1>0, <1>6 DEF vars, Inductive, Objects, Answered, Asked, Delivered, Judged
<1> QED
  BY <1>1, <1>2, <1>3, <1>4, <1>5, <1>6 DEF Next

LEMMA AlwaysInductive == Spec => []Inductive
<1>1. Init => Inductive
  BY InitInductive
<1>2. Inductive /\ [Next]_vars => Inductive'
  BY StepInductive
<1> QED
  BY <1>1, <1>2, PTL DEF Spec

(* The answers of the services have the width of their types, and the      *)
(* buffer is one, after every sequence of calls of any length.             *)
THEOREM TypeCorrect == Spec => []TypeOK
<1>1. Inductive => TypeOK
  <2> SUFFICES ASSUME Inductive PROVE TypeOK
    OBVIOUS
  <2>1. Objects /\ Answered
    BY DEF Inductive
  <2>2. ASSUME sent # <<>>
        PROVE  /\ sent.data \in Seq(Byte)
               /\ sent.service = "CRC16" => sent.sum \subseteq 0 .. 15
               /\ sent.service = "CRC32" => sent.sum \subseteq 0 .. 31
               /\ sent.service \in {"SSE_BIN", "SZSE_BIN"} => sent.sum \in 0 .. 255
    <3>1. PICK b \in ByteBufs, service \in Services :
            /\ b = Asked /\ service = sent.service
            /\ b.reader_index <= Len(b.buffer)
            /\ sent.sum = Calc(service, b)
      BY <2>1, <2>2 DEF Answered
    <3>2. sent.data \in Seq(Byte)
      BY <3>1 DEF Asked, ByteBufs
    <3>3. /\ service = "CRC16" => Calc(service, b) \subseteq 0 .. 15
          /\ service = "CRC32" => Calc(service, b) \subseteq 0 .. 31
          /\ service \in {"SSE_BIN", "SZSE_BIN"} => Calc(service, b) \in 0 .. 255
      BY <3>1, CalcIsPromised
    <3> QED
      BY <3>1, <3>2, <3>3
  <2> QED
    BY <2>1, <2>2 DEF TypeOK, Objects
<1> QED
  BY <1>1, AlwaysInductive, PTL

(* The loops of the services compute, of any data in the buffer and        *)
(* wherever the reader is, the remainder or the sum that their names       *)
(* promise.                                                                *)
THEOREM AnswersCorrect == Spec => []AnswersAsNamed
<1>1. Inductive => AnswersAsNamed
  <2> SUFFICES ASSUME Inductive, sent # <<>>
               PROVE  sent.sum = Promised(sent.service,
                                          Covered(sent.service, sent.data, sent.read))
    BY DEF AnswersAsNamed
  <2>1. PICK b \in ByteBufs, service \in Services :
          /\ b = Asked /\ service = sent.service
          /\ b.reader_index <= Len(b.buffer)
          /\ sent.sum = Calc(service, b)
    BY DEF Inductive, Answered
  <2>2. b.buffer = sent.data /\ b.reader_index = sent.read
    BY <2>1 DEF Asked
  <2>3. Calc(service, b) = Promised(service, Covered(service, b.buffer, b.reader_index))
    BY <2>1, CalcIsPromised
  <2> QED
    BY <2>1, <2>2, <2>3
<1> QED
  BY <1>1, AlwaysInductive, PTL

(* That a damage stays within sixteen bits in a row, as it does on a line. *)
Bursts == \A damage \in Damages : \E first \in Nat : damage \subseteq first .. first + 15

LEMMA DamageFoundInState ==
  ASSUME Bursts, Inductive
  PROVE  DamageIsFound
<1> SUFFICES ASSUME verdict # "none",
                    sent.service # "CRC32" \/ buf.reader_index = sent.read
             PROVE  LET covered == Covered(sent.service, sent.data, sent.read)
                        changed == {i \in DOMAIN covered : covered[i] # buf.buffer[i]}
                    IN  /\ changed = {} => verdict = "accepted"
                        /\ changed # {} /\ (Cardinality(changed) = 1
                                              \/ sent.service \in {"CRC16", "CRC32"})
                             => verdict = "refused"
  BY DEF DamageIsFound
<1>1. /\ Objects /\ Answered /\ arrived /\ sent # <<>>
      /\ verdict = IF Calc(sent.service, buf) = sent.sum THEN "accepted" ELSE "refused"
  BY DEF Inductive, Judged, Delivered
<1>2. PICK b \in ByteBufs, service \in Services :
        /\ b.buffer = sent.data /\ b.reader_index = sent.read /\ service = sent.service
        /\ b.reader_index <= Len(b.buffer)
        /\ sent.sum = Calc(service, b)
  BY <1>1 DEF Answered, Asked
<1>3. PICK damage \in Damages \cup {{}} : buf.buffer = Flipped(sent.data, damage)
  BY <1>1 DEF Inductive, Delivered
<1>4. PICK data \in Seq(Byte) : data = b.buffer
  BY DEF ByteBufs
<1>5. damage \in SUBSET Nat /\ \E first \in Nat : damage \subseteq first .. first + 15
  <2>1. {} \subseteq 0 .. 0 + 15 /\ 0 \in Nat
    OBVIOUS
  <2>2. CASE damage \in Damages
    BY <2>2, ServicesAssumption DEF Bursts
  <2>3. CASE damage = {}
    BY <2>1, <2>3
  <2> QED
    BY <2>2, <2>3
<1>6. PICK t \in Seq(Byte) :
        t = buf.buffer /\ t = Flipped(data, damage) /\ Len(t) = Len(data)
  BY <1>2, <1>3, <1>4, <1>5, FlippedBits
<1>7. PICK received \in ByteBufs :
        /\ received = buf /\ received.buffer = t
        /\ received.reader_index <= Len(received.buffer)
  BY <1>1, <1>6 DEF Objects
<1>8. PICK covered : Covering(covered, b, service)
  BY <1>2, CalcForms
<1>9. PICK got : Covering(got, received, service)
  BY <1>7, CalcForms
<1>both. /\ covered \in Seq(Byte) /\ got \in Seq(Byte)
       /\ covered = Covered(service, b.buffer, b.reader_index)
       /\ got = Covered(service, received.buffer, received.reader_index)
       /\ Len(covered) <= Len(data)
       /\ StartsAs(covered, data) /\ StartsAs(got, t)
       /\ Answers(Calc(service, b), service, covered)
       /\ Answers(Calc(service, received), service, got)
  BY <1>4, <1>7, <1>8, <1>9 DEF Covering
<1>10. PICK m \in Nat : m = Len(covered) /\ m = Len(got)
  <2>1. CASE service = "CRC32"
    <3>1. received.reader_index = b.reader_index
      BY <1>2, <1>7, <2>1
    <3>2. PICK k \in Int : k = Len(data) - b.reader_index /\ k >= 0 /\ k <= Len(data)
      BY <1>2, <1>4, LenProperties DEF ByteBufs
    <3>3. covered = SubSeq(data, 1, k) /\ got = SubSeq(t, 1, k)
      BY <1>4, <1>6, <1>7, <1>both, <2>1, <3>1, <3>2 DEF Covered
    <3>4. Len(covered) = Len(got)
      <4>1. \A i \in 1 .. k : data[i] \in Byte /\ t[i] \in Byte
        BY <1>6, <3>2, ElementOfSeq
      <4>2. Len(SubSeq(data, 1, k)) = IF 1 <= k THEN k - 1 + 1 ELSE 0
        BY <3>2, <4>1, SubSeqProperties
      <4>3. Len(SubSeq(t, 1, k)) = IF 1 <= k THEN k - 1 + 1 ELSE 0
        BY <3>2, <4>1, SubSeqProperties
      <4> QED
        BY <3>3, <4>2, <4>3
    <3> QED
      BY <1>both, <3>4, LenProperties
  <2>2. CASE service # "CRC32"
    <3>1. covered = data /\ got = t
      BY <1>4, <1>6, <1>7, <1>both, <2>2 DEF Covered
    <3> QED
      BY <1>6, <1>both, <3>1, LenProperties
  <2> QED
    BY <2>1, <2>2
<1> DEFINE changed == {i \in 1 .. m : covered[i] # got[i]}
<1>11. changed = {i \in DOMAIN covered : covered[i] # buf.buffer[i]}
  <2>1. DOMAIN covered = 1 .. m
    BY <1>10, <1>both, LenProperties
  <2>2. \A i \in 1 .. m : got[i] = buf.buffer[i]
    BY <1>6, <1>both, <1>10 DEF StartsAs
  <2> QED
    BY <2>1, <2>2
<1> HIDE DEF changed
<1> SUFFICES /\ changed = {} => Calc(service, received) = Calc(service, b)
             /\ changed # {} /\ (Cardinality(changed) = 1 \/ service \in {"CRC16", "CRC32"})
                  => Calc(service, received) # Calc(service, b)
  <2>1. Covered(sent.service, sent.data, sent.read) = covered
    BY <1>2, <1>4, <1>both
  <2>2. verdict = IF Calc(service, received) = Calc(service, b) THEN "accepted" ELSE "refused"
    BY <1>1, <1>2, <1>7
  <2> QED
    BY <1>2, <1>11, <2>1, <2>2
<1>12. ASSUME changed = {} PROVE Calc(service, received) = Calc(service, b)
  <2>1. covered = got
    <3>1. \A i \in 1 .. m : covered[i] = got[i]
      BY <1>12 DEF changed
    <3> QED
      BY <1>10, <1>both, <3>1, SeqEqual
  <2> QED
    BY <1>both, <2>1 DEF Services, Answers
<1>13. ASSUME NEW W, NEW taps, Divides(W, taps), 16 <= W, changed # {},
              Cyclic(covered, 0 .. W - 1, taps) = Cyclic(got, 0 .. W - 1, taps)
       PROVE  FALSE
  <2>1. PICK start \in Words(W) : start = 0 .. W - 1
    BY DEF Words
  <2>2. PICK first \in Nat : damage \subseteq first .. first + 15
    BY <1>5
  <2>3. Len(covered) = Len(got) /\ Cyclic(covered, start, taps) = Cyclic(got, start, taps)
    BY <1>10, <1>13, <2>1
  <2>4. Parts(covered, got, data, t)
    BY <1>10, <1>both DEF Parts
  <2>5. StartsAs(covered, got)
    BY <1>5, <1>6, <1>13, <2>2, <2>3, <2>4, EqualChecks
  <2> QED
    BY <1>10, <1>13, <2>5 DEF StartsAs, changed
<1>14. ASSUME changed # {}, service = "CRC16"
       PROVE  Calc(service, received) # Calc(service, b)
  <2>1. PICK W : W = 16 /\ W - 1 = 15 /\ 16 <= W
    OBVIOUS
  <2>2. Divides(W, Taps16)
    BY <2>1, DivisorsOfTheCode
  <2>3. Cyclic(covered, 0 .. 15, Taps16) # Cyclic(got, 0 .. 15, Taps16)
    BY <1>13, <1>14, <2>1, <2>2
  <2> QED
    BY <1>both, <1>14, <2>3 DEF Answers
<1>15. ASSUME changed # {}, service = "CRC32"
       PROVE  Calc(service, received) # Calc(service, b)
  <2>1. PICK W : W = 32 /\ W - 1 = 31 /\ 16 <= W
    OBVIOUS
  <2>2. Divides(W, Taps32)
    BY <2>1, DivisorsOfTheCode
  <2>3. PICK p, q : p = Cyclic(covered, 0 .. 31, Taps32) /\ q = Cyclic(got, 0 .. 31, Taps32)
    OBVIOUS
  <2>4. p # q
    BY <1>13, <1>15, <2>1, <2>2, <2>3
  <2>5. p \subseteq 0 .. 31 /\ q \subseteq 0 .. 31
    <3>1. PICK start \in Words(W) : start = 0 .. 31
      BY <2>1 DEF Words
    <3>2. Cyclic(covered, start, Taps32) \in Words(W)
      BY <1>both, <2>2, CyclicType
    <3>3. Cyclic(got, start, Taps32) \in Words(W)
      BY <1>both, <2>2, CyclicType
    <3> QED
      BY <2>1, <2>3, <3>1, <3>2, <3>3 DEF Words
  <2>6. (0 .. 31) \ p # (0 .. 31) \ q
    BY <2>4, <2>5
  <2> QED
    BY <1>both, <1>15, <2>3, <2>6 DEF Answers
<1>16. ASSUME Cardinality(changed) = 1, service \in {"SSE_BIN", "SZSE_BIN"}
       PROVE  Calc(service, received) # Calc(service, b)
  <2>1. PICK j : changed = {j}
    <3>1. IsFiniteSet(1 .. m)
      <4>1. 1 \in Int /\ m \in Int
        OBVIOUS
      <4> QED
        BY <4>1, FS_Interval
    <3>2. changed \in SUBSET (1 .. m)
      BY DEF changed
    <3>3. IsFiniteSet(changed)
      BY <3>1, <3>2, FS_Subset
    <3> QED
      BY <1>16, <3>3, FS_Singleton
  <2>2. PICK k \in 1 .. Len(covered) : covered[k] # got[k] /\ k = j
    BY <1>10, <2>1 DEF changed
  <2>3. \A i \in 1 .. Len(covered) : i # k => covered[i] = got[i]
    BY <1>10, <2>1, <2>2 DEF changed
  <2>4. Sums!SumOf(covered) % 256 # Sums!SumOf(got) % 256
    <3>1. covered \in Seq(Byte) /\ got \in Seq(Byte) /\ Len(covered) = Len(got)
      BY <1>10, <1>both
    <3> QED
      BY <2>2, <2>3, <3>1, OneByteIsFound
  <2> QED
    BY <1>both, <1>16, <2>4 DEF Answers
<1> QED
  BY <1>12, <1>14, <1>15, <1>16 DEF Services

(* Whatever data of any length are sent, a receiver who asks the same      *)
(* service again finds every damage of up to sixteen bits in a row with a  *)
(* CRC, and every damage of one byte with a sum; what is whole is accepted.*)
THEOREM DamageFound ==
  ASSUME Bursts
  PROVE  Spec => []DamageIsFound
<1>1. Inductive => DamageIsFound
  BY DamageFoundInState
<1> QED
  BY <1>1, AlwaysInductive, PTL
=============================================================================
