------------------------- MODULE MCChecksumServices -------------------------
(* Instance of ChecksumServices for TLC: bytes with ones at either end, in *)
(* the middle and everywhere; every damage of one byte, of two bits        *)
(* anywhere, and every run of up to sixteen bits.                          *)
EXTENDS ChecksumServices

MCWrites == {<<129>>, <<255, 50>>}

InOneByte == {Times(bits, 8 * i) : bits \in SUBSET (0 .. 7) \ {{}}, i \in 0 .. 2}
TwoBits   == {{i, j} : i, j \in 0 .. 23}
Runs      == {i .. i + n : i \in 0 .. 23, n \in 0 .. 15}

MCDamages == InOneByte \cup TwoBits \cup Runs
=============================================================================
