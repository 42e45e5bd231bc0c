------------------------- MODULE MCChecksumContext -------------------------
(* Instance of ChecksumContext for TLC: two threads, two types, and one    *)
(* name besides the built-in ones.                                         *)
EXTENDS ChecksumContext

MCBuiltInType ==
  [CRC16 |-> "uint16_t", CRC32 |-> "uint32_t", SSE_BIN |-> "uint32_t", SZSE_BIN |-> "int32_t"]
=============================================================================
