--------------------------- MODULE MCBufferClient ---------------------------
(* Instance of BufferClient for TLC: bytes of one bit, so that integers    *)
(* truncate and change sign after a bit or two.                            *)
EXTENDS BufferClient

MCValues    == -2 .. 3
MCPayloads  == {<<>>, <<0>>, <<1>>, <<0, 1>>, <<1, 1, 0>>}
MCCounts    == 0 .. 4
=============================================================================
