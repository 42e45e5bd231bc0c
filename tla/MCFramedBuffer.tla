-------------------------- MODULE MCFramedBuffer --------------------------
(* Instance of FramedBuffer for TLC: one-byte length fields and checksums, *)
(* and bodies that are counted completely, in part, and not at all, one of *)
(* them longer than its length field can say.                              *)
EXTENDS FramedBuffer

MCHeaders == {<<1>>, <<2>>}

MCBodies == {Counted(<<2, 0, 3, 2, 1>>), Counted(<<>>), Uncounted(<<1>>),
             [bytes |-> <<1, 2, 1>>, counted |-> 1]}
=============================================================================
