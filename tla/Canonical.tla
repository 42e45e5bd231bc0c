----------------------------- MODULE Canonical -----------------------------
(***************************************************************************)
(* Expected, with the objects inside objects treated as it says of any     *)
(* object.                                                                 *)
(***************************************************************************)
EXTENDS WireTypes

CONSTANT Classes   \* the layout of every class, by name

RECURSIVE CanonicalObject(_), Sendable(_)

Sent == INSTANCE Expected WITH
  CanonicalNested <- CanonicalObject,
  SendableNested  <- Sendable

(* What the receiver of an object should get.                              *)
CanonicalObject(o) == Sent!CanonicalObject(o)

(* Whether it is an object that the format can carry.                      *)
Sendable(o) == Sent!Sendable(o)
=============================================================================
