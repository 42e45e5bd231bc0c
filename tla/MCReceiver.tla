---------------------------- MODULE MCReceiver ----------------------------
(* Instance of Receiver for TLC: a frame like RcBinary, in bytes of three  *)
(* values.  One body has a string, a list and a nested struct, the other   *)
(* ends with an extension that a key inside the body decides.  One key of  *)
(* the frame is unknown, and one of the body.  The members of this frame   *)
(* are all written as they are; what encode() computes is the subject of   *)
(* Traffic.                                                                *)
EXTENDS Receiver, TLC

Bodies     == Registered({0}, "Order") @@ Registered({1}, "Report")
Extensions == Registered({<<1>>}, "Party") @@ Registered({<<2>>}, "Empty")

MCClasses ==
  [Frame  |-> << <<"msgType", U8>>, <<"version", U8>>, <<"body", Dynamic("msgType", Bodies)>> >>,
   Order  |-> << <<"account", Text(1)>>, <<"legs", ListOf(1, Whole(1, FALSE))>>,
                 <<"party", Struct("Party")>> >>,
   Party  |-> << <<"id", FixedPadded(1, 0, FALSE)>> >>,
   Report |-> << <<"applId", FixedPadded(1, 0, FALSE)>>, <<"extend", Dynamic("applId", Extensions)>> >>,
   Empty  |-> <<>>]

Codec == INSTANCE Wire

MCEncoded(o)               == Codec!PutObject(o)
MCDecodedInto(b, o)        == Codec!DecodeInto(b, o)
MCNewObject(class, number)   == Codec!New(class, number)

RECURSIVE MCIsWhole(_, _), MCPaths(_, _, _)

Shape == INSTANCE Members WITH
  HasMembersNested <- MCIsWhole,
  PathsToNested    <- MCPaths

MCIsWhole(o, unset)      == Shape!HasMembers(o, unset)
MCPaths(o, kinds, value) == Shape!PathsTo(o, kinds, value)
=============================================================================
