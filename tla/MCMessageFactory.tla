-------------------------- MODULE MCMessageFactory --------------------------
(* Instances of MessageFactory for TLC, with the registrations of the      *)
(* library: two units with one header and one with another, and a program  *)
(* of two units that speak two protocols.                                  *)
EXTENDS MessageFactory

CONSTANT Radix

Lib == INSTANCE Library

MCRegistrations == Lib!Factories

OneProtocol == [gateway |-> "sse", archive |-> "sse", sample |-> "root"]
Extensions  == [shenzhen |-> "szse", beijing |-> "bjse"]

(* A key of each header and one that no header has; in the program with    *)
(* two protocols, a key that both have for an extension.                   *)
MCProbes       == {<<"SseBinaryTag", 58>>, <<"SseBinaryTag", 999>>, <<"RootPacketTag", 4>>}
ExtensionProbe == {<<"NewOrderTag", <<48, 49, 48>> >>}
=============================================================================
