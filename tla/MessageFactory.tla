--------------------------- MODULE MessageFactory ---------------------------
(***************************************************************************)
(* The message factories of a program, as include/message_factory.hpp      *)
(* makes them.  Every translation unit that includes a protocol header has *)
(* static objects of its own whose initialisers register the classes of    *)
(* the header, so a class is registered as often as its header is          *)
(* included.  The units are initialised in an order that the program does  *)
(* not choose; initialisers may call functions of other units, initialised *)
(* or not; then main() runs.  Users register, remove and create messages   *)
(* from any of these places.                                               *)
(***************************************************************************)
EXTENDS Integers, Sequences, FiniteSets

CONSTANTS Units,         \* the translation units that include a header
          HeaderOf,      \* the header that each of them includes
          Registrations, \* of each header, the REGISTER_MESSAGEs: the class
                         \*   by factory and by key
          Probes,        \* the <<factory, key>> that users work with
          UserClass,     \* the class that users register
          None

Headers == {HeaderOf[u] : u \in Units}

(* The header that a unit includes and the factories that it knows.        *)
Registered(u) == Registrations[HeaderOf[u]]
Knows(u, f)   == f \in DOMAIN Registered(u)

Factories == UNION {DOMAIN Registrations[h] : h \in Headers}

ASSUME FactoryAssumption ==
  /\ HeaderOf \in [Units -> Headers]
  /\ \A probe \in Probes : probe = <<probe[1], probe[2]>> /\ probe[1] \in Factories
  /\ None \notin Units /\ "main" \notin Units /\ None # "main"

VARIABLES creators,  \* creators_ of each factory: the class by key
          current,   \* the unit whose initialisers run, "main", or None
          begun,     \* the units whose REGISTER_MESSAGEs have run
          word,      \* history: what users last did with each probe, or
                     \*   "header" when a REGISTER_MESSAGE came after that
          made       \* history: the last create()

vars == <<creators, current, begun, word, made>>

(* What create() gives for a key that it does not find: it throws.         *)
Unknown == "std::runtime_error"

Nothing == <<>>

Init ==
  /\ creators = [f \in Factories |-> <<>>]
  /\ current = None
  /\ begun = {}
  /\ word = [probe \in Probes |-> "nobody"]
  /\ made = Nothing

(* creators_[key] = .. for the keys of `entries`.                          *)
Entered(map, entries) ==
  [key \in DOMAIN map \cup DOMAIN entries |->
     IF key \in DOMAIN entries THEN entries[key] ELSE map[key]]

(* Wrong variant: the initialisers of the header left out of the unit.     *)
StartUnregistered(u) ==
  /\ current = None
  /\ u \notin begun
  /\ current' = u
  /\ begun' = begun \cup {u}
  /\ word' = [probe \in Probes |->
                IF Knows(u, probe[1]) /\ probe[2] \in DOMAIN Registered(u)[probe[1]]
                  THEN "header" ELSE word[probe]]
  /\ UNCHANGED <<creators, made>>

(* The initialisation of a unit begins with its REGISTER_MESSAGEs, since   *)
(* the header precedes the code of the unit.                               *)
Start(u) ==
  /\ current = None
  /\ u \notin begun
  /\ current' = u
  /\ begun' = begun \cup {u}
  /\ creators' = [f \in Factories |->
                    IF Knows(u, f) THEN Entered(creators[f], Registered(u)[f]) ELSE creators[f]]
  /\ word' = [probe \in Probes |->
                IF Knows(u, probe[1]) /\ probe[2] \in DOMAIN Registered(u)[probe[1]]
                  THEN "header" ELSE word[probe]]
  /\ UNCHANGED made

Finish(u) ==
  /\ current = u
  /\ current' = None
  /\ UNCHANGED <<creators, begun, word, made>>

Main ==
  /\ current = None
  /\ begun = Units
  /\ current' = "main"
  /\ UNCHANGED <<creators, begun, word, made>>

(* Code of unit u runs: in its initialisers, called by those of another    *)
(* unit, or called by main().                                              *)
Runs(u, f) == current # None /\ Knows(u, f)

(* Wrong variant: emplace(), which keeps the creator of a key that has one.*)
RegisterMessageOnce(u, probe) ==
  LET f == probe[1]  key == probe[2]
  IN  /\ Runs(u, f)
      /\ creators' = [creators EXCEPT ![f] = Entered([k \in {key} |-> UserClass], @)]
      /\ word' = [word EXCEPT ![probe] = "registered"]
      /\ UNCHANGED <<current, begun, made>>

RegisterMessage(u, probe) ==
  LET f == probe[1]  key == probe[2]
  IN  /\ Runs(u, f)
      /\ creators' = [creators EXCEPT ![f] = Entered(@, [k \in {key} |-> UserClass])]
      /\ word' = [word EXCEPT ![probe] = "registered"]
      /\ UNCHANGED <<current, begun, made>>

(* Wrong variant: the creator emptied instead of erased.                   *)
RemoveMessageEmptied(u, probe) ==
  LET f == probe[1]  key == probe[2]
  IN  /\ Runs(u, f)
      /\ creators' = [creators EXCEPT ![f] = Entered(@, [k \in {key} |-> None])]
      /\ word' = [word EXCEPT ![probe] = "removed"]
      /\ UNCHANGED <<current, begun, made>>

RemoveMessage(u, probe) ==
  LET f == probe[1]  key == probe[2]
  IN  /\ Runs(u, f)
      /\ creators' = [creators EXCEPT ![f] = [k \in DOMAIN @ \ {key} |-> @[k]]]
      /\ word' = [word EXCEPT ![probe] = "removed"]
      /\ UNCHANGED <<current, begun, made>>

Create(u, probe) ==
  LET f == probe[1]  key == probe[2]
  IN  /\ Runs(u, f)
      /\ made' = [unit |-> u, probe |-> probe, ready |-> u \in begun, word |-> word[probe],
                  class |-> IF key \in DOMAIN creators[f] THEN creators[f][key] ELSE Unknown]
      /\ UNCHANGED <<creators, current, begun, word>>

Next ==
  \/ \E u \in Units : Start(u) \/ Finish(u)
  \/ Main
  \/ \E u \in Units, probe \in Probes :
       RegisterMessage(u, probe) \/ RemoveMessage(u, probe) \/ Create(u, probe)

Spec == Init /\ [][Next]_vars

-----------------------------------------------------------------------------
(* Type correctness: users and headers register classes that there are.    *)
TypeOK ==
  /\ DOMAIN creators = Factories
  /\ \A f \in Factories : \A key \in DOMAIN creators[f] :
       \/ creators[f][key] = UserClass
       \/ \E u \in begun : Knows(u, f) /\ key \in DOMAIN Registered(u)[f]
                           /\ creators[f][key] = Registered(u)[f][key]
  /\ begun \subseteq Units
  /\ current \in begun \cup {None, "main"}

(* Code of a unit whose initialisers have begun gets the classes of its    *)
(* header from the factories, in its own initialisers already: the order   *)
(* of the units does not matter, nor that others register the same once    *)
(* more, as long as no user changes the key.                               *)
HeaderAnswers ==
  made # Nothing =>
    LET entries == Registered(made.unit)[made.probe[1]]
    IN  made.ready /\ made.word = "header" /\ made.probe[2] \in DOMAIN entries =>
          made.class = entries[made.probe[2]]

(* Wherever the code is from that asks, a key that users have registered   *)
(* or removed gives what they last said, unless the initialisers of a unit *)
(* that came later have registered the class of the header again.          *)
LastWordStands ==
  made # Nothing =>
    /\ made.word = "registered" => made.class = UserClass
    /\ made.word = "removed" => made.class = Unknown
=============================================================================
