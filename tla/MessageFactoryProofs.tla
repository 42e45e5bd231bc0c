------------------------ MODULE MessageFactoryProofs ------------------------
(***************************************************************************)
(* What code gets from the factories of a program, for any number of       *)
(* translation units in any order, any headers and whatever the users do.  *)
(***************************************************************************)
EXTENDS MessageFactory, TLAPS

(* No factory is that of two headers.                                      *)
Separate ==
  \A u, v \in Units : \A f \in Factories :
    Knows(u, f) /\ Knows(v, f) => HeaderOf[u] = HeaderOf[v]

Words == {"nobody", "header", "registered", "removed"}

Shape ==
  /\ DOMAIN creators = Factories
  /\ begun \subseteq Units
  /\ word \in [Probes -> Words]
  /\ made = Nothing \/ made.unit \in Units

(* What each last word on a probe says of its factory.                     *)
Holds(probe, class) ==
  /\ probe[2] \in DOMAIN creators[probe[1]]
  /\ creators[probe[1]][probe[2]] = class

Registers(u, probe) ==
  Knows(u, probe[1]) /\ probe[2] \in DOMAIN Registered(u)[probe[1]]

UserHolds(probe) ==
  /\ word[probe] = "registered" => Holds(probe, UserClass)
  /\ word[probe] = "removed" => probe[2] \notin DOMAIN creators[probe[1]]

HeaderHolds(u, probe) ==
  u \in begun /\ Registers(u, probe) /\ word[probe] = "header" =>
    Holds(probe, Registered(u)[probe[1]][probe[2]])

UserInv ==
  /\ Shape
  /\ \A probe \in Probes : UserHolds(probe)
  /\ LastWordStands

HeaderInv ==
  /\ Shape
  /\ \A u \in Units, probe \in Probes : HeaderHolds(u, probe)
  /\ HeaderAnswers

-----------------------------------------------------------------------------
(* What the initialisation of a unit does to a probe.                      *)
LEMMA StartOnProbe ==
  ASSUME FactoryAssumption, Shape, NEW u \in Units, Start(u), NEW probe \in Probes
  PROVE  /\ Registers(u, probe) =>
              /\ word'[probe] = "header"
              /\ Holds(probe, Registered(u)[probe[1]][probe[2]])'
         /\ ~ Registers(u, probe) =>
              /\ word'[probe] = word[probe]
              /\ probe[2] \in DOMAIN creators'[probe[1]] <=> probe[2] \in DOMAIN creators[probe[1]]
              /\ probe[2] \in DOMAIN creators[probe[1]] =>
                   creators'[probe[1]][probe[2]] = creators[probe[1]][probe[2]]
<1>1. probe[1] \in Factories
  BY DEF FactoryAssumption
<1>2. word'[probe] = IF Registers(u, probe) THEN "header" ELSE word[probe]
  BY DEF Start, Registers
<1>3. creators'[probe[1]] =
        IF Knows(u, probe[1])
          THEN Entered(creators[probe[1]], Registered(u)[probe[1]]) ELSE creators[probe[1]]
  BY <1>1 DEF Start
<1>4. CASE Registers(u, probe)
  <2>1. creators'[probe[1]] = Entered(creators[probe[1]], Registered(u)[probe[1]])
    BY <1>3, <1>4 DEF Registers
  <2>2. /\ probe[2] \in DOMAIN creators'[probe[1]]
        /\ creators'[probe[1]][probe[2]] = Registered(u)[probe[1]][probe[2]]
    BY <1>4, <2>1 DEF Registers, Entered
  <2>3. Registered(u)' = Registered(u)
    BY DEF Registered
  <2> QED
    BY <1>2, <1>4, <2>2, <2>3 DEF Holds
<1>5. CASE ~ Registers(u, probe)
  BY <1>2, <1>3, <1>5 DEF Registers, Entered
<1> QED
  BY <1>4, <1>5

(* A step of a user on one probe leaves the others as they are.            *)
LEMMA OtherProbes ==
  ASSUME FactoryAssumption, Shape, NEW u \in Units, NEW probe \in Probes,
         RegisterMessage(u, probe) \/ RemoveMessage(u, probe),
         NEW other \in Probes, other # probe
  PROVE  /\ word'[other] = word[other]
         /\ other[2] \in DOMAIN creators'[other[1]] <=> other[2] \in DOMAIN creators[other[1]]
         /\ other[2] \in DOMAIN creators[other[1]] =>
              creators'[other[1]][other[2]] = creators[other[1]][other[2]]
<1>1. other[1] # probe[1] \/ other[2] # probe[2]
  BY DEF FactoryAssumption
<1>2. other[1] \in Factories /\ probe[1] \in Factories
  BY DEF FactoryAssumption
<1>3. word'[other] = word[other]
  BY DEF RegisterMessage, RemoveMessage, Shape
<1>4. CASE other[1] # probe[1]
  <2>1. creators'[other[1]] = creators[other[1]]
    BY <1>2, <1>4 DEF RegisterMessage, RemoveMessage, Shape
  <2> QED
    BY <1>3, <2>1
<1>5. CASE other[1] = probe[1] /\ other[2] # probe[2]
  <2>1. CASE RegisterMessage(u, probe)
    <3>1. creators'[other[1]] =
            Entered(creators[other[1]], [k \in {probe[2]} |-> UserClass])
      BY <1>2, <1>5, <2>1 DEF RegisterMessage, Shape
    <3>2. /\ DOMAIN creators'[other[1]] = DOMAIN creators[other[1]] \cup {probe[2]}
          /\ other[2] \in DOMAIN creators[other[1]] =>
               creators'[other[1]][other[2]] = creators[other[1]][other[2]]
      BY <1>5, <3>1 DEF Entered
    <3> QED
      BY <1>3, <1>5, <3>2
  <2>2. CASE RemoveMessage(u, probe)
    <3>1. creators'[other[1]] =
            [k \in DOMAIN creators[other[1]] \ {probe[2]} |-> creators[other[1]][k]]
      BY <1>2, <1>5, <2>2 DEF RemoveMessage, Shape
    <3> QED
      BY <1>3, <1>5, <3>1
  <2> QED
    BY <2>1, <2>2
<1> QED
  BY <1>1, <1>4, <1>5

(* What it leaves of the probe itself.                                     *)
LEMMA UserOnProbe ==
  ASSUME FactoryAssumption, Shape, NEW u \in Units, NEW probe \in Probes
  PROVE  /\ RegisterMessage(u, probe) =>
              word'[probe] = "registered" /\ Holds(probe, UserClass)'
         /\ RemoveMessage(u, probe) =>
              word'[probe] = "removed" /\ probe[2] \notin DOMAIN creators'[probe[1]]
<1>1. probe[1] \in Factories
  BY DEF FactoryAssumption
<1>2. ASSUME RegisterMessage(u, probe)
      PROVE  word'[probe] = "registered" /\ Holds(probe, UserClass)'
  <2>1. creators'[probe[1]] = Entered(creators[probe[1]], [k \in {probe[2]} |-> UserClass])
    BY <1>1, <1>2 DEF RegisterMessage, Shape
  <2>2. Holds(probe, UserClass)'
    BY <2>1 DEF Holds, Entered
  <2> QED
    BY <1>2, <2>2 DEF RegisterMessage, Shape
<1>3. ASSUME RemoveMessage(u, probe)
      PROVE  word'[probe] = "removed" /\ probe[2] \notin DOMAIN creators'[probe[1]]
  <2>1. creators'[probe[1]] =
          [k \in DOMAIN creators[probe[1]] \ {probe[2]} |-> creators[probe[1]][k]]
    BY <1>1, <1>3 DEF RemoveMessage, Shape
  <2> QED
    BY <1>3, <2>1 DEF RemoveMessage, Shape
<1> QED
  BY <1>2, <1>3

LEMMA ShapePreserved ==
  ASSUME FactoryAssumption, Shape, [Next]_vars
  PROVE  Shape'
<1>1. ASSUME NEW u \in Units, Start(u) PROVE Shape'
  BY <1>1 DEF Start, Shape, Words
<1>2. ASSUME NEW u \in Units, Finish(u) PROVE Shape'
  BY <1>2 DEF Finish, Shape
<1>3. ASSUME Main PROVE Shape'
  BY <1>3 DEF Main, Shape
<1>4. ASSUME NEW u \in Units, NEW probe \in Probes,
             RegisterMessage(u, probe) \/ RemoveMessage(u, probe)
      PROVE  Shape'
  BY <1>4 DEF RegisterMessage, RemoveMessage, Shape, Words
<1>5. ASSUME NEW u \in Units, NEW probe \in Probes, Create(u, probe)
      PROVE  Shape'
  BY <1>5 DEF Create, Shape
<1>6. CASE UNCHANGED vars
  BY <1>6 DEF vars, Shape
<1> QED
  BY <1>1, <1>2, <1>3, <1>4, <1>5, <1>6 DEF Next

-----------------------------------------------------------------------------
(* Where the class of a key in a factory is from.                          *)
Known(f, key, class) ==
  \/ class = UserClass
  \/ \E u \in begun : Knows(u, f) /\ key \in DOMAIN Registered(u)[f]
                      /\ class = Registered(u)[f][key]

ClassesKnown ==
  \A f \in Factories : \A key \in DOMAIN creators[f] : Known(f, key, creators[f][key])

Running == current \in begun \cup {None, "main"}

TypeInv == Shape /\ ClassesKnown /\ Running

LEMMA EnteredKeys ==
  ASSUME NEW map, NEW entries, NEW key \in DOMAIN Entered(map, entries)
  PROVE  \/ key \in DOMAIN entries /\ Entered(map, entries)[key] = entries[key]
         \/ key \in DOMAIN map /\ Entered(map, entries)[key] = map[key]
BY DEF Entered

(* A class stays known: units do not take their initialisation back.       *)
LEMMA KnownStays ==
  ASSUME NEW f, NEW key, NEW class, Known(f, key, class), begun \subseteq begun'
  PROVE  Known(f, key, class)'
BY DEF Known, Knows, Registered

LEMMA TypeInvPreserved ==
  ASSUME FactoryAssumption, TypeInv, [Next]_vars
  PROVE  TypeInv'
<1>1. Shape /\ Shape' /\ ClassesKnown /\ Running
  BY ShapePreserved DEF TypeInv
<1>2. ASSUME NEW u \in Units, Start(u) PROVE TypeInv'
  <2>1. u \in begun' /\ begun \subseteq begun' /\ Running'
    BY <1>2 DEF Start, Running
  <2>2. ASSUME NEW f \in Factories, NEW key \in DOMAIN creators'[f]
        PROVE  Known(f, key, creators[f][key])'
    <3>1. creators'[f] =
            IF Knows(u, f) THEN Entered(creators[f], Registered(u)[f]) ELSE creators[f]
      BY <1>2 DEF Start
    <3>2. CASE key \in DOMAIN creators[f] /\ creators'[f][key] = creators[f][key]
      <4>1. Known(f, key, creators[f][key])
        BY <1>1, <3>2 DEF ClassesKnown
      <4> QED
        BY <2>1, <3>2, <4>1 DEF Known, Knows, Registered
    <3>3. CASE /\ Knows(u, f) /\ key \in DOMAIN Registered(u)[f]
               /\ creators'[f][key] = Registered(u)[f][key]
      BY <2>1, <3>3 DEF Known, Knows, Registered
    <3> QED
      BY <3>1, <3>2, <3>3, EnteredKeys
  <2> QED
    BY <1>1, <2>1, <2>2 DEF TypeInv, ClassesKnown
<1>3. ASSUME NEW u \in Units, NEW probe \in Probes,
             RegisterMessage(u, probe) \/ RemoveMessage(u, probe)
      PROVE  TypeInv'
  <2>1. begun' = begun /\ current' = current
    BY <1>3 DEF RegisterMessage, RemoveMessage
  <2>2. ASSUME NEW f \in Factories, NEW key \in DOMAIN creators'[f]
        PROVE  Known(f, key, creators[f][key])'
    <3>1. \/ creators'[f] = creators[f]
          \/ creators'[f] = Entered(creators[f], [k \in {probe[2]} |-> UserClass])
          \/ creators'[f] = [k \in DOMAIN creators[f] \ {probe[2]} |-> creators[f][k]]
      <4>1. CASE f # probe[1]
        BY <1>1, <1>3, <4>1 DEF RegisterMessage, RemoveMessage, Shape
      <4>2. CASE f = probe[1] /\ RegisterMessage(u, probe)
        BY <1>1, <4>2 DEF RegisterMessage, Shape
      <4>3. CASE f = probe[1] /\ RemoveMessage(u, probe)
        BY <1>1, <4>3 DEF RemoveMessage, Shape
      <4> QED
        BY <1>3, <4>1, <4>2, <4>3
    <3>2. \/ key \in DOMAIN creators[f] /\ creators'[f][key] = creators[f][key]
          \/ creators'[f][key] = UserClass
      BY <3>1, EnteredKeys
    <3>3. CASE key \in DOMAIN creators[f] /\ creators'[f][key] = creators[f][key]
      <4>1. Known(f, key, creators[f][key])
        BY <1>1, <3>3 DEF ClassesKnown
      <4> QED
        BY <2>1, <3>3, <4>1 DEF Known, Knows, Registered
    <3>4. CASE creators'[f][key] = UserClass
      BY <3>4 DEF Known
    <3> QED
      BY <3>2, <3>3, <3>4
  <2> QED
    BY <1>1, <2>1, <2>2 DEF TypeInv, ClassesKnown, Running
<1>4. ASSUME UNCHANGED <<creators, begun>>, current' \in {current, None, "main"}
      PROVE  TypeInv'
  BY <1>1, <1>4 DEF TypeInv, ClassesKnown, Known, Knows, Registered, Running
<1>5. ASSUME (\E u \in Units : Finish(u)) \/ Main \/ UNCHANGED vars
      PROVE  UNCHANGED <<creators, begun>> /\ current' \in {current, None, "main"}
  BY <1>5 DEF Finish, Main, vars
<1>6. ASSUME NEW u \in Units, NEW probe \in Probes, Create(u, probe)
      PROVE  UNCHANGED <<creators, begun>> /\ current' \in {current, None, "main"}
  BY <1>6 DEF Create
<1> QED
  BY <1>2, <1>3, <1>4, <1>5, <1>6 DEF Next

(* A factory never has a class that neither a user nor the header of a unit*)
(* that has been started gave it.                                          *)
THEOREM TypeCorrect == Spec => []TypeOK
<1>1. Init => TypeInv
  BY DEF Init, TypeInv, Shape, Words, ClassesKnown, Running
<1>2. TypeInv /\ [Next]_vars => TypeInv'
  BY FactoryAssumption, TypeInvPreserved
<1>3. TypeInv => TypeOK
  BY DEF TypeInv, Shape, ClassesKnown, Known, Running, TypeOK
<1> QED
  BY <1>1, <1>2, <1>3, PTL DEF Spec

-----------------------------------------------------------------------------
(* The last word of the users, without any assumption on the headers.      *)
LEMMA UserInvPreserved ==
  ASSUME FactoryAssumption, UserInv, [Next]_vars
  PROVE  UserInv'
<1>1. Shape /\ Shape' /\ LastWordStands
  BY ShapePreserved DEF UserInv
<1>2. ASSUME NEW u \in Units, Start(u) PROVE UserInv'
  <2>1. ASSUME NEW probe \in Probes PROVE UserHolds(probe)'
    <3>1. UserHolds(probe)
      BY DEF UserInv
    <3>2. CASE Registers(u, probe)
      <4>1. word'[probe] = "header"
        BY <1>1, <1>2, <3>2, StartOnProbe
      <4> QED
        BY <4>1 DEF UserHolds
    <3>3. CASE ~ Registers(u, probe)
      BY <1>1, <1>2, <3>1, <3>3, StartOnProbe DEF UserHolds, Holds
    <3> QED
      BY <3>2, <3>3
  <2>2. LastWordStands'
    BY <1>1, <1>2 DEF Start, LastWordStands
  <2> QED
    BY <1>1, <2>1, <2>2 DEF UserInv
<1>3. ASSUME NEW u \in Units, NEW probe \in Probes,
             RegisterMessage(u, probe) \/ RemoveMessage(u, probe)
      PROVE  UserInv'
  <2>1. ASSUME NEW other \in Probes PROVE UserHolds(other)'
    <3>1. UserHolds(other)
      BY DEF UserInv
    <3>2. CASE other = probe
      BY <1>1, <1>3, <3>2, UserOnProbe DEF UserHolds
    <3>3. CASE other # probe
      BY <1>1, <1>3, <3>1, <3>3, OtherProbes DEF UserHolds, Holds
    <3> QED
      BY <3>2, <3>3
  <2>2. LastWordStands'
    BY <1>1, <1>3 DEF RegisterMessage, RemoveMessage, LastWordStands
  <2> QED
    BY <1>1, <2>1, <2>2 DEF UserInv
<1>4. ASSUME NEW u \in Units, NEW probe \in Probes, Create(u, probe)
      PROVE  UserInv'
  <2>1. UserHolds(probe)
    BY DEF UserInv
  <2>2. made'.word = word[probe] /\
        made'.class = IF probe[2] \in DOMAIN creators[probe[1]]
                        THEN creators[probe[1]][probe[2]] ELSE Unknown
    BY <1>4 DEF Create
  <2>3. LastWordStands'
    BY <2>1, <2>2 DEF LastWordStands, UserHolds, Holds
  <2>4. \A other \in Probes : UserHolds(other)'
    BY <1>4 DEF Create, UserInv, UserHolds, Holds
  <2> QED
    BY <1>1, <2>3, <2>4 DEF UserInv
<1>5. ASSUME UNCHANGED <<creators, word, made>>
      PROVE  UserInv'
  BY <1>1, <1>5 DEF UserInv, UserHolds, Holds, LastWordStands
<1>6. (\E u \in Units : Finish(u)) \/ Main \/ UNCHANGED vars => UNCHANGED <<creators, word, made>>
  BY DEF Finish, Main, vars
<1> QED
  BY <1>2, <1>3, <1>4, <1>5, <1>6 DEF Next

(* Whatever headers there are and in whatever order units start: the key   *)
(* that users have registered or removed last gives what they said.        *)
THEOREM UsersHaveTheLastWord == Spec => []LastWordStands
<1>1. Init => UserInv
  BY DEF Init, UserInv, Shape, Words, UserHolds, LastWordStands
<1>2. UserInv /\ [Next]_vars => UserInv'
  BY FactoryAssumption, UserInvPreserved
<1>3. UserInv => LastWordStands
  BY DEF UserInv
<1> QED
  BY <1>1, <1>2, <1>3, PTL DEF Spec

-----------------------------------------------------------------------------
(* Units with a factory in common have the same header, so the same        *)
(* registrations.                                                          *)
LEMMA HeaderInvPreserved ==
  ASSUME FactoryAssumption, Separate, HeaderInv, [Next]_vars
  PROVE  HeaderInv'
<1>1. Shape /\ Shape' /\ HeaderAnswers
  BY ShapePreserved DEF HeaderInv
<1>2. ASSUME NEW u \in Units, Start(u) PROVE HeaderInv'
  <2>1. ASSUME NEW v \in Units, NEW probe \in Probes,
               v \in begun', Registers(v, probe), word'[probe] = "header"
        PROVE  Holds(probe, Registered(v)[probe[1]][probe[2]])'
    <3>1. probe[1] \in Factories
      BY DEF FactoryAssumption
    <3>2. CASE Knows(u, probe[1])
      <4>1. Registered(u) = Registered(v)
        BY <2>1, <3>1, <3>2 DEF Separate, Registered, Registers
      <4>2. Registers(u, probe)
        BY <2>1, <3>2, <4>1 DEF Registers
      <4>3. Holds(probe, Registered(u)[probe[1]][probe[2]])'
        BY <1>1, <1>2, <4>2, StartOnProbe
      <4> QED
        BY <4>1, <4>3 DEF Holds, Registered
    <3>3. CASE ~ Knows(u, probe[1])
      <4>1. ~ Registers(u, probe)
        BY <3>3 DEF Registers
      <4>2. v # u
        BY <2>1, <4>1
      <4>3. v \in begun /\ word[probe] = "header"
        BY <1>1, <1>2, <2>1, <4>1, <4>2, StartOnProbe DEF Start
      <4>4. Holds(probe, Registered(v)[probe[1]][probe[2]])
        BY <2>1, <4>3 DEF HeaderInv, HeaderHolds
      <4> QED
        BY <1>1, <1>2, <4>1, <4>4, StartOnProbe DEF Holds, Registered
    <3> QED
      BY <3>2, <3>3
  <2>2. \A v \in Units, probe \in Probes : HeaderHolds(v, probe)'
    BY <2>1 DEF HeaderHolds, Registers, Knows, Registered
  <2>3. HeaderAnswers'
    BY <1>1, <1>2 DEF Start, HeaderAnswers, Registered
  <2> QED
    BY <1>1, <2>2, <2>3 DEF HeaderInv
<1>3. ASSUME NEW u \in Units, NEW probe \in Probes,
             RegisterMessage(u, probe) \/ RemoveMessage(u, probe)
      PROVE  HeaderInv'
  <2>1. ASSUME NEW v \in Units, NEW other \in Probes PROVE HeaderHolds(v, other)'
    <3>1. HeaderHolds(v, other)
      BY DEF HeaderInv
    <3>2. CASE other = probe
      <4>1. word'[other] # "header"
        BY <1>1, <1>3, <3>2, UserOnProbe
      <4> QED
        BY <4>1 DEF HeaderHolds
    <3>3. CASE other # probe
      <4>1. begun' = begun
        BY <1>3 DEF RegisterMessage, RemoveMessage
      <4> QED
        BY <1>1, <1>3, <3>1, <3>3, <4>1, OtherProbes
        DEF HeaderHolds, Holds, Registers, Knows, Registered
    <3> QED
      BY <3>2, <3>3
  <2>2. HeaderAnswers'
    BY <1>1, <1>3 DEF RegisterMessage, RemoveMessage, HeaderAnswers, Registered
  <2> QED
    BY <1>1, <2>1, <2>2 DEF HeaderInv
<1>4. ASSUME NEW u \in Units, NEW probe \in Probes, Create(u, probe)
      PROVE  HeaderInv'
  <2>1. /\ made'.unit = u /\ made'.probe = probe /\ made'.word = word[probe]
        /\ made'.ready = (u \in begun)
        /\ made'.class = IF probe[2] \in DOMAIN creators[probe[1]]
                           THEN creators[probe[1]][probe[2]] ELSE Unknown
        /\ Knows(u, probe[1])
    BY <1>4 DEF Create, Runs
  <2>2. HeaderHolds(u, probe)
    BY DEF HeaderInv
  <2>3. HeaderAnswers'
    BY <2>1, <2>2 DEF HeaderAnswers, HeaderHolds, Holds, Registers, Registered
  <2>4. \A v \in Units, other \in Probes : HeaderHolds(v, other)'
    BY <1>4 DEF Create, HeaderInv, HeaderHolds, Holds, Registers, Knows, Registered
  <2> QED
    BY <1>1, <2>3, <2>4 DEF HeaderInv
<1>5. ASSUME UNCHANGED <<creators, word, made, begun>>
      PROVE  HeaderInv'
  BY <1>1, <1>5
  DEF HeaderInv, HeaderHolds, Holds, Registers, Knows, Registered, HeaderAnswers
<1>6. (\E u \in Units : Finish(u)) \/ Main \/ UNCHANGED vars =>
        UNCHANGED <<creators, word, made, begun>>
  BY DEF Finish, Main, vars
<1> QED
  BY <1>2, <1>3, <1>4, <1>5, <1>6 DEF Next

(* When no two headers share a factory, code that includes a header gets   *)
(* the classes of the header by their keys from its own initialisers on,   *)
(* however many units include it and in whatever order they are            *)
(* initialised.                                                            *)
THEOREM HeadersAnswer == Separate => (Spec => []HeaderAnswers)
<1> SUFFICES ASSUME Separate PROVE Spec => []HeaderAnswers
  OBVIOUS
<1>1. Init => HeaderInv
  BY DEF Init, HeaderInv, Shape, Words, HeaderHolds, HeaderAnswers
<1>2. HeaderInv /\ [Next]_vars => HeaderInv'
  BY FactoryAssumption, HeaderInvPreserved
<1>3. HeaderInv => HeaderAnswers
  BY DEF HeaderInv
<1> QED
  BY <1>1, <1>2, <1>3, PTL DEF Spec
=============================================================================
