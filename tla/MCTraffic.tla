----------------------------- MODULE MCTraffic -----------------------------
(* Instances of Traffic for TLC.                                           *)
EXTENDS Traffic

BodyClass(m) == Lib!ContentOf(m).body[1]
Body(m)      == Lib!ContentOf(m).body[2]

(* Frames to send in a row that patch nothing, with strings and lists      *)
(* inside.                                                                 *)
MCBatch ==
  {m \in Frames("bjse") :
     /\ Lib!ContentOf(m).bodyLength = 7
     /\ \/ BodyClass(m) = "ReportSynchronization"
        \/ BodyClass(m) = "Logon" /\ Body(m).heartBtInt = 7}

(* The same with a patched length and with strings.                        *)
MCRiskBatch ==
  {m \in Frames("rc") :
     BodyClass(m) \in {"RiskResult", "CancelReject"} /\ Lib!ContentOf(m).version = 7}

(* Frames whose bodies writer_index() counts completely.                   *)
MCStatusBatch ==
  {m \in Frames("sse") : BodyClass(m) \in {"Heartbeat", "PlatformState"}}

ContentsOf(messages) == {TrafficPromised(m) : m \in messages}

MCCatalogueContents == ContentsOf(Catalogue)
MCRiskBatchContents == ContentsOf(MCRiskBatch)

(* One message of the catalogue at a time, or several of the same batch.   *)
MCBatchContents       == ContentsOf(MCBatch)
MCStatusBatchContents == ContentsOf(MCStatusBatch)

AllIn(s, contents) == \A i \in DOMAIN s : s[i].value \in contents

MCFollows(s, m) ==
  \/ s = <<>>
  \/ m \in MCBatch /\ AllIn(s, MCBatchContents)
  \/ m \in MCStatusBatch /\ AllIn(s, MCStatusBatchContents)

MCAnyFollows(s, m) == TRUE

(* What SessionProofs assume of a codec, for the frames that patch nothing,*)
(* in the buffer as it is, whatever was encoded into it before, lost from  *)
(* it, read from it or refused: their sender could append them to it, and  *)
(* their receiver finds the ones that begin at its cursor.                 *)
BatchIsSelfContained == \A m \in MCBatch : SelfContained(m, buf)

(* What ReceiverProofs assume of a table of classes and of its frame, for  *)
(* the five that there are.  A class is of as many levels as one more than *)
(* the classes of the objects inside its objects; so it has a depth.       *)
RECURSIVE OfLevels(_, _)
OfLevels(protocol, levels) ==
  LET Table == INSTANCE Layout WITH Classes <- Lib!Classes[protocol]
      below == IF levels = 0 THEN {} ELSE OfLevels(protocol, levels - 1)
  IN  {class \in DOMAIN Lib!Classes[protocol] :
         levels > 0 /\ Table!ClassesInside(class) \subseteq below}

IsTable(protocol) ==
  LET classes == Lib!Classes[protocol]
      Table   == INSTANCE Layout WITH Classes <- classes
  IN  /\ \A class \in DOMAIN classes : Table!IsLayout(classes[class])
      /\ OfLevels(protocol, 4) = DOMAIN classes
      /\ Table!IsFrame(classes[Lib!FrameOf[protocol]])

ASSUME TablesAssumption == \A protocol \in Lib!Protocols : IsTable(protocol)

(* What ReceiverProofs say of frames that patch their length is about the  *)
(* four that do: the length is an integer behind the header, the body is   *)
(* next, and the header is written as the layout says.                     *)
LengthPlace == [rc |-> 3, sse |-> 3, szse |-> 2, root |-> 2]

Header(m) ==
  CASE Lib!ProtocolOf(m) = "rc"   -> Lib!Rc!HeaderRcBinary(Lib!ContentOf(m))
    [] Lib!ProtocolOf(m) = "sse"  -> Lib!Sse!HeaderSseBinary(Lib!ContentOf(m))
    [] Lib!ProtocolOf(m) = "szse" -> Lib!Szse!HeaderSzseBinary(Lib!ContentOf(m))
    [] Lib!ProtocolOf(m) = "root" -> Lib!Root!HeaderRootPacket(Lib!ContentOf(m))

IsPatchedFrame(protocol) ==
  LET classes == Lib!Classes[protocol]
      layout  == classes[Lib!FrameOf[protocol]]
      k       == LengthPlace[protocol]
      Codec   == INSTANCE Wire WITH Classes <- classes
  IN  /\ layout[k][1] = LengthField[protocol] /\ layout[k][2] = Codec!U32
      /\ layout[k + 1][2].kind = "dynamic"
      /\ Len(layout) = k + (IF protocol = "rc" THEN 1 ELSE 2)
      /\ Len(layout) = k + 2 => layout[k + 2][2].kind = "int" /\ layout[k + 2][2].width = 4
      /\ \A m \in Frames(protocol) :
           Header(m) = Counted(Codec!Writer!PutFields(SubSeq(layout, 1, k - 1), Lib!ContentOf(m)).bytes)

ASSUME FramesAssumption == \A protocol \in DOMAIN LengthPlace : IsPatchedFrame(protocol)
=============================================================================
