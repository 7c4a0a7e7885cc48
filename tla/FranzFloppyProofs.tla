-------------------------- MODULE FranzFloppyProofs --------------------------
(***************************************************************************)
(* Proofs about FranzFloppy, for any positions, images, configurations and *)
(* bounds, whatever is lost and wherever a step pulse hits.                *)
(***************************************************************************)
EXTENDS FranzFloppy, TLAPS

(***************************************************************************)
(* Types                                                                   *)
(***************************************************************************)

LEMMA EventTypes ==
    ASSUME events \in 0..MaxEvents, Event
    PROVE  events' \in 0..MaxEvents
BY LimitsAssumption DEF Event

LEMMA RequestTypes ==
    ASSUME NEW pos \in Tracks, Request(pos)
    PROVE  /\ next' \in Tracks /\ sendTrackRequest' \in BOOLEAN
           /\ due' \in BOOLEAN /\ trackStreamedCount' \in 0..1
<1>1. sendTrackRequest' \in BOOLEAN /\ due' \in BOOLEAN
  BY DEF Request
<1>2. next' \in Tracks /\ trackStreamedCount' \in 0..1
  BY DEF Request
<1> QED
  BY <1>1, <1>2

LEMMA CountPulseTypes ==
    ASSUME FlagTypeOK, HeadTypeOK, CountPulse
    PROVE  sendFwVersion' \in BOOLEAN /\ indexCount' \in 0..(FwPulses - 1)
<1>1. indexCount' \in 0..(FwPulses - 1)
  BY LimitsAssumption DEF CountPulse, HeadTypeOK
<1>2. sendFwVersion' \in BOOLEAN
  BY DEF CountPulse, FlagTypeOK
<1> QED
  BY <1>1, <1>2

LEMMA LoadTypes ==
    ASSUME TypeOK, loop \in Packets, Load
    PROVE  /\ HeadTypeOK' /\ PacketTypeOK'
           /\ sendFwVersion' \in BOOLEAN /\ wrReady' \in BOOLEAN
           /\ sendTrackRequest' \in BOOLEAN /\ due' \in BOOLEAN
           /\ outputs' \in BOOLEAN /\ isDiskChanged' \in BOOLEAN
<1> USE DEF Load, TypeOK, headVars, cmdVars
<1>1. HeadTypeOK'
  BY DEF HeadTypeOK, Sections
<1>2. pkt' \in [atn: Packets \union {"none"}, left: 0..2]
  OBVIOUS
<1>3. idle' \in BOOLEAN /\ pkt'.atn # "none"
  BY DEF Packets
<1>4. PacketTypeOK'
  BY <1>2, <1>3 DEF PacketTypeOK
<1>5. sendFwVersion' \in BOOLEAN /\ wrReady' \in BOOLEAN
  BY DEF FlagTypeOK
<1>6. /\ sendTrackRequest' \in BOOLEAN /\ due' \in BOOLEAN
      /\ outputs' \in BOOLEAN /\ isDiskChanged' \in BOOLEAN
  BY DEF FlagTypeOK
<1> QED
  BY <1>1, <1>4, <1>5, <1>6

(* The SPI packet with another number of parts left to transfer.           *)
LEMMA PacketLeft ==
    ASSUME PacketTypeOK, NEW n \in 0..2
    PROVE  /\ [pkt EXCEPT !.left = n] \in [atn: Packets \union {"none"}, left: 0..2]
           /\ [pkt EXCEPT !.left = n].atn = pkt.atn
BY DEF PacketTypeOK

LEMMA PacketDoneTypes ==
    ASSUME PacketTypeOK, PacketDone
    PROVE  /\ pkt' \in [atn: Packets \union {"none"}, left: 0..2]
           /\ idle' /\ idle' \in BOOLEAN /\ receiving' \in BOOLEAN /\ core' = "poll"
<1>1. pkt' \in [atn: Packets \union {"none"}, left: 0..2]
  BY PacketLeft DEF PacketDone
<1>2. idle' /\ idle' \in BOOLEAN /\ receiving' \in BOOLEAN /\ core' = "poll"
  BY DEF PacketDone
<1> QED
  BY <1>1, <1>2

LEMMA InitTypes == ASSUME Init PROVE TypeOK
<1>1. HeadTypeOK
  BY PositionsAssumption, LimitsAssumption DEF Init, HeadTypeOK, Sections
<1>2. FlagTypeOK
  BY DEF Init, FlagTypeOK
<1>3. PacketTypeOK
  BY DEF Init, PacketTypeOK
<1>4. CoreTypeOK
  <2>1. events \in 0..MaxEvents
    BY LimitsAssumption DEF Init
  <2> QED
    BY <2>1 DEF Init, CoreTypeOK
<1> QED
  BY <1>1, <1>2, <1>3, <1>4 DEF TypeOK

(* The steps of the main loop, in the order of its sections.               *)
LEMMA LoopTypes == ASSUME TypeOK, Advance PROVE TypeOK'
<1> USE DEF TypeOK, headVars, pulseVars, spiVars, cmdVars, coreVars, eventVars
<1>1. CASE Top
  <2>1. receiving' \in BOOLEAN /\ outputs' \in BOOLEAN /\ due' \in BOOLEAN
    BY <1>1 DEF Top, FlagTypeOK
  <2> QED
    BY <1>1, <2>1 DEF Top, HeadTypeOK, FlagTypeOK, PacketTypeOK, CoreTypeOK, Sections
<1>2. CASE BeginFw
  <2>1. HeadTypeOK' /\ PacketTypeOK' /\ CoreTypeOK'
    BY <1>2 DEF BeginFw, HeadTypeOK, PacketTypeOK, CoreTypeOK, Sections
  <2>2. FlagTypeOK'
    BY <1>2 DEF BeginFw, FlagTypeOK
  <2> QED
    BY <2>1, <2>2
<1>3. CASE BeginTrack
  <2>1. HeadTypeOK' /\ PacketTypeOK' /\ CoreTypeOK'
    BY <1>3 DEF BeginTrack, HeadTypeOK, PacketTypeOK, CoreTypeOK, Sections
  <2>2. FlagTypeOK'
    BY <1>3 DEF BeginTrack, FlagTypeOK
  <2> QED
    BY <2>1, <2>2
<1>4. CASE StoreRequest
  <2>1. HeadTypeOK' /\ PacketTypeOK' /\ CoreTypeOK'
    BY <1>4 DEF StoreRequest, HeadTypeOK, PacketTypeOK, CoreTypeOK, Sections
  <2>2. FlagTypeOK'
    BY <1>4 DEF StoreRequest, FlagTypeOK
  <2> QED
    BY <2>1, <2>2
<1>5. CASE SameTrack
  <2>1. HeadTypeOK' /\ PacketTypeOK' /\ CoreTypeOK'
    BY <1>5 DEF SameTrack, HeadTypeOK, PacketTypeOK, CoreTypeOK, Sections
  <2>2. FlagTypeOK'
    BY <1>5 DEF SameTrack, FlagTypeOK
  <2> QED
    BY <2>1, <2>2
<1>6. CASE BeginWritten
  <2>1. HeadTypeOK' /\ PacketTypeOK' /\ CoreTypeOK'
    BY <1>6 DEF BeginWritten, HeadTypeOK, PacketTypeOK, CoreTypeOK, Sections
  <2>2. FlagTypeOK'
    BY <1>6 DEF BeginWritten, FlagTypeOK
  <2> QED
    BY <2>1, <2>2
<1>7. CASE NothingToArm
  <2>1. HeadTypeOK' /\ PacketTypeOK' /\ CoreTypeOK'
    BY <1>7 DEF NothingToArm, HeadTypeOK, PacketTypeOK, CoreTypeOK, Sections
  <2>2. FlagTypeOK'
    BY <1>7 DEF NothingToArm, FlagTypeOK
  <2> QED
    BY <2>1, <2>2
<1>8. CASE PacketArmed
  <2>1. Load /\ loop \in Packets /\ receiving' \in BOOLEAN /\ UNCHANGED <<coreVars, eventVars>>
    BY <1>8 DEF PacketArmed, Load, Packets, FlagTypeOK
  <2> QED
    BY <2>1, LoadTypes DEF FlagTypeOK, CoreTypeOK
<1>9. CASE PacketTimeout
  <2>1. /\ Load /\ loop \in Packets /\ receiving' \in BOOLEAN /\ UNCHANGED coreVars
        /\ Event /\ lost' \in BOOLEAN /\ torn' = torn
    BY <1>9 DEF PacketTimeout, Load, Packets
  <2>2. events' \in 0..MaxEvents
    BY <2>1, EventTypes DEF CoreTypeOK
  <2> QED
    BY <2>1, <2>2, LoadTypes DEF FlagTypeOK, CoreTypeOK
<1>10. CASE ProcessCommands
  <2>1. PacketTypeOK' /\ isDiskChanged' \in BOOLEAN
    BY <1>10 DEF ProcessCommands, PacketTypeOK, FlagTypeOK
  <2>2. HeadTypeOK' /\ sendTrackRequest' \in BOOLEAN /\ due' \in BOOLEAN
    <3>1. CASE cmdBuf.change = "on"
      <4>1. Request(now) /\ lastRequested' = Nothing
        BY <1>10, <3>1 DEF ProcessCommands
      <4>2. now \in Tracks
        BY DEF HeadTypeOK
      <4> QED
        BY <1>10, <4>1, <4>2, RequestTypes DEF ProcessCommands, HeadTypeOK, Sections
    <3>2. CASE cmdBuf.change # "on"
      BY <1>10, <3>2 DEF ProcessCommands, HeadTypeOK, FlagTypeOK, Sections
    <3> QED
      BY <3>1, <3>2
  <2> QED
    BY <1>10, <2>1, <2>2 DEF ProcessCommands, FlagTypeOK, CoreTypeOK
<1>11. CASE NoCommands
  BY <1>11 DEF NoCommands, HeadTypeOK, FlagTypeOK, PacketTypeOK, CoreTypeOK, Sections
<1>12. CASE IndexPulse
  <2>1. sendFwVersion' \in BOOLEAN /\ indexCount' \in 0..(FwPulses - 1)
    BY <1>12, CountPulseTypes DEF IndexPulse
  <2>2. /\ next' \in Tracks /\ sendTrackRequest' \in BOOLEAN
        /\ due' \in BOOLEAN /\ trackStreamedCount' \in 0..1
    <3>1. now \in Tracks
      BY DEF HeadTypeOK
    <3> QED
      BY <1>12, <3>1, RequestTypes DEF IndexPulse, HeadTypeOK, FlagTypeOK
  <2> QED
    BY <1>12, <2>1, <2>2
       DEF IndexPulse, HeadTypeOK, FlagTypeOK, PacketTypeOK, CoreTypeOK, Sections
<1>13. CASE NoIndexPulse
  BY <1>13 DEF NoIndexPulse, HeadTypeOK, FlagTypeOK, PacketTypeOK, CoreTypeOK, Sections
<1> QED
  BY <1>1, <1>2, <1>3, <1>4, <1>5, <1>6, <1>7, <1>8, <1>9, <1>10, <1>11, <1>12, <1>13
     DEF Advance

(* The steps of the core thread.                                           *)
LEMMA RpiTypes == ASSUME TypeOK, Rpi PROVE TypeOK'
<1> USE DEF TypeOK, headVars, pulseVars, cmdVars, eventVars
<1>1. CASE RpiHeader
  <2>1. pkt' \in [atn: Packets \union {"none"}, left: 0..2] /\ pkt'.atn = pkt.atn
    BY <1>1, PacketLeft DEF RpiHeader
  <2>2. core' \in {"poll"} \union Packets
    BY <1>1 DEF RpiHeader, PacketTypeOK, Packets
  <2> QED
    BY <1>1, <2>1, <2>2 DEF RpiHeader, HeadTypeOK, FlagTypeOK, PacketTypeOK, CoreTypeOK
<1>2. CASE RpiFwVersion
  <2>1. /\ pkt' \in [atn: Packets \union {"none"}, left: 0..2]
        /\ idle' /\ idle' \in BOOLEAN /\ receiving' \in BOOLEAN /\ core' = "poll"
    BY <1>2, PacketDoneTypes DEF RpiFwVersion
  <2>2. cmdBuf' \in [read: BOOLEAN, config: Configs \union {Nothing},
                     change: {"none", "on", "off"}]
    BY <1>2 DEF RpiFwVersion, PacketTypeOK, CoreTypeOK
  <2>3. /\ setFloppyConfig' \in BOOLEAN /\ diskChanged' \in BOOLEAN
        /\ setDiskChanged' \in BOOLEAN /\ franzHandledOnce' \in BOOLEAN
    BY <1>2 DEF RpiFwVersion, CoreTypeOK
  <2> QED
    BY <1>2, <2>1, <2>2, <2>3
       DEF RpiFwVersion, HeadTypeOK, FlagTypeOK, PacketTypeOK, CoreTypeOK
<1>3. CASE RpiSendTrack
  <2>1. /\ pkt' \in [atn: Packets \union {"none"}, left: 0..2]
        /\ idle' /\ idle' \in BOOLEAN /\ receiving' \in BOOLEAN /\ core' = "poll"
    BY <1>3, PacketDoneTypes DEF RpiSendTrack
  <2> QED
    BY <1>3, <2>1 DEF RpiSendTrack, HeadTypeOK, FlagTypeOK, PacketTypeOK, CoreTypeOK
<1>4. CASE RpiSectorWritten
  <2>1. /\ pkt' \in [atn: Packets \union {"none"}, left: 0..2]
        /\ idle' /\ idle' \in BOOLEAN /\ receiving' \in BOOLEAN /\ core' = "poll"
    BY <1>4, PacketDoneTypes DEF RpiSectorWritten
  <2> QED
    BY <1>4, <2>1 DEF RpiSectorWritten, HeadTypeOK, FlagTypeOK, PacketTypeOK, CoreTypeOK
<1> QED
  BY <1>1, <1>2, <1>3, <1>4 DEF Rpi

(* What the Atari and the user do, and the gate and sector marks.          *)
LEMMA OutsideTypes ==
    ASSUME TypeOK,
           \/ WriteGate \/ SectorMark
           \/ \E t \in Tracks : HeadMoves(t) \/ StepInStore(t)
           \/ \E side, t \in Tracks : StepInRequest(side, t)
           \/ \E i \in Images : ImageChanges(i)
           \/ \E c \in Configs : ConfigChanges(c)
    PROVE  TypeOK'
<1> USE DEF TypeOK, pulseVars, spiVars, cmdVars, coreVars, headVars, eventVars
<1>1. CASE WriteGate
  <2>1. events' \in 0..MaxEvents
    BY <1>1, EventTypes DEF WriteGate, CoreTypeOK
  <2> QED
    BY <1>1, <2>1 DEF WriteGate, HeadTypeOK, FlagTypeOK, PacketTypeOK, CoreTypeOK
<1>2. CASE SectorMark
  BY <1>2 DEF SectorMark, HeadTypeOK, FlagTypeOK, PacketTypeOK, CoreTypeOK
<1>3. ASSUME NEW t \in Tracks, HeadMoves(t) PROVE TypeOK'
  <2>1. events' \in 0..MaxEvents
    BY <1>3, EventTypes DEF HeadMoves, CoreTypeOK
  <2> QED
    BY <1>3, <2>1, RequestTypes DEF HeadMoves, HeadTypeOK, FlagTypeOK, PacketTypeOK, CoreTypeOK
<1>4. ASSUME NEW t \in Tracks, StepInStore(t) PROVE TypeOK'
  <2>1. events' \in 0..MaxEvents
    BY <1>4, EventTypes DEF StepInStore, CoreTypeOK
  <2> QED
    BY <1>4, <2>1, RequestTypes DEF StepInStore, HeadTypeOK, FlagTypeOK, PacketTypeOK, CoreTypeOK
<1>5. ASSUME NEW side \in Tracks, NEW t \in Tracks, StepInRequest(side, t) PROVE TypeOK'
  <2>1. events' \in 0..MaxEvents
    BY <1>5, EventTypes DEF StepInRequest, CoreTypeOK
  <2> QED
    BY <1>5, <2>1, RequestTypes DEF StepInRequest, HeadTypeOK, FlagTypeOK, PacketTypeOK, CoreTypeOK
<1>6. ASSUME NEW i \in Images, ImageChanges(i) PROVE TypeOK'
  <2>1. events' \in 0..MaxEvents
    BY <1>6, EventTypes DEF ImageChanges, CoreTypeOK
  <2> QED
    BY <1>6, <2>1 DEF ImageChanges, HeadTypeOK, FlagTypeOK, PacketTypeOK, CoreTypeOK
<1>7. ASSUME NEW c \in Configs, ConfigChanges(c) PROVE TypeOK'
  <2>1. events' \in 0..MaxEvents
    BY <1>7, EventTypes DEF ConfigChanges, CoreTypeOK
  <2> QED
    BY <1>7, <2>1 DEF ConfigChanges, HeadTypeOK, FlagTypeOK, PacketTypeOK, CoreTypeOK
<1> QED
  BY <1>1, <1>2, <1>3, <1>4, <1>5, <1>6, <1>7

(* The variables of the main loop, its interrupts and the core thread stay *)
(* in their types.                                                         *)
THEOREM FloppyTypeCorrect == Spec => []TypeOK
<1>1. TypeOK /\ [Next]_vars => TypeOK'
  <2> SUFFICES ASSUME TypeOK, [Next]_vars PROVE TypeOK'
    OBVIOUS
  <2>1. CASE Next
    BY <2>1, LoopTypes, RpiTypes, OutsideTypes DEF Next
  <2>2. CASE UNCHANGED vars
    BY <2>2 DEF vars, headVars, pulseVars, spiVars, cmdVars, coreVars, eventVars,
         TypeOK, HeadTypeOK, FlagTypeOK, PacketTypeOK, CoreTypeOK
  <2> QED
    BY <2>1, <2>2
<1> QED
  BY InitTypes, <1>1, PTL DEF Spec

(***************************************************************************)
(* The stream and the track data                                           *)
(***************************************************************************)

LEMMA InitStream == ASSUME Init PROVE StreamInv
BY DEF Init, StreamInv

LEMMA StreamStep == ASSUME TypeOK, StreamInv, Next PROVE StreamInv'
<1> USE DEF StreamInv, headVars, pulseVars, spiVars, cmdVars, coreVars, eventVars
(* The steps that set a flag or move on to the next section.               *)
<1>1. CASE Top
  <2>1. receiving \in BOOLEAN /\ sendTrackRequest \in BOOLEAN
    BY DEF TypeOK, FlagTypeOK
  <2>2. receiving' => ~outputs'
    BY <1>1, <2>1 DEF Top
  <2>3. due' => receiving'
    BY <1>1, <2>1 DEF Top
  <2>4. loop' \notin {"store", "track"} /\ pkt' = pkt /\ idle' = idle
    BY <1>1 DEF Top
  <2>5. receiving => receiving'
    BY <1>1 DEF Top
  <2> QED
    BY <2>2, <2>3, <2>4, <2>5
<1>2. CASE BeginFw
  BY <1>2 DEF BeginFw
<1>3. CASE BeginTrack
  BY <1>3 DEF BeginTrack, RequestDue
<1>4. CASE StoreRequest
  BY <1>4 DEF StoreRequest
<1>5. CASE SameTrack
  BY <1>5 DEF SameTrack
<1>6. CASE BeginWritten
  BY <1>6 DEF BeginWritten
<1>7. CASE NothingToArm
  BY <1>7 DEF NothingToArm
<1>8. CASE PacketArmed
  BY <1>8 DEF PacketArmed, Load
<1>9. CASE PacketTimeout
  BY <1>9 DEF PacketTimeout, Load
<1>10. CASE ProcessCommands
  BY <1>10 DEF ProcessCommands, Request
<1>11. CASE NoCommands
  BY <1>11 DEF NoCommands
<1>12. CASE IndexPulse
  BY <1>12 DEF IndexPulse, Request
<1>13. CASE NoIndexPulse
  BY <1>13 DEF NoIndexPulse
<1>14. CASE WriteGate \/ SectorMark
  BY <1>14 DEF WriteGate, SectorMark
(* The core thread takes a part of a packet, or ends it.                   *)
<1>15. CASE RpiHeader
  <2>1. pkt'.atn = pkt.atn
    BY <1>15, PacketLeft DEF RpiHeader, TypeOK
  <2> QED
    BY <1>15, <2>1 DEF RpiHeader
<1>16. CASE RpiFwVersion \/ RpiSendTrack \/ RpiSectorWritten
  BY <1>16 DEF RpiFwVersion, RpiSendTrack, RpiSectorWritten, PacketDone
(* The head moves; no request is due at once.                              *)
<1>17. CASE \E t \in Tracks : HeadMoves(t) \/ StepInStore(t)
  BY <1>17 DEF HeadMoves, StepInStore, Request
<1>18. CASE \E side, t \in Tracks : StepInRequest(side, t)
  BY <1>18 DEF StepInRequest, Request
<1>19. CASE (\E i \in Images : ImageChanges(i)) \/ (\E c \in Configs : ConfigChanges(c))
  BY <1>19 DEF ImageChanges, ConfigChanges
<1> QED
  BY <1>1, <1>2, <1>3, <1>4, <1>5, <1>6, <1>7, <1>8, <1>9, <1>10, <1>11, <1>12,
     <1>13, <1>14, <1>15, <1>16, <1>17, <1>18, <1>19 DEF Next, Advance, Rpi

(* A request is due only with the outputs off, and a track packet is only  *)
(* on its way while weAreReceivingTrack is set.                            *)
THEOREM StreamInvHolds == Spec => []StreamInv
<1>1. TypeOK /\ StreamInv /\ [Next]_vars => StreamInv'
  <2>1. ASSUME StreamInv, UNCHANGED vars PROVE StreamInv'
    BY <2>1 DEF StreamInv, vars, headVars, spiVars
  <2> QED
    BY <2>1, StreamStep
<1> QED
  BY InitStream, <1>1, FloppyTypeCorrect, PTL DEF Spec

(* While a track packet waits for the RPi or is transferred, the MFM       *)
(* outputs are off: the DMA interrupt, the step interrupt and the main     *)
(* loop agree on it.                                                       *)
THEOREM NoStreamWhileReceivingHolds == Spec => []NoStreamWhileReceiving
<1>1. StreamInv => NoStreamWhileReceiving
  BY DEF StreamInv, NoStreamWhileReceiving
<1> QED
  BY <1>1, StreamInvHolds, PTL

(***************************************************************************)
(* The track under the head                                                *)
(***************************************************************************)

(* A request is on its way to the RPi.                                     *)
OnItsWay == pkt.atn = "track" /\ ~idle

(* As long as no packet was dropped and no request torn: the position to   *)
(* request is the head's, and unless it still is to be requested, it is    *)
(* what was requested last; this is in the data, or its request is being   *)
(* made or on its way with that very position in the packet, from which    *)
(* the core thread reads it late.                                          *)
HeadInv ==
    ~lost /\ ~torn =>
        /\ next = now
        /\ sendTrackRequest \/ lastRequested = now
        /\ core # "poll" => pkt.atn = core /\ ~idle
        /\ loop = "store" => lastRequested = next
        /\ loop = "track" => reqPos = lastRequested
        /\ OnItsWay => reqPos = lastRequested \/ loop = "store" \/ lastRequested = Nothing
        /\ lastRequested # Nothing =>
              data.pos = lastRequested \/ loop \in {"store", "track"} \/ OnItsWay

LEMMA InitHead == ASSUME Init PROVE HeadInv
BY DEF Init, HeadInv, OnItsWay

LEMMA HeadStep == ASSUME TypeOK, HeadInv, Next PROVE HeadInv'
<1> USE DEF HeadInv, OnItsWay, headVars, pulseVars, spiVars, cmdVars, coreVars, eventVars
(* The steps of the main loop.                                             *)
<1>1. CASE Top
  BY <1>1 DEF Top
<1>2. CASE BeginFw
  BY <1>2 DEF BeginFw
<1>3. CASE BeginTrack
  BY <1>3 DEF BeginTrack, RequestDue
<1>4. CASE StoreRequest
  BY <1>4 DEF StoreRequest
<1>5. CASE SameTrack
  BY <1>5 DEF SameTrack, RequestDue
<1>6. CASE BeginWritten
  BY <1>6 DEF BeginWritten
<1>7. CASE NothingToArm
  BY <1>7 DEF NothingToArm
<1>8. CASE PacketArmed
  <2>1. pkt'.atn = loop /\ idle /\ ~idle' /\ loop \in {"fw", "track", "written"}
    BY <1>8 DEF PacketArmed, Load
  <2>2. /\ loop' = "cmds" /\ UNCHANGED <<headVars, reqPos, data, core, eventVars>>
    BY <1>8 DEF PacketArmed, Load
  <2> QED
    BY <2>1, <2>2
<1>9. CASE PacketTimeout
  BY <1>9 DEF PacketTimeout
<1>10. CASE ProcessCommands
  BY <1>10 DEF ProcessCommands, Request
<1>11. CASE NoCommands \/ NoIndexPulse
  BY <1>11 DEF NoCommands, NoIndexPulse
<1>12. CASE IndexPulse
  BY <1>12 DEF IndexPulse, Request
<1>13. CASE WriteGate \/ SectorMark
  BY <1>13 DEF WriteGate, SectorMark
(* The core thread takes the header, and later the position.               *)
<1>14. CASE RpiHeader
  <2>1. pkt'.atn = pkt.atn
    BY <1>14, PacketLeft DEF RpiHeader, TypeOK
  <2> QED
    BY <1>14, <2>1 DEF RpiHeader
<1>15. CASE RpiSendTrack
  <2>1. data'.pos = reqPos /\ idle' /\ core' = "poll"
    BY <1>15 DEF RpiSendTrack, PacketDone
  <2>2. core = "track" /\ UNCHANGED <<loop, headVars, reqPos, eventVars>>
    BY <1>15 DEF RpiSendTrack
  <2> QED
    BY <2>1, <2>2
<1>16. CASE RpiFwVersion \/ RpiSectorWritten
  <2>1. core \in {"fw", "written"} /\ idle' /\ core' = "poll"
    BY <1>16 DEF RpiFwVersion, RpiSectorWritten, PacketDone
  <2>2. UNCHANGED <<loop, headVars, reqPos, data, eventVars>>
    BY <1>16 DEF RpiFwVersion, RpiSectorWritten
  <2> QED
    BY <2>1, <2>2
(* The head moves, in a place where it tears a request or elsewhere.       *)
<1>17. CASE \E t \in Tracks : HeadMoves(t)
  BY <1>17 DEF HeadMoves, Request
<1>18. CASE \/ \E t \in Tracks : StepInStore(t)
            \/ \E side, t \in Tracks : StepInRequest(side, t)
  BY <1>18 DEF StepInStore, StepInRequest
<1>19. CASE (\E i \in Images : ImageChanges(i)) \/ (\E c \in Configs : ConfigChanges(c))
  BY <1>19 DEF ImageChanges, ConfigChanges
<1> QED
  BY <1>1, <1>2, <1>3, <1>4, <1>5, <1>6, <1>7, <1>8, <1>9, <1>10, <1>11, <1>12,
     <1>13, <1>14, <1>15, <1>16, <1>17, <1>18, <1>19 DEF Next, Advance, Rpi

(* Unless a packet was dropped or a request torn, the head's track is in   *)
(* the data, on its way, or still to be requested, at any time: what       *)
(* TrackCatchesUp needs besides fairness (ce_franz_fw/main.c, the request  *)
(* limiter; ccorethread.cpp, handleSendTrack()).                           *)
THEOREM HeadInvHolds == Spec => []HeadInv
<1>1. TypeOK /\ HeadInv /\ [Next]_vars => HeadInv'
  <2>1. ASSUME HeadInv, UNCHANGED vars PROVE HeadInv'
    BY <2>1 DEF HeadInv, OnItsWay, vars, headVars, spiVars, coreVars, eventVars
  <2> QED
    BY <2>1, HeadStep
<1> QED
  BY InitHead, <1>1, FloppyTypeCorrect, PTL DEF Spec

(* Only the top of the main loop enables the outputs.                      *)
LEMMA OnlyTopEnables == ASSUME Next, outputs' # outputs PROVE Top
<1> USE DEF headVars, pulseVars, spiVars, cmdVars, coreVars, eventVars
<1>1. ASSUME Advance PROVE Top
  BY <1>1 DEF Advance, BeginFw, BeginTrack, StoreRequest, SameTrack, BeginWritten,
     NothingToArm, PacketArmed, PacketTimeout, Load, ProcessCommands, NoCommands,
     IndexPulse, NoIndexPulse
<1>2. Advance
  BY DEF Next, WriteGate, SectorMark, Rpi, RpiHeader, RpiFwVersion, RpiSendTrack,
     RpiSectorWritten, HeadMoves, StepInStore, StepInRequest, ImageChanges, ConfigChanges
<1> QED
  BY <1>1, <1>2

(* The outputs are only ever enabled with the track that is under the      *)
(* head, wherever its steps, the disk changes and the transfers meet the   *)
(* main loop, unless a packet was dropped or a request torn.               *)
THEOREM StreamsTheHeadsTrackHolds == Spec => StreamsTheHeadsTrack
<1>1. ASSUME TypeOK, StreamInv, HeadInv, Next, outputs', ~outputs
      PROVE  data.pos = now \/ lost \/ torn
  <2>1. loop = "top" /\ ~receiving /\ ~sendTrackRequest
    <3>1. Top
      BY <1>1, OnlyTopEnables
    <3>2. receiving' = (receiving \/ sendTrackRequest) /\ outputs' \in {FALSE, ~receiving'}
      BY <3>1 DEF Top
    <3>3. ~(receiving \/ sendTrackRequest)
      BY <1>1, <3>2
    <3> QED
      BY <3>1, <3>3 DEF Top
  <2>2. now # Nothing
    BY <1>1, PositionsAssumption DEF TypeOK, HeadTypeOK
  <2>3. ~OnItsWay
    BY <1>1, <2>1 DEF StreamInv, OnItsWay
  <2> QED
    BY <1>1, <2>1, <2>2, <2>3 DEF HeadInv
<1>2. TypeOK /\ StreamInv /\ HeadInv /\ [Next]_vars
        => [outputs' /\ ~outputs => data.pos = now \/ lost \/ torn]_vars
  BY <1>1
<1> QED
  BY <1>2, FloppyTypeCorrect, StreamInvHolds, HeadInvHolds, PTL DEF Spec, StreamsTheHeadsTrack
=============================================================================
