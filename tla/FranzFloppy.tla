----------------------------- MODULE FranzFloppy -----------------------------
(***************************************************************************)
(* Franz emulates a floppy drive with tracks it gets from the Raspberry Pi: *)
(*                                                                         *)
(*   Franz    main(), its interrupts and spiDma_txRx(), ce_franz_fw/main.c *)
(*   RPi      CCoreThread::run(), handleFwVersion_franz(),                 *)
(*            handleSendTrack() and handleSectorWritten(), ce_main_app     *)
(*                                                                         *)
(* The Atari's step pulses come in an interrupt, at any place of the main  *)
(* loop.  A position of the head is a track and a side; its structure does *)
(* not matter here.  The variable spiDmaIsIdle that main() tests is a local *)
(* one, always TRUE, which hides the global one the interrupts set: the    *)
(* loop arms a packet, and looks into cmdBuffer[], at any time.            *)
(***************************************************************************)
EXTENDS Naturals

CONSTANTS
    Tracks,     \* positions of the head
    Start,      \* track 0, side 0
    Images,     \* contents of the current slot
    Configs,    \* floppy configurations (drive ID, enabled, write protect)
    Nothing,    \* no position, image or configuration
    AtariWrites, \* does the Atari write sectors?
    FwPulses,   \* every how many index pulses the firmware version is sent (5)
    MayLose,    \* may a packet be dropped by a timeout?
    MayTear,    \* may a step pulse hit the main loop half way in a request?
    MaxEvents   \* bound: moves, writes, lost packets, new images and configurations

ASSUME PositionsAssumption ==
    /\ Start \in Tracks
    /\ Nothing \notin Tracks \union Images \union Configs

ASSUME LimitsAssumption ==
    /\ MaxEvents \in Nat /\ FwPulses \in Nat \ {0}
    /\ AtariWrites \in BOOLEAN /\ MayLose \in BOOLEAN /\ MayTear \in BOOLEAN

VARIABLES
    loop,           \* the section of the main loop Franz is in
    now, next,      \* position of the head, and the position to request
    lastRequested,  \* the same track request limiter
    sendTrackRequest, sendFwVersion,
    due,            \* in this iteration: 15 ms passed since the request was created
    streamed,       \* the position of the last sector mark that was streamed
    trackStreamedCount, \* counted up to 1: the next pulse makes it 2
    indexCount,     \* index pulses since the last firmware version
    receiving,      \* outFlags.weAreReceivingTrack
    outputs,        \* outFlags.outputsAreEnabled
    wrReady,        \* wrNow->readyToSend
    idle,           \* the global spiDmaIsIdle
    pkt,            \* the packet in the DMA channels: [atn, left]
    reqPos,         \* atnSendTrackRequest[4]
    data,           \* readTrackData[]: [pos, img]
    cmdBuf,         \* cmdBuffer[]: [read, config, change]
    isDiskChanged,
    config,         \* driveId, driveEnabled, isWriteProtected
    core,           \* the core thread: "poll", or the packet it serves
    floppyConfig, setFloppyConfig, diskChanged, setDiskChanged,
    franzHandledOnce,
    img,            \* what the current image slot holds
    events,         \* events so far
    lost, torn      \* ghosts: a packet was lost, a request was torn

headVars == <<now, next, lastRequested, sendTrackRequest, due>>
pulseVars == <<streamed, trackStreamedCount, sendFwVersion, indexCount>>
spiVars  == <<idle, pkt, reqPos, data>>
cmdVars  == <<cmdBuf, isDiskChanged, config>>
coreVars == <<core, floppyConfig, setFloppyConfig, diskChanged,
              setDiskChanged, franzHandledOnce, img>>
eventVars == <<events, lost, torn>>
vars == <<loop, headVars, pulseVars, receiving, outputs, spiVars, wrReady,
          cmdVars, coreVars, eventVars>>

Init ==
    /\ loop = "top"
    /\ now = Start /\ next = Start /\ lastRequested = Nothing
    /\ sendTrackRequest = TRUE /\ due = FALSE
    /\ streamed = Nothing /\ trackStreamedCount = 0 /\ sendFwVersion = FALSE
    /\ indexCount = 0
    /\ receiving = FALSE /\ outputs = FALSE
    /\ wrReady = FALSE
    /\ idle = TRUE /\ pkt = [atn |-> "none", left |-> 0]
    /\ reqPos = Start
    /\ data = [pos |-> Nothing, img |-> Nothing]
    /\ cmdBuf = [read |-> FALSE, config |-> Nothing, change |-> "none"]
    /\ isDiskChanged = FALSE /\ config = Nothing
    /\ core = "poll"
    /\ floppyConfig \in Configs /\ setFloppyConfig = TRUE
    /\ diskChanged = FALSE /\ setDiskChanged = FALSE
    /\ franzHandledOnce = FALSE
    /\ img \in Images
    /\ events = 0 /\ lost = FALSE /\ torn = FALSE

(* One of the bounded events.                                              *)
Event == events < MaxEvents /\ events' = events + 1

(***************************************************************************)
(* Requests for a track                                                    *)
(***************************************************************************)

(* REQUEST_TRACK *)
Request(pos) ==
    /\ next' = pos
    /\ sendTrackRequest' = TRUE
    /\ due' = FALSE
    /\ trackStreamedCount' = 0

(* A step pulse (EXTI3_IRQHandler()) or a new side (the main loop).        *)
HeadMoves(t) ==
    /\ t # now /\ loop # "store"
    /\ now' = t /\ Request(t)
    /\ Event /\ UNCHANGED <<lost, torn>>
    /\ UNCHANGED <<loop, lastRequested, streamed, sendFwVersion, indexCount, receiving,
                   outputs, spiVars, wrReady, cmdVars, coreVars>>

(* A step pulse between the limiter and the request's packet.              *)
StepInStore(t) ==
    /\ t # now /\ loop = "store"
    /\ now' = t /\ Request(t)
    /\ MayTear /\ Event /\ torn' = TRUE /\ UNCHANGED lost
    /\ UNCHANGED <<loop, lastRequested, streamed, sendFwVersion, indexCount, receiving,
                   outputs, spiVars, wrReady, cmdVars, coreVars>>

(* A step pulse inside the main loop's own REQUEST_TRACK, for a new side:  *)
(* it has loaded now.track and stores it after the interrupt.              *)
StepInRequest(side, t) ==
    /\ t # side /\ loop = "index"
    /\ now' = t /\ Request(side)
    /\ MayTear /\ Event /\ torn' = TRUE /\ UNCHANGED lost
    /\ UNCHANGED <<loop, lastRequested, streamed, sendFwVersion, indexCount, receiving,
                   outputs, spiVars, wrReady, cmdVars, coreVars>>

(***************************************************************************)
(* The main loop                                                           *)
(***************************************************************************)

(* Mutant: a request that was not sent yet does not stop the stream.       *)
TopNotReceiving ==
    /\ loop = "top"
    /\ outputs' \in {FALSE, ~receiving}
    /\ due' \in {FALSE, sendTrackRequest}
    /\ loop' = "arm"
    /\ UNCHANGED <<now, next, lastRequested, sendTrackRequest, pulseVars,
                   receiving, spiVars, wrReady, cmdVars, coreVars, eventVars>>

(* The outputs are enabled when the ST wants the stream and no track is on *)
(* its way.                                                                *)
Top ==
    /\ loop = "top"
    /\ receiving' = (receiving \/ sendTrackRequest)
    /\ outputs' \in {FALSE, ~receiving'}
    /\ due' \in {FALSE, sendTrackRequest}
    /\ loop' = "arm"
    /\ UNCHANGED <<now, next, lastRequested, sendTrackRequest, pulseVars,
                   spiVars, wrReady, cmdVars, coreVars, eventVars>>

(* Mutant: the disk change is not taken down.                              *)
BeginFwHoldsChange ==
    /\ loop = "arm" /\ sendFwVersion
    /\ loop' = "fw"
    /\ due' = FALSE
    /\ UNCHANGED <<now, next, lastRequested, sendTrackRequest, pulseVars, receiving, outputs, spiVars, wrReady,
                   cmdVars, coreVars, eventVars>>

(* A firmware version packet, the window for the host's commands.          *)
BeginFw ==
    /\ loop = "arm" /\ sendFwVersion
    /\ isDiskChanged' = FALSE
    /\ loop' = "fw"
    /\ due' = FALSE
    /\ UNCHANGED <<now, next, lastRequested, sendTrackRequest, pulseVars, receiving, outputs, spiVars, wrReady,
                   cmdBuf, config, coreVars, eventVars>>

RequestDue == loop = "arm" /\ ~sendFwVersion /\ sendTrackRequest /\ due

BeginTrack ==
    /\ RequestDue
    /\ next # lastRequested
    /\ lastRequested' = next
    /\ sendTrackRequest' = FALSE
    /\ loop' = "store"
    /\ due' = FALSE
    /\ UNCHANGED <<now, next, pulseVars, receiving, outputs, spiVars,
                   wrReady, cmdVars, coreVars, eventVars>>

(* Mutant: the position is not put into the packet.                        *)
StoreRequestOldPosition ==
    /\ loop = "store"
    /\ loop' = "track"
    /\ UNCHANGED <<headVars, pulseVars, receiving, outputs, spiVars, wrReady,
                   cmdVars, coreVars, eventVars>>

(* The position is put into the packet.                                    *)
StoreRequest ==
    /\ loop = "store"
    /\ reqPos' = next
    /\ loop' = "track"
    /\ UNCHANGED <<headVars, pulseVars, receiving, outputs, idle, pkt, data,
                   wrReady, cmdVars, coreVars, eventVars>>

(* The same track request limiter.                                         *)
SameTrack ==
    /\ RequestDue
    /\ next = lastRequested
    /\ sendTrackRequest' = FALSE
    /\ loop' = "cmds"
    /\ due' = FALSE
    /\ UNCHANGED <<now, next, lastRequested, pulseVars, receiving, outputs,
                   spiVars, wrReady, cmdVars, coreVars, eventVars>>

BeginWritten ==
    /\ loop = "arm" /\ ~sendFwVersion /\ ~sendTrackRequest /\ wrReady
    /\ loop' = "written"
    /\ due' = FALSE
    /\ UNCHANGED <<now, next, lastRequested, sendTrackRequest, pulseVars, receiving, outputs, spiVars, wrReady,
                   cmdVars, coreVars, eventVars>>

NothingToArm ==
    /\ loop = "arm" /\ ~sendFwVersion
    /\ IF sendTrackRequest THEN ~due ELSE ~wrReady
    /\ loop' = "cmds"
    /\ due' = FALSE
    /\ UNCHANGED <<now, next, lastRequested, sendTrackRequest, pulseVars, receiving, outputs, spiVars, wrReady,
                   cmdVars, coreVars, eventVars>>

(* The end of spiDma_txRx() and of the section that called it.             *)
Load ==
    /\ pkt' = [atn |-> loop, left |-> 2]
    /\ idle' = FALSE
    /\ sendFwVersion' = (sendFwVersion /\ loop # "fw")
    /\ wrReady' = (wrReady /\ loop # "written")
    /\ loop' = "cmds"
    /\ UNCHANGED <<headVars, streamed, trackStreamedCount, indexCount, outputs, reqPos,
                   data, cmdVars, coreVars>>

(* Mutant: nobody marks that a track is received once it was requested.    *)
PacketArmedNotReceiving ==
    /\ loop \in {"fw", "track", "written"} /\ idle
    /\ Load
    /\ UNCHANGED <<receiving, eventVars>>

(* spiDma_txRx(): the previous packet was transferred.                     *)
PacketArmed ==
    /\ loop \in {"fw", "track", "written"} /\ idle
    /\ receiving' = (receiving \/ loop = "track")
    /\ Load
    /\ UNCHANGED eventVars

(* spiDma_waitForFinish(): the host did not take the previous packet in    *)
(* time, it is dropped.                                                    *)
PacketTimeout ==
    /\ loop \in {"fw", "track", "written"} /\ ~idle /\ pkt.left = 2
    /\ receiving' = (loop = "track")
    /\ Load
    /\ MayLose /\ Event /\ lost' = TRUE /\ UNCHANGED torn

(* The commands in cmdBuffer[], if it is not marked as read.  The packet   *)
(* that clears the mark may still be on its way.                           *)
ProcessCommands ==
    /\ loop = "cmds" /\ ~cmdBuf.read
    /\ cmdBuf' = [cmdBuf EXCEPT !.read = TRUE]
    /\ config' = IF cmdBuf.config = Nothing THEN config ELSE cmdBuf.config
    /\ isDiskChanged' = CASE cmdBuf.change = "on"  -> TRUE
                          [] cmdBuf.change = "off" -> FALSE
                          [] OTHER                 -> isDiskChanged
    /\ IF cmdBuf.change = "on"
         THEN Request(now) /\ lastRequested' = Nothing
         ELSE UNCHANGED <<next, sendTrackRequest, due, trackStreamedCount, lastRequested>>
    /\ loop' = "index"
    /\ UNCHANGED <<now, streamed, sendFwVersion, indexCount, receiving, outputs, spiVars,
                   wrReady, coreVars, eventVars>>

NoCommands ==
    /\ loop = "cmds" /\ cmdBuf.read
    /\ loop' = "index"
    /\ UNCHANGED <<headVars, pulseVars, receiving, outputs, spiVars, wrReady,
                   cmdVars, coreVars, eventVars>>

(* WGATE falls, the buffer is not to be sent yet, or rises: a sector was   *)
(* written.                                                                *)
WriteGate ==
    /\ loop = "index" /\ AtariWrites
    /\ wrReady' = ~wrReady
    /\ IF wrReady THEN UNCHANGED events ELSE Event
    /\ UNCHANGED <<loop, headVars, pulseVars, receiving, outputs, spiVars,
                   cmdVars, coreVars, lost, torn>>

(* getNextMFMbyte() passes a sector mark of the track data.                *)
SectorMark ==
    /\ loop = "index" /\ data.pos # Nothing
    /\ streamed' = data.pos
    /\ UNCHANGED <<loop, headVars, trackStreamedCount, sendFwVersion, indexCount, receiving,
                   outputs, spiVars, wrReady, cmdVars, coreVars, eventVars>>

(* Every FwPulses-th index pulse sends the firmware version.               *)
CountPulse ==
    /\ indexCount' = (indexCount + 1) % FwPulses
    /\ sendFwVersion' = (sendFwVersion \/ indexCount' = 0)

(* Mutant: the track is not requested again after two rotations.           *)
IndexPulseNoRequest ==
    /\ loop = "index"
    /\ trackStreamedCount' = 1
    /\ UNCHANGED <<next, sendTrackRequest, due>>
    /\ streamed' = Nothing
    /\ CountPulse
    /\ loop' = "top"
    /\ UNCHANGED <<now, lastRequested, receiving, outputs, spiVars, wrReady,
                   cmdVars, coreVars, eventVars>>

(* The index pulse, once a rotation.                                       *)
IndexPulse ==
    /\ loop = "index"
    /\ IF trackStreamedCount = 1 /\ streamed # now
         THEN Request(now)
         ELSE /\ trackStreamedCount' = 1
              /\ UNCHANGED <<next, sendTrackRequest, due>>
    /\ streamed' = Nothing
    /\ CountPulse
    /\ loop' = "top"
    /\ UNCHANGED <<now, lastRequested, receiving, outputs, spiVars, wrReady,
                   cmdVars, coreVars, eventVars>>

NoIndexPulse ==
    /\ loop = "index"
    /\ loop' = "top"
    /\ UNCHANGED <<headVars, pulseVars, receiving, outputs, spiVars, wrReady,
                   cmdVars, coreVars, eventVars>>

(***************************************************************************)
(* The core thread of the RPi                                              *)
(***************************************************************************)

(* waitForATN(): the header.  Zeros go the other way, over the mark at the *)
(* start of cmdBuffer[], but not yet over the last packet's commands.      *)
RpiHeader ==
    /\ core = "poll" /\ ~idle /\ pkt.left = 2
    /\ pkt' = [pkt EXCEPT !.left = 1]
    /\ core' = pkt.atn
    /\ cmdBuf' = [cmdBuf EXCEPT !.read = @ /\ pkt.atn # "fw"]
    /\ UNCHANGED <<loop, headVars, pulseVars, receiving, outputs, idle, reqPos,
                   data, wrReady, isDiskChanged, config, floppyConfig,
                   setFloppyConfig, diskChanged, setDiskChanged,
                   franzHandledOnce, img, eventVars>>

(* Mutant: only the end of a track packet ends the receiving.              *)
PacketDoneTrackOnly ==
    /\ pkt' = [pkt EXCEPT !.left = 0]
    /\ idle' = TRUE
    /\ receiving' = (receiving /\ pkt.atn # "track")
    /\ core' = "poll"

(* The rest is transferred: the DMA interrupts.                            *)
PacketDone ==
    /\ pkt' = [pkt EXCEPT !.left = 0]
    /\ idle' = TRUE
    /\ receiving' = FALSE
    /\ core' = "poll"

(* handleFwVersion_franz().                                                *)
RpiFwVersion ==
    /\ core = "fw"
    /\ cmdBuf' =
         [cmdBuf EXCEPT
            !.config = IF franzHandledOnce /\ setFloppyConfig THEN floppyConfig ELSE Nothing,
            !.change = IF franzHandledOnce /\ setDiskChanged
                         THEN IF diskChanged THEN "on" ELSE "off"
                         ELSE "none"]
    /\ setFloppyConfig' = (setFloppyConfig /\ ~franzHandledOnce)
    /\ diskChanged' = (diskChanged /\ ~(franzHandledOnce /\ setDiskChanged))
    /\ setDiskChanged' = (setDiskChanged /\ (diskChanged \/ ~franzHandledOnce))
    /\ franzHandledOnce' = TRUE
    /\ PacketDone
    /\ UNCHANGED <<loop, headVars, pulseVars, outputs, reqPos, data, wrReady,
                   isDiskChanged, config, floppyConfig, img, eventVars>>

(* handleSendTrack(): the position is read from the packet just now.       *)
RpiSendTrack ==
    /\ core = "track"
    /\ data' = [pos |-> reqPos, img |-> img]
    /\ PacketDone
    /\ UNCHANGED <<loop, headVars, pulseVars, outputs, reqPos, wrReady, cmdVars,
                   floppyConfig, setFloppyConfig, diskChanged, setDiskChanged,
                   franzHandledOnce, img, eventVars>>

(* handleSectorWritten(): the data are read and dropped.                   *)
RpiSectorWritten ==
    /\ core = "written"
    /\ PacketDone
    /\ UNCHANGED <<loop, headVars, pulseVars, outputs, reqPos, data, wrReady,
                   cmdVars, floppyConfig, setFloppyConfig, diskChanged,
                   setDiskChanged, franzHandledOnce, img, eventVars>>

(* handleFwVersion_hans(): another slot is current, or its content is new. *)
ImageChanges(i) ==
    /\ core = "poll"
    /\ img' = i /\ diskChanged' = TRUE /\ setDiskChanged' = TRUE
    /\ Event /\ UNCHANGED <<lost, torn>>
    /\ UNCHANGED <<loop, headVars, pulseVars, receiving, outputs, spiVars,
                   wrReady, cmdVars, core, floppyConfig, setFloppyConfig,
                   franzHandledOnce>>

(* reloadSettings(SETTINGSUSER_FLOPPYCONF).                                *)
ConfigChanges(c) ==
    /\ core = "poll"
    /\ floppyConfig' = c /\ setFloppyConfig' = TRUE
    /\ Event /\ UNCHANGED <<lost, torn>>
    /\ UNCHANGED <<loop, headVars, pulseVars, receiving, outputs, spiVars,
                   wrReady, cmdVars, core, diskChanged, setDiskChanged,
                   franzHandledOnce, img>>

-----------------------------------------------------------------------------

(* What carries the main loop from one section to the next.                *)
Advance ==
    \/ Top \/ BeginFw \/ BeginTrack \/ StoreRequest \/ SameTrack
    \/ BeginWritten \/ NothingToArm \/ PacketArmed \/ PacketTimeout
    \/ ProcessCommands \/ NoCommands \/ IndexPulse \/ NoIndexPulse

Rpi == RpiHeader \/ RpiFwVersion \/ RpiSendTrack \/ RpiSectorWritten

Next ==
    \/ Advance \/ WriteGate \/ SectorMark \/ Rpi
    \/ \E t \in Tracks : HeadMoves(t) \/ StepInStore(t)
    \/ \E side, t \in Tracks : StepInRequest(side, t)
    \/ \E i \in Images : ImageChanges(i)
    \/ \E c \in Configs : ConfigChanges(c)

Spec == Init /\ [][Next]_vars

(* The main loop and the core thread go on; the floppy rotates and each    *)
(* index pulse comes, but not in every iteration: a pulse takes      *)
(* 200 ms, a request is due after 15 ms.                                   *)
Fairness ==
    /\ WF_vars(Advance)
    /\ WF_vars(Rpi)
    /\ SF_vars(IndexPulse)
    /\ SF_vars(NoIndexPulse /\ ~sendFwVersion)
    /\ SF_vars(Top /\ due' /\ ~sendFwVersion)

FairSpec == Spec /\ Fairness

-----------------------------------------------------------------------------
(* Properties *)

Sections == {"top", "arm", "fw", "store", "track", "written", "cmds", "index"}
Packets  == {"fw", "track", "written"}

HeadTypeOK ==
    /\ loop \in Sections
    /\ now \in Tracks /\ next \in Tracks /\ reqPos \in Tracks
    /\ lastRequested \in Tracks \union {Nothing}
    /\ streamed \in Tracks \union {Nothing}
    /\ trackStreamedCount \in 0..1 /\ indexCount \in 0..(FwPulses - 1)

FlagTypeOK ==
    /\ sendTrackRequest \in BOOLEAN /\ sendFwVersion \in BOOLEAN /\ due \in BOOLEAN
    /\ receiving \in BOOLEAN /\ outputs \in BOOLEAN
    /\ wrReady \in BOOLEAN /\ isDiskChanged \in BOOLEAN

PacketTypeOK ==
    /\ idle \in BOOLEAN
    /\ pkt \in [atn: Packets \union {"none"}, left: 0..2]
    /\ pkt.atn = "none" => idle
    /\ data \in [pos: Tracks \union {Nothing}, img: Images \union {Nothing}]
    /\ cmdBuf \in [read: BOOLEAN, config: Configs \union {Nothing},
                   change: {"none", "on", "off"}]
    /\ config \in Configs \union {Nothing}

CoreTypeOK ==
    /\ core \in {"poll"} \union Packets
    /\ floppyConfig \in Configs /\ img \in Images
    /\ setFloppyConfig \in BOOLEAN /\ diskChanged \in BOOLEAN
    /\ setDiskChanged \in BOOLEAN /\ franzHandledOnce \in BOOLEAN
    /\ events \in 0..MaxEvents /\ lost \in BOOLEAN /\ torn \in BOOLEAN

(* The variables stay in their types.                                      *)
TypeOK == HeadTypeOK /\ FlagTypeOK /\ PacketTypeOK /\ CoreTypeOK

(* main.c: "mark that we are receiving TRACK data, and thus shouldn't      *)
(* stream": from the moment a track request is armed until its data have   *)
(* arrived, or it was given up, the outputs are off.                       *)
NoStreamWhileReceiving == pkt.atn = "track" /\ ~idle => ~outputs

(* Why, as an inductive invariant: a request is only due in an iteration   *)
(* that began with the outputs off, and stays so until it is armed.        *)
StreamInv ==
    /\ receiving \/ due \/ loop \in {"store", "track"} => ~outputs
    /\ pkt.atn = "track" /\ ~idle => receiving

(* Unless a packet was dropped or a step pulse hit a request half way, the *)
(* outputs are only ever enabled with the track that is under the head.    *)
StreamsTheHeadsTrack ==
    [][outputs' /\ ~outputs => data.pos = now \/ lost \/ torn]_vars

(* The stream is never off for good: whoever set weAreReceivingTrack, with *)
(* a packet to follow or (the limiter) without one, it is taken back.      *)
StreamResumes == receiving ~> ~receiving

(* Once the head rests, Franz has the track under it or has asked for it,  *)
(* even when a step pulse hit a request half way: the request is repeated  *)
(* after two rotations.                                                    *)
AsksForTheHead == <>[](data.pos = now \/ lastRequested = now)

(* Once the head rests, Franz gets the track under it, unless a packet was *)
(* dropped or a step pulse hit a request half way.                         *)
TrackCatchesUp == <>[](data.pos = now) \/ <>(lost \/ torn)

(* ccorethread.cpp: "tell Franz that floppy changed": in the end Franz     *)
(* streams the image that is in the current slot.                          *)
ImageCatchesUp == <>[](data.img = img)

(* A disk change is a pulse: the pin does not stay in the changed state,   *)
(* where the write protect pin is inverted.                                *)
DiskChangeReleased == isDiskChanged ~> ~isDiskChanged
=============================================================================
