---------------------------- MODULE FloppyImages ----------------------------
(***************************************************************************)
(* From the floppy images in the silo to the image the drive streams:      *)
(*                                                                         *)
(*   silo     ImageSilo: names, encoded images, queue of the encoding      *)
(*            thread, ce_main_app/floppy/imagesilo.cpp                     *)
(*   core     CCoreThread::handleFwVersion_hans(), insertSpecialFloppyImage *)
(*            and the check of run() once a second, ce_main_app            *)
(*   web      FloppyService::setActiveSlot(), in the web server's thread   *)
(*   Hans     button, LED and enabled images, ce_hans_fw/main.c            *)
(*   Franz    asks for tracks and gets the disk change (see FranzFloppy)   *)
(*                                                                         *)
(* Hans owns the LED; the silo's current slot follows its reports, one in  *)
(* each firmware version packet.  A slot and its LED are one number, NSlots *)
(* is the slot with the empty image and "no LED" (0xff).                   *)
(***************************************************************************)
EXTENDS Integers, Sequences

CONSTANTS
    NSlots,     \* slots with an LED (3)
    Images,     \* files the user puts into slots
    Special,    \* the configuration image in /ce/app
    EmptyImage, \* the image in /tmp for the slot without LED
    None,       \* no image, no packet, nothing to do
    BusIds,     \* bus ID configurations
    NoIds,      \* no ID enabled: Hans before its first configuration
    MaxEvents   \* bound: commands, buttons, lost answers, settings

ASSUME SlotsAssumption == NSlots \in Nat \ {0} /\ MaxEvents \in Nat

ASSUME ValuesAssumption ==
    /\ Special \notin Images /\ EmptyImage \notin Images
    /\ Special # EmptyImage
    /\ NoIds \in BusIds

Slots == 0 .. NSlots - 1
EMPTY == NSlots     \* EMPTY_IMAGE_SLOT, and the LED 0xff
AllImages == Images \union {Special, EmptyImage}

ASSUME NoneAssumption ==
    /\ None \notin AllImages \union Int
    /\ None \notin [slot : Int, image : AllImages, open : BOOLEAN]

VARIABLES
    imageFile,      \* slots[].imageFile, and the file in hostDestPath
    encImage,       \* slots[].encImage: [content, new]
    encodeQueue,    \* requests: [slot, image]
    encoding,       \* what the thread works on: [slot, image, open]
    running,        \* floppyEncodingRunning
    currentSlot,
    files,          \* images whose file exists
    rpi,            \* core thread: "poll", or "hans" inside its handler
    answer,         \* oBuf of that handler: [config, switch]
    current,        \* hansConfigWords.current: [ids, imgs]
    skipNextSet,
    busIds,         \* acsiIdInfo
    prevRunning,    \* prevFloppyEncodingRunning
    ledAfterEncode, \* newFloppyImageLedAfterEncode
    newLed,         \* newFloppyImageLed, None while setNewFloppyImageLed is off
    lastLed,        \* lastFloppyImageLed
    web,            \* the slot setActiveSlot() has still to tell the core
    change,         \* the disk change: none, set (diskChanged), sent to Franz
    led,            \* Hans: currentLed
    config,         \* Hans: [ids, imgs], configWords (imgs: enabledImgs)
    pkt,            \* Hans: the armed firmware version, [led, ids, imgs]
    cmdBuf,         \* Hans: the answer it has still to process
    streamed,       \* the image of the track Franz streams
    events,         \* events so far
    used            \* ghost: commands used that some properties exclude

siloVars == <<imageFile, encImage, encodeQueue, running, currentSlot, files>>
coreVars == <<rpi, answer, current, skipNextSet, lastLed>>
edgeVars == <<prevRunning, ledAfterEncode>>
hansVars == <<led, config, pkt, cmdBuf>>
eventVars == <<events, used>>
vars == <<siloVars, encoding, coreVars, busIds, edgeVars, newLed, web,
          change, hansVars, streamed, eventVars>>

Bitmap == {s \in Slots : imageFile[s] # None}   \* getSlotBitmap()

Init ==
    /\ imageFile = [s \in Slots |-> None]
    /\ encImage = [s \in 0 .. EMPTY |-> [content |-> None, new |-> FALSE]]
    /\ encodeQueue = <<[slot |-> EMPTY, image |-> EmptyImage]>>
    /\ encoding = None /\ running = FALSE
    /\ currentSlot = EMPTY
    /\ files = {Special, EmptyImage}
    /\ rpi = "poll" /\ answer = None
    /\ current = [ids |-> NoIds, imgs |-> {}] /\ skipNextSet = FALSE
    /\ busIds \in BusIds \ {NoIds}
    /\ prevRunning = FALSE /\ ledAfterEncode = None
    /\ newLed = None /\ lastLed = -1
    /\ web = None /\ change = "none"
    /\ led = EMPTY /\ config = [ids |-> NoIds, imgs |-> {}]
    /\ pkt = None /\ cmdBuf = None
    /\ streamed = None
    /\ events = 0 /\ used = {}

(* One of the bounded events; S is what the properties must know of it.    *)
Event(S) ==
    /\ events < MaxEvents /\ events' = events + 1
    /\ used' = used \union S

(***************************************************************************)
(* The silo: commands of the Atari (core thread) and of the web server     *)
(***************************************************************************)

(* Mutant: no request while the thread is encoding.                        *)
SiloAddOnce(s, image) ==
    /\ imageFile' = [imageFile EXCEPT ![s] = image]
    /\ encodeQueue' = IF running THEN encodeQueue
                        ELSE Append(encodeQueue, [slot |-> s, image |-> image])
    /\ running' = TRUE

(* ImageSilo::add() of a file that was just stored.                        *)
SiloAdd(s, image) ==
    /\ imageFile' = [imageFile EXCEPT ![s] = image]
    /\ encodeQueue' = Append(encodeQueue, [slot |-> s, image |-> image])
    /\ running' = TRUE

(* Shared: the file of another slot, they have one file in /tmp.           *)
Add(s, image) ==
    /\ SiloAdd(s, image)
    /\ files' = files \union {image}
    /\ Event(IF \E t \in Slots \ {s} : imageFile[t] = image THEN {"shared"} ELSE {})
    /\ UNCHANGED <<encImage, currentSlot, encoding, coreVars, busIds, edgeVars,
                   newLed, web, change, hansVars, streamed>>

(* The names change places, the encoded images do not.                     *)
Swap(s) ==
    LET t == (s + 1) % NSlots IN
    /\ rpi = "poll"
    /\ imageFile' = [imageFile EXCEPT ![s] = imageFile[t], ![t] = imageFile[s]]
    /\ Event({"swap"})
    /\ UNCHANGED <<encImage, encodeQueue, running, currentSlot, files, encoding,
                   coreVars, busIds, edgeVars, newLed, web, change, hansVars,
                   streamed>>

(* The file goes, wherever it is; the encoded image stays.                 *)
Remove(s) ==
    /\ rpi = "poll" /\ imageFile[s] # None
    /\ files' = files \ {imageFile[s]}
    /\ imageFile' = [imageFile EXCEPT ![s] = None]
    /\ Event({})
    /\ UNCHANGED <<encImage, encodeQueue, running, currentSlot, encoding,
                   coreVars, busIds, edgeVars, newLed, web, change, hansVars,
                   streamed>>

(* ImageSilo::setCurrentSlot() *)
NotNew(enc, s) == [enc EXCEPT ![s].new = FALSE]

(* CCoreThread::setFloppyImageLed() *)
SetFloppyImageLed(s) ==
    newLed' = IF s = EMPTY \/ s \in Bitmap THEN s ELSE newLed

(* FloppySetup::setCurrentSlot(), a command of the Atari; of the empty     *)
(* slot, which is no LED number, the LED does not hear.                    *)
AtariSetsSlot(s) ==
    /\ rpi = "poll"
    /\ currentSlot' = s /\ encImage' = NotNew(encImage, s)
    /\ IF s = EMPTY THEN UNCHANGED newLed ELSE SetFloppyImageLed(s)
    /\ Event({"set"})
    /\ UNCHANGED <<imageFile, encodeQueue, running, files, encoding, coreVars,
                   busIds, edgeVars, web, change, hansVars, streamed>>

(* FloppyService::setActiveSlot(): first the silo, then the core thread.   *)
WebSetsSlot(s) ==
    /\ web = None /\ web' = s
    /\ currentSlot' = s /\ encImage' = NotNew(encImage, s)
    /\ Event({"set"})
    /\ UNCHANGED <<imageFile, encodeQueue, running, files, encoding, coreVars,
                   busIds, edgeVars, newLed, change, hansVars, streamed>>

WebSetsLed ==
    /\ web # None /\ web' = None
    /\ SetFloppyImageLed(web)
    /\ UNCHANGED <<siloVars, encoding, coreVars, busIds, edgeVars, change,
                   hansVars, streamed, eventVars>>

(* insertSpecialFloppyImage(), for the web server from run(), for Hans'    *)
(* button from handleFwVersion_hans() behind its transfer.                 *)
InsertSpecial ==
    /\ SiloAdd(0, Special)
    /\ currentSlot' = 0 /\ encImage' = NotNew(encImage, 0)
    /\ ledAfterEncode' = 0
    /\ Event({"special"})
    /\ UNCHANGED <<files, encoding, coreVars, busIds, prevRunning, newLed, web,
                   change, hansVars, streamed>>

(* The bus IDs change in the settings.                                     *)
SetBusIds(ids) ==
    /\ rpi = "poll" /\ ids # busIds /\ busIds' = ids
    /\ Event({})
    /\ UNCHANGED <<siloVars, encoding, coreVars, edgeVars, newLed, web, change,
                   hansVars, streamed>>

(***************************************************************************)
(* The encoding thread, ImageSilo::run()                                   *)
(***************************************************************************)

(* It opens the file, if there is one.                                     *)
EncodeNext ==
    /\ encoding = None /\ encodeQueue # << >>
    /\ LET er == Head(encodeQueue) IN
         encoding' = [slot |-> er.slot, image |-> er.image, open |-> er.image \in files]
    /\ encodeQueue' = Tail(encodeQueue) /\ running' = TRUE
    /\ UNCHANGED <<imageFile, encImage, currentSlot, files, coreVars, busIds,
                   edgeVars, newLed, web, change, hansVars, streamed, eventVars>>

(* Mutant: copyFromOther() does not mark the content as new.               *)
EncodedNotNew ==
    /\ encoding # None
    /\ encImage' = IF encoding.open
                     THEN [encImage EXCEPT ![encoding.slot].content = encoding.image]
                     ELSE encImage
    /\ encoding' = None /\ running' = FALSE
    /\ UNCHANGED <<imageFile, encodeQueue, currentSlot, files, coreVars, busIds,
                   edgeVars, newLed, web, change, hansVars, streamed, eventVars>>

(* copyFromOther() into the slot of the request.                           *)
Encoded ==
    /\ encoding # None
    /\ encImage' = IF encoding.open
                     THEN [encImage EXCEPT ![encoding.slot] =
                             [content |-> encoding.image, new |-> TRUE]]
                     ELSE encImage
    /\ encoding' = None /\ running' = FALSE
    /\ UNCHANGED <<imageFile, encodeQueue, currentSlot, files, coreVars, busIds,
                   edgeVars, newLed, web, change, hansVars, streamed, eventVars>>

(***************************************************************************)
(* The core thread                                                         *)
(***************************************************************************)

(* Once a second: has the encoding stopped since the last look?            *)
EncodingCheck ==
    /\ rpi = "poll"
    /\ IF prevRunning /\ ~running /\ ledAfterEncode # None
         THEN newLed' = ledAfterEncode /\ ledAfterEncode' = None
         ELSE UNCHANGED <<newLed, ledAfterEncode>>
    /\ prevRunning' = running
    /\ UNCHANGED <<siloVars, encoding, coreVars, busIds, web, change, hansVars,
                   streamed, eventVars>>

Wanted == [ids |-> busIds, imgs |-> Bitmap]     \* hansConfigWords.next

(* Mutant: after a configuration was sent, none is sent any more.          *)
ComposeForHansOnce ==
    /\ rpi = "poll" /\ pkt # None /\ rpi' = "hans"
    /\ answer' = [config |-> IF Wanted # current /\ ~skipNextSet THEN Wanted ELSE None,
                  switch |-> IF newLed # None THEN [imgs |-> Bitmap, led |-> newLed] ELSE None]
    /\ skipNextSet' = (skipNextSet \/ Wanted # current)
    /\ UNCHANGED <<siloVars, encoding, current, lastLed, busIds, edgeVars, newLed,
                   web, change, hansVars, streamed, eventVars>>

(* handleFwVersion_hans(), up to the flag it clears: configuration, unless *)
(* it was just sent, and the new LED.                                      *)
ComposeForHans ==
    /\ rpi = "poll" /\ pkt # None /\ rpi' = "hans"
    /\ answer' = [config |-> IF Wanted # current /\ ~skipNextSet THEN Wanted ELSE None,
                  switch |-> IF newLed # None THEN [imgs |-> Bitmap, led |-> newLed] ELSE None]
    /\ skipNextSet' = IF Wanted # current THEN ~skipNextSet ELSE skipNextSet
    /\ UNCHANGED <<siloVars, encoding, current, lastLed, busIds, edgeVars, newLed,
                   web, change, hansVars, streamed, eventVars>>

(* Mutant: the slot follows the LED without a disk change.                 *)
ServeHansQuiet ==
    /\ rpi = "hans" /\ rpi' = "poll"
    /\ newLed' = IF answer.switch # None THEN None ELSE newLed
    /\ cmdBuf' = answer /\ answer' = None /\ pkt' = None
    /\ current' = [ids |-> pkt.ids, imgs |-> pkt.imgs]
    /\ lastLed' = pkt.led
    /\ LET slot == IF lastLed # pkt.led THEN pkt.led ELSE currentSlot
       IN /\ currentSlot' = slot
          /\ encImage' = NotNew(NotNew(encImage, currentSlot), slot)
          /\ change' = IF encImage[currentSlot].new THEN "set" ELSE change
    /\ UNCHANGED <<imageFile, encodeQueue, running, files, encoding, skipNextSet,
                   busIds, edgeVars, web, led, config, streamed, eventVars>>

(* The packets cross, then the report: new content, new LED.               *)
ServeHans ==
    /\ rpi = "hans" /\ rpi' = "poll"
    /\ newLed' = IF answer.switch # None THEN None ELSE newLed
    /\ cmdBuf' = answer /\ answer' = None /\ pkt' = None
    /\ current' = [ids |-> pkt.ids, imgs |-> pkt.imgs]
    /\ lastLed' = pkt.led
    /\ LET isNew == encImage[currentSlot].new
           slot  == IF lastLed # pkt.led THEN pkt.led ELSE currentSlot
       IN /\ currentSlot' = slot
          /\ encImage' = NotNew(NotNew(encImage, currentSlot), slot)
          /\ change' = IF isNew \/ lastLed # pkt.led THEN "set" ELSE change
    /\ UNCHANGED <<imageFile, encodeQueue, running, files, encoding, skipNextSet,
                   busIds, edgeVars, web, led, config, streamed, eventVars>>

(***************************************************************************)
(* Hans                                                                    *)
(***************************************************************************)

(* fixLedsByEnabledImgs(): the next enabled LED, or none.                  *)
FixLed(l, imgs) ==
    IF \E s \in imgs : s >= l
      THEN CHOOSE s \in imgs : s >= l /\ \A t \in imgs : t >= l => s <= t
      ELSE EMPTY

(* Mutant: a LED whose image went stays on.                                *)
FddConfigKeepsLed(l, imgs) == l

(* handleFddConfig(): the LED after a new set of enabled images.           *)
FddConfig(l, imgs) == FixLed(l, imgs)

(* handleFddSwitch() *)
FddSwitch(l, imgs, to) == IF to = EMPTY \/ to \in imgs THEN to ELSE l

(* onButtonPress(): one further, from the last to none, from none to 0.    *)
Button ==
    /\ led' = FixLed(IF led = EMPTY THEN 0 ELSE led + 1, config.imgs)
    /\ Event({})
    /\ UNCHANGED <<siloVars, encoding, coreVars, busIds, edgeVars, newLed, web,
                   change, config, pkt, cmdBuf, streamed>>

(* sendFwToHost(): the values of this moment.                              *)
SendFw ==
    /\ pkt = None /\ cmdBuf = None
    /\ pkt' = [led |-> led, ids |-> config.ids, imgs |-> config.imgs]
    /\ UNCHANGED <<siloVars, encoding, coreVars, busIds, edgeVars, newLed, web,
                   change, led, config, cmdBuf, streamed, eventVars>>

(* processHostCommands() with CMD_ACSI_CONFIG, then CMD_FLOPPY_SWITCH.     *)
ProcessCommands ==
    /\ cmdBuf # None /\ cmdBuf' = None
    /\ LET c    == IF cmdBuf.config = None THEN config ELSE cmdBuf.config
           l    == IF cmdBuf.config = None THEN led ELSE FddConfig(led, c.imgs)
           imgs == cmdBuf.switch.imgs
       IN IF cmdBuf.switch = None
            THEN led' = l /\ config' = c
            ELSE /\ led' = FddSwitch(FddConfig(l, imgs), imgs, cmdBuf.switch.led)
                 /\ config' = [c EXCEPT !.imgs = imgs]
    /\ UNCHANGED <<siloVars, encoding, coreVars, busIds, edgeVars, newLed, web,
                   change, pkt, streamed, eventVars>>

(* A bus command's packet goes over the answer before it was processed.    *)
AnswerLost ==
    /\ cmdBuf # None /\ cmdBuf' = None
    /\ Event({})
    /\ UNCHANGED <<siloVars, encoding, coreVars, busIds, edgeVars, newLed, web,
                   change, led, config, pkt, streamed>>

(* 0.5 s passed before the Pi looked.                                      *)
PacketTimeout ==
    /\ pkt # None /\ rpi = "poll" /\ pkt' = None
    /\ Event({})
    /\ UNCHANGED <<siloVars, encoding, coreVars, busIds, edgeVars, newLed, web,
                   change, led, config, cmdBuf, streamed>>

(***************************************************************************)
(* Franz                                                                   *)
(***************************************************************************)

(* handleFwVersion_franz() sends the disk change.                          *)
DiskChange ==
    /\ rpi = "poll" /\ change = "set" /\ change' = "sent"
    /\ UNCHANGED <<siloVars, encoding, coreVars, busIds, edgeVars, newLed, web,
                   hansVars, streamed, eventVars>>

(* handleSendTrack(): Franz asks after a disk change and when the head     *)
(* moves, the core thread answers with the current slot.                   *)
SendTrack ==
    /\ rpi = "poll"
    /\ streamed' = encImage[currentSlot].content
    /\ change' = IF change = "sent" THEN "none" ELSE change
    /\ UNCHANGED <<siloVars, encoding, coreVars, busIds, edgeVars, newLed, web,
                   hansVars, eventVars>>

(***************************************************************************)
(* The specification                                                       *)
(***************************************************************************)

Silo ==
    \/ \E s \in Slots, image \in Images : Add(s, image)
    \/ \E s \in Slots : Swap(s)
    \/ \E s \in Slots : Remove(s)
    \/ \E s \in 0 .. EMPTY : AtariSetsSlot(s)
    \/ \E s \in 0 .. EMPTY : WebSetsSlot(s)
    \/ WebSetsLed
    \/ InsertSpecial
    \/ \E ids \in BusIds : SetBusIds(ids)
Thread == EncodeNext \/ Encoded
Core   == EncodingCheck \/ ComposeForHans \/ ServeHans
Hans   == Button \/ SendFw \/ ProcessCommands \/ AnswerLost \/ PacketTimeout
Franz  == DiskChange \/ SendTrack

Next == Silo \/ Thread \/ Core \/ Hans \/ Franz

Spec == Init /\ [][Next]_vars

(* The encoding thread, Hans and the web server's call go on.  The core    *)
(* thread looks at its clock and at both chips in every iteration, between *)
(* the packets of Hans.  Franz asks again after each disk change.          *)
FairSpec ==
    /\ Spec
    /\ WF_vars(Thread) /\ WF_vars(WebSetsLed)
    /\ WF_vars(SendFw) /\ WF_vars(ProcessCommands)
    /\ SF_vars(ComposeForHans) /\ WF_vars(ServeHans) /\ SF_vars(EncodingCheck)
    /\ SF_vars(DiskChange) /\ SF_vars(change = "sent" /\ SendTrack)

(***************************************************************************)
(* Properties                                                              *)
(***************************************************************************)

Requests == [slot : 0 .. EMPTY, image : AllImages]
Configurations == [ids : BusIds, imgs : SUBSET Slots]
Switches == [imgs : SUBSET Slots, led : 0 .. EMPTY]
Answers == [config : Configurations \union {None}, switch : Switches \union {None}]

SiloTypeOK ==
    /\ imageFile \in [Slots -> AllImages \union {None}]
    /\ encImage \in [0 .. EMPTY -> [content : AllImages \union {None}, new : BOOLEAN]]
    /\ encodeQueue \in Seq(Requests)
    /\ encoding \in {None} \union [slot : 0 .. EMPTY, image : AllImages, open : BOOLEAN]
    /\ running \in BOOLEAN /\ currentSlot \in 0 .. EMPTY /\ files \subseteq AllImages

CoreTypeOK ==
    /\ rpi \in {"poll", "hans"}
    /\ answer \in Answers \union {None}
    /\ rpi = "hans" => answer \in Answers /\ pkt # None
    /\ current \in Configurations /\ skipNextSet \in BOOLEAN /\ busIds \in BusIds
    /\ prevRunning \in BOOLEAN /\ ledAfterEncode \in {None, 0}
    /\ newLed \in {None} \union 0 .. EMPTY /\ lastLed \in -1 .. EMPTY
    /\ web \in {None} \union 0 .. EMPTY /\ change \in {"none", "set", "sent"}

HansTypeOK ==
    /\ led \in 0 .. EMPTY /\ config \in Configurations
    /\ pkt \in {None} \union [led : 0 .. EMPTY, ids : BusIds, imgs : SUBSET Slots]
    /\ cmdBuf \in Answers \union {None}

EventTypeOK ==
    /\ streamed \in AllImages \union {None}
    /\ events \in 0 .. MaxEvents
    /\ used \subseteq {"swap", "set", "special", "shared"}

(* The variables stay in their types, and inside its handler the core      *)
(* thread has a packet of Hans and an answer.                              *)
TypeOK == SiloTypeOK /\ CoreTypeOK /\ HansTypeOK /\ EventTypeOK

(* Hans never lights the LED of a slot without image.                      *)
LedIsEnabled == led = EMPTY \/ led \in config.imgs

(* A request for the configuration image is still on its way.              *)
SpecialWaits ==
    \/ \E i \in 1 .. Len(encodeQueue) : encodeQueue[i] = [slot |-> 0, image |-> Special]
    \/ encoding = [slot |-> 0, image |-> Special, open |-> TRUE]

(* Unless a program sets the slot itself or the configuration image was    *)
(* deleted, Franz streams another image than the current slot's only while *)
(* a disk change is on its way (ccorethread.cpp: "forcing disk change").   *)
ChangeAnnounced ==
    "set" \notin used /\ Special \in files =>
        \/ streamed = encImage[currentSlot].content
        \/ change # "none"
        \/ encImage[currentSlot].new
        \/ currentSlot = 0 /\ SpecialWaits

(* In the end Hans has the slots and bus IDs of the Pi, whatever was lost  *)
(* and whenever they changed (skipNextSet).                                *)
ConfigArrives == <>[](config = Wanted)

(* Unless a program set the slot itself, or the configuration image was    *)
(* inserted, in the end the drive streams what the LED's slot holds.       *)
LedIsStreamed ==
    <>[](used \intersect {"set", "special"} = {} =>
            currentSlot = led /\ streamed = encImage[led].content)

(* In the end a slot's encoded image is its file, unless slots were        *)
(* swapped or two slots shared a file, or the file is gone.                *)
SlotIsEncoded ==
    <>[](used \intersect {"swap", "shared"} = {} =>
            \A s \in Slots : imageFile[s] \in files => encImage[s].content = imageFile[s])
=============================================================================
