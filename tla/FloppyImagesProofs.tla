------------------------ MODULE FloppyImagesProofs ------------------------
(***************************************************************************)
(* Proofs about FloppyImages, for any number of slots, images, bus IDs and *)
(* events: its types, "no LED without an image", "no other image without a *)
(* disk change", and what the liveness properties need besides fairness:   *)
(* the encoding that is due, and the slot that follows the LED.            *)
(***************************************************************************)
EXTENDS FloppyImages, TLAPS, WellFoundedInduction

(* The slots, the empty one included.                                      *)
LEMMA SlotNumbers ==
    /\ EMPTY \in Nat /\ EMPTY \in 0 .. EMPTY /\ 0 \in Slots /\ EMPTY \notin Slots
    /\ Slots \subseteq 0 .. EMPTY /\ Slots \subseteq Nat
BY SlotsAssumption DEF EMPTY, Slots

(* A set of numbers that is not empty has a smallest one.                  *)
LEMMA Smallest ==
    ASSUME NEW T \in SUBSET Nat, T # {}
    PROVE  \E x \in T : \A y \in T : x <= y
<1> DEFINE R == OpToRel(<, Nat)
<1>1. IsWellFoundedOn(R, Nat)
  BY NatLessThanWellFounded, Zenon
<1>2. \A x, y \in Nat : y < x => <<y, x>> \in R
  BY DEF OpToRel
<1> HIDE DEF R
<1>3. PICK x \in T : \A y \in T : ~(<<y, x>> \in R)
  BY <1>1, WFMin, Zenon
<1>4. \A y \in T : ~(y < x)
  BY <1>2, <1>3, Zenon
<1>5. \A y \in T : x <= y
  BY <1>4
<1> QED
  BY <1>5

(* fixLedsByEnabledImgs() ends at an enabled LED or at none.               *)
LEMMA FixLedEnabled ==
    ASSUME NEW l \in Nat, NEW imgs \in SUBSET Slots
    PROVE  FixLed(l, imgs) \in imgs \union {EMPTY}
<1>1. CASE \E s \in imgs : s >= l
  <2> DEFINE T == {s \in imgs : s >= l}
  <2>1. T \in SUBSET Nat /\ T # {}
    BY <1>1, SlotNumbers
  <2>2. PICK x \in T : \A y \in T : x <= y
    BY <2>1, Smallest
  <2>3. x \in imgs /\ x >= l /\ \A t \in imgs : t >= l => x <= t
    BY <2>2
  <2> QED
    BY <1>1, <2>3 DEF FixLed
<1>2. CASE ~ \E s \in imgs : s >= l
  BY <1>2 DEF FixLed
<1> QED
  BY <1>1, <1>2

(* handleFddConfig() as well.                                              *)
LEMMA FddConfigEnabled ==
    ASSUME NEW l \in 0 .. EMPTY, NEW imgs \in SUBSET Slots
    PROVE  /\ FddConfig(l, imgs) \in imgs \union {EMPTY}
           /\ FddConfig(l, imgs) \in 0 .. EMPTY
<1>1. l \in Nat
  BY SlotNumbers
<1>2. FixLed(l, imgs) \in imgs \union {EMPTY}
  BY <1>1, FixLedEnabled
<1> QED
  BY <1>2, SlotNumbers DEF FddConfig

(***************************************************************************)
(* Types                                                                   *)
(***************************************************************************)

Encodings == [0 .. EMPTY -> [content : AllImages \union {None}, new : BOOLEAN]]

(* Clearing the mark of new content leaves everything else.                *)
LEMMA NotNewClears ==
    ASSUME NEW enc \in Encodings, NEW s \in 0 .. EMPTY
    PROVE  /\ NotNew(enc, s) \in Encodings
           /\ \A t \in 0 .. EMPTY : NotNew(enc, s)[t].content = enc[t].content
           /\ \A t \in 0 .. EMPTY : t # s => NotNew(enc, s)[t] = enc[t]
BY DEF NotNew, Encodings

LEMMA SiloTyped ==
    ASSUME TypeOK, Silo
    PROVE  TypeOK'
<1> USE DEF TypeOK
<1>1. ASSUME NEW s \in Slots, NEW image \in Images, Add(s, image)
      PROVE  TypeOK'
  <2>1. [slot |-> s, image |-> image] \in Requests
    BY SlotNumbers DEF Requests, AllImages
  <2>2. SiloTypeOK'
    BY <1>1, <2>1 DEF Add, SiloAdd, SiloTypeOK, AllImages
  <2>3. CoreTypeOK' /\ HansTypeOK'
    BY <1>1 DEF Add, CoreTypeOK, HansTypeOK, coreVars, edgeVars, hansVars
  <2>4. EventTypeOK'
    BY <1>1, SlotsAssumption DEF Add, Event, EventTypeOK
  <2> QED BY <2>2, <2>3, <2>4
<1>2. ASSUME NEW s \in Slots, Swap(s)
      PROVE  TypeOK'
  <2>1. (s + 1) % NSlots \in Slots
    BY SlotsAssumption DEF Slots
  <2>2. SiloTypeOK'
    BY <1>2, <2>1 DEF Swap, SiloTypeOK
  <2>3. CoreTypeOK' /\ HansTypeOK'
    BY <1>2 DEF Swap, CoreTypeOK, HansTypeOK, coreVars, edgeVars, hansVars
  <2>4. EventTypeOK'
    BY <1>2, SlotsAssumption DEF Swap, Event, EventTypeOK
  <2> QED BY <2>2, <2>3, <2>4
<1>3. ASSUME NEW s \in Slots, Remove(s)
      PROVE  TypeOK'
  <2>1. SiloTypeOK'
    BY <1>3 DEF Remove, SiloTypeOK
  <2>2. CoreTypeOK' /\ HansTypeOK'
    BY <1>3 DEF Remove, CoreTypeOK, HansTypeOK, coreVars, edgeVars, hansVars
  <2>3. EventTypeOK'
    BY <1>3, SlotsAssumption DEF Remove, Event, EventTypeOK
  <2> QED BY <2>1, <2>2, <2>3
<1>4. ASSUME NEW s \in 0 .. EMPTY, AtariSetsSlot(s)
      PROVE  TypeOK'
  <2>1. SiloTypeOK'
    BY <1>4, SlotNumbers DEF AtariSetsSlot, NotNew, SiloTypeOK
  <2>2. CoreTypeOK' /\ HansTypeOK'
    BY <1>4, SlotNumbers
    DEF AtariSetsSlot, SetFloppyImageLed, CoreTypeOK, HansTypeOK, coreVars, edgeVars, hansVars
  <2>3. EventTypeOK'
    BY <1>4, SlotsAssumption DEF AtariSetsSlot, Event, EventTypeOK
  <2> QED BY <2>1, <2>2, <2>3
<1>5. ASSUME NEW s \in 0 .. EMPTY, WebSetsSlot(s)
      PROVE  TypeOK'
  <2>1. SiloTypeOK'
    BY <1>5 DEF WebSetsSlot, NotNew, SiloTypeOK
  <2>2. CoreTypeOK' /\ HansTypeOK'
    BY <1>5 DEF WebSetsSlot, CoreTypeOK, HansTypeOK, coreVars, edgeVars, hansVars
  <2>3. EventTypeOK'
    BY <1>5, SlotsAssumption DEF WebSetsSlot, Event, EventTypeOK
  <2> QED BY <2>1, <2>2, <2>3
<1>6. ASSUME WebSetsLed
      PROVE  TypeOK'
  <2>1. SiloTypeOK' /\ EventTypeOK'
    BY <1>6 DEF WebSetsLed, SiloTypeOK, EventTypeOK, siloVars, eventVars
  <2>2. CoreTypeOK' /\ HansTypeOK'
    BY <1>6
    DEF WebSetsLed, SetFloppyImageLed, CoreTypeOK, HansTypeOK, coreVars, edgeVars, hansVars
  <2> QED BY <2>1, <2>2
<1>7. ASSUME InsertSpecial
      PROVE  TypeOK'
  <2>1. [slot |-> 0, image |-> Special] \in Requests
    BY SlotNumbers DEF Requests, AllImages
  <2>c. Special \in AllImages /\ 0 \in 0 .. EMPTY /\ 0 \in Slots
    BY SlotNumbers DEF AllImages
  <2>a. encImage' \in Encodings
    BY <1>7, <2>c, NotNewClears DEF InsertSpecial, SiloTypeOK, Encodings
  <2>b. imageFile' \in [Slots -> AllImages \union {None}] /\ encodeQueue' \in Seq(Requests)
    BY <1>7, <2>1, <2>c DEF InsertSpecial, SiloAdd, SiloTypeOK
  <2>2. SiloTypeOK'
    BY <1>7, <2>a, <2>b, <2>c DEF InsertSpecial, SiloAdd, SiloTypeOK, Encodings
  <2>3. CoreTypeOK' /\ HansTypeOK'
    BY <1>7 DEF InsertSpecial, CoreTypeOK, HansTypeOK, coreVars, hansVars
  <2>4. EventTypeOK'
    BY <1>7, SlotsAssumption DEF InsertSpecial, Event, EventTypeOK
  <2> QED BY <2>2, <2>3, <2>4
<1>8. ASSUME NEW ids \in BusIds, SetBusIds(ids)
      PROVE  TypeOK'
  <2>1. SiloTypeOK'
    BY <1>8 DEF SetBusIds, SiloTypeOK, siloVars
  <2>2. CoreTypeOK' /\ HansTypeOK'
    BY <1>8 DEF SetBusIds, CoreTypeOK, HansTypeOK, coreVars, edgeVars, hansVars
  <2>3. EventTypeOK'
    BY <1>8, SlotsAssumption DEF SetBusIds, Event, EventTypeOK
  <2> QED BY <2>1, <2>2, <2>3
<1> QED
  BY <1>1, <1>2, <1>3, <1>4, <1>5, <1>6, <1>7, <1>8 DEF Silo

LEMMA ThreadTyped ==
    ASSUME TypeOK, Thread
    PROVE  TypeOK'
<1> USE DEF TypeOK
<1>1. CASE EncodeNext
  <2>1. Head(encodeQueue) \in Requests /\ Tail(encodeQueue) \in Seq(Requests)
    BY <1>1 DEF EncodeNext, SiloTypeOK
  <2>2. SiloTypeOK'
    BY <1>1, <2>1 DEF EncodeNext, SiloTypeOK, Requests
  <2>3. CoreTypeOK' /\ HansTypeOK' /\ EventTypeOK'
    BY <1>1
    DEF EncodeNext, CoreTypeOK, HansTypeOK, EventTypeOK, coreVars, edgeVars, hansVars, eventVars
  <2> QED BY <2>2, <2>3
<1>2. CASE Encoded
  <2>1. SiloTypeOK'
    BY <1>2 DEF Encoded, SiloTypeOK
  <2>2. CoreTypeOK' /\ HansTypeOK' /\ EventTypeOK'
    BY <1>2
    DEF Encoded, CoreTypeOK, HansTypeOK, EventTypeOK, coreVars, edgeVars, hansVars, eventVars
  <2> QED BY <2>1, <2>2
<1> QED
  BY <1>1, <1>2 DEF Thread

LEMMA CoreTyped ==
    ASSUME TypeOK, Core
    PROVE  TypeOK'
<1> USE DEF TypeOK
<1>1. CASE EncodingCheck
  <2>1. SiloTypeOK' /\ HansTypeOK' /\ EventTypeOK'
    BY <1>1
    DEF EncodingCheck, SiloTypeOK, HansTypeOK, EventTypeOK, siloVars, hansVars, eventVars
  <2>2. CoreTypeOK'
    BY <1>1, SlotNumbers DEF EncodingCheck, SiloTypeOK, CoreTypeOK, coreVars, siloVars, hansVars
  <2> QED BY <2>1, <2>2
<1>2. CASE ComposeForHans
  <2>1. SiloTypeOK' /\ HansTypeOK' /\ EventTypeOK'
    BY <1>2
    DEF ComposeForHans, SiloTypeOK, HansTypeOK, EventTypeOK, siloVars, hansVars, eventVars
  <2>2. Wanted \in Configurations
    BY DEF Wanted, Configurations, Bitmap, CoreTypeOK
  <2>3. newLed # None => [imgs |-> Bitmap, led |-> newLed] \in Switches
    BY DEF Switches, Bitmap, CoreTypeOK
  <2>4. answer' \in Answers
    BY <1>2, <2>2, <2>3 DEF ComposeForHans, Answers
  <2>5. CoreTypeOK'
    BY <1>2, <2>4 DEF ComposeForHans, CoreTypeOK, edgeVars, hansVars
  <2> QED BY <2>1, <2>5
<1>3. CASE ServeHans
  <2>1. pkt \in [led : 0 .. EMPTY, ids : BusIds, imgs : SUBSET Slots] /\ answer \in Answers
    BY <1>3 DEF ServeHans, CoreTypeOK, HansTypeOK
  <2> DEFINE slot == IF lastLed # pkt.led THEN pkt.led ELSE currentSlot
  <2>a. slot \in 0 .. EMPTY /\ encImage \in Encodings /\ currentSlot \in 0 .. EMPTY
    BY <2>1 DEF SiloTypeOK, Encodings
  <2>b. encImage' = NotNew(NotNew(encImage, currentSlot), slot) /\ currentSlot' = slot
    BY <1>3 DEF ServeHans
  <2> HIDE DEF slot
  <2>c. encImage' \in Encodings
    BY <2>a, <2>b, NotNewClears
  <2>2. SiloTypeOK'
    BY <1>3, <2>a, <2>b, <2>c DEF ServeHans, SiloTypeOK, Encodings
  <2>3. CoreTypeOK'
    BY <1>3, <2>1 DEF ServeHans, CoreTypeOK, Configurations, edgeVars
  <2>4. HansTypeOK' /\ EventTypeOK'
    BY <1>3, <2>1 DEF ServeHans, HansTypeOK, EventTypeOK, eventVars
  <2> QED BY <2>2, <2>3, <2>4
<1> QED
  BY <1>1, <1>2, <1>3 DEF Core

LEMMA HansTyped ==
    ASSUME TypeOK, Hans
    PROVE  TypeOK'
<1> USE DEF TypeOK
<1>1. CASE Button
  <2>1. (IF led = EMPTY THEN 0 ELSE led + 1) \in Nat /\ config.imgs \in SUBSET Slots
    BY SlotNumbers DEF HansTypeOK, Configurations
  <2>2. led' \in 0 .. EMPTY
    BY <1>1, <2>1, FixLedEnabled, SlotNumbers DEF Button
  <2>3. SiloTypeOK' /\ CoreTypeOK' /\ HansTypeOK'
    BY <1>1, <2>2 DEF Button, SiloTypeOK, CoreTypeOK, HansTypeOK, siloVars, coreVars, edgeVars
  <2>4. EventTypeOK'
    BY <1>1, SlotsAssumption DEF Button, Event, EventTypeOK
  <2> QED BY <2>3, <2>4
<1>2. CASE SendFw
  BY <1>2
  DEF SendFw, Configurations, SiloTypeOK, CoreTypeOK, HansTypeOK, EventTypeOK,
      siloVars, coreVars, edgeVars, eventVars
<1>3. CASE ProcessCommands
  <2> DEFINE c == IF cmdBuf.config = None THEN config ELSE cmdBuf.config
             l == IF cmdBuf.config = None THEN led ELSE FddConfig(led, c.imgs)
  <2>1. cmdBuf \in Answers /\ c \in Configurations
    BY <1>3 DEF ProcessCommands, HansTypeOK, Answers
  <2>2. \A x \in 0 .. EMPTY, imgs \in SUBSET Slots : FddConfig(x, imgs) \in 0 .. EMPTY
    BY FddConfigEnabled
  <2>3. l \in 0 .. EMPTY
    BY <2>1, <2>2 DEF HansTypeOK, Configurations
  <2>4. CASE cmdBuf.switch = None
    <3>1. led' = l /\ config' = c
      BY <1>3, <2>4 DEF ProcessCommands
    <3> QED
      BY <1>3, <2>1, <2>3, <3>1
      DEF ProcessCommands, SiloTypeOK, CoreTypeOK, HansTypeOK, EventTypeOK,
          siloVars, coreVars, edgeVars, eventVars
  <2>5. CASE cmdBuf.switch # None
    <3>1. cmdBuf.switch \in Switches
      BY <2>1, <2>5 DEF Answers
    <3>2. /\ led' = FddSwitch(FddConfig(l, cmdBuf.switch.imgs), cmdBuf.switch.imgs, cmdBuf.switch.led)
          /\ config' = [c EXCEPT !.imgs = cmdBuf.switch.imgs]
      BY <1>3, <2>5 DEF ProcessCommands
    <3>3. cmdBuf.switch.imgs \in SUBSET Slots /\ cmdBuf.switch.led \in 0 .. EMPTY
      BY <3>1 DEF Switches
    <3>4. FddConfig(l, cmdBuf.switch.imgs) \in 0 .. EMPTY
      BY <2>2, <2>3, <3>3
    <3>5. led' \in 0 .. EMPTY
      BY <3>2, <3>3, <3>4 DEF FddSwitch
    <3>6. config' \in Configurations
      BY <2>1, <3>2, <3>3 DEF Configurations
    <3> QED
      BY <1>3, <3>5, <3>6
      DEF ProcessCommands, SiloTypeOK, CoreTypeOK, HansTypeOK, EventTypeOK,
          siloVars, coreVars, edgeVars, eventVars
  <2> QED BY <2>4, <2>5
<1>4. CASE AnswerLost \/ PacketTimeout
  <2>1. SiloTypeOK' /\ CoreTypeOK' /\ HansTypeOK'
    BY <1>4
    DEF AnswerLost, PacketTimeout, SiloTypeOK, CoreTypeOK, HansTypeOK, siloVars,
        coreVars, edgeVars
  <2>2. CASE AnswerLost
    BY <2>1, <2>2, SlotsAssumption DEF AnswerLost, Event, EventTypeOK
  <2>3. CASE PacketTimeout
    BY <2>1, <2>3, SlotsAssumption DEF PacketTimeout, Event, EventTypeOK
  <2> QED BY <1>4, <2>2, <2>3
<1> QED
  BY <1>1, <1>2, <1>3, <1>4 DEF Hans

LEMMA FranzTyped ==
    ASSUME TypeOK, Franz
    PROVE  TypeOK'
<1>1. streamed' \in AllImages \union {None} /\ change' \in {"none", "set", "sent"}
  BY DEF Franz, DiskChange, SendTrack, TypeOK, SiloTypeOK, CoreTypeOK, EventTypeOK
<1>2. UNCHANGED <<siloVars, encoding, rpi, answer, current, skipNextSet, lastLed, busIds,
                  edgeVars, newLed, web, hansVars, eventVars>>
  BY DEF Franz, DiskChange, SendTrack, coreVars
<1>3. SiloTypeOK'
  BY <1>2 DEF TypeOK, SiloTypeOK, siloVars
<1>4. CoreTypeOK'
  BY <1>1, <1>2 DEF TypeOK, CoreTypeOK, edgeVars, hansVars
<1>5. HansTypeOK' /\ EventTypeOK'
  BY <1>1, <1>2 DEF TypeOK, HansTypeOK, EventTypeOK, hansVars, eventVars
<1> QED
  BY <1>3, <1>4, <1>5 DEF TypeOK

LEMMA InitTyped == Init => TypeOK
<1> SUFFICES ASSUME Init PROVE TypeOK
  OBVIOUS
<1>1. SiloTypeOK
  <2>1. [slot |-> EMPTY, image |-> EmptyImage] \in Requests
    BY SlotNumbers DEF Requests, AllImages
  <2>2. encodeQueue \in Seq(Requests)
    BY <2>1 DEF Init
  <2>3. encImage \in [0 .. EMPTY -> [content : AllImages \union {None}, new : BOOLEAN]]
    BY DEF Init
  <2> QED
    BY <2>2, <2>3, SlotNumbers DEF Init, SiloTypeOK, AllImages
<1>2. [ids |-> NoIds, imgs |-> {}] \in Configurations
  BY ValuesAssumption DEF Configurations
<1>3. CoreTypeOK
  <2>1. -1 \in -1 .. EMPTY
    BY SlotNumbers
  <2> QED
    BY <1>2, <2>1 DEF Init, CoreTypeOK
<1>4. HansTypeOK
  BY <1>2, SlotNumbers DEF Init, HansTypeOK
<1>5. EventTypeOK
  BY SlotsAssumption DEF Init, EventTypeOK
<1> QED
  BY <1>1, <1>3, <1>4, <1>5 DEF TypeOK

(* The silo, the core thread, Hans and what Franz streams keep their types *)
(* whatever the three threads and the two chips do: no slot beyond the     *)
(* empty one is ever current, lit or encoded.                              *)
THEOREM ImagesTypeCorrect == Spec => []TypeOK
<1>1. TypeOK /\ [Next]_vars => TypeOK'
  <2>1. ASSUME TypeOK, UNCHANGED vars PROVE TypeOK'
    BY <2>1
    DEF TypeOK, SiloTypeOK, CoreTypeOK, HansTypeOK, EventTypeOK, vars, siloVars, coreVars,
        edgeVars, hansVars, eventVars
  <2> QED
    BY <2>1, SiloTyped, ThreadTyped, CoreTyped, HansTyped, FranzTyped DEF Next
<1> QED
  BY InitTyped, <1>1, PTL DEF Spec

(***************************************************************************)
(* LedIsEnabled                                                            *)
(***************************************************************************)

(* Only the button and a processed answer change the LED or the images.    *)
LEMMA LedEnabledStep ==
    ASSUME TypeOK, LedIsEnabled, Next
    PROVE  LedIsEnabled'
<1>1. CASE UNCHANGED <<led, config>>
  BY <1>1 DEF LedIsEnabled
<1>2. CASE Button
  <2>1. (IF led = EMPTY THEN 0 ELSE led + 1) \in Nat /\ config.imgs \in SUBSET Slots
    BY SlotNumbers DEF TypeOK, HansTypeOK, Configurations
  <2> QED
    BY <1>2, <2>1, FixLedEnabled DEF Button, LedIsEnabled
<1>3. CASE ProcessCommands
  <2> DEFINE c == IF cmdBuf.config = None THEN config ELSE cmdBuf.config
             l == IF cmdBuf.config = None THEN led ELSE FddConfig(led, c.imgs)
  <2>1. cmdBuf \in Answers /\ c \in Configurations
    BY <1>3 DEF ProcessCommands, TypeOK, HansTypeOK, Answers
  <2>2. \A x \in 0 .. EMPTY, imgs \in SUBSET Slots : FddConfig(x, imgs) \in imgs \union {EMPTY}
    BY FddConfigEnabled
  <2>3. c.imgs \in SUBSET Slots /\ led \in 0 .. EMPTY
    BY <2>1 DEF TypeOK, HansTypeOK, Configurations
  <2>4. l = EMPTY \/ l \in c.imgs
    BY <2>2, <2>3 DEF LedIsEnabled
  <2>5. CASE cmdBuf.switch = None
    <3>1. led' = l /\ config' = c
      BY <1>3, <2>5 DEF ProcessCommands
    <3> QED
      BY <2>4, <3>1 DEF LedIsEnabled
  <2>6. CASE cmdBuf.switch # None
    <3>1. cmdBuf.switch.imgs \in SUBSET Slots /\ l \in 0 .. EMPTY
      BY <2>1, <2>3, <2>4, <2>6, SlotNumbers DEF Answers, Switches
    <3>2. /\ led' = FddSwitch(FddConfig(l, cmdBuf.switch.imgs), cmdBuf.switch.imgs, cmdBuf.switch.led)
          /\ config' = [c EXCEPT !.imgs = cmdBuf.switch.imgs]
      BY <1>3, <2>6 DEF ProcessCommands
    <3>3. config'.imgs = cmdBuf.switch.imgs
      BY <2>1, <3>2 DEF Configurations
    <3>4. FddConfig(l, cmdBuf.switch.imgs) \in cmdBuf.switch.imgs \union {EMPTY}
      BY <2>2, <3>1
    <3> QED
      BY <3>2, <3>3, <3>4 DEF FddSwitch, LedIsEnabled
  <2> QED BY <2>5, <2>6
<1>4. ASSUME Silo \/ Thread \/ Core \/ Franz \/ SendFw \/ AnswerLost \/ PacketTimeout
      PROVE  UNCHANGED <<led, config>>
  BY <1>4
  DEF Silo, Add, Swap, Remove, AtariSetsSlot, WebSetsSlot, WebSetsLed, InsertSpecial, SetBusIds,
      Thread, EncodeNext, Encoded, Core, EncodingCheck, ComposeForHans, ServeHans, Franz,
      DiskChange, SendTrack, SendFw, AnswerLost, PacketTimeout, hansVars
<1> QED
  BY <1>1, <1>2, <1>3, <1>4 DEF Next, Hans

(* Hans never lights the LED of a slot without an image: the button, a     *)
(* configuration and a switched LED all pass fixLedsByEnabledImgs().       *)
THEOREM LedIsEnabledHolds == Spec => []LedIsEnabled
<1>1. Init => LedIsEnabled
  BY DEF Init, LedIsEnabled
<1>2. TypeOK /\ LedIsEnabled /\ [Next]_vars => LedIsEnabled'
  <2>1. ASSUME LedIsEnabled, UNCHANGED vars PROVE LedIsEnabled'
    BY <2>1 DEF LedIsEnabled, vars, hansVars
  <2> QED
    BY <2>1, LedEnabledStep
<1> QED
  BY <1>1, <1>2, ImagesTypeCorrect, PTL DEF Spec

(***************************************************************************)
(* ChangeAnnounced                                                         *)
(***************************************************************************)

(* Nothing takes back that a program set a slot or that the configuration  *)
(* image was deleted.                                                      *)
LEMMA ExclusionsStay ==
    ASSUME TypeOK, Next, "set" \notin used', Special \in files'
    PROVE  "set" \notin used /\ Special \in files
<1>1. CASE UNCHANGED <<files, used>>
  BY <1>1
<1>2. CASE \E s \in Slots, image \in Images : Add(s, image)
  BY <1>2, ValuesAssumption DEF Add, Event
<1>3. CASE \E s \in Slots : Swap(s) \/ Remove(s)
  BY <1>3 DEF Swap, Remove, Event
<1>4. CASE (\E s \in 0 .. EMPTY : AtariSetsSlot(s) \/ WebSetsSlot(s)) \/ InsertSpecial
  BY <1>4 DEF AtariSetsSlot, WebSetsSlot, InsertSpecial, Event
<1>5. CASE \E ids \in BusIds : SetBusIds(ids)
  BY <1>5 DEF SetBusIds, siloVars, Event
<1>6. CASE Button \/ AnswerLost \/ PacketTimeout
  BY <1>6 DEF Button, AnswerLost, PacketTimeout, siloVars, Event
<1>7. ASSUME WebSetsLed \/ Thread \/ Core \/ SendFw \/ ProcessCommands \/ Franz
      PROVE  UNCHANGED <<files, used>>
  BY <1>7
  DEF WebSetsLed, Thread, EncodeNext, Encoded, Core, EncodingCheck, ComposeForHans, ServeHans,
      SendFw, ProcessCommands, Franz, DiskChange, SendTrack, siloVars, eventVars
<1> QED
  BY <1>1, <1>2, <1>3, <1>4, <1>5, <1>6, <1>7 DEF Next, Silo, Hans

(* A request for the configuration image waits until it is encoded.        *)
LEMMA QueueKeepsSpecial ==
    ASSUME NEW r \in Requests, NEW q \in Seq(Requests),
           NEW i \in 1 .. Len(q), q[i] = [slot |-> 0, image |-> Special]
    PROVE  \E j \in 1 .. Len(Append(q, r)) :
              Append(q, r)[j] = [slot |-> 0, image |-> Special]
<1>1. i \in 1 .. Len(Append(q, r)) /\ Append(q, r)[i] = q[i]
  OBVIOUS
<1> QED
  BY <1>1

(* What ChangeAnnounced promises while nothing excludes it.                *)
Announced ==
    \/ streamed = encImage[currentSlot].content
    \/ change # "none"
    \/ encImage[currentSlot].new
    \/ currentSlot = 0 /\ SpecialWaits

(* The commands to the silo: a request more, or nothing of it.             *)
LEMMA SiloAnnounced ==
    ASSUME TypeOK, Silo, "set" \notin used', Announced
    PROVE  Announced'
<1> USE DEF TypeOK
<1>1. ASSUME NEW s \in Slots, NEW image \in Images, Add(s, image)
      PROVE  Announced'
  <2>1. [slot |-> s, image |-> image] \in Requests
    BY SlotNumbers DEF Requests, AllImages
  <2>2. /\ encodeQueue' = Append(encodeQueue, [slot |-> s, image |-> image])
        /\ UNCHANGED <<encoding, streamed, encImage, currentSlot, change>>
    BY <1>1 DEF Add, SiloAdd
  <2>3. SpecialWaits => SpecialWaits'
    BY <2>1, <2>2, QueueKeepsSpecial DEF SpecialWaits, SiloTypeOK
  <2> QED
    BY <2>2, <2>3 DEF Announced
<1>2. CASE \E s \in Slots : Swap(s) \/ Remove(s)
  BY <1>2 DEF Swap, Remove, Announced, SpecialWaits
<1>3. CASE \E s \in 0 .. EMPTY : AtariSetsSlot(s) \/ WebSetsSlot(s)
  BY <1>3 DEF AtariSetsSlot, WebSetsSlot, Event
<1>4. CASE WebSetsLed \/ (\E ids \in BusIds : SetBusIds(ids))
  BY <1>4 DEF WebSetsLed, SetBusIds, siloVars, Announced, SpecialWaits
<1>5. CASE InsertSpecial
  <2>1. /\ currentSlot' = 0
        /\ encodeQueue' = Append(encodeQueue, [slot |-> 0, image |-> Special])
    BY <1>5 DEF InsertSpecial, SiloAdd
  <2>2. /\ Len(encodeQueue') \in 1 .. Len(encodeQueue')
        /\ encodeQueue'[Len(encodeQueue')] = [slot |-> 0, image |-> Special]
    BY <2>1 DEF SiloTypeOK
  <2> QED
    BY <2>1, <2>2 DEF Announced, SpecialWaits
<1> QED
  BY <1>1, <1>2, <1>3, <1>4, <1>5 DEF Silo

(* The thread: the request becomes the encoding, the encoding new content. *)
LEMMA ThreadAnnounced ==
    ASSUME TypeOK, Thread, Special \in files, Announced
    PROVE  Announced'
<1> USE DEF TypeOK
<1>1. CASE EncodeNext
  <2>1. /\ encodeQueue # << >> /\ encodeQueue' = Tail(encodeQueue)
        /\ encoding = None
        /\ encoding' = [slot |-> encodeQueue[1].slot, image |-> encodeQueue[1].image,
                        open |-> encodeQueue[1].image \in files]
        /\ UNCHANGED <<streamed, encImage, currentSlot, change>>
    BY <1>1 DEF EncodeNext
  <2>2. ASSUME SpecialWaits PROVE SpecialWaits'
    <3>a. [slot |-> 0, image |-> Special, open |-> TRUE]
             \in [slot : Int, image : AllImages, open : BOOLEAN]
      BY DEF AllImages
    <3>1. encoding # [slot |-> 0, image |-> Special, open |-> TRUE]
      BY <2>1, <3>a, NoneAssumption
    <3>2. PICK i \in 1 .. Len(encodeQueue) :
              encodeQueue[i] = [slot |-> 0, image |-> Special]
      BY <2>2, <3>1 DEF SpecialWaits
    <3>3. CASE i = 1
      <4>1. encodeQueue[1].slot = 0 /\ encodeQueue[1].image = Special
        BY <3>2, <3>3
      <4>2. (encodeQueue[1].image \in files) = TRUE
        BY <4>1
      <4>3. encoding' = [slot |-> 0, image |-> Special, open |-> TRUE]
        BY <2>1, <4>1, <4>2
      <4> QED
        BY <4>3 DEF SpecialWaits
    <3>4. CASE i # 1
      <4>1. /\ i - 1 \in 1 .. Len(Tail(encodeQueue))
            /\ Tail(encodeQueue)[i - 1] = encodeQueue[i]
        BY <2>1, <3>2, <3>4 DEF SiloTypeOK
      <4> QED
        BY <2>1, <3>2, <4>1 DEF SpecialWaits
    <3> QED
      BY <3>3, <3>4
  <2> QED
    BY <2>1, <2>2 DEF Announced
<1>2. CASE Encoded
  <2>1. /\ encoding \in [slot : 0 .. EMPTY, image : AllImages, open : BOOLEAN]
        /\ UNCHANGED <<streamed, currentSlot, change, encodeQueue>>
    BY <1>2 DEF Encoded, SiloTypeOK
  <2>2. CASE encoding.open /\ encoding.slot = currentSlot
    BY <1>2, <2>1, <2>2 DEF Encoded, Announced, SiloTypeOK
  <2>3. CASE encoding.open /\ encoding.slot # currentSlot
    <3>1. encImage'[currentSlot] = encImage[currentSlot]
      BY <1>2, <2>3 DEF Encoded, SiloTypeOK
    <3>2. currentSlot = 0 /\ SpecialWaits => SpecialWaits'
      BY <2>1, <2>3 DEF SpecialWaits
    <3> QED
      BY <2>1, <3>1, <3>2 DEF Announced
  <2>4. CASE ~encoding.open
    <3>1. encImage' = encImage
      BY <1>2, <2>4 DEF Encoded
    <3>2. SpecialWaits => SpecialWaits'
      BY <2>1, <2>4 DEF SpecialWaits
    <3> QED
      BY <2>1, <3>1, <3>2 DEF Announced
  <2> QED
    BY <2>1, <2>2, <2>3, <2>4
<1> QED
  BY <1>1, <1>2 DEF Thread

(* The core thread and Franz: whoever takes the mark of new content, or    *)
(* changes the slot, sets the disk change; whoever takes the disk change   *)
(* streams the current slot.                                               *)
LEMMA CoreAnnounced ==
    ASSUME TypeOK, Core \/ Franz, Announced
    PROVE  Announced'
<1>1. CASE EncodingCheck \/ ComposeForHans
  BY <1>1 DEF EncodingCheck, ComposeForHans, siloVars, Announced, SpecialWaits
<1>2. CASE ServeHans
  <2>1. CASE encImage[currentSlot].new \/ lastLed # pkt.led
    BY <1>2, <2>1 DEF ServeHans, Announced
  <2>2. CASE ~(encImage[currentSlot].new \/ lastLed # pkt.led)
    <3>1. /\ currentSlot' = currentSlot /\ change' = change
          /\ encImage' = NotNew(NotNew(encImage, currentSlot), currentSlot)
          /\ UNCHANGED <<streamed, encodeQueue, encoding>>
      BY <1>2, <2>2 DEF ServeHans
    <3>2. encImage \in Encodings /\ currentSlot \in 0 .. EMPTY
      BY DEF TypeOK, SiloTypeOK, Encodings
    <3>3. encImage'[currentSlot].content = encImage[currentSlot].content
      BY <3>1, <3>2, NotNewClears
    <3> QED
      BY <2>2, <3>1, <3>3 DEF Announced, SpecialWaits
  <2> QED BY <2>1, <2>2
<1>3. CASE DiskChange
  BY <1>3 DEF DiskChange, Announced
<1>4. CASE SendTrack
  BY <1>4 DEF SendTrack, siloVars, Announced
<1> QED
  BY <1>1, <1>2, <1>3, <1>4 DEF Core, Franz

LEMMA HansAnnounced ==
    ASSUME Hans, Announced
    PROVE  Announced'
<1>1. UNCHANGED <<siloVars, encoding, change, streamed>>
  BY DEF Hans, Button, SendFw, ProcessCommands, AnswerLost, PacketTimeout
<1> QED
  BY <1>1 DEF siloVars, Announced, SpecialWaits

(* Franz streams another image than the current slot's only while a disk   *)
(* change is on its way, unless a program set the slot itself or the       *)
(* configuration image was deleted: the marks that encoding, LED and core  *)
(* thread pass to one another are never lost on the way.                   *)
THEOREM ChangeAnnouncedHolds == Spec => []ChangeAnnounced
<1>1. Init => ChangeAnnounced
  BY SlotNumbers DEF Init, ChangeAnnounced
<1>2. TypeOK /\ ChangeAnnounced /\ [Next]_vars => ChangeAnnounced'
  <2>1. ASSUME ChangeAnnounced, UNCHANGED vars PROVE ChangeAnnounced'
    BY <2>1 DEF ChangeAnnounced, SpecialWaits, vars, siloVars, eventVars
  <2>2. ASSUME TypeOK, ChangeAnnounced, Next PROVE ChangeAnnounced'
    <3> SUFFICES ASSUME "set" \notin used', Special \in files' PROVE Announced'
      BY DEF ChangeAnnounced, Announced
    <3>1. "set" \notin used /\ Special \in files
      BY <2>2, ExclusionsStay
    <3>2. Announced
      BY <2>2, <3>1 DEF ChangeAnnounced, Announced
    <3> QED
      BY <2>2, <3>1, <3>2, SiloAnnounced, ThreadAnnounced, CoreAnnounced, HansAnnounced DEF Next
  <2> QED
    BY <2>1, <2>2
<1> QED
  BY <1>1, <1>2, ImagesTypeCorrect, PTL DEF Spec

(***************************************************************************)
(* What SlotIsEncoded and LedIsStreamed need besides fairness              *)
(***************************************************************************)

NoneAfter(q, s, i) == \A j \in i + 1 .. Len(q) : q[j].slot # s

\* The last request for the slot is for its file,
Requested(s) ==
    \E i \in 1 .. Len(encodeQueue) :
        /\ encodeQueue[i].slot = s /\ encodeQueue[i].image = imageFile[s]
        /\ NoneAfter(encodeQueue, s, i)

\* or the thread works on it, or it is done and nothing comes over it.
Encodes(s) ==
    /\ NoneAfter(encodeQueue, s, 0) /\ encoding # None
    /\ encoding.slot = s /\ encoding.image = imageFile[s] /\ encoding.open

IsEncoded(s) ==
    /\ NoneAfter(encodeQueue, s, 0)
    /\ encoding # None => encoding.slot # s \/ ~encoding.open
    /\ encImage[s].content = imageFile[s]

Due(s) == Requested(s) \/ Encodes(s) \/ IsEncoded(s)

EncodingDue ==
    used \intersect {"swap", "shared"} = {} =>
        \A s \in Slots : imageFile[s] \in files => Due(s)

LEMMA QueueAppended ==
    ASSUME NEW q \in Seq(Requests), NEW r \in Requests
    PROVE  /\ Append(q, r) \in Seq(Requests) /\ Len(Append(q, r)) = Len(q) + 1
           /\ Append(q, r)[Len(q) + 1] = r
           /\ \A i \in 1 .. Len(q) : Append(q, r)[i] = q[i]
OBVIOUS

LEMMA QueueTail ==
    ASSUME NEW q \in Seq(Requests), q # << >>
    PROVE  /\ Tail(q) \in Seq(Requests) /\ Len(q) \in Nat \ {0}
           /\ Len(Tail(q)) = Len(q) - 1
           /\ \A i \in 1 .. Len(q) - 1 : Tail(q)[i] = q[i + 1]
OBVIOUS

(* Steps that leave the thread, its requests, and the slot's file and      *)
(* content alone.                                                          *)
LEMMA DueStays ==
    ASSUME NEW s, Due(s), UNCHANGED <<encodeQueue, encoding>>,
           imageFile'[s] = imageFile[s],
           encImage'[s].content = encImage[s].content
    PROVE  Due(s)'
<1>1. Requested(s) => Requested(s)'
  BY DEF Requested, NoneAfter
<1>2. Encodes(s) => Encodes(s)'
  BY DEF Encodes, NoneAfter
<1>3. IsEncoded(s) => IsEncoded(s)'
  BY DEF IsEncoded, NoneAfter
<1> QED
  BY <1>1, <1>2, <1>3 DEF Due

(* A new file: its request is the last one of its slot, and no request of  *)
(* another slot.                                                           *)
LEMMA DueAdded ==
    ASSUME SiloTypeOK, NEW t \in Slots, NEW image \in AllImages, SiloAdd(t, image),
           encoding' = encoding, NEW s \in Slots,
           encImage'[s].content = encImage[s].content, s # t => Due(s)
    PROVE  Due(s)'
<1> DEFINE r == [slot |-> t, image |-> image]
<1>1. r \in Requests /\ r.slot = t /\ r.image = image
  BY SlotNumbers DEF Requests
<1>2. /\ encodeQueue' = Append(encodeQueue, r) /\ encodeQueue \in Seq(Requests)
      /\ imageFile'[s] = IF s = t THEN image ELSE imageFile[s]
  BY DEF SiloAdd, SiloTypeOK
<1> HIDE DEF r
<1>3. /\ Len(encodeQueue) \in Nat /\ Len(encodeQueue') = Len(encodeQueue) + 1
      /\ encodeQueue'[Len(encodeQueue) + 1] = r
      /\ \A i \in 1 .. Len(encodeQueue) : encodeQueue'[i] = encodeQueue[i]
  BY <1>1, <1>2, QueueAppended
<1>4. CASE s = t
  <2>1. NoneAfter(encodeQueue', s, Len(encodeQueue) + 1)
    BY <1>3 DEF NoneAfter
  <2>2. Requested(s)'
    BY <1>1, <1>2, <1>3, <1>4, <2>1 DEF Requested, NoneAfter
  <2> QED
    BY <2>2 DEF Due
<1>5. CASE s # t
  <2>1. ASSUME NEW i \in 0 .. Len(encodeQueue), NoneAfter(encodeQueue, s, i)
        PROVE  NoneAfter(encodeQueue', s, i)
    <3>1. ASSUME NEW j \in i + 1 .. Len(encodeQueue'), j <= Len(encodeQueue)
          PROVE  encodeQueue'[j].slot # s
      BY <1>3, <2>1, <3>1 DEF NoneAfter
    <3>2. ASSUME NEW j \in i + 1 .. Len(encodeQueue'), ~(j <= Len(encodeQueue))
          PROVE  encodeQueue'[j].slot # s
      <4>1. j = Len(encodeQueue) + 1
        BY <1>3, <3>2
      <4> QED
        BY <1>1, <1>3, <1>5, <4>1
    <3> QED
      BY <3>1, <3>2 DEF NoneAfter
  <2>2. Requested(s) => Requested(s)'
    <3> SUFFICES ASSUME Requested(s) PROVE Requested(s)'
      OBVIOUS
    <3>1. PICK i \in 1 .. Len(encodeQueue) :
              /\ encodeQueue[i].slot = s /\ encodeQueue[i].image = imageFile[s]
              /\ NoneAfter(encodeQueue, s, i)
      BY DEF Requested
    <3>2. i \in 1 .. Len(encodeQueue') /\ i \in 0 .. Len(encodeQueue)
      BY <1>3
    <3>3. NoneAfter(encodeQueue', s, i)
      BY <2>1, <3>1, <3>2
    <3> QED
      BY <1>2, <1>3, <1>5, <3>1, <3>2, <3>3 DEF Requested, NoneAfter
  <2>3. NoneAfter(encodeQueue, s, 0) => NoneAfter(encodeQueue', s, 0)
    BY <1>3, <2>1
  <2>4. Encodes(s) => Encodes(s)'
    BY <1>2, <1>5, <2>3 DEF Encodes, NoneAfter
  <2>5. IsEncoded(s) => IsEncoded(s)'
    BY <1>2, <1>5, <2>3 DEF IsEncoded, NoneAfter
  <2> QED
    BY <1>5, <2>2, <2>4, <2>5 DEF Due
<1> QED
  BY <1>4, <1>5

(* The thread takes the first request: it finds the file.                  *)
LEMMA DueEncodeNext ==
    ASSUME SiloTypeOK, EncodeNext, NEW s \in Slots, imageFile[s] \in files, Due(s)
    PROVE  Due(s)'
<1> DEFINE q == encodeQueue  er == encodeQueue[1]
<1>1. /\ q \in Seq(Requests) /\ q # << >> /\ encoding = None
      /\ q' = Tail(q) /\ imageFile' = imageFile /\ encImage' = encImage
      /\ encoding' = [slot |-> er.slot, image |-> er.image, open |-> er.image \in files]
  BY DEF EncodeNext, SiloTypeOK
<1>2. /\ Len(q) \in Nat \ {0} /\ Len(q') = Len(q) - 1
      /\ \A i \in 1 .. Len(q) - 1 : q'[i] = q[i + 1]
  BY <1>1, QueueTail
<1>3. er \in Requests
  BY <1>1, <1>2
<1>4. encoding' # None
  <2>1. encoding' \in [slot : Int, image : AllImages, open : BOOLEAN]
    BY <1>1, <1>3, SlotNumbers DEF Requests
  <2> QED
    BY <2>1, NoneAssumption
<1>5. /\ encoding'.slot = er.slot /\ encoding'.image = er.image
      /\ encoding'.open <=> er.image \in files
  BY <1>1
<1>6. ASSUME NEW i \in 1 .. Len(q), NoneAfter(q, s, i)
      PROVE  NoneAfter(q', s, i - 1)
  <2>1. ASSUME NEW j \in i .. Len(q')
        PROVE  q'[j].slot # s
    <3>1. j \in 1 .. Len(q) - 1 /\ j + 1 \in i + 1 .. Len(q)
      BY <1>2
    <3> QED
      BY <1>2, <1>6, <3>1 DEF NoneAfter
  <2>2. (i - 1) + 1 = i
    OBVIOUS
  <2> QED
    BY <2>1, <2>2 DEF NoneAfter
<1>7. CASE Requested(s)
  <2>1. PICK i \in 1 .. Len(q) :
            q[i].slot = s /\ q[i].image = imageFile[s] /\ NoneAfter(q, s, i)
    BY <1>7 DEF Requested
  <2>2. NoneAfter(q', s, i - 1)
    BY <1>6, <2>1
  <2>3. CASE i = 1
    <3>1. NoneAfter(q', s, 0)
      BY <2>2, <2>3
    <3>2. Encodes(s)'
      BY <1>1, <1>4, <1>5, <2>1, <2>3, <3>1 DEF Encodes, NoneAfter
    <3> QED
      BY <3>2 DEF Due
  <2>4. CASE i # 1
    <3>1. i - 1 \in 1 .. Len(q') /\ q'[i - 1] = q[i]
      BY <1>2, <2>4
    <3>2. Requested(s)'
      BY <1>1, <2>1, <2>2, <3>1 DEF Requested, NoneAfter
    <3> QED
      BY <3>2 DEF Due
  <2> QED
    BY <2>3, <2>4
<1>8. CASE Encodes(s)
  BY <1>1, <1>8 DEF Encodes
<1>9. CASE IsEncoded(s)
  <2>1. er.slot # s
    BY <1>2, <1>9 DEF IsEncoded, NoneAfter
  <2>2. NoneAfter(q', s, 0)
    <3>1. NoneAfter(q, s, 1)
      BY <1>9 DEF IsEncoded, NoneAfter
    <3> QED
      BY <1>2, <1>6, <3>1
  <2>3. IsEncoded(s)'
    BY <1>1, <1>5, <1>9, <2>1, <2>2 DEF IsEncoded, NoneAfter
  <2> QED
    BY <2>3 DEF Due
<1> QED
  BY <1>7, <1>8, <1>9 DEF Due

(* The encoded image is stored.                                            *)
LEMMA DueEncoded ==
    ASSUME SiloTypeOK, Encoded, NEW s \in Slots, Due(s)
    PROVE  Due(s)'
<1>1. /\ encoding # None /\ encoding' = None
      /\ UNCHANGED <<encodeQueue, imageFile>>
      /\ encoding.slot \in 0 .. EMPTY
  BY DEF Encoded, SiloTypeOK
<1>2. Requested(s) => Requested(s)'
  BY <1>1 DEF Requested, NoneAfter
<1>3. Encodes(s) => IsEncoded(s)'
  <2> SUFFICES ASSUME Encodes(s) PROVE IsEncoded(s)'
    OBVIOUS
  <2>1. encImage'[s].content = imageFile[s]
    BY SlotNumbers DEF Encodes, Encoded, SiloTypeOK
  <2> QED
    BY <1>1, <2>1 DEF Encodes, IsEncoded, NoneAfter
<1>4. IsEncoded(s) => IsEncoded(s)'
  <2> SUFFICES ASSUME IsEncoded(s) PROVE IsEncoded(s)'
    OBVIOUS
  <2>1. encoding.slot # s \/ ~encoding.open
    BY <1>1 DEF IsEncoded
  <2>2. encImage'[s] = encImage[s]
    BY <1>1, <2>1, SlotNumbers DEF Encoded, SiloTypeOK
  <2> QED
    BY <1>1, <2>2 DEF IsEncoded, NoneAfter
<1> QED
  BY <1>2, <1>3, <1>4 DEF Due

(* Clearing the mark of new content is not a change of the content.        *)
LEMMA ContentStays ==
    ASSUME TypeOK, Next, ~Encoded, NEW s \in Slots
    PROVE  encImage'[s].content = encImage[s].content
<1> USE DEF TypeOK, CoreTypeOK, HansTypeOK
<1>0. encImage \in Encodings /\ currentSlot \in 0 .. EMPTY /\ s \in 0 .. EMPTY
      /\ 0 \in 0 .. EMPTY
  BY SlotNumbers DEF SiloTypeOK, Encodings
<1>1. ASSUME NEW t \in 0 .. EMPTY, encImage' = NotNew(encImage, t)
      PROVE  encImage'[s].content = encImage[s].content
  BY <1>0, <1>1, NotNewClears
<1>2. CASE ServeHans
  <2>1. pkt.led \in 0 .. EMPTY
    BY <1>2 DEF ServeHans
  <2>2. PICK t \in 0 .. EMPTY : encImage' = NotNew(NotNew(encImage, currentSlot), t)
    BY <1>0, <1>2, <2>1 DEF ServeHans
  <2>3. /\ NotNew(encImage, currentSlot) \in Encodings
        /\ NotNew(encImage, currentSlot)[s].content = encImage[s].content
    BY <1>0, NotNewClears
  <2> QED
    BY <1>0, <2>2, <2>3, NotNewClears
<1>3. CASE InsertSpecial
  BY <1>0, <1>1, <1>3 DEF InsertSpecial
<1>4. CASE \E t \in 0 .. EMPTY : AtariSetsSlot(t) \/ WebSetsSlot(t)
  BY <1>1, <1>4 DEF AtariSetsSlot, WebSetsSlot
<1>5. ASSUME \/ \E t \in Slots : (\E image \in Images : Add(t, image)) \/ Swap(t) \/ Remove(t)
             \/ WebSetsLed \/ (\E ids \in BusIds : SetBusIds(ids))
             \/ EncodeNext \/ EncodingCheck \/ ComposeForHans \/ Hans \/ Franz
      PROVE  encImage' = encImage
  BY <1>5
  DEF Add, Swap, Remove, WebSetsLed, SetBusIds, EncodeNext, EncodingCheck, ComposeForHans,
      Hans, Button, SendFw, ProcessCommands, AnswerLost, PacketTimeout,
      Franz, DiskChange, SendTrack, siloVars
<1> QED
  BY <1>2, <1>3, <1>4, <1>5 DEF Next, Silo, Thread, Core

LEMMA UsedGrows == ASSUME Next PROVE used \subseteq used'
<1>1. \A S : Event(S) => used \subseteq used'
  BY DEF Event
<1>2. CASE Silo
  BY <1>1, <1>2
  DEF Silo, Add, Swap, Remove, AtariSetsSlot, WebSetsSlot, WebSetsLed, InsertSpecial,
      SetBusIds, eventVars
<1>3. CASE Hans
  BY <1>1, <1>3
  DEF Hans, Button, SendFw, ProcessCommands, AnswerLost, PacketTimeout, eventVars
<1>4. CASE Thread \/ Core \/ Franz
  BY <1>4
  DEF Thread, EncodeNext, Encoded, Core, EncodingCheck, ComposeForHans, ServeHans,
      Franz, DiskChange, SendTrack, eventVars
<1> QED
  BY <1>2, <1>3, <1>4 DEF Next

LEMMA EncodingStep ==
    ASSUME TypeOK, EncodingDue, Next
    PROVE  EncodingDue'
<1> SUFFICES ASSUME used' \intersect {"swap", "shared"} = {},
                    NEW s \in Slots, imageFile'[s] \in files'
             PROVE  Due(s)'
  BY DEF EncodingDue
<1> USE DEF TypeOK
<1>1. imageFile[s] \in files => Due(s)
  BY UsedGrows DEF EncodingDue
<1>2. ASSUME NEW t \in Slots, NEW image \in Images, Add(t, image)
      PROVE  Due(s)'
  <2>1. image \in AllImages
    BY DEF AllImages
  <2>2. SiloAdd(t, image) /\ encoding' = encoding /\ encImage' = encImage
    BY <1>2 DEF Add
  <2>3. ASSUME s # t PROVE Due(s)
    <3>1. imageFile[s] # image
      BY <1>2, <2>3 DEF Add, Event
    <3>2. imageFile'[s] = imageFile[s] /\ files' = files \union {image}
      BY <1>2, <2>2, <2>3 DEF Add, SiloAdd, SiloTypeOK
    <3> QED
      BY <1>1, <3>1, <3>2
  <2> QED
    BY <2>1, <2>2, <2>3, DueAdded
<1>3. CASE InsertSpecial
  <2>1. 0 \in Slots /\ Special \in AllImages
    BY SlotNumbers DEF AllImages
  <2>2. SiloAdd(0, Special) /\ encoding' = encoding /\ files' = files
    BY <1>3 DEF InsertSpecial
  <2>3. encImage'[s].content = encImage[s].content
    <3>1. encImage \in Encodings /\ encImage' = NotNew(encImage, 0)
      BY <1>3 DEF InsertSpecial, SiloTypeOK, Encodings
    <3> QED
      BY <3>1, SlotNumbers, NotNewClears
  <2>4. ASSUME s # 0 PROVE Due(s)
    BY <1>1, <2>2, <2>4 DEF SiloAdd, SiloTypeOK
  <2> QED
    BY <2>1, <2>2, <2>3, <2>4, DueAdded
<1>4. ASSUME NEW t \in Slots, Swap(t)
      PROVE  Due(s)'
  BY <1>4 DEF Swap, Event
<1>5. ASSUME NEW t \in Slots, Remove(t)
      PROVE  Due(s)'
  <2>1. /\ imageFile'[s] = IF s = t THEN None ELSE imageFile[s]
        /\ files' = files \ {imageFile[t]} /\ files \subseteq AllImages
        /\ UNCHANGED <<encodeQueue, encoding, encImage>>
    BY <1>5 DEF Remove, SiloTypeOK
  <2>2. s # t /\ imageFile[s] \in files
    BY <2>1, NoneAssumption
  <2> QED
    BY <1>1, <2>1, <2>2, DueStays
<1>6. CASE EncodeNext
  BY <1>1, <1>6, DueEncodeNext DEF EncodeNext
<1>7. CASE Encoded
  BY <1>1, <1>7, DueEncoded DEF Encoded
<1>8. ASSUME \/ \E t \in 0 .. EMPTY : AtariSetsSlot(t) \/ WebSetsSlot(t)
             \/ WebSetsLed \/ (\E ids \in BusIds : SetBusIds(ids))
             \/ Core \/ Hans \/ Franz
      PROVE  Due(s)'
  <2>1. UNCHANGED <<imageFile, files, encodeQueue, encoding>>
    BY <1>8
    DEF AtariSetsSlot, WebSetsSlot, WebSetsLed, SetBusIds, Core, EncodingCheck,
        ComposeForHans, ServeHans, Hans, Button, SendFw, ProcessCommands, AnswerLost,
        PacketTimeout, Franz, DiskChange, SendTrack, siloVars
  <2>2. CASE Encoded
    BY <1>7, <2>2
  <2>3. CASE ~Encoded
    BY <1>1, <2>1, <2>3, ContentStays, DueStays
  <2> QED
    BY <2>2, <2>3
<1> QED
  BY <1>2, <1>3, <1>4, <1>5, <1>6, <1>7, <1>8 DEF Next, Silo, Thread

(* The file of a slot is what its encoded image is, or will be next: a     *)
(* request, the thread's work or the stored image is that of the file, and *)
(* no older request comes over it, unless slots were swapped or two slots  *)
(* shared a file (imagesilo.cpp, add() and run()).                         *)
THEOREM EncodingDueHolds == Spec => []EncodingDue
<1>1. Init => EncodingDue
  <2> SUFFICES ASSUME Init, NEW s \in Slots PROVE imageFile[s] \notin files
    BY DEF EncodingDue
  <2>1. imageFile[s] = None /\ files \subseteq AllImages
    BY DEF Init, AllImages
  <2> QED
    BY <2>1, NoneAssumption
<1>2. TypeOK /\ EncodingDue /\ [Next]_vars => EncodingDue'
  <2>1. ASSUME EncodingDue, UNCHANGED vars PROVE EncodingDue'
    BY <2>1 DEF EncodingDue, Due, Requested, Encodes, IsEncoded, NoneAfter, vars,
                siloVars, eventVars
  <2> QED
    BY <2>1, EncodingStep
<1> QED
  BY <1>1, <1>2, ImagesTypeCorrect, PTL DEF Spec

\* The slot that Franz is served from is the one of the LED Hans told of.
SlotFollowsLed ==
    used \intersect {"set", "special"} = {} =>
        currentSlot = IF lastLed = -1 THEN EMPTY ELSE lastLed

LEMMA SlotFollowsStep ==
    ASSUME TypeOK, SlotFollowsLed, Next
    PROVE  SlotFollowsLed'
<1> SUFFICES ASSUME used' \intersect {"set", "special"} = {}
             PROVE  currentSlot' = IF lastLed' = -1 THEN EMPTY ELSE lastLed'
  BY DEF SlotFollowsLed
<1>1. currentSlot = IF lastLed = -1 THEN EMPTY ELSE lastLed
  BY UsedGrows DEF SlotFollowsLed
<1>2. CASE ServeHans
  <2>1. pkt.led \in Nat
    BY <1>2, SlotNumbers DEF ServeHans, TypeOK, CoreTypeOK, HansTypeOK
  <2> QED
    BY <1>1, <1>2, <2>1 DEF ServeHans
<1>3. CASE InsertSpecial \/ \E t \in 0 .. EMPTY : AtariSetsSlot(t) \/ WebSetsSlot(t)
  BY <1>3 DEF InsertSpecial, AtariSetsSlot, WebSetsSlot, Event
<1>4. ASSUME \/ \E t \in Slots : (\E image \in Images : Add(t, image)) \/ Swap(t) \/ Remove(t)
             \/ WebSetsLed \/ (\E ids \in BusIds : SetBusIds(ids))
             \/ Thread \/ EncodingCheck \/ ComposeForHans \/ Hans \/ Franz
      PROVE  UNCHANGED <<currentSlot, lastLed>>
  BY <1>4
  DEF Add, Swap, Remove, WebSetsLed, SetBusIds, Thread, EncodeNext, Encoded, EncodingCheck,
      ComposeForHans, Hans, Button, SendFw, ProcessCommands, AnswerLost, PacketTimeout,
      Franz, DiskChange, SendTrack, siloVars, coreVars
<1> QED
  BY <1>1, <1>2, <1>3, <1>4 DEF Next, Silo, Core

(* Unless a program sets it or the configuration image is inserted, the    *)
(* current slot is that of the last LED the core thread heard of           *)
(* (ccorethread.cpp, handleFwVersion_hans()).                              *)
THEOREM SlotFollowsLedHolds == Spec => []SlotFollowsLed
<1>1. Init => SlotFollowsLed
  BY DEF Init, SlotFollowsLed
<1>2. TypeOK /\ SlotFollowsLed /\ [Next]_vars => SlotFollowsLed'
  <2>1. ASSUME SlotFollowsLed, UNCHANGED vars PROVE SlotFollowsLed'
    BY <2>1 DEF SlotFollowsLed, vars, siloVars, coreVars, eventVars
  <2> QED
    BY <2>1, SlotFollowsStep
<1> QED
  BY <1>1, <1>2, ImagesTypeCorrect, PTL DEF Spec
=============================================================================
