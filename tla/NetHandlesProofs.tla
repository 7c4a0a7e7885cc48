-------------------------- MODULE NetHandlesProofs --------------------------
(***************************************************************************)
(* Proofs about NetHandles, for any numbers of slots, of slots the driver  *)
(* updates, of connections and of failing commands.                        *)
(***************************************************************************)
EXTENDS NetHandles, FiniteSetTheorems, TLAPS

Nets == {"none", "connecting", "refused", "unreachable", "unconnected", "awaited",
         "up", "left", "hung up"}

(***************************************************************************)
(* Types                                                                   *)
(***************************************************************************)

LEMMA Sizes == /\ Slots \in Nat /\ Cons \in Nat /\ MaxFaults \in Nat
               /\ 0 \in 0 .. Slots /\ 0 \in 0 .. Cons
<1>1. Slots \in Nat /\ Cons \in Nat /\ MaxFaults \in Nat
  BY HandlesAssumption
<1> QED
  BY <1>1

LEMMA FaultNat == ASSUME NEW o PROVE Fault(o) \in Nat
BY DEF Fault

LEMMA FaultsBounded ==
    ASSUME faults \in 0 .. MaxFaults, NEW n \in Nat, faults' = faults + n,
           faults' <= MaxFaults
    PROVE  faults' \in 0 .. MaxFaults /\ faults' >= faults
BY Sizes

LEMMA FaultsBounded2 ==
    ASSUME faults \in 0 .. MaxFaults, NEW m \in Nat, NEW n \in Nat,
           faults' = faults + m + n, faults' <= MaxFaults
    PROVE  faults' \in 0 .. MaxFaults /\ faults' >= faults
BY Sizes

LEMMA FreeTypes == Free \in [con : 0 .. Cons, status : Status]
BY Sizes DEF Free, Status

LEMMA SeenTypes ==
    ASSUME NEW x \in [con : 0 .. Cons, status : Status], NEW n
    PROVE  Seen(x, n) \in [con : 0 .. Cons, status : Status]
<1>1. [x EXCEPT !.status = "established"] \in [con : 0 .. Cons, status : Status]
  BY DEF Status
<1> QED
  BY <1>1, FreeTypes DEF Seen

LEMMA DialledTypes ==
    ASSUME NEW n \in [Con -> Nets], NEW sl PROVE Dialled(sl, n) \in [Con -> Nets]
<1>1. \A c \in Con : Dialled(sl, n)[c] \in {n[c], "unconnected", "connecting"}
  BY DEF Dialled
<1> QED
  BY <1>1 DEF Dialled, Nets

LEMMA UpdateTypes ==
    ASSUME NEW sl \in [Slot -> [con : 0 .. Cons, status : Status]],
           NEW st \in [Slot -> Status], NEW n \in [Con -> Nets],
           faults \in 0 .. MaxFaults, Update(sl, st, n)
    PROVE  /\ slot' \in [Slot -> [con : 0 .. Cons, status : Status]]
           /\ state' \in [Slot -> Status] /\ net' \in [Con -> Nets]
           /\ faults' \in 0 .. MaxFaults /\ faults' >= faults
<1>1. \A s \in Slot : Seen(sl[s], n) \in [con : 0 .. Cons, status : Status]
  BY SeenTypes
<1>2. Fetched(sl, st, n) \in [Slot -> Status]
  <2>1. \A s \in Slot : Seen(sl[s], n).status \in Status
    BY <1>1
  <2> QED
    BY <2>1 DEF Fetched
<1>3. PICK o \in Outcomes : /\ faults' = faults + Fault(o) /\ faults' <= MaxFaults
                            /\ Updated(sl, st, n, o)
  BY DEF Update
<1>4. faults' \in 0 .. MaxFaults /\ faults' >= faults
  BY <1>3, FaultNat, FaultsBounded
<1> QED
  BY <1>1, <1>2, <1>3, <1>4, DialledTypes DEF Updated

LEMMA InitTypes == ASSUME Init PROVE TypeOK
BY HandlesAssumption DEF Init, TypeOK, Free, Status, Con, Slot

LEMMA LostBounded ==
    ASSUME TypeOK, faults' \in 0 .. MaxFaults, faults' >= faults, lost' = lost
    PROVE  lost' \in 0 .. faults'
<1>1. lost \in 0 .. faults /\ faults \in 0 .. MaxFaults
  BY DEF TypeOK
<1> QED
  BY <1>1, Sizes

LEMMA OpenedTypes ==
    ASSUME TypeOK, NEW active \in BOOLEAN, NEW s \in EmptySlots, Opens(s)
    PROVE  /\ s \in Slot /\ s \in 0 .. Slots /\ opened' \in 0 .. Cons
           /\ Opened(active, s) \in [Slot -> [con : 0 .. Cons, status : Status]]
           /\ Dials(active) \in [Con -> Nets]
<1>1. opened + 1 \in Con /\ opened' = opened + 1
  BY DEF Opens
<1>2. opened + 1 \in 0 .. Cons /\ s \in Slot /\ s \in 0 .. Slots
  BY <1>1, Sizes DEF Con, Slot, EmptySlots
<1>3. /\ Connecting(opened + 1) \in [con : 0 .. Cons, status : Status]
      /\ Listening(opened + 1) \in [con : 0 .. Cons, status : Status]
  BY <1>2 DEF Connecting, Listening, Status
<1> QED
  BY <1>1, <1>2, <1>3 DEF Opened, Dials, TypeOK, Nets

LEMMA OpenTypes ==
    ASSUME TypeOK, NEW active \in BOOLEAN, Open(active)
    PROVE  TypeOK'
<1>1. PICK s \in EmptySlots :
         /\ Opens(s)
         /\ Update(Opened(active, s), Cleared(s), Dials(active))
         /\ inUse' = inUse \union {s}
         /\ holds' = [holds EXCEPT ![opened + 1] = s]
         /\ UNCHANGED <<told, taken, lost>>
  BY DEF Open
<1>2. Cleared(s) \in [Slot -> Status]
  BY DEF Cleared, Status, TypeOK
<1>3. /\ s \in Slot /\ s \in 0 .. Slots /\ opened' \in 0 .. Cons
      /\ Opened(active, s) \in [Slot -> [con : 0 .. Cons, status : Status]]
      /\ Dials(active) \in [Con -> Nets]
  BY <1>1, OpenedTypes
<1>4. /\ slot' \in [Slot -> [con : 0 .. Cons, status : Status]]
      /\ state' \in [Slot -> Status] /\ net' \in [Con -> Nets]
      /\ faults' \in 0 .. MaxFaults /\ faults' >= faults
  BY <1>1, <1>2, <1>3, UpdateTypes DEF TypeOK
<1>5. lost' \in 0 .. faults'
  BY <1>1, <1>4, LostBounded
<1>6. inUse' \subseteq Slot /\ holds' \in [Con -> 0 .. Slots]
  BY <1>1, <1>3 DEF TypeOK
<1> QED
  BY <1>1, <1>3, <1>4, <1>5, <1>6 DEF TypeOK, Nets

LEMMA LostOpenTypes ==
    ASSUME TypeOK, NEW active \in BOOLEAN, LostOpen(active)
    PROVE  TypeOK'
<1>1. PICK s \in EmptySlots :
         /\ Opens(s)
         /\ slot' = Opened(active, s) /\ net' = Dials(active)
         /\ lost' = lost + 1 /\ faults' = faults + 1 /\ faults' <= MaxFaults
         /\ UNCHANGED <<atari, holds, told, taken>>
  BY DEF LostOpen
<1>2. /\ opened' \in 0 .. Cons
      /\ Opened(active, s) \in [Slot -> [con : 0 .. Cons, status : Status]]
      /\ Dials(active) \in [Con -> Nets]
  BY <1>1, OpenedTypes
<1>3. faults' \in 0 .. MaxFaults /\ lost' \in 0 .. faults'
  <2>1. lost \in 0 .. faults /\ faults \in 0 .. MaxFaults
    BY DEF TypeOK
  <2> QED
    BY <1>1, <2>1, Sizes
<1> QED
  BY <1>1, <1>2, <1>3 DEF TypeOK, atari, Nets

LEMMA VblTypes == ASSUME TypeOK, VblUpdate PROVE TypeOK'
<1>1. /\ slot' \in [Slot -> [con : 0 .. Cons, status : Status]]
      /\ state' \in [Slot -> Status] /\ net' \in [Con -> Nets]
      /\ faults' \in 0 .. MaxFaults /\ faults' >= faults
  BY UpdateTypes DEF VblUpdate, TypeOK, Nets
<1>2. lost' \in 0 .. faults'
  BY <1>1, LostBounded DEF VblUpdate
<1> QED
  BY <1>1, <1>2 DEF TypeOK, VblUpdate, Nets

LEMMA AsksTypes ==
    ASSUME TypeOK, NEW c \in Con, AsksAnew(c) \/ AsksAgain(c) PROVE TypeOK'
<1>1. /\ holds[c] \in inUse
      /\ UNCHANGED <<inUse, holds, opened, taken, lost>>
      /\ told' = [told EXCEPT ![c] = state'[holds[c]]]
      /\ Update(slot, state, net) \/ UNCHANGED <<net, slot, state, faults>>
  BY DEF AsksAnew, AsksAgain, Asks
<1>2. /\ slot' \in [Slot -> [con : 0 .. Cons, status : Status]]
      /\ state' \in [Slot -> Status] /\ net' \in [Con -> Nets]
      /\ faults' \in 0 .. MaxFaults /\ faults' >= faults
  <2>1. CASE Update(slot, state, net)
    BY <2>1, UpdateTypes DEF TypeOK, Nets
  <2>2. CASE UNCHANGED <<net, slot, state, faults>>
    <3>1. faults \in 0 .. MaxFaults
      BY DEF TypeOK
    <3>2. faults >= faults
      BY <3>1, Sizes
    <3> QED
      BY <2>2, <3>2 DEF TypeOK, Nets
  <2> QED
    BY <1>1, <2>1, <2>2
<1>3. told' \in [Con -> Status \union {"nothing"}]
  BY <1>1, <1>2 DEF TypeOK
<1>4. lost' \in 0 .. faults'
  BY <1>1, <1>2, LostBounded
<1> QED
  BY <1>1, <1>2, <1>3, <1>4 DEF TypeOK, Nets

LEMMA CloseTypes == ASSUME TypeOK, NEW c \in Con, Close(c) PROVE TypeOK'
<1>1. /\ holds' \in [Con -> 0 .. Slots] /\ taken' \subseteq Con
      /\ told' \in [Con -> Status \union {"nothing"}]
  BY Sizes DEF Close, TypeOK
<1>2. /\ slot' \in [Slot -> [con : 0 .. Cons, status : Status]] /\ inUse' \subseteq Slot
      /\ faults' \in 0 .. MaxFaults /\ lost' \in 0 .. faults'
  <2>1. CASE holds[c] \notin inUse
    BY <2>1 DEF Close, TypeOK
  <2>2. CASE holds[c] \in inUse
    <3>1. PICK o \in Outcomes :
             /\ faults' = faults + Fault(o) /\ faults' <= MaxFaults
             /\ lost' = lost + Fault(o)
             /\ inUse' = inUse \ {holds[c]}
             /\ slot' = IF o = "unrun" THEN slot ELSE Closed(holds[c])
      BY <2>2 DEF Close
    <3>2. Closed(holds[c]) \in [Slot -> [con : 0 .. Cons, status : Status]]
      BY FreeTypes DEF Closed, TypeOK
    <3>3. faults' \in 0 .. MaxFaults
      BY <3>1, FaultNat, FaultsBounded DEF TypeOK
    <3>4. lost' \in 0 .. faults'
      <4>1. /\ lost \in 0 .. faults /\ faults \in 0 .. MaxFaults
            /\ Fault(o) \in Nat
        BY FaultNat DEF TypeOK
      <4> QED
        BY <3>1, <4>1, Sizes
    <3> QED
      BY <3>1, <3>2, <3>3, <3>4 DEF TypeOK
  <2> QED
    BY <2>1, <2>2
<1> QED
  BY <1>1, <1>2 DEF TypeOK, Close

LEMMA NextTypes == ASSUME TypeOK, [Next]_vars PROVE TypeOK'
<1>1. ASSUME NEW c \in Con, World(c) \/ Reads(c) PROVE TypeOK'
  <2>1. net' \in [Con -> Nets]
    <3>1. \E d \in Con, v \in Nets : net' = [net EXCEPT ![d] = v]
      BY <1>1 DEF World, Answers, Refuses, Misses, HangsUp, Becomes, Reads, Nets
    <3> QED
      BY <3>1 DEF TypeOK, Nets
  <2> QED
    BY <1>1, <2>1 DEF World, Reads, atari, TypeOK, Nets
<1>2. CASE Restart
  <2>1. /\ slot' \in [Slot -> [con : 0 .. Cons, status : Status]]
        /\ holds' \in [Con -> 0 .. Slots]
    BY <1>2, FreeTypes, Sizes DEF Restart
  <2> QED
    BY <1>2, <2>1 DEF Restart, TypeOK, Status
<1>3. CASE UNCHANGED vars
  BY <1>3 DEF vars, atari, TypeOK
<1> QED
  BY <1>1, <1>2, <1>3, OpenTypes, LostOpenTypes, VblTypes, AsksTypes, CloseTypes
     DEF Next

(* The variables keep their types: a handle is a slot of the RPi, and the  *)
(* states the driver has are states of a connection.                       *)
THEOREM HandlesTypeCorrect == Spec => []TypeOK
<1>1. Init => TypeOK
  BY InitTypes
<1>2. TypeOK /\ [Next]_vars => TypeOK'
  BY NextTypes
<1> QED
  BY <1>1, <1>2, PTL DEF Spec

(***************************************************************************)
(* Who holds which slot                                                    *)
(***************************************************************************)

Living == {"connecting", "unreachable", "unconnected", "awaited", "up", "left"}

(* What is not opened yet has left no trace.                               *)
Unopened ==
    /\ \A c \in Con : c > opened => holds[c] = 0 /\ told[c] = "nothing" /\ net[c] = "none"
    /\ \A s \in Slot : slot[s].con <= opened

(* A slot with a connection has a status that the driver can tell from a   *)
(* free one, and has been told it.                                         *)
StatusIsOpen == \A s \in Slot : slot[s].con # 0 => slot[s].status # "closed"
OpenIsKnown ==
    faults = 0 => \A s \in Slot : slot[s].con # 0 =>
        s \in inUse /\ (s <= MaxHandle => state[s] # "closed")

(* The slots that no program will close: the connection is not held under  *)
(* this handle, or the driver has forgotten that the handle is in use.     *)
(* Every lost command adds one at most, and nothing else adds any; the     *)
(* second half is needed because such a slot becomes one without a holder  *)
(* by a TCP_close() that does nothing, and so loses nothing.               *)
Adrift == {s \in Slot : /\ slot[s].con # 0
                        /\ holds[slot[s].con] # s \/ s \notin inUse}
FewAdrift == Cardinality(Adrift) <= lost

SlotInv    == Unopened /\ StatusIsOpen /\ OpenIsKnown /\ HandleIsOwn /\ FewAdrift
HandlesInv == SlotInv /\ ClosedIsTrue

LEMMA CountMembers ==
    ASSUME TypeOK PROVE opened \in Nat /\ faults \in Nat /\ lost \in Nat
<1>1. opened \in 0 .. Cons /\ faults \in 0 .. MaxFaults /\ lost \in 0 .. faults
  BY DEF TypeOK
<1> QED
  BY <1>1, Sizes

(* Counting the slots adrift.                                              *)
LEMMA SlotsFinite == ASSUME NEW S, S \subseteq Slot
                     PROVE  IsFiniteSet(S) /\ Cardinality(S) \in Nat
<1>1. IsFiniteSet(1 .. Slots)
  BY Sizes, FS_Interval
<1> QED
  BY <1>1, FS_Subset, FS_CardinalityType DEF Slot

LEMMA FewerAdrift ==
    ASSUME TypeOK, FewAdrift, Adrift' \subseteq Adrift, lost' \in Nat, lost' >= lost
    PROVE  FewAdrift'
<1>1. Adrift \subseteq Slot
  BY DEF Adrift
<1>2. /\ IsFiniteSet(Adrift) /\ Cardinality(Adrift) \in Nat
      /\ Cardinality(Adrift') \in Nat
  BY <1>1, SlotsFinite
<1>3. Cardinality(Adrift') <= Cardinality(Adrift)
  BY <1>2, FS_Subset
<1> QED
  BY <1>2, <1>3, CountMembers DEF FewAdrift

LEMMA OneMoreAdrift ==
    ASSUME TypeOK, FewAdrift, NEW s \in Slot, Adrift' \subseteq Adrift \union {s},
           lost' = lost + 1
    PROVE  FewAdrift'
<1> DEFINE A == Adrift \union {s}
<1>1. Adrift \subseteq Slot /\ A \subseteq Slot
  BY DEF Adrift
<1>2. /\ IsFiniteSet(Adrift) /\ Cardinality(Adrift) \in Nat
      /\ IsFiniteSet(A) /\ Cardinality(A) \in Nat
      /\ Cardinality(Adrift') \in Nat
  BY <1>1, SlotsFinite
<1>3. Cardinality(A) <= Cardinality(Adrift) + 1
  BY <1>2, FS_AddElement
<1>4. Cardinality(Adrift') <= Cardinality(A)
  BY <1>2, FS_Subset
<1> QED
  BY <1>2, <1>3, <1>4, CountMembers DEF FewAdrift

LEMMA HoldMembers ==
    ASSUME TypeOK, NEW c \in Con
    PROVE  c # 0 /\ (holds[c] # 0 => holds[c] \in Slot)
<1>1. holds[c] \in 0 .. Slots
  BY DEF TypeOK
<1>2. c # 0
  BY Sizes DEF Con
<1> QED
  BY <1>1, <1>2, Sizes DEF Slot

LEMMA SlotMembers ==
    ASSUME TypeOK, NEW s \in Slot
    PROVE  /\ slot[s] \in [con : 0 .. Cons, status : Status]
           /\ slot[s].con \in Nat
           /\ slot[s].con # 0 => slot[s].con \in Con
<1>1. slot[s] \in [con : 0 .. Cons, status : Status]
  BY DEF TypeOK
<1>2. slot[s].con \in 0 .. Cons
  BY <1>1
<1> QED
  BY <1>1, <1>2, Sizes DEF Con

LEMMA NoFault ==
    ASSUME TypeOK, NEW o \in Outcomes, faults' = faults + Fault(o), faults' = 0
    PROVE  faults = 0 /\ o = "ok"
<1>1. Fault(o) \in {0, 1} /\ (Fault(o) = 0 => o = "ok")
  BY DEF Fault
<1>2. faults \in Nat
  BY CountMembers
<1> QED
  BY <1>1, <1>2

(* What an update does to a slot: it is freed only when its connection is  *)
(* over, and it is never given to another one.                             *)
LEMMA SeenSlot ==
    ASSUME NEW x \in [con : 0 .. Cons, status : Status], NEW n,
           x.con # 0 => x.status # "closed"
    PROVE  /\ Seen(x, n).con \in {0, x.con}
           /\ x.con # 0 /\ n[x.con] \in Living => Seen(x, n).con = x.con
           /\ Seen(x, n).con # 0 => Seen(x, n).status # "closed"
<1> DEFINE e == [x EXCEPT !.status = "established"]
<1>1. e.con = x.con /\ e.status = "established"
  OBVIOUS
<1>2. Free.con = 0
  BY DEF Free
<1>3. Seen(x, n) \in {x, Free, e}
  BY DEF Seen
<1>4. x.con # 0 /\ n[x.con] \in Living => Seen(x, n) \in {x, e}
  BY DEF Seen, Living
<1> HIDE DEF e
<1> QED
  BY <1>1, <1>2, <1>3, <1>4

LEMMA UpdatedSlots ==
    ASSUME NEW sl \in [Slot -> [con : 0 .. Cons, status : Status]],
           NEW st \in [Slot -> Status], NEW n, NEW o,
           \A s \in Slot : sl[s].con # 0 => sl[s].status # "closed",
           Updated(sl, st, n, o), NEW s \in Slot
    PROVE  /\ slot'[s].con \in {0, sl[s].con}
           /\ sl[s].con # 0 /\ n[sl[s].con] \in Living => slot'[s].con = sl[s].con
           /\ slot'[s].con # 0 => slot'[s].status # "closed"
           /\ o = "ok" /\ s <= MaxHandle /\ slot'[s].con # 0 => state'[s] # "closed"
<1>1. /\ Seen(sl[s], n).con \in {0, sl[s].con}
      /\ sl[s].con # 0 /\ n[sl[s].con] \in Living => Seen(sl[s], n).con = sl[s].con
      /\ Seen(sl[s], n).con # 0 => Seen(sl[s], n).status # "closed"
  BY SeenSlot
<1>2. slot'[s] = sl[s] \/ slot'[s] = Seen(sl[s], n)
  BY DEF Updated
<1>3. o = "ok" => slot'[s] = Seen(sl[s], n)
  BY DEF Updated
<1>4. o = "ok" /\ s <= MaxHandle => state'[s] = Seen(sl[s], n).status
  BY DEF Updated, Fetched
<1> QED
  BY <1>1, <1>2, <1>3, <1>4

LEMMA InitHandles == ASSUME Init PROVE HandlesInv
<1>1. Unopened
  BY DEF Init, Unopened, Free, Con
<1>2. StatusIsOpen /\ OpenIsKnown
  BY DEF Init, StatusIsOpen, OpenIsKnown, Free
<1>4. FewAdrift
  <2>1. Adrift = {} /\ lost = 0
    BY DEF Init, Adrift, Free
  <2> QED
    BY <2>1, FS_EmptySet DEF FewAdrift
<1>3. HandleIsOwn /\ ClosedIsTrue
  BY DEF Init, HandleIsOwn, ClosedIsTrue
<1> QED
  BY <1>1, <1>2, <1>3, <1>4 DEF HandlesInv, SlotInv

(* A connection that connect() tries again was alive before.               *)
LEMMA DialledLives ==
    ASSUME NEW n \in [Con -> Nets], NEW sl, NEW c \in Con
    PROVE  /\ Dialled(sl, n)[c] \in Living <=> n[c] \in Living
           /\ Dialled(sl, n)[c] = "none" <=> n[c] = "none"
<1>1. \/ Dialled(sl, n)[c] = n[c]
      \/ n[c] \in {"unreachable", "unconnected"}
         /\ Dialled(sl, n)[c] \in {"connecting", "unconnected"}
  BY DEF Dialled
<1> QED
  BY <1>1 DEF Living

(* The driver's update, in the VBL interrupt or in a call.                 *)
LEMMA UpdateHandles ==
    ASSUME TypeOK, SlotInv, Update(slot, state, net),
           UNCHANGED <<inUse, holds, opened, taken, lost>>,
           \A c \in Con : c > opened => told'[c] = "nothing"
    PROVE  /\ SlotInv' /\ (faults' = 0 => faults = 0)
           /\ \A c \in Con : Alive(c)' <=> Alive(c)
<1>0. PICK o \in Outcomes : /\ faults' = faults + Fault(o) /\ faults' <= MaxFaults
                            /\ Updated(slot, state, net, o)
  BY DEF Update
<1>1. \A s \in Slot :
         /\ slot'[s].con \in {0, slot[s].con}
         /\ slot[s].con # 0 /\ net[slot[s].con] \in Living => slot'[s].con = slot[s].con
         /\ slot'[s].con # 0 => slot'[s].status # "closed"
         /\ o = "ok" /\ s <= MaxHandle /\ slot'[s].con # 0 => state'[s] # "closed"
  <2>1. \A s \in Slot : slot[s].con # 0 => slot[s].status # "closed"
    BY DEF SlotInv, StatusIsOpen
  <2>2. /\ slot \in [Slot -> [con : 0 .. Cons, status : Status]]
        /\ state \in [Slot -> Status]
    BY DEF TypeOK
  <2> QED
    BY <1>0, <2>1, <2>2, UpdatedSlots
<1>2. faults' = 0 => faults = 0 /\ o = "ok"
  BY <1>0, NoFault
<1>7. \A c \in Con : /\ net'[c] \in Living <=> net[c] \in Living
                     /\ net'[c] = "none" <=> net[c] = "none"
  <2>1. net \in [Con -> Nets]
    BY DEF TypeOK, Nets
  <2> QED
    BY <1>0, <2>1, DialledLives DEF Updated
<1>8. \A c \in Con : Alive(c)' <=> Alive(c)
  BY <1>7 DEF Alive, Living
<1>3. Unopened'
  <2>1. \A s \in Slot : slot'[s].con <= opened
    BY <1>1, SlotMembers, CountMembers DEF SlotInv, Unopened
  <2> QED
    BY <1>7, <2>1 DEF SlotInv, Unopened
<1>4. StatusIsOpen' /\ OpenIsKnown'
  BY <1>1, <1>2 DEF SlotInv, StatusIsOpen, OpenIsKnown
<1>5. HandleIsOwn'
  <2> SUFFICES ASSUME NEW c \in Con, holds[c] # 0, Alive(c), c \notin taken
               PROVE  slot'[holds[c]].con = c /\ holds[c] \in inUse
    BY <1>8 DEF HandleIsOwn
  <2>1. slot[holds[c]].con = c /\ holds[c] \in inUse
    BY DEF SlotInv, HandleIsOwn
  <2>2. holds[c] \in Slot /\ c # 0
    BY HoldMembers
  <2>3. net[c] \in Living
    BY DEF Alive, Living
  <2> QED
    BY <1>1, <2>1, <2>2, <2>3
<1>6. FewAdrift'
  <2>1. Adrift' \subseteq Adrift
    BY <1>1 DEF Adrift
  <2>2. lost' \in Nat /\ lost' >= lost
    BY CountMembers
  <2> QED
    BY <2>1, <2>2, FewerAdrift DEF SlotInv
<1> QED
  BY <1>2, <1>3, <1>4, <1>5, <1>6, <1>8 DEF SlotInv

(* The peers, and the reading of the last bytes.                           *)
LEMMA WorldHandles ==
    ASSUME TypeOK, HandlesInv, NEW c \in Con, World(c) \/ Reads(c) PROVE HandlesInv'
<1>0. UNCHANGED <<slot, inUse, state, holds, told, opened, taken, lost, faults>>
  BY DEF World, Reads, atari
<1>1. PICK d \in Con, v \in Nets : /\ net' = [net EXCEPT ![d] = v] /\ net[d] # "none"
                                   /\ (v \in Living => net[d] \in Living)
  <2>1. CASE World(c)
    BY <2>1 DEF World, Answers, Refuses, Misses, HangsUp, Becomes, Nets, Living
  <2>2. CASE Reads(c)
    BY <2>2 DEF Reads, Nets, Living
  <2> QED
    BY <2>1, <2>2
<1>2. \A e \in Con : Alive(e)' => Alive(e)
  BY <1>1 DEF Alive, Living, TypeOK
<1>3. Unopened'
  BY <1>0, <1>1 DEF HandlesInv, SlotInv, Unopened, TypeOK
<1>4. StatusIsOpen' /\ OpenIsKnown' /\ FewAdrift'
  BY <1>0 DEF HandlesInv, SlotInv, StatusIsOpen, OpenIsKnown, FewAdrift, Adrift
<1>5. HandleIsOwn' /\ ClosedIsTrue'
  BY <1>0, <1>2 DEF HandlesInv, SlotInv, HandleIsOwn, ClosedIsTrue
<1> QED
  BY <1>3, <1>4, <1>5 DEF HandlesInv, SlotInv

LEMMA VblHandles == ASSUME TypeOK, HandlesInv, VblUpdate PROVE HandlesInv'
<1>1. Update(slot, state, net) /\ UNCHANGED <<inUse, holds, told, opened, taken, lost>>
  BY DEF VblUpdate
<1>2. /\ SlotInv' /\ (faults' = 0 => faults = 0)
      /\ \A c \in Con : Alive(c)' <=> Alive(c)
  BY <1>1, UpdateHandles DEF HandlesInv, SlotInv, Unopened
<1>3. ClosedIsTrue'
  BY <1>1, <1>2 DEF HandlesInv, ClosedIsTrue
<1> QED
  BY <1>2, <1>3 DEF HandlesInv

LEMMA AsksHandles ==
    ASSUME TypeOK, HandlesInv, NEW c \in Con, AsksAnew(c) \/ AsksAgain(c)
    PROVE  HandlesInv'
<1>1. /\ UNCHANGED <<inUse, holds, opened, taken, lost>> /\ holds[c] \in inUse
      /\ told' = [told EXCEPT ![c] = state'[holds[c]]]
      /\ Update(slot, state, net) \/ UNCHANGED <<net, slot, state, faults>>
  BY DEF AsksAnew, AsksAgain, Asks
<1>0. holds[c] # 0
  <2>1. \A s \in Slot : s # 0
    BY Sizes DEF Slot
  <2> QED
    BY <1>1, <2>1 DEF TypeOK
<1>2. \A d \in Con : d > opened => d # c
  BY <1>1, <1>0 DEF HandlesInv, SlotInv, Unopened
<1>3. \A d \in Con : d > opened => told'[d] = "nothing"
  BY <1>1, <1>2 DEF HandlesInv, SlotInv, Unopened, TypeOK
<1>4. /\ SlotInv' /\ (faults' = 0 => faults = 0)
      /\ \A d \in Con : Alive(d)' <=> Alive(d)
  <2>1. CASE UNCHANGED <<net, slot, state, faults>>
    <3>1. Unopened'
      BY <1>1, <1>3, <2>1 DEF HandlesInv, SlotInv, Unopened
    <3>2. StatusIsOpen' /\ OpenIsKnown' /\ FewAdrift' /\ HandleIsOwn'
      BY <1>1, <2>1 DEF HandlesInv, SlotInv, StatusIsOpen, OpenIsKnown, FewAdrift,
                        Adrift, HandleIsOwn, Alive
    <3>3. \A d \in Con : Alive(d)' <=> Alive(d)
      BY <2>1 DEF Alive
    <3> QED
      BY <2>1, <3>1, <3>2, <3>3 DEF SlotInv
  <2>2. CASE Update(slot, state, net)
    BY <1>1, <1>3, <2>2, UpdateHandles DEF HandlesInv
  <2> QED
    BY <1>1, <2>1, <2>2
<1>5. ClosedIsTrue'
  <2> SUFFICES ASSUME faults' = 0, NEW d \in Con, holds[d] \in 1 .. MaxHandle,
                      told'[d] = "closed", Alive(d), d \notin taken
               PROVE  FALSE
    BY <1>1, <1>4 DEF ClosedIsTrue
  <2>1. CASE d # c
    BY <1>1, <1>4, <2>1 DEF HandlesInv, ClosedIsTrue, TypeOK
  <2>2. CASE d = c
    <3>1. holds[d] # 0 /\ Alive(d)'
      BY <1>0, <1>4, <2>2
    <3>2. slot'[holds[d]].con = d /\ holds[d] \in inUse
      BY <1>1, <1>4, <3>1 DEF SlotInv, HandleIsOwn
    <3>3. holds[d] \in Slot /\ d # 0 /\ holds[d] <= MaxHandle
      <4>1. \A n \in 1 .. MaxHandle : n <= MaxHandle /\ n # 0
        BY HandlesAssumption
      <4> QED
        BY <4>1, HoldMembers
    <3>4. state'[holds[d]] # "closed"
      BY <1>4, <3>2, <3>3 DEF SlotInv, OpenIsKnown
    <3> QED
      BY <1>1, <2>2, <3>4 DEF TypeOK
  <2> QED
    BY <2>1, <2>2
<1> QED
  BY <1>4, <1>5 DEF HandlesInv

LEMMA CloseHandles ==
    ASSUME TypeOK, HandlesInv, NEW c \in Con, Close(c) PROVE HandlesInv'
<1> DEFINE s == holds[c]
<1>1. /\ holds' = [holds EXCEPT ![c] = 0] /\ s \in Slot
      /\ told' = [told EXCEPT ![c] = "nothing"]
      /\ taken' = (taken \ {c}) \union
                  {d \in Con \ {c} : s \in inUse /\ holds[d] = s /\ slot[s].con = d}
      /\ UNCHANGED <<net, state, opened>>
  BY HoldMembers DEF Close
<1>2. /\ slot' = slot \/ slot' = [slot EXCEPT ![s] = Free]
      /\ inUse' = inUse \ {s}
      /\ s \notin inUse => slot' = slot
      /\ lost' \in Nat /\ lost' >= lost
      /\ \/ lost' = lost + 1
         \/ s \notin inUse
         \/ slot' = [slot EXCEPT ![s] = Free]
      /\ faults' = 0 => /\ faults = 0
                        /\ s \in inUse => slot' = [slot EXCEPT ![s] = Free]
  <2>1. CASE s \notin inUse
    <3>1. UNCHANGED <<slot, inUse, lost, faults>>
      BY <2>1 DEF Close
    <3> QED
      BY <2>1, <3>1, CountMembers
  <2>2. CASE s \in inUse
    <3>1. PICK o \in Outcomes :
             /\ faults' = faults + Fault(o) /\ lost' = lost + Fault(o)
             /\ inUse' = inUse \ {s}
             /\ slot' = IF o = "unrun" THEN slot ELSE Closed(s)
      BY <2>2 DEF Close
    <3>2. faults' = 0 => faults = 0 /\ o = "ok"
      BY <3>1, NoFault
    <3>3. Fault(o) \in Nat /\ (o = "unrun" => Fault(o) = 1)
      BY DEF Fault
    <3>4. lost' \in Nat /\ lost' >= lost /\ (o = "unrun" => lost' = lost + 1)
      BY <3>1, <3>3, CountMembers
    <3> QED
      BY <2>2, <3>1, <3>2, <3>4 DEF Closed
  <2> QED
    BY <2>1, <2>2
<1>3. Free.con = 0
  BY DEF Free
<1> HIDE DEF s
<1>4. \A t \in Slot : slot'[t] = slot[t] \/ (t = s /\ slot'[t] = Free)
  BY <1>2 DEF TypeOK
<1>5. Unopened'
  <2>1. \A t \in Slot : slot'[t].con <= opened
    BY <1>3, <1>4, SlotMembers, CountMembers DEF HandlesInv, SlotInv, Unopened
  <2> QED
    BY <1>1, <2>1 DEF HandlesInv, SlotInv, Unopened, TypeOK
<1>6. StatusIsOpen'
  BY <1>3, <1>4 DEF HandlesInv, SlotInv, StatusIsOpen
<1>7. faults' = 0 => faults = 0 /\ slot'[s].con = 0
  BY <1>1, <1>2, <1>3 DEF HandlesInv, SlotInv, OpenIsKnown, TypeOK
<1>8. OpenIsKnown'
  BY <1>1, <1>2, <1>3, <1>4, <1>7 DEF HandlesInv, SlotInv, OpenIsKnown
<1>9. HandleIsOwn'
  <2> SUFFICES ASSUME NEW d \in Con, holds'[d] # 0, Alive(d), d \notin taken'
               PROVE  slot'[holds'[d]].con = d /\ holds'[d] \in inUse'
    BY <1>1 DEF HandleIsOwn, Alive
  <2>1. d # c /\ holds'[d] = holds[d] /\ d \notin taken
    BY <1>1 DEF TypeOK
  <2>2. slot[holds[d]].con = d /\ holds[d] \in inUse
    BY <2>1 DEF HandlesInv, SlotInv, HandleIsOwn
  <2>3. holds[d] # s
    BY <1>1, <2>1, <2>2
  <2>4. holds[d] \in Slot
    BY <2>2 DEF TypeOK
  <2> QED
    BY <1>2, <1>4, <2>1, <2>2, <2>3, <2>4
<1>10. FewAdrift'
  <2>1. \A t \in Slot : t # s /\ t \in Adrift' => t \in Adrift
    <3> SUFFICES ASSUME NEW t \in Slot, t # s, t \in Adrift' PROVE t \in Adrift
      OBVIOUS
    <3>1. slot'[t] = slot[t] /\ (t \in inUse' <=> t \in inUse)
      BY <1>2, <1>4
    <3>2. slot[t].con # 0 /\ slot[t].con \in Con
      BY <3>1, SlotMembers DEF Adrift
    <3>3. CASE slot[t].con = c
      BY <3>2, <3>3 DEF Adrift, s
    <3>4. CASE slot[t].con # c
      <4>1. holds'[slot[t].con] = holds[slot[t].con]
        BY <1>1, <3>2, <3>4 DEF TypeOK
      <4> QED
        BY <3>1, <3>2, <4>1 DEF Adrift
    <3> QED
      BY <3>3, <3>4
  <2>2. Adrift' \subseteq Adrift \union {s}
    BY <2>1 DEF Adrift
  <2>3. CASE lost' = lost + 1
    BY <1>1, <2>2, <2>3, OneMoreAdrift DEF HandlesInv, SlotInv
  <2>4. CASE s \notin inUse \/ slot' = [slot EXCEPT ![s] = Free]
    <3>1. s \in Adrift' => s \in Adrift
      BY <1>1, <1>2, <1>3, <2>4 DEF Adrift, TypeOK
    <3>2. Adrift' \subseteq Adrift
      BY <2>1, <3>1 DEF Adrift
    <3> QED
      BY <1>2, <3>2, FewerAdrift DEF HandlesInv, SlotInv
  <2> QED
    BY <1>2, <2>3, <2>4
<1>11. ClosedIsTrue'
  <2> SUFFICES ASSUME faults' = 0, NEW d \in Con, holds'[d] \in 1 .. MaxHandle,
                      told'[d] = "closed", Alive(d), d \notin taken'
               PROVE  FALSE
    BY <1>1 DEF ClosedIsTrue, Alive
  <2>1. d # c
    <3>1. 0 \notin 1 .. MaxHandle
      BY HandlesAssumption
    <3> QED
      BY <1>1, <3>1 DEF TypeOK
  <2>2. holds'[d] = holds[d] /\ told'[d] = told[d] /\ d \notin taken
    BY <1>1, <2>1 DEF TypeOK
  <2> QED
    BY <1>7, <2>2 DEF HandlesInv, ClosedIsTrue
<1> QED
  BY <1>5, <1>6, <1>8, <1>9, <1>10, <1>11 DEF HandlesInv, SlotInv

LEMMA RestartHandles == ASSUME TypeOK, HandlesInv, Restart PROVE HandlesInv'
<1>1. Free.con = 0
  BY DEF Free
<1>2. Unopened'
  <2>1. \A s \in Slot : slot'[s].con = 0
    BY <1>1 DEF Restart
  <2> QED
    BY <2>1, CountMembers DEF Restart, HandlesInv, SlotInv, Unopened
<1>3. StatusIsOpen' /\ OpenIsKnown'
  BY <1>1 DEF Restart, StatusIsOpen, OpenIsKnown
<1>4. HandleIsOwn' /\ ClosedIsTrue'
  <2>1. 0 \notin 1 .. MaxHandle
    BY HandlesAssumption
  <2> QED
    BY <2>1 DEF Restart, HandleIsOwn, ClosedIsTrue
<1>5. FewAdrift'
  <2>1. Adrift' \subseteq Adrift /\ lost' = lost
    BY <1>1 DEF Restart, Adrift
  <2> QED
    BY <2>1, CountMembers, FewerAdrift DEF HandlesInv, SlotInv
<1> QED
  BY <1>2, <1>3, <1>4, <1>5 DEF HandlesInv, SlotInv

(* The first empty slot is nobody's, and the new connection is not known   *)
(* anywhere yet.                                                           *)
LEMMA OpensNew ==
    ASSUME TypeOK, SlotInv, NEW active \in BOOLEAN, NEW s \in EmptySlots,
           Opens(s), NEW c, c = opened + 1
    PROVE  /\ c \in Con /\ c # 0 /\ opened' = c /\ s \in Slot /\ slot[s].con = 0
           /\ holds[c] = 0 /\ told[c] = "nothing"
           /\ \A d \in Con : d > c => d > opened /\ d # c
           /\ \A t \in Slot : slot[t].con # c /\ slot[t].con <= c
           /\ 0 <= c /\ c <= c
<1>1. c \in Con /\ opened' = c /\ s \in Slot /\ slot[s].con = 0
  BY DEF Opens, EmptySlots
<1>2. c > opened /\ (\A d \in Con : d > c => d > opened /\ d # c) /\ 0 <= c /\ c <= c
  BY CountMembers, Sizes DEF Con
<1>3. \A n \in Nat : n <= opened => n # c /\ n <= c
  BY CountMembers
<1>4. \A t \in Slot : slot[t].con # c /\ slot[t].con <= c
  BY <1>3, SlotMembers DEF SlotInv, Unopened
<1> QED
  BY <1>1, <1>2, <1>4, HoldMembers DEF SlotInv, Unopened

LEMMA OpenedSlots ==
    ASSUME TypeOK, SlotInv, NEW active \in BOOLEAN, NEW s \in EmptySlots,
           Opens(s), NEW c, c = opened + 1
    PROVE  /\ \A t \in Slot :
                 /\ t # s => Opened(active, s)[t] = slot[t]
                 /\ Opened(active, s)[s].con = c
                 /\ Opened(active, s)[t].con # 0
                        => Opened(active, s)[t].status # "closed"
           /\ \A d \in Con : d # c => Dials(active)[d] = net[d]
           /\ Dials(active)[c] \in {"connecting", "awaited"}
<1>1. \A t \in Slot : slot[t].con # 0 => slot[t].status # "closed"
  BY DEF SlotInv, StatusIsOpen
<1>2. c \in Con /\ s \in Slot
  BY OpensNew
<1> QED
  BY <1>1, <1>2 DEF Opened, Dials, Connecting, Listening, TypeOK

(* TCP_open() with a good answer: the new connection is held.              *)
LEMMA OpenHandles ==
    ASSUME TypeOK, HandlesInv, NEW active \in BOOLEAN, Open(active)
    PROVE  HandlesInv'
<1> DEFINE c == opened + 1
<1>0. PICK s \in EmptySlots :
         /\ Opens(s)
         /\ Update(Opened(active, s), Cleared(s), Dials(active))
         /\ inUse' = inUse \union {s}
         /\ holds' = [holds EXCEPT ![c] = s]
         /\ UNCHANGED <<told, taken, lost>>
  BY DEF Open
<1> DEFINE sl == Opened(active, s)
           n  == Dials(active)
<1>c. c = opened + 1
  OBVIOUS
<1> HIDE DEF c
<1>1. /\ c \in Con /\ c # 0 /\ opened' = c /\ s \in Slot /\ slot[s].con = 0
      /\ holds[c] = 0 /\ told[c] = "nothing"
      /\ \A d \in Con : d > c => d > opened /\ d # c
      /\ \A t \in Slot : slot[t].con # c /\ slot[t].con <= c
      /\ 0 <= c /\ c <= c
  BY <1>0, <1>c, OpensNew DEF HandlesInv
<1>2. /\ \A t \in Slot :
            /\ t # s => sl[t] = slot[t]
            /\ sl[s].con = c
            /\ sl[t].con # 0 => sl[t].status # "closed"
      /\ \A d \in Con : d # c => n[d] = net[d]
      /\ n[c] \in {"connecting", "awaited"}
  BY <1>0, <1>c, OpenedSlots DEF HandlesInv
<1>3. /\ sl \in [Slot -> [con : 0 .. Cons, status : Status]]
      /\ Cleared(s) \in [Slot -> Status] /\ n \in [Con -> Nets]
  <2>1. Cleared(s) \in [Slot -> Status]
    BY DEF Cleared, Status, TypeOK
  <2> QED
    BY <1>0, <2>1, OpenedTypes
<1>u. PICK o \in Outcomes : /\ faults' = faults + Fault(o)
                            /\ Updated(sl, Cleared(s), n, o)
  BY <1>0 DEF Update
<1> HIDE DEF sl, n
<1>4. \A t \in Slot :
         /\ slot'[t].con \in {0, sl[t].con}
         /\ sl[t].con # 0 /\ n[sl[t].con] \in Living => slot'[t].con = sl[t].con
         /\ slot'[t].con # 0 => slot'[t].status # "closed"
         /\ o = "ok" /\ t <= MaxHandle /\ slot'[t].con # 0 => state'[t] # "closed"
  BY <1>2, <1>3, <1>u, UpdatedSlots
<1>5. \A d \in Con : /\ net'[d] \in Living <=> n[d] \in Living
                     /\ net'[d] = "none" <=> n[d] = "none"
  BY <1>3, <1>u, DialledLives DEF Updated
<1>6. faults' = 0 => faults = 0 /\ o = "ok"
  BY <1>u, NoFault
<1>7. \A d \in Con : d # c => /\ holds'[d] = holds[d]
                              /\ net'[d] \in Living <=> net[d] \in Living
                              /\ net'[d] = "none" <=> net[d] = "none"
  BY <1>0, <1>2, <1>5 DEF TypeOK
<1>8. holds'[c] = s /\ n[c] \in Living
  BY <1>0, <1>1, <1>2 DEF TypeOK, Living
<1>9. Unopened'
  <2>1. \A t \in Slot : slot'[t].con <= c
    BY <1>1, <1>2, <1>4
  <2>2. \A d \in Con : d > c => holds'[d] = 0 /\ told'[d] = "nothing" /\ net'[d] = "none"
    BY <1>0, <1>1, <1>7 DEF HandlesInv, SlotInv, Unopened
  <2> QED
    BY <1>1, <2>1, <2>2 DEF Unopened
<1>10. StatusIsOpen'
  BY <1>4 DEF StatusIsOpen
<1>11. OpenIsKnown'
  BY <1>0, <1>2, <1>4, <1>6 DEF OpenIsKnown, HandlesInv, SlotInv
<1>12. HandleIsOwn'
  <2> SUFFICES ASSUME NEW d \in Con, holds'[d] # 0, Alive(d)', d \notin taken
               PROVE  slot'[holds'[d]].con = d /\ holds'[d] \in inUse'
    BY <1>0 DEF HandleIsOwn
  <2>1. net'[d] \in Living
    BY DEF Alive, Living
  <2>2. CASE d = c
    BY <1>0, <1>1, <1>2, <1>4, <1>8, <2>2
  <2>3. CASE d # c
    <3>1. Alive(d) /\ holds[d] # 0 /\ holds'[d] = holds[d] /\ d # 0
      BY <1>7, <2>1, <2>3, HoldMembers DEF Alive, Living
    <3>2. slot[holds[d]].con = d /\ holds[d] \in inUse /\ holds[d] \in Slot
      BY <3>1, HoldMembers DEF HandlesInv, SlotInv, HandleIsOwn
    <3>3. holds[d] # s
      BY <1>1, <3>1, <3>2
    <3>4. n[d] \in Living
      BY <1>5, <2>1
    <3> QED
      BY <1>0, <1>2, <1>4, <3>1, <3>2, <3>3, <3>4
  <2> QED
    BY <2>2, <2>3
<1>13. FewAdrift'
  <2>1. Adrift' \subseteq Adrift
    <3> SUFFICES ASSUME NEW t \in Slot, t \in Adrift' PROVE t \in Adrift
      BY DEF Adrift
    <3>1. t # s
      BY <1>0, <1>2, <1>4, <1>8 DEF Adrift
    <3>2. slot'[t].con = slot[t].con /\ slot[t].con # 0 /\ slot[t].con # c
      BY <1>1, <1>2, <1>4, <3>1 DEF Adrift
    <3>3. holds'[slot[t].con] = holds[slot[t].con]
      BY <1>7, <3>2, SlotMembers
    <3> QED
      BY <1>0, <3>1, <3>2, <3>3 DEF Adrift
  <2>2. lost' \in Nat /\ lost' >= lost
    BY <1>0, CountMembers
  <2> QED
    BY <2>1, <2>2, FewerAdrift DEF HandlesInv, SlotInv
<1>14. ClosedIsTrue'
  <2> SUFFICES ASSUME faults' = 0, NEW d \in Con, holds'[d] \in 1 .. MaxHandle,
                      told[d] = "closed", Alive(d)', d \notin taken
               PROVE  FALSE
    BY <1>0 DEF ClosedIsTrue
  <2>1. d # c
    BY <1>1
  <2>2. Alive(d) /\ holds[d] \in 1 .. MaxHandle
    BY <1>7, <2>1 DEF Alive, Living
  <2> QED
    BY <1>6, <2>2 DEF HandlesInv, ClosedIsTrue
<1> QED
  BY <1>9, <1>10, <1>11, <1>12, <1>13, <1>14 DEF HandlesInv, SlotInv

(* TCP_open() with a lost answer: one more slot is adrift.                 *)
LEMMA LostOpenHandles ==
    ASSUME TypeOK, HandlesInv, NEW active \in BOOLEAN, LostOpen(active)
    PROVE  HandlesInv'
<1> DEFINE c == opened + 1
<1>0. PICK s \in EmptySlots :
         /\ Opens(s)
         /\ slot' = Opened(active, s) /\ net' = Dials(active)
         /\ lost' = lost + 1 /\ faults' = faults + 1
         /\ UNCHANGED <<inUse, state, holds, told, taken>>
  BY DEF LostOpen, atari
<1>c. c = opened + 1
  OBVIOUS
<1> HIDE DEF c
<1>1. /\ c \in Con /\ c # 0 /\ opened' = c /\ s \in Slot /\ slot[s].con = 0
      /\ holds[c] = 0 /\ told[c] = "nothing"
      /\ \A d \in Con : d > c => d > opened /\ d # c
      /\ \A t \in Slot : slot[t].con # c /\ slot[t].con <= c
      /\ 0 <= c /\ c <= c
  BY <1>0, <1>c, OpensNew DEF HandlesInv
<1>2. /\ \A t \in Slot :
            /\ t # s => slot'[t] = slot[t]
            /\ slot'[s].con = c
            /\ slot'[t].con # 0 => slot'[t].status # "closed"
      /\ \A d \in Con : d # c => net'[d] = net[d]
  BY <1>0, <1>c, OpenedSlots DEF HandlesInv
<1>3. faults' # 0
  BY <1>0, CountMembers
<1>4. Unopened'
  <2>1. \A t \in Slot : slot'[t].con <= c
    BY <1>1, <1>2
  <2>2. \A d \in Con : d > c => holds[d] = 0 /\ told[d] = "nothing" /\ net'[d] = "none"
    BY <1>1, <1>2 DEF HandlesInv, SlotInv, Unopened
  <2> QED
    BY <1>0, <1>1, <2>1, <2>2 DEF Unopened
<1>5. StatusIsOpen'
  BY <1>2 DEF StatusIsOpen
<1>6. HandleIsOwn'
  <2> SUFFICES ASSUME NEW d \in Con, holds[d] # 0, Alive(d)', d \notin taken
               PROVE  slot'[holds[d]].con = d /\ holds[d] \in inUse
    BY <1>0 DEF HandleIsOwn
  <2>1. d # c
    BY <1>1
  <2>2. Alive(d)
    BY <1>2, <2>1 DEF Alive
  <2>3. slot[holds[d]].con = d /\ holds[d] \in inUse /\ holds[d] \in Slot /\ d # 0
    BY <2>2, HoldMembers DEF HandlesInv, SlotInv, HandleIsOwn
  <2> QED
    BY <1>1, <1>2, <2>3
<1>7. OpenIsKnown' /\ ClosedIsTrue'
  BY <1>3 DEF OpenIsKnown, ClosedIsTrue
<1>8. FewAdrift'
  <2>1. Adrift' \subseteq Adrift \union {s}
    BY <1>0, <1>2 DEF Adrift
  <2> QED
    BY <1>0, <1>1, <2>1, OneMoreAdrift DEF HandlesInv, SlotInv
<1> QED
  BY <1>4, <1>5, <1>6, <1>7, <1>8 DEF HandlesInv, SlotInv

LEMMA NextHandles == ASSUME TypeOK, HandlesInv, [Next]_vars PROVE HandlesInv'
<1>1. CASE UNCHANGED vars
  <2>1. Unopened' /\ StatusIsOpen' /\ OpenIsKnown'
    BY <1>1 DEF vars, atari, HandlesInv, SlotInv, Unopened, StatusIsOpen, OpenIsKnown
  <2>2. HandleIsOwn' /\ FewAdrift' /\ ClosedIsTrue'
    BY <1>1 DEF vars, atari, HandlesInv, SlotInv, HandleIsOwn, FewAdrift, Adrift,
                ClosedIsTrue, Alive
  <2> QED
    BY <2>1, <2>2 DEF HandlesInv, SlotInv
<1> QED
  BY <1>1, OpenHandles, LostOpenHandles, WorldHandles, AsksHandles, CloseHandles,
     VblHandles, RestartHandles DEF Next

LEMMA HandlesInvHolds == Spec => [](TypeOK /\ HandlesInv)
<1>1. Init => TypeOK /\ HandlesInv
  BY InitTypes, InitHandles
<1>2. TypeOK /\ HandlesInv /\ [Next]_vars => (TypeOK /\ HandlesInv)'
  BY NextTypes, NextHandles
<1> QED
  BY <1>1, <1>2, PTL DEF Spec

(* A handle leads to its own connection, until its peer refused, or hung   *)
(* up with all bytes read, or another program closed it: slots are freed,  *)
(* by the Atari and by the RPi itself, and given away again, but never     *)
(* under a living connection, and whatever commands fail.                  *)
THEOREM HandleIsOwnHolds == Spec => []HandleIsOwn
<1>1. TypeOK /\ HandlesInv => HandleIsOwn
  BY DEF HandlesInv, SlotInv
<1> QED
  BY <1>1, HandlesInvHolds, PTL

(* Whatever is opened, repeated, closed and hung up: the RPi has no more    *)
(* slots with a connection nobody holds than TCP_OPENs lost their answer   *)
(* after they ran, good in the end or not, and TCP_CLOSEs failed.          *)
THEOREM OpenIsHeldHolds == Spec => []OpenIsHeld
<1>1. TypeOK /\ HandlesInv => OpenIsHeld
  <2> SUFFICES ASSUME TypeOK, HandlesInv PROVE OpenIsHeld
    OBVIOUS
  <2>1. Unheld \subseteq Adrift /\ Adrift \subseteq Slot
    BY DEF Unheld, Adrift
  <2>2. /\ IsFiniteSet(Adrift) /\ Cardinality(Adrift) \in Nat
        /\ Cardinality(Unheld) \in Nat
    BY <2>1, SlotsFinite
  <2>3. Cardinality(Unheld) <= Cardinality(Adrift)
    BY <2>1, <2>2, FS_Subset
  <2> QED
    BY <2>2, <2>3, CountMembers DEF OpenIsHeld, HandlesInv, SlotInv, FewAdrift
<1> QED
  BY <1>1, HandlesInvHolds, PTL

(* Without a fault, a program that is told its connection is closed is     *)
(* told the truth, if the driver updates the slot at all.                  *)
THEOREM ClosedIsTrueHolds == Spec => []ClosedIsTrue
<1>1. TypeOK /\ HandlesInv => ClosedIsTrue
  BY DEF HandlesInv
<1> QED
  BY <1>1, HandlesInvHolds, PTL
=============================================================================
