------------------------------ MODULE IkbdKeys ------------------------------
(***************************************************************************)
(* The keys and joysticks of the emulated IKBD on the Raspberry Pi         *)
(* (src/ce_main_app/ikbd/ikbd_usb.cpp and ikbd_st.cpp).  A USB keyboard    *)
(* and the keyboard of the ST are merged.  Some keys may act as a joystick *)
(* ("keyb joys"), and with CTRL and SHIFT, F12 switches that on and off    *)
(* and F11 swaps the joysticks of the ST; while a program on the ST talks  *)
(* to the CosmosEx (clientConnected), no key is translated.                *)
(*                                                                         *)
(* The ST learns of keys and joysticks from make and break codes and from  *)
(* joystick and mouse packets only: told is what it has to believe.  The   *)
(* way there of the bytes is the module FranzUart; the names that both     *)
(* modules need start with Ikbd here, so that IkbdProofs extends both.     *)
(***************************************************************************)
EXTENDS Integers, Sequences, FiniteSets, Functions

CONSTANTS KeysOf,       \* the keys of each keyboard
          MaxHeld,      \* bound: keys held at a time
          MaxBatch,     \* bound: keys of the ST in one call
          MaxChanges    \* bound: commands, settings, programs, keyboards

\* The keys that count for hotkeys, and those of keyb joy 0 with the default
\* settings: A, D, and LSHIFT for the button.
HotKeys == {"ctrl", "lshift", "rshift", "f11", "f12"}
JoyKeys == {"left", "right", "lshift"}
Ports   == {0, 1}
Boards  == {"pc", "st"}
Keys    == UNION Range(KeysOf)

ASSUME KeysAssumption ==
    /\ KeysOf \in [Boards -> SUBSET (HotKeys \union JoyKeys)]
    /\ {MaxHeld, MaxBatch, MaxChanges} \subseteq Nat

VARIABLES
    down,       \* the keys that are held: pairs of a keyboard and a key
    stick,      \* the ST's own joysticks that are pushed
    client,     \* clientConnected
    ikbd,       \* the object: see IkbdTypeOK
    told,       \* what the ST was told
    unsteady,   \* a key's, or stick's, meaning changed while it was held
    skipped,    \* the last key came with its translation skipped beforehand
    carried,    \* a key that acts as a joystick was sent as a key: see OneKey
    forgot,     \* the counters were reset, or a keyboard removed, while held
    changes     \* counter of the bound

ikbdVars == <<down, stick, client, ikbd, told, unsteady, skipped, carried,
              forgot, changes>>

IkbdInit ==
    /\ down = {} /\ stick = {} /\ client \in BOOLEAN
    /\ \E on, first \in BOOLEAN :
          ikbd = [cnt |-> [k \in HotKeys |-> 0], waiting |-> FALSE,
                  keybJoy |-> on, firstJoyIs0 |-> first, mode |-> "mouse",
                  dir |-> "none", btn |-> FALSE]
    /\ told = [keys |-> {}, dir |-> [p \in Ports |-> "none"], mouse |-> FALSE]
    /\ unsteady = FALSE /\ skipped = FALSE /\ carried = FALSE
    /\ forgot = FALSE /\ changes = 0

-----------------------------------------------------------------------------
(* One key *)

Held(d, k) == \E b \in Boards : <<b, k>> \in d
HeldBy(d, k) == Cardinality({b \in Boards : <<b, k>> \in d})

\* Whether a key is a joystick now.
AsJoy(i, c, k) == k \in JoyKeys /\ i.keybJoy /\ ~i.waiting /\ ~c

\* The port a stick of the ST is reported for.
Port(i, p) == IF i.firstJoyIs0 /\ i.mode = "joy" THEN 1 - p ELSE p

\* A change from i to j gives a held key or stick another meaning.
Unsteady(i, j, c1, c2, d) ==
    \/ \E bk \in d : AsJoy(i, c1, bk[2]) # AsJoy(j, c2, bk[2])
    \/ d # {} /\ i.mode # j.mode
    \/ \E p \in stick : Port(i, p) # Port(j, p)

\* Mutant: only the keys of a hotkey in use are counted.
CountedInUse(i, k, press) ==
    IF k \notin HotKeys \/ i.waiting THEN i
    ELSE [i EXCEPT !.cnt[k] = IF press THEN @ + 1 ELSE @ - 1]

\* handleHotkeys(): the counters, the hotkeys, and the wait for the release of
\* all their keys.  The result says whether to skip the translation.
Counted(i, k, press) ==
    IF k \notin HotKeys THEN i
    ELSE [i EXCEPT !.cnt[k] = IF press THEN @ + 1 ELSE @ - 1]

Combined(i) == (i.cnt["lshift"] > 0 \/ i.cnt["rshift"] > 0) /\ i.cnt["ctrl"] > 0

Switched(i, press) ==
    IF ~press \/ ~Combined(i) THEN i
    ELSE IF i.cnt["f11"] > 0 THEN [i EXCEPT !.firstJoyIs0 = ~@]
    ELSE IF i.cnt["f12"] > 0
    THEN [i EXCEPT !.keybJoy = IF i.cnt["lshift"] > 0 THEN ~@ ELSE @,
                   !.waiting = TRUE]
    ELSE i

\* Mutant: the end of the wait is off by one.
HotkeysBelowZero(i, k, press, skip) ==
    LET counted  == Counted(i, k, press)
        switched == Switched(counted, press)
        released == \A h \in HotKeys : switched.cnt[h] < 0
    IN IF skip THEN [ikbd |-> counted, skip |-> TRUE]
       ELSE [ikbd |-> [switched EXCEPT !.waiting = @ /\ ~released],
             skip |-> switched.waiting]

\* The result of a call, with skip for the rest of the translation.
Hotkeys(i, k, press, skip) ==
    LET counted  == Counted(i, k, press)
        switched == Switched(counted, press)
        released == \A h \in HotKeys : switched.cnt[h] <= 0
    IN IF skip THEN [ikbd |-> counted, skip |-> TRUE]
       ELSE [ikbd |-> [switched EXCEPT !.waiting = @ /\ ~released],
             skip |-> switched.waiting]

\* handleKeyAsKeybJoy(), processJoystick(): the axis or the button; only a
\* change is told, a change of the button in mouse mode by a mouse packet.  (The
\* button that a joystick packet tells of as well is left out of told.)
Moved(i, k, press) ==
    IF k = "lshift" THEN [i EXCEPT !.btn = press]
    ELSE [i EXCEPT !.dir = IF press THEN k ELSE "none"]

ToldJoy(i, j, t) ==
    IF i.dir = j.dir /\ i.btn = j.btn THEN t
    ELSE IF j.mode = "mouse" /\ i.btn # j.btn THEN [t EXCEPT !.mouse = j.btn]
    ELSE [t EXCEPT !.dir[0] = j.dir]

\* Mutant: the code of the key is not masked.
ToldKeyUnmasked(t, k, press) == [t EXCEPT !.keys = @ \union {k}]

\* The make or break code of the key.
ToldKey(t, k, press) ==
    [t EXCEPT !.keys = IF press THEN @ \union {k} ELSE @ \ {k}]

\* A key event: the state s of a call with its local skipKeyboardTranslation.
\* That is TRUE already if a program talks to the CosmosEx, or when an earlier
\* key of the batch came while waiting.  Then the hotkeys and the end of the
\* wait are not looked at (skipped), and a key that acts as a joystick can be
\* sent as a key; so can one that is pressed when a wait, left over in that
\* way, ends with it (carried).
OneKey(s, board, k, press) ==
    LET h     == Hotkeys(s.ikbd, k, press, s.skip)
        joy   == ~h.skip /\ k \in JoyKeys /\ h.ikbd.keybJoy
        moved == Moved(h.ikbd, k, press)
        d     == IF press THEN s.down \union {<<board, k>>}
                          ELSE s.down \ {<<board, k>>}
    IN [ikbd |-> IF joy THEN moved ELSE h.ikbd,
        told |-> IF joy THEN ToldJoy(h.ikbd, moved, s.told)
                 ELSE ToldKey(s.told, k, press),
        down |-> d, skip |-> h.skip,
        unsteady |-> \/ s.unsteady
                     \/ Unsteady(s.ikbd, h.ikbd, client, client, s.down \cap d),
        skipped |-> s.skip,
        carried |-> \/ s.carried
                    \/ /\ ~joy /\ AsJoy(h.ikbd, client, k)
                       /\ press \/ s.skip]

-----------------------------------------------------------------------------
(* Actions *)

Takes(s) ==
    /\ Cardinality(s.down) <= MaxHeld
    /\ down' = s.down /\ ikbd' = s.ikbd /\ told' = s.told
    /\ unsteady' = s.unsteady /\ skipped' = s.skipped /\ carried' = s.carried
    /\ UNCHANGED <<stick, client, forgot, changes>>

Call == [ikbd |-> ikbd, told |-> told, down |-> down, skip |-> client,
         unsteady |-> unsteady, skipped |-> skipped, carried |-> carried]

\* processKeyboard(): a key of the USB keyboard.
PcKey(k) == Takes(OneKey(Call, "pc", k, <<"pc", k>> \notin down))

\* processKeyboardData(): the keys of the ST that have arrived, with one local
\* variable for all of them.
AfterKeys(batch) ==
    LET s[i \in 0 .. Len(batch)] ==
            IF i = 0 THEN Call
            ELSE OneKey(s[i - 1], "st", batch[i],
                        <<"st", batch[i]>> \notin s[i - 1].down)
    IN s[Len(batch)]

StKeys(batch) == Takes(AfterKeys(batch))

\* The same, a packet of a joystick of the ST.
StStick(p) ==
    /\ stick' = IF p \in stick THEN stick \ {p} ELSE stick \union {p}
    /\ told' = [told EXCEPT !.dir[Port(ikbd, p)] =
                                IF p \in stick THEN "none" ELSE "pushed"]
    /\ UNCHANGED <<down, client, ikbd, unsteady, skipped, carried, forgot, changes>>

Changes == changes < MaxChanges /\ changes' = changes + 1

Becomes(i, c, lost) ==
    /\ Changes
    /\ ikbd' = i /\ client' = c
    /\ unsteady' = (unsteady \/ Unsteady(ikbd, i, client, c, down))
    /\ forgot' = (forgot \/ (lost /\ \E bk \in down : bk[2] \in HotKeys))
    /\ UNCHANGED <<down, stick, told, skipped, carried>>

\* processStCommands(): a joystick or a mouse command, and the reset, with
\* resetInternalIkbdVars().
StMode(m) == Becomes([ikbd EXCEPT !.mode = m], client, FALSE)

StReset ==
    Becomes([ikbd EXCEPT !.mode = "mouse", !.waiting = FALSE,
                         !.cnt = [k \in HotKeys |-> 0]], client, TRUE)

\* ikbdThreadCode(): commands of the ST arrive, or none for two seconds; the
\* settings are loaded again.
ClientChanges == Becomes(ikbd, ~client, FALSE)

LoadSettings(on, first) ==
    Becomes([ikbd EXCEPT !.keybJoy = on, !.firstJoyIs0 = first], client, FALSE)

\* deinitDev(): the keyboard is gone, no key of it is released.
Unplug ==
    /\ Changes
    /\ \E k \in Keys : <<"pc", k>> \in down
    /\ down' = {bk \in down : bk[1] # "pc"}
    /\ unsteady' = TRUE
    /\ forgot' = (forgot \/ \E k \in HotKeys : <<"pc", k>> \in down)
    /\ UNCHANGED <<stick, client, ikbd, told, skipped, carried>>

Batches == UNION {[1 .. n -> KeysOf["st"]] : n \in 1 .. MaxBatch}

IkbdNext ==
    \/ \E k \in KeysOf["pc"] : PcKey(k)
    \/ \E batch \in Batches : StKeys(batch)
    \/ \E p \in Ports : StStick(p)
    \/ \E m \in {"mouse", "joy"} : StMode(m)
    \/ \E on, first \in BOOLEAN : LoadSettings(on, first)
    \/ StReset \/ ClientChanges \/ Unplug

IkbdSpec == IkbdInit /\ [][IkbdNext]_ikbdVars

-----------------------------------------------------------------------------
(* Properties *)

IkbdTypeOK ==
    /\ down \subseteq {bk \in Boards \X Keys : bk[2] \in KeysOf[bk[1]]}
    /\ stick \subseteq Ports
    /\ {client, unsteady, skipped, carried, forgot} \subseteq BOOLEAN
    /\ changes \in 0 .. MaxChanges
    /\ ikbd \in [cnt : [HotKeys -> Int], waiting : BOOLEAN, keybJoy : BOOLEAN,
                 firstJoyIs0 : BOOLEAN, mode : {"mouse", "joy"},
                 dir : {"none", "left", "right"}, btn : BOOLEAN]
    /\ told \in [keys : SUBSET Keys, mouse : BOOLEAN,
                 dir : [Ports -> {"none", "left", "right", "pushed"}]]

(* A hotkey needs its keys: the counters of both keyboards together are    *)
(* the keys that are held, through translation, hotkeys and batches,       *)
(* unless a reset or a removed keyboard makes a release go amiss.          *)
CountsAreKeys == ~forgot => \A k \in HotKeys : ikbd.cnt[k] = HeldBy(down, k)

(* What the ST believes to be held is held: a key or a direction that was  *)
(* told with its press is taken back the way it was told.  Two things can  *)
(* defeat that in the code: the meaning of a key changes while it is held  *)
(* (unsteady), and the local variable that is shared by the keys of a      *)
(* batch sends a joystick's key as a key (carried).                        *)
NothingStuck ==
    ~unsteady /\ ~carried =>
        /\ \A k \in told.keys : Held(down, k)
        /\ \A p \in Ports :
              CASE told.dir[p] = "none" -> TRUE
                [] told.dir[p] = "pushed" ->
                      \E q \in stick : Port(ikbd, q) = p
                [] OTHER -> p = 0 /\ Held(down, told.dir[p])
        /\ told.mouse => Held(down, "lshift")

(* The wait for the release of the hotkeys ends with the last of them, and *)
(* one that is left over ends with the next key: after a key that was      *)
(* handled in full, whatever was skipped before it, a wait has a hotkey    *)
(* that is held.  It does not end with a release that comes behind another *)
(* key of its batch, or while a program talks to the CosmosEx (skipped).   *)
WaitsForRelease ==
    ~forgot /\ ~skipped =>
        (ikbd.waiting => \E k \in HotKeys : Held(down, k))
=============================================================================
