----------------------------- MODULE NetHandles ------------------------------
(***************************************************************************)
(* The TCP connections of the programs on the Atari: who holds which       *)
(* handle, and what the programs are told of the state of a connection.    *)
(* The Raspberry Pi (src/ce_main_app/network/netadapter.cpp) has a slot    *)
(* for each connection, which it frees when a program closes it, and       *)
(* itself when the peer has hung up; a handle is the number of a slot.     *)
(* The STinG driver (src/cosmosex_fakesting/con_man.c, tcp.c) has a copy   *)
(* of the states, which update_con_info() fetches, and knows which handles *)
(* are in use.  The bytes of a connection are the module NetStream.        *)
(***************************************************************************)
EXTENDS Integers, FiniteSets

CONSTANTS Slots,        \* NET_HANDLES_COUNT
          MaxHandle,    \* MAX_HANDLE: slots the driver updates, and clears
          Cons,         \* bound: connections, numbered as they are opened
          MaxFaults     \* bound: commands that are lost, or their answers

ASSUME HandlesAssumption ==
    /\ {Slots, Cons} \subseteq Nat \ {0} /\ {MaxHandle, MaxFaults} \subseteq Nat

Slot == 1 .. Slots
Con  == 1 .. Cons

VARIABLES
    net,        \* each connection, in the world
    slot,       \* RPi: the connection of each slot (0: closed) and its status
    inUse,      \* Atari: the slots whose CIB has a protocol
    state,      \* Atari: tcpConnectionState of each slot
    holds,      \* the slot of each connection for the program that opened it
    told,       \* what that program was last told, while it holds it
    opened,     \* how many connections were opened
    taken,      \* connections held under a handle that another program closed
    lost,       \* TCP_OPENs and TCP_CLOSEs of which the answer or all was lost
    faults      \* counter of the bound: commands lost, those among them

atari == <<inUse, state>>
vars  == <<net, slot, atari, holds, told, opened, taken, lost, faults>>

Status == {"closed", "listen", "syn", "established"}
Free   == [con |-> 0, status |-> "closed"]

Init ==
    /\ net = [c \in Con |-> "none"]
    /\ slot = [s \in Slot |-> Free]
    /\ inUse = {} /\ state = [s \in Slot |-> "closed"]
    /\ holds = [c \in Con |-> 0] /\ told = [c \in Con |-> "nothing"]
    /\ opened = 0 /\ taken = {} /\ lost = 0 /\ faults = 0

-----------------------------------------------------------------------------
(* The world *)

\* A peer answers, or connects to a listening socket; it refuses; it cannot be
\* reached, which is another error for connect(), but not for poll(); it hangs
\* up, and may leave bytes behind that are not read yet.
Becomes(c, how) == net' = [net EXCEPT ![c] = how]
Dialling(c)     == \E s \in Slot : slot[s] = [con |-> c, status |-> "syn"]

Answers(c) == net[c] \in {"connecting", "awaited"} /\ Becomes(c, "up")
Refuses(c) == net[c] = "connecting" /\ Becomes(c, "refused")
Misses(c)  == net[c] = "connecting" /\ Dialling(c) /\ Becomes(c, "unreachable")
HangsUp(c) == net[c] = "up" /\ (Becomes(c, "left") \/ Becomes(c, "hung up"))

Alive(c) ==
    net[c] \in {"connecting", "unreachable", "unconnected", "awaited", "up", "left"}

\* It matters as long as the RPi has the socket open.
World(c) ==
    /\ \E s \in Slot : slot[s].con = c
    /\ Answers(c) \/ Refuses(c) \/ Misses(c) \/ HangsUp(c)
    /\ UNCHANGED <<slot, atari, holds, told, opened, taken, lost, faults>>

-----------------------------------------------------------------------------
(* update_con_info() *)

\* Mutant: EALREADY is an error.
SeenAlreadyFails(x, n) ==
    CASE x.con = 0 -> x
      [] x.status = "listen" /\ n[x.con] = "awaited" -> x
      [] x.status = "syn" /\ n[x.con] = "connecting" -> Free
      [] OTHER -> [x EXCEPT !.status = "established"]

\* updateCons_passive(), updateCons_active(): accept(); connect() again, where
\* EALREADY, for a connection that is still being made, counts as connected,
\* and an error that is not in the list leaves the status as it is;
\* and an established connection that hung up, with no bytes left, is closed.
Seen(x, n) ==
    CASE x.con = 0 -> x
      [] x.status = "listen" /\ n[x.con] = "awaited" -> x
      [] x.status = "syn" /\ n[x.con] \in {"unreachable", "unconnected"} -> x
      [] x.status = "syn" /\ n[x.con] = "refused" -> Free
      [] x.status = "established" /\ n[x.con] \in {"refused", "hung up"} -> Free
      [] OTHER -> [x EXCEPT !.status = "established"]

\* The connect() that tells of an error ends the attempt; the next one begins
\* another.
Dialled(sl, n) ==
    [c \in Con |->
        IF \E s \in Slot : sl[s].con = c /\ sl[s].status = "syn"
        THEN CASE n[c] = "unreachable" -> "unconnected"
               [] n[c] = "unconnected" -> "connecting"
               [] OTHER -> n[c]
        ELSE n[c]]

\* Mutant: closed connections are left out.
FetchedOpen(sl, st, n) ==
    [s \in Slot |-> IF s <= MaxHandle /\ Seen(sl[s], n).con # 0
                    THEN Seen(sl[s], n).status ELSE st[s]]

\* The states the driver has after an update of the slots sl: of the first ones.
Fetched(sl, st, n) ==
    [s \in Slot |-> IF s <= MaxHandle THEN Seen(sl[s], n).status ELSE st[s]]

\* A command is run and answered, or fails for good, before or after it ran.
Outcomes == {"ok", "unrun", "run"}
Fault(o) == IF o = "ok" THEN 0 ELSE 1

Updated(sl, st, n, o) ==
    /\ slot' = IF o = "unrun" THEN sl ELSE [s \in Slot |-> Seen(sl[s], n)]
    /\ net' = IF o = "unrun" THEN n ELSE Dialled(sl, n)
    /\ state' = IF o = "ok" THEN Fetched(sl, st, n) ELSE st

Update(sl, st, n) ==
    \E o \in Outcomes :
        /\ faults' = faults + Fault(o) /\ faults' <= MaxFaults
        /\ Updated(sl, st, n, o)

\* Called from the VBL interrupt, if there is a connection.  It is installed
\* only when a program sets a handler for ICMP packets, so it may never come.
VblUpdate ==
    /\ \E s \in Slot : s <= MaxHandle /\ state[s] # "closed"
    /\ Update(slot, state, net)
    /\ UNCHANGED <<inUse, holds, told, opened, taken, lost>>

-----------------------------------------------------------------------------
(* TCP_open(), TCP_info() and the like, TCP_close() *)

\* TCP_open() clears the driver's slot.
Cleared(s) == IF s <= MaxHandle THEN [state EXCEPT ![s] = "closed"] ELSE state

\* Mutant: only the socket of the data is looked at.
EmptySlotsSyn == {s \in Slot : slot[s].status \in {"closed", "listen"}}

\* findEmptyConnectionSlot().
EmptySlots == {s \in Slot : slot[s].con = 0}

\* conOpen_connect() begins to connect; conOpen_listen() listens.
Connecting(c) == [con |-> c, status |-> "syn"]
Listening(c)  == [con |-> c, status |-> "listen"]

\* conOpen() takes the first empty slot s for the next connection.
Opens(s) ==
    /\ opened' = opened + 1 /\ opened' \in Con
    /\ \A t \in EmptySlots : s <= t

Opened(active, s) ==
    [slot EXCEPT ![s] = IF active THEN Connecting(opened + 1)
                        ELSE Listening(opened + 1)]

Dials(active) ==
    [net EXCEPT ![opened + 1] = IF active THEN "connecting" ELSE "awaited"]

\* The answer is good: the driver clears its own slot, notes the protocol, and
\* forces an update.
Open(active) ==
    \E s \in EmptySlots :
       /\ Opens(s)
       /\ Update(Opened(active, s), Cleared(s), Dials(active))
       /\ inUse' = inUse \union {s}
       /\ holds' = [holds EXCEPT ![opened + 1] = s]
       /\ UNCHANGED <<told, taken, lost>>

\* TCP_OPEN is a WRITE: conOpen() has run when its status is lost, and nobody
\* knows of the connection.  The driver repeats the command, which is an Open
\* (or the same again) with another slot, or gives up.
LostOpen(active) ==
    \E s \in EmptySlots :
       /\ Opens(s)
       /\ slot' = Opened(active, s) /\ net' = Dials(active)
       /\ lost' = lost + 1 /\ faults' = faults + 1 /\ faults' <= MaxFaults
       /\ UNCHANGED <<atari, holds, told, taken>>

\* TCP_info(), TCP_wait_state(), CNget_char() and the like tell a program that
\* holds c the state that the driver has,
Asks(c, refresh) ==
    /\ holds[c] \in inUse
    /\ UNCHANGED <<inUse, holds, opened, taken, lost>>
    /\ refresh
    /\ told' = [told EXCEPT ![c] = state'[holds[c]]]

\* after an update, unless the last one was less than 100 ms ago.
AsksAnew(c)  == Asks(c, Update(slot, state, net))
AsksAgain(c) == Asks(c, UNCHANGED <<net, slot, state, faults>>)

\* CNget_block() and the like read the bytes that the peer left.
Reads(c) ==
    /\ holds[c] \in inUse /\ state[holds[c]] # "closed"
    /\ \E d \in Con :
          /\ slot[holds[c]].con = d /\ net[d] = "left"
          /\ net' = [net EXCEPT ![d] = "hung up"]
    /\ UNCHANGED <<slot, atari, holds, told, opened, taken, lost, faults>>

\* Mutant: only established connections are closed.
ClosedEstablished(s) ==
    IF slot[s].status = "established" THEN [slot EXCEPT ![s] = Free] ELSE slot

\* conClose(), of whichever connection the slot has now.
Closed(s) == [slot EXCEPT ![s] = Free]

\* connection_close(): the program always believes it.
Close(c) ==
    LET s == holds[c] IN
    /\ s # 0 /\ holds' = [holds EXCEPT ![c] = 0]
    /\ told' = [told EXCEPT ![c] = "nothing"]
    /\ taken' = (taken \ {c}) \union
                 {d \in Con \ {c} : s \in inUse /\ holds[d] = s /\ slot[s].con = d}
    /\ IF s \notin inUse THEN UNCHANGED <<slot, inUse, lost, faults>>
       ELSE \E o \in Outcomes :
             /\ faults' = faults + Fault(o) /\ faults' <= MaxFaults
             /\ lost' = lost + Fault(o)
             /\ inUse' = inUse \ {s}
             /\ slot' = IF o = "unrun" THEN slot ELSE Closed(s)
    /\ UNCHANGED <<net, state, opened>>

\* The driver starts: NET_CMD_IDENTIFY closes all.
Restart ==
    /\ opened > 0
    /\ slot' = [s \in Slot |-> Free]
    /\ inUse' = {} /\ state' = [s \in Slot |-> "closed"]
    /\ holds' = [c \in Con |-> 0] /\ told' = [c \in Con |-> "nothing"]
    /\ taken' = {}
    /\ UNCHANGED <<net, opened, lost, faults>>

Next ==
    \/ \E active \in BOOLEAN : Open(active) \/ LostOpen(active)
    \/ \E c \in Con : World(c) \/ AsksAnew(c) \/ AsksAgain(c) \/ Reads(c) \/ Close(c)
    \/ VblUpdate \/ Restart

Spec == Init /\ [][Next]_vars

\* A program that holds a connection goes on asking for its state, and the
\* first call of any of them after 100 ms updates it.  Nothing is assumed of
\* the VBL interrupt, nor of programs that read or close.
LiveSpec ==
    /\ Spec
    /\ WF_vars(\E c \in Con : AsksAnew(c))
    /\ \A c \in Con : WF_vars(AsksAgain(c) \/ AsksAnew(c))

-----------------------------------------------------------------------------
(* Properties *)

TypeOK ==
    /\ net \in [Con -> {"none", "connecting", "refused", "unreachable",
                        "unconnected", "awaited", "up", "left", "hung up"}]
    /\ slot \in [Slot -> [con : 0 .. Cons, status : Status]]
    /\ inUse \subseteq Slot /\ state \in [Slot -> Status]
    /\ holds \in [Con -> 0 .. Slots] /\ told \in [Con -> Status \union {"nothing"}]
    /\ opened \in 0 .. Cons /\ taken \subseteq Con
    /\ faults \in 0 .. MaxFaults /\ lost \in 0 .. faults

(* A handle leads to its own connection, through slots that are freed and  *)
(* used again, as long as the peer has not refused, or hung up with all    *)
(* its bytes read, and no other program's TCP_close() closed it.           *)
HandleIsOwn ==
    \A c \in Con : holds[c] # 0 /\ Alive(c) /\ c \notin taken =>
        slot[holds[c]].con = c /\ holds[c] \in inUse

(* The slots of the RPi do not run out: each slot with a connection that   *)
(* no program holds costs one TCP_OPEN that ran while its answer was lost, *)
(* be it repeated and good in the end, or one TCP_CLOSE that failed, and   *)
(* none of the other faults.                                               *)
Unheld == {s \in Slot : slot[s].con # 0 /\ holds[slot[s].con] # s}
OpenIsHeld == Cardinality(Unheld) <= lost

(* E_EOF is true: a program is told that its connection is closed only if  *)
(* the peer refused, or hung up with all its bytes read, or another        *)
(* program closed it; for the connections whose slots the driver updates.  *)
ClosedIsTrue ==
    faults = 0 => \A c \in Con :
        holds[c] \in 1 .. MaxHandle /\ told[c] = "closed" => ~Alive(c) \/ c \in taken

(* A program that goes on asking learns that its peer refused, or that it  *)
(* hung up and all bytes are read.  (A peer that cannot be reached is      *)
(* tried again by every other update, for ever and untold; and that a peer *)
(* hung up is never told while bytes are left that the program does not    *)
(* read.)                                                                  *)
EndIsTold ==
    \A c \in Con :
        holds[c] \in inUse /\ net[c] \in {"refused", "hung up"}
            ~> told[c] = "closed" \/ holds[c] \notin inUse
               \/ slot[holds[c]].con \notin {0, c}
==============================================================================
