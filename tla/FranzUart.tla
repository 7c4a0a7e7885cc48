----------------------------- MODULE FranzUart -----------------------------
(***************************************************************************)
(* The bytes between the ST, its keyboard and the Raspberry Pi.  Franz has *)
(* three UARTs, served by interrupts of one priority, and two circular     *)
(* buffers (src/ce_franz_fw/main.c):                                       *)
(*                                                                         *)
(*   ST, commands --USART2--> buff1 --USART1--> RPi                        *)
(*   keyboard     --USART3--> buff1 --USART1--> RPi     while it is up     *)
(*   keyboard     --USART3--> buff0 --USART2--> ST      while it is not    *)
(*   RPi          --USART1--> buff0 --USART2--> ST                         *)
(*                                                                         *)
(* On USART1 every byte for the RPi follows a mark that names its source.  *)
(* The RPi (ce_main_app/ikbd/ikbd_st.cpp) reads what has arrived, divides  *)
(* it by the marks, and writes the keyboard's bytes, and packets of its    *)
(* USB devices, to Franz.  What it does with the commands is left to the   *)
(* module IkbdKeys.                                                        *)
(***************************************************************************)
EXTENDS Integers, Sequences, SequencesExt

CONSTANTS BufSize,      \* CIRCBUFFER_SIZE
          StBytes,      \* the bytes the ST sends
          KeyBytes,     \* the bytes the keyboard sends
          ReadSizes,    \* how many bytes a read() of the RPi may return
          MaxBytes,     \* bound: bytes from the ST, the keyboard and USB devices
          MaxPackets,   \* bound: packets of USB devices
          MaxFlips      \* bound: the RPi is found up, or down

Marks  == {"AA", "BB"}          \* UARTMARK_STCMD, UARTMARK_KEYBDATA
Packet == <<"usb1", "usb2">>    \* of a USB mouse or joystick
Byte   == Marks \union StBytes \union KeyBytes \union {"usb1", "usb2"}

ASSUME BufAssumption ==
    /\ BufSize \in Nat \ {0} /\ ReadSizes \subseteq Nat \ {0}
    /\ {MaxBytes, MaxPackets, MaxFlips} \subseteq Nat
    /\ (StBytes \union KeyBytes) \cap {"usb1", "usb2"} = {}

VARIABLES
    hostIsUp,       \* Franz: the RPi fetched the last packet
    buff0, buff1,   \* the circular buffers, for the ST and for the RPi
    dr1, dr2,       \* data registers of USART1 and USART2: <<>> if TXE is set
    txie1, txie2,   \* their TXE interrupts are enabled
    uart,           \* bytes on the way to, or waiting at, the RPi
    half,           \* the RPi: half of a pair (gotHalfPair, halfPairData)
    toFranz,        \* bytes on the way from the RPi
    atSt,           \* what arrived at the ST
    stGot, keyGot,  \* what the RPi took for commands and for keyboard data
    stSent, keySent,    \* what the ST sent while the RPi was up, the keyboard
    lost,           \* how many bytes full buffers dropped, marks not counted
    overtook,       \* a key went straight to the ST before bytes of the RPi
    packets, flips  \* counters of the bounds

franz   == <<hostIsUp, buff0, buff1, dr1, dr2, txie1, txie2>>
rpi     == <<uart, half, toFranz, stGot, keyGot>>
ghosts  == <<stSent, keySent, lost, overtook, packets, flips>>
vars    == <<franz, rpi, atSt, ghosts>>

Init ==
    /\ hostIsUp = FALSE /\ buff0 = <<>> /\ buff1 = <<>>
    /\ dr1 = <<>> /\ dr2 = <<>> /\ txie1 = FALSE /\ txie2 = FALSE
    /\ uart = <<>> /\ half = <<>> /\ toFranz = <<>> /\ atSt = <<>>
    /\ stGot = <<>> /\ keyGot = <<>> /\ stSent = <<>> /\ keySent = <<>>
    /\ lost = 0 /\ overtook = FALSE /\ packets = 0 /\ flips = 0

-----------------------------------------------------------------------------
(* The pairs of a mark and a byte *)

\* Mutant: what is no mark of the ST is taken for one of the keyboard.
PairedByOneMark(r, b) ==
    CASE r.half = <<"AA">> -> [r EXCEPT !.st = Append(@, b), !.half = <<>>]
      [] r.half = <<>>     -> [r EXCEPT !.half = <<b>>]
      [] OTHER             -> [r EXCEPT !.key = Append(@, b), !.half = <<>>]

\* A byte b after the others: it follows its mark, or is the first of a pair
\* itself.  A first one that is no mark is skipped alone.
Paired(r, b) ==
    CASE r.half = <<"AA">> -> [r EXCEPT !.st = Append(@, b), !.half = <<>>]
      [] r.half = <<"BB">> -> [r EXCEPT !.key = Append(@, b), !.half = <<>>]
      [] OTHER             -> [r EXCEPT !.half = <<b>>]

\* Mutant: a pair cut by the end of the read() is dropped.
DividedNoHalf(h, s) ==
    LET d[i \in 0 .. Len(s)] ==
            IF i = 0 THEN [st |-> <<>>, key |-> <<>>, half |-> h]
            ELSE Paired(d[i - 1], s[i])
    IN [d[Len(s)] EXCEPT !.half = <<>>]

\* The bytes s after the half pair h divided into pairs.  A last half is kept
\* for the next time.
Divided(h, s) ==
    LET d[i \in 0 .. Len(s)] ==
            IF i = 0 THEN [st |-> <<>>, key |-> <<>>, half |-> h]
            ELSE Paired(d[i - 1], s[i])
    IN d[Len(s)]

\* What is still under way to the RPi, as it will divide it.
UnderWay == Divided(half, uart \o dr1 \o buff1)

-----------------------------------------------------------------------------
(* Franz *)

\* cicrularAdd(): a full buffer drops the byte.
Added(buf, b) == IF Len(buf) >= BufSize THEN buf ELSE Append(buf, b)

\* The last of n bytes is dropped.
Dropped(buf, n) == IF Len(buf) + n > BufSize THEN 1 ELSE 0

\* A byte b for the RPi: the mark goes to USART1 if it can transmit and
\* nothing waits, else to the buffer; the byte always to the buffer.
Direct1 == buff1 = <<>> /\ dr1 = <<>>
Marked(mark, b) == Added(IF Direct1 THEN buff1 ELSE Added(buff1, mark), b)

\* Mutant: the interrupt is only enabled if USART1 is free.
ForRpiOnlyFree(mark, b) ==
    /\ dr1' = IF Direct1 THEN <<mark>> ELSE dr1
    /\ buff1' = Marked(mark, b)
    /\ txie1' = (txie1 \/ (dr1 = <<>> /\ ~Direct1))
    /\ lost' = lost + Dropped(buff1, IF Direct1 THEN 1 ELSE 2)

\* The interrupt is enabled: the byte waits.
ForRpi(mark, b) ==
    /\ dr1' = IF Direct1 THEN <<mark>> ELSE dr1
    /\ buff1' = Marked(mark, b)
    /\ txie1' = TRUE
    /\ lost' = lost + Dropped(buff1, IF Direct1 THEN 1 ELSE 2)

\* Mutant: only the register is looked at.
Direct2Register(dr) == dr = <<>>

\* A byte b for the ST, while USART2's register holds dr.
Direct2(dr) == buff0 = <<>> /\ dr = <<>>

\* USART2's TXE part: the next byte, or no more interrupts.
Tx2(buf, dr, ie) ==
    IF dr # <<>> THEN /\ buff0' = buf /\ dr2' = dr /\ txie2' = ie
    ELSE IF buf # <<>>
    THEN /\ buff0' = Tail(buf) /\ dr2' = <<Head(buf)>> /\ txie2' = ie
    ELSE /\ buff0' = buf /\ dr2' = dr /\ txie2' = FALSE

\* The interrupt of USART1: a byte of the RPi has arrived, or it can transmit.
Tx1 ==
    IF dr1 # <<>> THEN UNCHANGED <<buff1, dr1, txie1>>
    ELSE IF buff1 # <<>>
    THEN /\ dr1' = <<Head(buff1)>> /\ buff1' = Tail(buff1) /\ UNCHANGED txie1
    ELSE txie1' = FALSE /\ UNCHANGED <<buff1, dr1>>

Usart1Receives ==
    /\ toFranz # <<>> /\ toFranz' = Tail(toFranz)
    /\ IF Direct2(dr2)
       THEN dr2' = <<Head(toFranz)>> /\ UNCHANGED <<buff0, txie2, lost>>
       ELSE /\ buff0' = Added(buff0, Head(toFranz)) /\ txie2' = TRUE
            /\ lost' = lost + Dropped(buff0, 1) /\ UNCHANGED dr2
    /\ Tx1
    /\ UNCHANGED <<hostIsUp, uart, half, stGot, keyGot, atSt, stSent, keySent,
                   overtook, packets, flips>>

Usart1Transmits ==
    /\ txie1 /\ dr1 = <<>> /\ Tx1
    /\ UNCHANGED <<hostIsUp, buff0, dr2, txie2, rpi, atSt, ghosts>>

\* The bound leaves room for n bytes.
InBounds(n) == Len(stSent) + Len(keySent) + Len(Packet) * packets + n <= MaxBytes

\* The interrupt of USART2: the ST sent a byte, or it can transmit.  With the
\* RPi down, the wire to the keyboard is all a command needs.
Usart2Receives(b) ==
    /\ hostIsUp /\ InBounds(1)
    /\ ForRpi("AA", b) /\ stSent' = Append(stSent, b)
    /\ Tx2(buff0, dr2, txie2)
    /\ UNCHANGED <<hostIsUp, rpi, atSt, keySent, overtook, packets, flips>>

Usart2Transmits ==
    /\ txie2 /\ dr2 = <<>> /\ Tx2(buff0, dr2, txie2)
    /\ UNCHANGED <<hostIsUp, buff1, dr1, txie1, rpi, atSt, ghosts>>

\* The interrupt of USART3: the keyboard sent a byte.
Usart3Receives(b) ==
    /\ InBounds(1) /\ keySent' = Append(keySent, b)
    /\ IF hostIsUp
       THEN ForRpi("BB", b) /\ UNCHANGED <<buff0, dr2, txie2, overtook>>
       ELSE /\ overtook' = (overtook \/ UnderWay.key \o toFranz # <<>>)
            /\ UNCHANGED <<buff1, dr1, txie1>>
            /\ IF Direct2(dr2)
               THEN dr2' = <<b>> /\ UNCHANGED <<buff0, txie2, lost>>
               ELSE /\ buff0' = Added(buff0, b) /\ txie2' = TRUE
                    /\ lost' = lost + Dropped(buff0, 1)
                    /\ UNCHANGED dr2
    /\ UNCHANGED <<hostIsUp, rpi, atSt, stSent, packets, flips>>

\* The registers are shifted out, to the RPi and to the ST.
Line1 ==
    /\ dr1 # <<>> /\ uart' = uart \o dr1 /\ dr1' = <<>>
    /\ UNCHANGED <<hostIsUp, buff0, buff1, dr2, txie1, txie2, half, toFranz,
                   stGot, keyGot, atSt, ghosts>>

Line2 ==
    /\ dr2 # <<>> /\ atSt' = atSt \o dr2 /\ dr2' = <<>>
    /\ UNCHANGED <<hostIsUp, buff0, buff1, dr1, txie1, txie2, rpi, ghosts>>

\* spiDma_txRx(): the RPi fetched the packet, or did not.
HostFlips ==
    /\ flips < MaxFlips /\ flips' = flips + 1
    /\ hostIsUp' = ~hostIsUp
    /\ UNCHANGED <<buff0, buff1, dr1, dr2, txie1, txie2, rpi, atSt, stSent,
                   keySent, lost, overtook, packets>>

-----------------------------------------------------------------------------
(* The Raspberry Pi *)

\* processReceivedCommands(), with the keyboard's bytes passed on.
RpiReads(n) ==
    /\ n <= Len(uart) /\ uart' = SubSeq(uart, n + 1, Len(uart))
    /\ LET d == Divided(half, SubSeq(uart, 1, n))
       IN /\ half' = d.half
          /\ stGot' = stGot \o d.st /\ keyGot' = keyGot \o d.key
          /\ toFranz' = toFranz \o d.key
    /\ UNCHANGED <<franz, atSt, ghosts>>

\* A USB device: one write() of the whole packet.
RpiSends ==
    /\ InBounds(Len(Packet)) /\ packets < MaxPackets /\ packets' = packets + 1
    /\ toFranz' = toFranz \o Packet
    /\ UNCHANGED <<franz, uart, half, stGot, keyGot, atSt, stSent, keySent,
                   lost, overtook, flips>>

-----------------------------------------------------------------------------

Inputs == (\E b \in StBytes : Usart2Receives(b))
          \/ (\E b \in KeyBytes : Usart3Receives(b)) \/ RpiSends \/ HostFlips

Franz == Usart1Receives \/ Usart1Transmits \/ Usart2Transmits

Next == Inputs \/ Franz \/ Line1 \/ Line2 \/ (\E n \in ReadSizes : RpiReads(n))

Spec == Init /\ [][Next]_vars

\* The interrupts are served, the lines shift, and the RPi's thread reads.
Fairness ==
    /\ WF_vars(Usart1Receives) /\ WF_vars(Usart1Transmits)
    /\ WF_vars(Usart2Transmits) /\ WF_vars(Line1) /\ WF_vars(Line2)
    /\ WF_vars(\E n \in ReadSizes : RpiReads(n))

LiveSpec == Spec /\ Fairness

-----------------------------------------------------------------------------
(* Properties *)

TypeOK ==
    /\ hostIsUp \in BOOLEAN /\ lost \in Nat /\ overtook \in BOOLEAN
    /\ buff0 \in Seq(Byte) /\ Len(buff0) <= BufSize
    /\ buff1 \in Seq(Byte) /\ Len(buff1) <= BufSize
    /\ dr1 \in Seq(Byte) /\ Len(dr1) <= 1 /\ dr2 \in Seq(Byte) /\ Len(dr2) <= 1
    /\ txie1 \in BOOLEAN /\ txie2 \in BOOLEAN
    /\ uart \in Seq(Byte) /\ half \in Seq(Byte) /\ Len(half) <= 1
    /\ toFranz \in Seq(Byte) /\ atSt \in Seq(Byte)
    /\ stGot \in Seq(Byte) /\ keyGot \in Seq(Byte)
    /\ stSent \in Seq(StBytes) /\ keySent \in Seq(KeyBytes)
    /\ packets \in 0 .. MaxPackets /\ flips \in 0 .. MaxFlips

(* Whatever the data, the values of the marks included, and however the    *)
(* reads cut the pairs: as long as no buffer overflows, the RPi has, or    *)
(* will get, exactly the commands the ST sent, in order.                   *)
CommandsInOrder == lost = 0 => stGot \o UnderWay.st = stSent

\* The elements of a sequence that are in T, in their order.
Only(s, T) ==
    LET f[i \in 0 .. Len(s)] ==
            IF i = 0 THEN <<>>
            ELSE IF s[i] \in T THEN Append(f[i - 1], s[i]) ELSE f[i - 1]
    IN f[Len(s)]

\* The keyboard's bytes at the ST, without the RPi's own packets.
KeysAtSt == Only(atSt, Byte \ {"usb1", "usb2"})

(* The keyboard's bytes reach the ST in their order, on the two paths they *)
(* may take, unless a buffer overflows or the one overtakes the other.     *)
KeysInOrder == lost = 0 /\ ~overtook => IsPrefix(KeysAtSt, keySent)

(* A packet of a USB device reaches the ST in one piece, whatever the      *)
(* keyboard sends meanwhile.                                               *)
PacketsWhole ==
    lost = 0 /\ ~overtook => \A i \in 1 .. Len(atSt) - 1 :
                          atSt[i] = "usb1" => atSt[i + 1] = "usb2"

\* What the RPi takes, or will take, for data.
Taken == [st |-> stGot \o UnderWay.st, key |-> keyGot \o UnderWay.key]
TakenMarks(src) == Only(Taken[src], Marks)

(* An overflow may leave a mark without its byte, and the pairs out of     *)
(* step.  If no data looks like a mark, the RPi gets back in step at once: *)
(* for every byte dropped it takes at most one mark for data, and loses at *)
(* most one byte more; no byte of the ST turns up as a key, nor a key as a *)
(* command.                                                                *)
BackInStep ==
    ToSet(stSent \o keySent) \cap Marks = {} =>
        /\ ToSet(Taken.st) \subseteq StBytes \union Marks
        /\ ToSet(Taken.key) \subseteq KeyBytes \union Marks
        /\ Len(TakenMarks("st")) + Len(TakenMarks("key")) <= lost
        /\ Len(stSent) <= Len(Taken.st) + 2 * lost

(* No byte is forgotten in a buffer because its interrupt is off: all that *)
(* is sent arrives, unless a buffer overflows.                             *)
AllArrives ==
    <>[](lost > 0 \/ overtook \/ (stGot = stSent /\ KeysAtSt = keySent))
=============================================================================
