------------------------------ MODULE NetStream ------------------------------
(***************************************************************************)
(* What a program on the Atari reads from a TCP connection.  The socket is *)
(* on the Raspberry Pi (src/ce_main_app/network/netadapter.cpp and         *)
(* readwrapper.cpp); the STinG driver of the Atari                         *)
(* (src/cosmosex_fakesting/con_man.c) fetches bytes from it with commands. *)
(* CNget_char() keeps up to 250 bytes it peeked at in the Atari's memory,  *)
(* and the next command, whichever it is, removes from the socket the ones *)
(* that were used.  The state of the connection and its count of bytes are *)
(* copies that update_con_info() makes, at most every 100 ms unless it is  *)
(* forced, from the program's calls and from the VBL interrupt.            *)
(*                                                                         *)
(* The bytes the peer sends are numbered from 1.                           *)
(***************************************************************************)
EXTENDS Integers, Sequences

CONSTANTS Sector,       \* bytes of a sector
          FastRam,      \* FASTRAM_BUFFER_SIZE, in bytes
          MaxChars,     \* 250: how many bytes CNget_char() peeks at
          BuffSize,     \* the size of an NDB of this connection
          Lengths,      \* the lengths programs ask for
          Lines,        \* the numbers of the bytes that are delimiters
          MaxSent,      \* bound: bytes of the peer
          MaxFaults     \* bound: commands that fail

ASSUME NetAssumption ==
    /\ {Sector, FastRam, MaxChars, BuffSize} \subseteq Nat \ {0}
    /\ Lengths \subseteq Nat \ {0} /\ Lines \subseteq Nat \ {0}
    /\ {MaxSent, MaxFaults} \subseteq Nat

VARIABLES
    sent, fin,      \* the peer: bytes that have arrived, and the end of them
    open, taken,    \* the RPi: the socket is open, bytes removed from it
    info,           \* the Atari: bytesToRead and tcpConnectionState
    chars, used,    \* the Atari: bytes peeked at, and how many were used
    force,          \* forceNextUpdateConInfo
    careful,        \* the program uses no calls that take several commands
    got, eof,       \* what the program got; it was told that this was all
    cut,            \* bytes arrived between their count and the socket's close
    forgot,         \* used bytes that no command will remove any more
    faults          \* counter of the bound

update == <<sent, fin, open, info, cut>>
read   == <<taken, chars, used, force, got, eof, forgot>>
vars   == <<update, read, careful, faults>>

Init ==
    /\ sent = 0 /\ fin = FALSE /\ open = TRUE /\ taken = 0
    /\ info = [count |-> 0, state |-> "up"]
    /\ chars = <<>> /\ used = 0 /\ force = FALSE /\ careful \in BOOLEAN
    /\ got = <<>> /\ eof = FALSE /\ cut = FALSE /\ forgot = FALSE
    /\ faults = 0

-----------------------------------------------------------------------------
(* The peer, and update_con_info() with conUpdateInfo() on the RPi *)

\* A command is run and answered, or it fails for good: before it ran or after.
Outcomes == {"ok", "unrun", "run"}
Faulty(o) == IF o = "ok" THEN 0 ELSE 1

Arrive(k, f) ==
    /\ k > 0 => ~fin
    /\ sent' = sent + k /\ sent' <= MaxSent /\ fin' = (fin \/ f)

PeerSends == Arrive(1, FALSE) /\ UNCHANGED <<open, info, cut, read, careful, faults>>

PeerCloses ==
    /\ ~fin /\ Arrive(0, TRUE)
    /\ UNCHANGED <<open, info, cut, read, careful, faults>>

InSocket == IF open THEN sent - taken ELSE 0

\* Mutant: the end is looked at whatever is left to read.
HangsUpAlways(f) == IF open THEN (IF fin THEN {TRUE} ELSE {FALSE, f}) ELSE {FALSE}

\* Mutant: poll() tells of the end only once.
HangsUpOnce(f) == IF open /\ InSocket = 0 /\ ~fin THEN {FALSE, f} ELSE {FALSE}

\* didSocketHangUp(): no bytes were there when they were counted, and poll()
\* sees the end, which may have arrived since (f), and bytes before it.
HangsUp(f) ==
    IF open /\ InSocket = 0 THEN (IF fin THEN {TRUE} ELSE {FALSE, f}) ELSE {FALSE}

\* updateCons_active() and the Atari's copy of its result.
Updated(f, o) ==
    IF o = "unrun" THEN UNCHANGED <<open, info, cut>>
    ELSE \E hup \in HangsUp(f) :
        /\ open' = (open /\ ~hup)
        /\ cut' = (cut \/ (hup /\ InSocket = 0 /\ sent' > taken))
        /\ info' = IF o = "run" THEN info
                   ELSE [count |-> InSocket,
                         state |-> IF open' THEN "up" ELSE "closed"]

\* Less than 100 ms since the last time, or an update.
Info(f, o) == \/ o = "ok" /\ UNCHANGED <<open, info, cut>>
              \/ Updated(f, o)

\* What arrives while a call runs: nothing, or a byte, the end, or both.
Meanwhile == {a \in {0, 1} \X BOOLEAN : a[2] => ~fin}

\* The VBL interrupt, which is installed only when a program sets a handler for
\* ICMP packets, and may never come; or a call for another connection.
VblUpdate ==
    /\ info.state # "closed"
    /\ \E a \in Meanwhile, o \in Outcomes :
          /\ faults + Faulty(o) <= MaxFaults /\ faults' = faults + Faulty(o)
          /\ Arrive(a[1], a[2]) /\ Updated(a[2], o)
    /\ UNCHANGED <<read, careful>>

-----------------------------------------------------------------------------
(* Commands that read *)

Less(a, b) == IF a < b THEN a ELSE b

Bytes(from, n) == [i \in 1 .. n |-> from + i]

\* What is in the socket after a command removed n bytes first.
Left(n) == IF open' THEN sent' - (taken + n) ELSE 0

\* Mutant: the buffered bytes are removed when they are all used.
RemovedAll(o) ==
    IF o = "unrun" \/ ~open' \/ used < Len(chars) THEN taken ELSE taken + used

\* The used bytes go first.
Removed(o) == IF o = "unrun" \/ ~open' THEN taken ELSE taken + used

\* Mutant: the buffer is not emptied.
NoCharsKept(o) ==
    /\ chars' = chars /\ used' = 0
    /\ forgot' = (forgot \/ (o = "unrun" /\ used > 0))

\* Their count goes with the command, and is forgotten whatever becomes of it.
NoChars(o) ==
    /\ chars' = <<>> /\ used' = 0
    /\ forgot' = (forgot \/ (o = "unrun" /\ used > 0))

\* A call succeeds, and returns these bytes.
Gets(ok, bytes) ==
    /\ got' = got \o (IF ok THEN bytes ELSE <<>>)
    /\ force' = (force \/ ok)

-----------------------------------------------------------------------------
(* Calls of the program: ou is the outcome of its update, if there is one *)
(* (anew: there is), o of its command                                      *)

Call(anew, step(_, _)) ==
    \E a \in Meanwhile, ou, o \in Outcomes :
        /\ faults' = faults + Faulty(ou) + Faulty(o) /\ faults' <= MaxFaults
        /\ Arrive(a[1], a[2])
        /\ IF anew THEN Updated(a[2], ou) ELSE Info(a[2], ou)
        /\ IF info'.state = "closed"
           THEN /\ eof' = TRUE
                /\ UNCHANGED <<taken, chars, used, force, got, forgot>>
           ELSE step(o, a[1]) /\ UNCHANGED eof
        /\ UNCHANGED careful

\* CNbyte_count(): an update, forced after a read.
ByteCount ==
    \E a \in Meanwhile, o \in Outcomes :
        /\ faults' = faults + Faulty(o) /\ faults' <= MaxFaults
        /\ Arrive(a[1], a[2])
        /\ IF force THEN Updated(a[2], o) ELSE Info(a[2], o)
        /\ force' = FALSE
        /\ eof' = (eof \/ info' = [count |-> 0, state |-> "closed"])
        /\ UNCHANGED <<taken, chars, used, got, forgot, careful>>

\* CNget_char(): a byte of the buffer, or a command that fills it again.
Char(o, k) ==
    IF used < Len(chars)
    THEN /\ o = "ok" /\ Gets(TRUE, <<chars[used + 1]>>) /\ used' = used + 1
         /\ UNCHANGED <<taken, chars, forgot>>
    ELSE LET peeked == Bytes(taken + used, Less(MaxChars, Left(used)))
         IN /\ taken' = Removed(o)
            /\ IF o = "ok" /\ peeked # <<>>
               THEN /\ chars' = peeked /\ used' = 1 /\ UNCHANGED forgot
                    /\ Gets(TRUE, <<Head(peeked)>>)
               ELSE NoChars(o) /\ Gets(FALSE, <<>>)

\* CNget_block(): whole sectors first, through a buffer of the driver if the
\* program's is in fast RAM or at an odd address, then the rest: how many
\* commands that takes, and how far the first i of them reach.
Long(n)            == n - (n % Sector)
Size(n, fast)      == IF fast THEN FastRam ELSE Long(n)
LongParts(n, fast) ==
    IF Long(n) = 0 THEN 0
    ELSE (Long(n) + Size(n, fast) - 1) \div Size(n, fast)
Parts(n, fast)     == LongParts(n, fast) + (IF n > Long(n) THEN 1 ELSE 0)
Reach(n, fast, i)  ==
    IF i = Parts(n, fast) THEN n ELSE Less(i * Size(n, fast), Long(n))

\* So many parts are there in the socket.
Done(n, fast, i) ==
    /\ i > 0 => Reach(n, fast, i) <= Left(used)
    /\ i < Parts(n, fast) => Reach(n, fast, i + 1) > Left(used)

Block(n, fast, o, at) ==
    \E done \in 0 .. Parts(n, fast) :
        LET all  == o = "ok" /\ done = Parts(n, fast)
            ran  == IF o = "ok" THEN done
                    ELSE Less(done, IF o = "run" THEN at ELSE at - 1)
            none == o = "unrun" /\ at = 1
        IN /\ Done(n, fast, done)
           /\ IF o = "ok" THEN at = 1 ELSE at <= done + 1
           /\ taken' = Removed(IF none THEN "unrun" ELSE "ok")
                       + Reach(n, fast, ran)
           /\ NoChars(IF none THEN "unrun" ELSE "ok")
           /\ Gets(all, Bytes(taken + used, n))

\* CNgets(): up to the first delimiter, the i-th byte of the socket.
Delimiter(i) == taken + used + i \in Lines
Found(i) == IF i = 0 THEN \A j \in 1 .. Left(used) : ~Delimiter(j)
            ELSE Delimiter(i) /\ \A j \in 1 .. i - 1 : ~Delimiter(j)

Line(n, o) ==
    \E i \in 0 .. Left(used) :
        LET fits == i \in 1 .. n
        IN /\ Found(i)
           /\ taken' = Removed(o) + (IF fits /\ o # "unrun" THEN i ELSE 0)
           /\ NoChars(o)
           /\ Gets(fits /\ o = "ok", Bytes(taken + used, i))

\* CNget_NDB(): the size, memory for so much or less, and the data, which may
\* be more by now: late bytes have arrived since.  (Of an NDB of size 0 only
\* the case without any is modelled.)
Ndb(o, od, late, mem) ==
    LET first == Less(BuffSize, Left(used) - late)
        data  == Less(BuffSize, Left(used))
        kept  == Less(first, mem)
    IN /\ late > 0 => Left(used) > late
       /\ IF o # "ok" \/ mem = 0
          THEN taken' = Removed(o) /\ Gets(FALSE, <<>>)
          ELSE /\ taken' = Removed(o) + (IF od = "unrun" THEN 0 ELSE data)
               /\ Gets(od = "ok", Bytes(taken + used, kept))
       /\ NoChars(o)

GetChar == Call(FALSE, Char)

\* More than 100 ms since the last update.
GetCharAnew == Call(TRUE, Char)

GetBlock ==
    \E n \in Lengths, fast \in BOOLEAN :
        \E at \in 1 .. Parts(n, fast) :
            /\ careful => Parts(n, fast) = 1
            /\ Call(FALSE, LAMBDA o, k : Block(n, fast, o, at))

GetLine == \E n \in Lengths : Call(FALSE, LAMBDA o, k : Line(n, o))

\* The fault is in the first or in the second command.
GetNdb ==
    \E second \in BOOLEAN, late \in {0, 1}, mem \in {0, 1, BuffSize} :
        /\ ~careful
        /\ Call(FALSE, LAMBDA o, k :
                           /\ late <= k
                           /\ Ndb(IF second THEN "ok" ELSE o,
                                  IF second THEN o ELSE "ok", late, mem))

-----------------------------------------------------------------------------

Next == \/ PeerSends \/ PeerCloses \/ VblUpdate
        \/ ByteCount \/ GetChar \/ GetBlock \/ GetLine \/ GetNdb

Spec == Init /\ [][Next]_vars

\* The program goes on reading bytes for more than 100 ms, time and again.
\* Nothing is assumed of the VBL interrupt.
LiveSpec == Spec /\ WF_vars(GetCharAnew)

-----------------------------------------------------------------------------
(* Properties *)

TypeOK ==
    /\ sent \in 0 .. MaxSent /\ fin \in BOOLEAN /\ open \in BOOLEAN
    /\ taken \in 0 .. sent
    /\ info \in [count : 0 .. MaxSent, state : {"up", "closed"}]
    /\ chars \in Seq(1 .. MaxSent) /\ Len(chars) <= MaxChars
    /\ used \in 0 .. Len(chars)
    /\ {force, careful, eof, cut, forgot} \subseteq BOOLEAN
    /\ got \in Seq(1 .. MaxSent)
    /\ faults \in 0 .. MaxFaults

(* Each byte once: whatever calls are mixed, and whichever commands fail,  *)
(* no byte comes twice, nor after a later one, unless a command that was   *)
(* to remove used bytes never ran.                                         *)
NoneTwice == ~forgot => \A i, j \in 1 .. Len(got) : i < j => got[i] < got[j]

(* The buffer of CNget_char() and the socket are in step: what a program   *)
(* that keeps to single commands has got is all that was removed from the  *)
(* socket and the used bytes of the buffer, and the buffer holds the bytes *)
(* that come next.                                                         *)
InStep ==
    careful /\ faults = 0 =>
        got = Bytes(0, taken + used) /\ chars = Bytes(taken, Len(chars))

(* E_EOF means the end: a program that is told so has got all that was     *)
(* sent, unless the RPi closed the socket with bytes in it.                *)
EofIsEnd == eof /\ careful /\ faults = 0 /\ ~cut => Len(got) = sent

(* A program that keeps reading learns of the end of the stream, by its    *)
(* own calls alone.                                                        *)
EofIsTold == fin ~> eof
=============================================================================
