----------------------------- MODULE GemdosFile -----------------------------
(***************************************************************************)
(* An open file of the translated drive: Fcreate, Fopen, Fclose, Fread,    *)
(* Fwrite and Fseek in the Atari driver (gemdos.c, gemdos_rw.c), with its  *)
(* read-ahead, write buffer and count of bytes to the end of the file, and *)
(* the FILE of the same handle on the RPi (translateddisk_gemdos.cpp) with *)
(* a position of its own.                                                  *)
(*                                                                         *)
(* A call of the program is one step: GEMDOS runs it to its end.  A sector *)
(* of 512 bytes is Sector bytes here; a small read is at most two sectors. *)
(* A fault is one command of a call that fails after its retries, or one   *)
(* WRITE that a retry carries out twice (the module AcsiRetry).            *)
(***************************************************************************)
EXTENDS Integers, Sequences, SequencesExt

CONSTANTS
    Sector,         \* RW_BUFFER_SIZE and the sector size
    BlockSizes,     \* bytes per transfer: to ST RAM and to FAST RAM
    ReadCounts, WriteCounts,    \* arguments of the programs
    Offsets,        \* how far they seek, forwards and backwards
    Lengths,        \* lengths of the file at the start
    MaxLen,         \* bound: no byte is written beyond
    MaxCalls,       \* bound: calls of the program
    MaxFaults       \* bound: calls with a fault

ASSUME SectorAssumption == Sector \in Nat \ {0} /\ Sector % 2 = 0
ASSUME BlockAssumption ==
    \A b \in BlockSizes : b \in Nat /\ b > 2 * Sector /\ b % Sector = 0
ASSUME CountAssumption ==
    /\ ReadCounts \subseteq Nat /\ WriteCounts \subseteq Nat
    /\ Offsets \subseteq Nat /\ Lengths \subseteq 0 .. MaxLen
    /\ MaxLen \in Nat /\ MaxCalls \in Nat /\ MaxFaults \in Nat

VARIABLES
    file, hpos,         \* RPi: the bytes of the file, position of its FILE
    isOpen,             \* fileBufs[].isOpen
    currentPos,         \* fileBufs[].currentPos
    rBuf, rStart,       \* the read-ahead, and where its unused part starts
    bytesToEOF, bytesToEOFinvalid,
    wBuf,               \* the write buffer
    call, got,          \* what the program asked last, and read last
    stale,              \* a seek in the read-ahead left bytesToEOF behind
    plain,              \* what PlainFile promises holds so far
    calls, faults

rpiVars    == <<file, hpos>>
readVars   == <<rBuf, rStart>>
atariVars  == <<isOpen, currentPos, rBuf, rStart, bytesToEOF,
                bytesToEOFinvalid, wBuf>>
vars == <<rpiVars, atariVars, call, got, stale, plain, calls, faults>>

\* A byte of the first content is its position, negated; a byte written is
\* the number of the call that wrote it.
Byte == -MaxLen .. MaxCalls

\* The file as the program sees it: what is written and not committed counts.
F == INSTANCE PlainFile WITH content <- file, pos <- currentPos
Slice(f, p, n)   == F!Slice(f, p, n)
Overlay(f, p, b) == F!Overlay(f, p, b)
Less(a, b)       == F!Less(a, b)
More(a, b)       == F!More(a, b)
Contents == Overlay(file, hpos, wBuf)
P == INSTANCE PlainFile WITH content <- Contents, pos <- currentPos

-----------------------------------------------------------------------------
(* Helpers *)

Left   == Len(rBuf) - rStart
Unread == SubSeq(rBuf, rStart + 1, Len(rBuf))
Space  == Sector - Len(wBuf)

\* The position after fread() of n bytes at p.
Advance(p, n) == IF Len(file) <= p THEN p ELSE Less(p + n, Len(file))

Called(op, n, bytes) ==
    /\ calls < MaxCalls /\ calls' = calls + 1
    /\ call' = [op |-> op, n |-> n, bytes |-> bytes]

NoFault == UNCHANGED faults
Fault   == /\ faults < MaxFaults /\ faults' = faults + 1
           /\ plain' = FALSE /\ UNCHANGED stale

KeepFile == UNCHANGED <<isOpen, wBuf>>

Init ==
    /\ file \in {[i \in 1 .. n |-> -i] : n \in Lengths} /\ hpos = 0
    /\ isOpen = FALSE /\ currentPos = 0 /\ rBuf = <<>> /\ rStart = 0
    /\ bytesToEOF = 0 /\ bytesToEOFinvalid = TRUE /\ wBuf = <<>>
    /\ call = [op |-> "none", n |-> 0, bytes |-> <<>>] /\ got = <<>>
    /\ stale = FALSE /\ plain = TRUE /\ calls = 0 /\ faults = 0

-----------------------------------------------------------------------------
(* Fopen, Fcreate, Fclose *)

\* A new handle: initFileBuffer() left it empty at the last Fclose().
Fopen ==
    /\ ~isOpen /\ Called("open", 0, <<>>)
    /\ isOpen' = TRUE /\ currentPos' = 0 /\ hpos' = 0
    /\ bytesToEOF' = Len(file) /\ bytesToEOFinvalid' = FALSE
    /\ stale' = FALSE
    /\ NoFault /\ UNCHANGED <<file, rBuf, rStart, wBuf, got, plain>>

\* The command for the count of bytes fails: it is zero, and valid.
FopenFault ==
    /\ ~isOpen /\ Called("open", 0, <<>>)
    /\ isOpen' = TRUE /\ currentPos' = 0 /\ hpos' = 0
    /\ bytesToEOF' = 0 /\ bytesToEOFinvalid' = FALSE
    /\ Fault /\ UNCHANGED <<file, rBuf, rStart, wBuf, got>>

Fcreate ==
    /\ ~isOpen /\ Called("create", 0, <<>>)
    /\ isOpen' = TRUE /\ currentPos' = 0 /\ hpos' = 0 /\ file' = <<>>
    /\ stale' = FALSE
    /\ NoFault /\ UNCHANGED <<rBuf, rStart, bytesToEOF, bytesToEOFinvalid,
                              wBuf, got, plain>>

InitFileBuffer ==
    /\ isOpen' = FALSE /\ currentPos' = 0 /\ rBuf' = <<>> /\ rStart' = 0
    /\ bytesToEOF' = 0 /\ bytesToEOFinvalid' = TRUE /\ wBuf' = <<>>

Fclose ==
    /\ isOpen /\ Called("close", 0, <<>>)
    /\ file' = Contents /\ hpos' = hpos + Len(wBuf)
    /\ InitFileBuffer /\ NoFault /\ UNCHANGED <<got, stale, plain>>

\* What a faulty WRITE of the bytes c leaves in the file: a part of them (the
\* driver sees a failure, or a partial transfer), or all of them twice.
Damaged(c) == {SubSeq(c, 1, w) : w \in 0 .. Len(c)} \union {c \o c}

\* commitChanges() takes the bytes for written, and Fclose() ignores its result.
FcloseFault ==
    /\ isOpen /\ wBuf # <<>> /\ Called("close", 0, <<>>)
    /\ \E d \in Damaged(wBuf) : /\ file' = Overlay(file, hpos, d)
                                /\ hpos' = hpos + Len(d)
    /\ InitFileBuffer /\ Fault /\ UNCHANGED got

-----------------------------------------------------------------------------
(* Fread *)

\* Mutant: not asked again after a write.
ToEOFOnce == bytesToEOF

\* The count of bytes to the end, asked again after a write.
ToEOF == IF bytesToEOFinvalid THEN Len(file) - hpos ELSE bytesToEOF

\* currentPos += res, and the data are with the program.
Returned(data) ==
    /\ got' = data /\ currentPos' = currentPos + Len(data)
    /\ bytesToEOFinvalid' = FALSE

\* Bytes of an earlier Fwrite() are still in the buffer: a read does not see
\* them, and goes on where the RPi is.
ReadsBehindWrite == wBuf # <<>>

\* fread_small(): from the read-ahead, which is filled sector by sector.  If
\* the file ends first, the last filling leaves it empty.
FreadSmall(n) ==
    LET rest  == n - Left                            \* to be filled in
        avail == More(0, Len(file) - hpos)
        used  == rest - 1 - ((rest - 1) % Sector)      \* by full fillings
    IN /\ isOpen /\ n <= 2 * Sector /\ Called("read", n, <<>>)
       /\ IF rest <= 0
          THEN /\ Returned(SubSeq(rBuf, rStart + 1, rStart + n))
               /\ rStart' = rStart + n /\ UNCHANGED <<rBuf, hpos>>
          ELSE /\ Returned(Unread \o Slice(file, hpos, rest))
               /\ IF rest <= avail
                  THEN /\ rBuf' = Slice(file, hpos + used, Sector)
                       /\ rStart' = rest - used
                       /\ hpos' = Advance(hpos, used + Sector)
                  ELSE /\ rBuf' = <<>> /\ rStart' = 0
                       /\ hpos' = Advance(hpos, rest)
       /\ bytesToEOF' = ToEOF - Len(got')
       /\ stale' = (stale /\ ~bytesToEOFinvalid)
       /\ plain' = (plain /\ ~ReadsBehindWrite)
       /\ NoFault /\ KeepFile /\ UNCHANGED file

\* A filling fails, before or after the RPi read the sector: the read ends
\* there, as at the end of the file.
FreadSmallFault(n) ==
    /\ isOpen /\ n <= 2 * Sector /\ Called("read", n, <<>>)
    /\ \E full \in {0, Sector} :
          /\ Left + full < n
          /\ Returned(Unread \o Slice(file, hpos, full))
          /\ hpos' \in {Advance(hpos, full), Advance(hpos, full + Sector)}
    /\ rBuf' = <<>> /\ rStart' = 0
    /\ bytesToEOF' = ToEOF - Len(got')
    /\ Fault /\ KeepFile /\ UNCHANGED file

\* First phase of fread_big(): the read-ahead it may use, filled before if the
\* address is odd and it is empty ...
Fills(odd) == odd /\ Left = 0
Start(odd) == IF Fills(odd) THEN Advance(hpos, Sector) ELSE hpos
Ahead(odd) == IF Fills(odd) THEN Slice(file, hpos, Sector) ELSE Unread

\* ... the byte that is left unused to make the address even (-seekOffset) ...
Back(odd) == IF Ahead(odd) # <<>> /\ (odd <=> Len(Ahead(odd)) % 2 = 0)
             THEN 1 ELSE 0
Used(odd) == Len(Ahead(odd)) - Back(odd)

\* ... and what is needed then: not more than the bytes to the end (unsigned).
Needed(n, odd) ==
    LET toEnd == ToEOF - Used(odd)
    IN IF toEnd >= 0 /\ toEnd < n - Used(odd) THEN toEnd ELSE n - Used(odd)

\* Mutant: the seek offset only from the second block on.
PositionLate(odd, b, j) == Start(odd) - Back(odd) * (j \div b) + j

\* Second phase: whole sectors in blocks of b bytes, and the seek offset with
\* every block.  Byte j of the blocks comes from this position; what can be
\* read ends with the file.
Whole(n, odd)       == Needed(n, odd) - (Needed(n, odd) % Sector)
Position(odd, b, j) == Start(odd) - Back(odd) * (j \div b + 1) + j
InFile(n, odd, b) ==
    CHOOSE k \in 0 .. Whole(n, odd) :
        /\ k < Whole(n, odd) => Position(odd, b, k) >= Len(file)
        /\ k > 0 => Position(odd, b, k - 1) < Len(file)
BlockData(odd, b, k) == [i \in 1 .. k |-> file[Position(odd, b, i - 1) + 1]]
AfterBlocks(odd, b, k) ==
    IF k = 0 THEN Start(odd) ELSE Position(odd, b, k - 1) + 1

\* The odd byte is only read again if exactly one block follows.
LosesOddByte(n, odd, b) == Back(odd) = 1 /\ Whole(n, odd) \notin 1 .. b

FreadBig(n, odd, b) ==
    LET k    == InFile(n, odd, b)
        rest == Needed(n, odd) - k
        h    == AfterBlocks(odd, b, k)
        head == SubSeq(Ahead(odd), 1, Used(odd))
        tail == Slice(file, h, rest)
    IN /\ isOpen /\ n > 2 * Sector /\ Called("read", n, <<>>)
       /\ IF Fills(odd) /\ Ahead(odd) = <<>>
          THEN /\ Returned(<<>>) /\ bytesToEOF' = 0
               /\ rBuf' = <<>> /\ rStart' = 0 /\ UNCHANGED hpos
          ELSE IF k < Whole(n, odd) \/ rest = 0
          THEN /\ Returned(head \o BlockData(odd, b, k))
               /\ bytesToEOF' = IF k < Whole(n, odd) THEN 0
                                ELSE ToEOF - Len(got')
               /\ rBuf' = <<>> /\ rStart' = 0
               /\ hpos' = IF k < Whole(n, odd) THEN Position(odd, b, k) ELSE h
          ELSE /\ Returned(head \o BlockData(odd, b, k) \o tail)
               /\ bytesToEOF' = ToEOF - Len(got')
               /\ rBuf' = Slice(file, h, Sector) /\ rStart' = Len(tail)
               /\ hpos' = Advance(h, Sector)
       /\ stale' = (stale /\ ~bytesToEOFinvalid)
       /\ plain' = (/\ plain /\ ~ReadsBehindWrite /\ ~stale'
                    /\ ~LosesOddByte(n, odd, b))
       /\ NoFault /\ KeepFile /\ UNCHANGED file

\* A filling or a block fails, before or after the RPi read it: the read
\* ends there.
FreadBigFault(n, odd, b) ==
    /\ isOpen /\ n > 2 * Sector /\ Called("read", n, <<>>)
    /\ \/ /\ Fills(odd) /\ Returned(<<>>) /\ bytesToEOF' = 0
          /\ hpos' \in {hpos, Advance(hpos, Sector)}
       \/ \E j \in 0 .. InFile(n, odd, b) :
             /\ j % b = 0 /\ j < Whole(n, odd)
             /\ Returned(SubSeq(Ahead(odd), 1, Used(odd))
                         \o BlockData(odd, b, j))
             /\ bytesToEOF' = 0
             /\ hpos' \in {AfterBlocks(odd, b, j),
                           Advance(Position(odd, b, j),
                                   Less(b, Whole(n, odd) - j))}
       \/ LET k == Whole(n, odd)
              h == AfterBlocks(odd, b, k)
          IN /\ InFile(n, odd, b) = k /\ k < Needed(n, odd)
             /\ Returned(SubSeq(Ahead(odd), 1, Used(odd))
                         \o BlockData(odd, b, k))
             /\ bytesToEOF' = ToEOF - Len(got')
             /\ hpos' \in {h, Advance(h, Sector)}
    /\ rBuf' = <<>> /\ rStart' = 0
    /\ Fault /\ KeepFile /\ UNCHANGED file

-----------------------------------------------------------------------------
(* Fwrite *)

\* The bytes of a write.
Bytes(n) == [i \in 1 .. n |-> calls + 1]

\* More than a buffer full from a buffer in use, or from an odd address, first
\* fills the buffer up, as far as makes the address even, and commits it.
Through(odd)  == wBuf # <<>> \/ odd
TwoCommits(odd) == odd /\ Space = 0
FillUp(odd) == IF ~odd THEN Space - (Space % 2)
               ELSE IF Space % 2 = 1 THEN Space
               ELSE IF Space > 0 THEN Space - 1 ELSE Sector - 1

\* How many bytes stay in the buffer: all, what no longer fits, or a rest of
\* less than a sector; everything before goes to the RPi.
Kept(n, odd) ==
    IF n <= Sector THEN IF n <= Space THEN Len(wBuf) + n ELSE n - Space
    ELSE IF Through(odd) /\ n - FillUp(odd) < Sector THEN n - FillUp(odd) ELSE 0

\* The read-ahead moved the position on the RPi, and is not given up: the
\* bytes are written behind it.
WritesBehindRead == rBuf # <<>>

Fwrite(n, odd) ==
    LET all  == wBuf \o Bytes(n)
        sent == Len(all) - Kept(n, odd)
    IN /\ isOpen /\ currentPos + n <= MaxLen /\ hpos + Len(all) <= MaxLen
       /\ Called("write", n, Bytes(n))
       /\ file' = Overlay(file, hpos, SubSeq(all, 1, sent))
       /\ hpos' = hpos + sent
       /\ wBuf' = SubSeq(all, sent + 1, Len(all))
       /\ currentPos' = currentPos + n
       /\ bytesToEOFinvalid' = TRUE
       /\ plain' = (plain /\ ~WritesBehindRead)
       /\ NoFault /\ UNCHANGED <<isOpen, rBuf, rStart, bytesToEOF, got, stale>>

\* The WRITE commands of a call: a buffer that no longer takes the bytes, the
\* filled up buffer, and the blocks of what is left.
Chunks(n, odd, b) ==
    LET data   == Bytes(n)
        first  == IF TwoCommits(odd) THEN <<wBuf>> ELSE <<>>
        filled == (IF TwoCommits(odd) THEN <<>> ELSE wBuf)
                  \o SubSeq(data, 1, FillUp(odd))
        left   == SubSeq(data, IF Through(odd) THEN FillUp(odd) + 1 ELSE 1, n)
        blocks == [i \in 1 .. (Len(left) + b - 1) \div b |->
                      Slice(left, (i - 1) * b, b)]
    IN IF n <= Sector
       THEN IF n <= Space THEN <<>> ELSE <<wBuf \o SubSeq(data, 1, Space)>>
       ELSE first \o (IF Through(odd) THEN <<filled>> ELSE <<>>)
                  \o (IF Kept(n, odd) = 0 THEN blocks ELSE <<>>)

\* The results of small writes and of the first of two commits are ignored; a
\* failed commit of the filled up buffer returns zero; a failed block returns
\* what the RPi took before.
IgnoresResult(n, odd, j) == n <= Sector \/ (TwoCommits(odd) /\ j = 1)

FwriteFault(n, odd, b) ==
    LET chunks == Chunks(n, odd, b)
        commit == (IF TwoCommits(odd) THEN 1 ELSE 0)
                  + (IF Through(odd) THEN 1 ELSE 0)
        kept   == SubSeq(Bytes(n), 1, Less(n, Kept(n, odd)))
    IN /\ isOpen /\ currentPos + n <= MaxLen
       /\ Called("write", n, Bytes(n))
       /\ \E j \in 1 .. Len(chunks) : \E d \in Damaged(chunks[j]) :
             LET goesOn  == IgnoresResult(n, odd, j) \/ Len(d) > Len(chunks[j])
                 written == FlattenSeq(SubSeq(chunks, 1, j - 1)) \o d
                            \o (IF goesOn
                                THEN FlattenSeq(SubSeq(chunks, j + 1,
                                                       Len(chunks)))
                                ELSE <<>>)
             IN /\ hpos + Len(written) <= MaxLen
                /\ file' = Overlay(file, hpos, written)
                /\ hpos' = hpos + Len(written)
                /\ wBuf' = IF goesOn THEN kept ELSE <<>>
                /\ IF goesOn THEN currentPos' = currentPos + n
                   ELSE IF j <= commit THEN UNCHANGED currentPos
                   ELSE currentPos' \in
                            {currentPos + (IF Through(odd) THEN FillUp(odd)
                                           ELSE 0)
                             + (j - 1 - commit) * b + r : r \in {0, Len(d)}}
       /\ bytesToEOFinvalid' = TRUE
       /\ Fault /\ UNCHANGED <<isOpen, rBuf, rStart, bytesToEOF, got>>

-----------------------------------------------------------------------------
(* Fseek *)

\* The target as the RPi computes it, after the commit.
Target(mode, off) == CASE mode = "set" -> off
                       [] mode = "cur" -> currentPos + off
                       [] mode = "end" -> Len(Contents) + off

\* fseek_cur(): the target is in the read-ahead.
InReadAhead(mode, off) ==
    mode = "cur" /\ rStart + off \in 0 .. Len(rBuf) - 1

\* What a seek leaves without a fault: commit, then a step in the read-ahead,
\* or the read-ahead is dropped and the RPi seeks.  It refuses a position
\* before the start; only SEEK_CUR told it the position of the program before.
FseekLocal(off) ==
    /\ isOpen /\ InReadAhead("cur", off) /\ Called("seek", 0, <<>>)
    /\ file' = Contents /\ hpos' = hpos + Len(wBuf) /\ wBuf' = <<>>
    /\ currentPos' = currentPos + off /\ rStart' = rStart + off
    /\ stale' = (stale \/ off # 0)
    /\ NoFault /\ UNCHANGED <<isOpen, rBuf, bytesToEOF, bytesToEOFinvalid,
                              got, plain>>

FseekReal(mode, off) ==
    /\ isOpen /\ ~InReadAhead(mode, off) /\ Called("seek", 0, <<>>)
    /\ Target(mode, off) \in 0 .. MaxLen
    /\ file' = Contents /\ wBuf' = <<>> /\ rBuf' = <<>> /\ rStart' = 0
    /\ hpos' = Target(mode, off) /\ currentPos' = Target(mode, off)
    /\ bytesToEOF' = Len(Contents) - Target(mode, off)
    /\ bytesToEOFinvalid' = FALSE /\ stale' = FALSE
    /\ NoFault /\ UNCHANGED <<isOpen, got, plain>>

FseekRefused(mode, off) ==
    /\ isOpen /\ ~InReadAhead(mode, off) /\ Called("seek", 0, <<>>)
    /\ Target(mode, off) < 0
    /\ file' = Contents /\ wBuf' = <<>> /\ rBuf' = <<>> /\ rStart' = 0
    /\ hpos' = IF mode = "cur" THEN currentPos ELSE hpos + Len(wBuf)
    /\ plain' = (plain /\ (mode = "cur" \/ Left = 0))
    /\ NoFault /\ UNCHANGED <<isOpen, currentPos, bytesToEOF,
                              bytesToEOFinvalid, got, stale>>

\* The commit or the command fails, the latter before or after the RPi sought.
FseekFault(mode, off) ==
    /\ isOpen /\ ~InReadAhead(mode, off) /\ Called("seek", 0, <<>>)
    /\ Target(mode, off) \in 0 .. MaxLen
    /\ wBuf' = <<>> /\ rBuf' = <<>> /\ rStart' = 0
    /\ \/ /\ wBuf # <<>>
          /\ \E d \in Damaged(wBuf) :
                /\ file' = Overlay(file, hpos, d)
                /\ LET p == IF mode = "end" THEN Len(file') + off
                            ELSE Target(mode, off)
                   IN p >= 0 /\ hpos' = p /\ currentPos' = p
                /\ bytesToEOF' = Len(file') - hpos'
          /\ bytesToEOFinvalid' = FALSE
       \/ /\ file' = Contents
          /\ hpos' \in {hpos + Len(wBuf), currentPos, Target(mode, off)}
          /\ UNCHANGED <<currentPos, bytesToEOF, bytesToEOFinvalid>>
    /\ Fault /\ UNCHANGED <<isOpen, got>>

-----------------------------------------------------------------------------

Modes == {"set", "cur", "end"}

Open == Fopen \/ FopenFault \/ Fcreate

Read == \E n \in ReadCounts, odd \in BOOLEAN, b \in BlockSizes :
            \/ FreadSmall(n) \/ FreadSmallFault(n)
            \/ FreadBig(n, odd, b) \/ FreadBigFault(n, odd, b)

Write == \E n \in WriteCounts, odd \in BOOLEAN, b \in BlockSizes :
            Fwrite(n, odd) \/ FwriteFault(n, odd, b)

Seek == \E mode \in Modes, off \in Offsets \union {-o : o \in Offsets} :
            \/ FseekReal(mode, off) \/ FseekRefused(mode, off)
            \/ FseekFault(mode, off) \/ FseekLocal(off)

Next == Open \/ Read \/ Write \/ Seek \/ Fclose \/ FcloseFault

Spec == Init /\ [][Next]_vars

-----------------------------------------------------------------------------
(* Properties *)

TypeOK ==
    /\ file \in Seq(Byte) /\ hpos \in Nat
    /\ isOpen \in BOOLEAN /\ currentPos \in Nat
    /\ rBuf \in Seq(Byte) /\ Len(rBuf) <= Sector
    /\ rStart \in 0 .. Len(rBuf)
    /\ bytesToEOF \in Int /\ bytesToEOFinvalid \in BOOLEAN
    /\ wBuf \in Seq(Byte) /\ Len(wBuf) <= Sector
    /\ got \in Seq(Byte) /\ stale \in BOOLEAN /\ plain \in BOOLEAN
    /\ calls \in 0 .. MaxCalls /\ faults \in 0 .. MaxFaults

(* The two positions of the file, the one the driver counts and the one of *)
(* the RPi, differ by exactly what is buffered, in one direction only, and *)
(* the read-ahead is what the file holds before the RPi's position; and    *)
(* the count of bytes to the end is right, or will be asked for again.     *)
InStep ==
    plain /\ isOpen =>
        /\ hpos + Len(wBuf) = currentPos + Left
        /\ rBuf # <<>> => wBuf = <<>> /\ hpos >= Len(rBuf)
        /\ rBuf = Slice(file, hpos - Len(rBuf), Len(rBuf))
        /\ ~bytesToEOFinvalid /\ ~stale =>
              \/ bytesToEOF = Len(file) - currentPos
              \/ bytesToEOF <= 0 /\ currentPos >= Len(file)

(* As long as no command fails and reads, writes and seeks follow each     *)
(* other so that the buffers can be given up (plain says how), the file    *)
(* with its two buffers and two positions is a plain file: every Fread()   *)
(* returns the bytes at the position, all that were asked for or all that  *)
(* are left, every Fwrite() puts its bytes there, and Fclose() loses none. *)
ActsAsAFile == P!FileSpec

(* test_filesystem/test05.c reads a file in blocks of any sizes and        *)
(* compares it: "didn't read everything? fail".                            *)
ReadsTheFile ==
    [][call'.op = "read" => got' = Slice(Contents, currentPos, call'.n)]_vars
=============================================================================
