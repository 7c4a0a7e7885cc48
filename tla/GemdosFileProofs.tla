-------------------------- MODULE GemdosFileProofs --------------------------
(***************************************************************************)
(* Proofs about GemdosFile, for any sizes of sectors and blocks, counts,   *)
(* offsets, lengths and bounds: as long as nothing gives the buffers up,   *)
(* the file with its two buffers and two positions is a plain file.        *)
(***************************************************************************)
EXTENDS GemdosFile, SequenceTheorems, TLAPS

(***************************************************************************)
(* Slices and overlays                                                     *)
(***************************************************************************)

LEMMA SliceLen ==
    ASSUME NEW T, NEW f \in Seq(T), NEW p \in Nat, NEW n \in Nat
    PROVE  /\ Slice(f, p, n) \in Seq(T)
           /\ Len(Slice(f, p, n)) = IF p >= Len(f) THEN 0
                                    ELSE IF p + n <= Len(f) THEN n ELSE Len(f) - p
           /\ \A i \in 1 .. Len(Slice(f, p, n)) : Slice(f, p, n)[i] = f[p + i]
BY DEF Slice, F!Slice, F!Less

(* The bytes s are those of f from position p on.                          *)
Part(s, f, p) ==
    /\ s \in Seq(Byte)
    /\ s # <<>> => p + Len(s) <= Len(f)
    /\ \A i \in 1 .. Len(s) : s[i] = f[p + i]

LEMMA SlicePart ==
    ASSUME NEW f \in Seq(Byte), NEW p \in Nat, NEW n \in Nat
    PROVE  Part(Slice(f, p, n), f, p)
<1> DEFINE s == Slice(f, p, n)
<1>1. /\ s \in Seq(Byte)
      /\ Len(s) = IF p >= Len(f) THEN 0 ELSE IF p + n <= Len(f) THEN n ELSE Len(f) - p
      /\ \A i \in 1 .. Len(s) : s[i] = f[p + i]
  BY SliceLen
<1> HIDE DEF s
<1>2. s # <<>> => p + Len(s) <= Len(f)
  BY <1>1
<1> QED
  BY <1>1, <1>2 DEF Part, s

LEMMA SliceBytes ==
    ASSUME NEW f \in Seq(Byte), NEW p \in Nat, NEW n \in Nat
    PROVE  /\ Slice(f, p, n) \in Seq(Byte)
           /\ Len(Slice(f, p, n)) \in Nat
           /\ p >= Len(f) => Len(Slice(f, p, n)) = 0
           /\ p < Len(f) /\ p + n <= Len(f) => Len(Slice(f, p, n)) = n
           /\ p < Len(f) /\ p + n > Len(f) => Len(Slice(f, p, n)) = Len(f) - p
<1>1. /\ Slice(f, p, n) \in Seq(Byte)
      /\ Len(Slice(f, p, n)) = IF p >= Len(f) THEN 0
                               ELSE IF p + n <= Len(f) THEN n ELSE Len(f) - p
  BY SliceLen
<1>2. Len(f) \in Nat
  OBVIOUS
<1> QED
  BY <1>1, <1>2

LEMMA EmptyPart == ASSUME NEW f \in Seq(Byte), NEW p \in Nat PROVE Part(<<>>, f, p)
BY DEF Part

(* A part as long as a slice is this slice.                                *)
LEMMA PartIsSlice ==
    ASSUME NEW f \in Seq(Byte), NEW p \in Nat, NEW n \in Nat, NEW s, Part(s, f, p),
           Len(s) = n \/ (Len(s) < n /\ p + Len(s) >= Len(f))
    PROVE  s = Slice(f, p, n)
<1>1. s \in Seq(Byte) /\ Slice(f, p, n) \in Seq(Byte)
  BY SliceLen DEF Part
<1>2. Len(s) \in Nat /\ (Len(s) # 0 => s # <<>>)
  BY <1>1
<1>3. Len(s) # 0 => p + Len(s) <= Len(f)
  BY <1>2 DEF Part
<1>4. Len(Slice(f, p, n)) = IF p >= Len(f) THEN 0
                            ELSE IF p + n <= Len(f) THEN n ELSE Len(f) - p
  BY SliceLen
<1>5. Len(f) \in Nat
  OBVIOUS
<1>6. Len(s) = Len(Slice(f, p, n))
  BY <1>2, <1>3, <1>4, <1>5
<1>7. \A i \in 1 .. Len(s) : s[i] = Slice(f, p, n)[i]
  <2>1. \A i \in 1 .. Len(Slice(f, p, n)) : Slice(f, p, n)[i] = f[p + i]
    BY SliceLen
  <2> QED
    BY <1>6, <2>1 DEF Part
<1> QED
  BY <1>1, <1>6, <1>7, SeqEqual

LEMMA ConcatPart ==
    ASSUME NEW f \in Seq(Byte), NEW p \in Nat, NEW s, NEW t, NEW q,
           Part(s, f, p), q = p + Len(s), Part(t, f, q)
    PROVE  Part(s \o t, f, p) /\ Len(s \o t) = Len(s) + Len(t)
<1>1. s \in Seq(Byte) /\ t \in Seq(Byte)
  BY DEF Part
<1>2. s \o t \in Seq(Byte) /\ Len(s \o t) = Len(s) + Len(t)
  BY <1>1
<1>3. s \o t # <<>> => p + Len(s) + Len(t) <= Len(f)
  <2>1. CASE t = <<>>
    BY <1>1, <1>2, <2>1 DEF Part
  <2>2. CASE t # <<>>
    BY <1>1, <2>2 DEF Part
  <2> QED
    BY <2>1, <2>2
<1>4. \A i \in 1 .. Len(s \o t) : (s \o t)[i] = f[p + i]
  BY <1>1, <1>2 DEF Part
<1> QED
  BY <1>2, <1>3, <1>4 DEF Part

LEMMA SubPart ==
    ASSUME NEW f \in Seq(Byte), NEW p \in Nat, NEW s, Part(s, f, p),
           NEW k \in 0 .. Len(s), NEW m \in 0 .. k
    PROVE  /\ Part(SubSeq(s, m + 1, k), f, p + m)
           /\ Len(SubSeq(s, m + 1, k)) = k - m
<1>1. s \in Seq(Byte) /\ Len(s) \in Nat
  BY DEF Part
<1>2. /\ SubSeq(s, m + 1, k) \in Seq(Byte)
      /\ Len(SubSeq(s, m + 1, k)) = k - m
      /\ \A i \in 1 .. k - m : SubSeq(s, m + 1, k)[i] = s[m + i]
  BY <1>1
<1> DEFINE t == SubSeq(s, m + 1, k)
<1>3. t # <<>> => p + m + Len(t) <= Len(f)
  <2>1. t # <<>> => k > m
    BY <1>2
  <2>2. k > m => s # <<>>
    BY <1>1
  <2>3. s # <<>> => p + Len(s) <= Len(f)
    BY DEF Part
  <2>4. p + m + Len(t) = p + k /\ p + k <= p + Len(s)
    BY <1>1, <1>2
  <2> HIDE DEF t
  <2> QED
    BY <1>1, <2>1, <2>2, <2>3, <2>4
<1>4. ASSUME NEW i \in 1 .. k - m PROVE t[i] = f[p + m + i]
  <2>1. m + i \in 1 .. Len(s) /\ p + (m + i) = p + m + i
    BY <1>1
  <2>2. \A j \in 1 .. Len(s) : s[j] = f[p + j]
    BY DEF Part
  <2>3. t[i] = s[m + i]
    BY <1>2
  <2> HIDE DEF t
  <2> QED
    BY <2>1, <2>2, <2>3
<1> HIDE DEF t
<1>5. Part(t, f, p + m) /\ Len(t) = k - m
  BY <1>2, <1>3, <1>4 DEF Part, t
<1> QED
  BY <1>5 DEF t

LEMMA OverlayLen ==
    ASSUME NEW f \in Seq(Byte), NEW p \in Nat, NEW b \in Seq(Byte)
    PROVE  /\ Overlay(f, p, b) \in Seq(Byte)
           /\ Len(Overlay(f, p, b)) = IF b = <<>> THEN Len(f)
                                      ELSE IF p + Len(b) > Len(f) THEN p + Len(b) ELSE Len(f)
           /\ \A i \in 1 .. Len(Overlay(f, p, b)) :
                 Overlay(f, p, b)[i] = IF i \in p + 1 .. p + Len(b) THEN b[i - p]
                                       ELSE IF i <= Len(f) THEN f[i] ELSE 0
<1> DEFINE m == More(Len(f), p + Len(b))
           g == [i \in 1 .. m |-> IF i \in p + 1 .. p + Len(b) THEN b[i - p]
                                  ELSE IF i <= Len(f) THEN f[i] ELSE 0]
<1>1. CASE b = <<>>
  BY <1>1 DEF Overlay, F!Overlay
<1>2. CASE b # <<>>
  <2>1. m \in Nat /\ m = IF p + Len(b) > Len(f) THEN p + Len(b) ELSE Len(f)
    BY DEF More, F!More
  <2>2. Overlay(f, p, b) = g
    BY <1>2 DEF Overlay, F!Overlay, More
  <2>3. 0 \in Byte
    BY CountAssumption DEF Byte
  <2>4. \A i \in 1 .. m : g[i] \in Byte
    BY <2>1, <2>3
  <2>5. g \in Seq(Byte) /\ Len(g) = m
    <3>1. g \in [1 .. m -> Byte]
      BY <2>4
    <3> HIDE DEF g
    <3> QED
      BY <2>1, <3>1
  <2> QED
    BY <1>2, <2>1, <2>2, <2>5
<1> QED
  BY <1>1, <1>2

(* Two writes, one behind the other, are one.                              *)
LEMMA OverlayTwice ==
    ASSUME NEW f \in Seq(Byte), NEW p \in Nat, NEW a \in Seq(Byte), NEW b \in Seq(Byte)
    PROVE  Overlay(Overlay(f, p, a), p + Len(a), b) = Overlay(f, p, a \o b)
<1> DEFINE g == Overlay(f, p, a)
<1>1. Len(a) \in Nat /\ Len(b) \in Nat /\ Len(f) \in Nat /\ a \o b \in Seq(Byte)
      /\ Len(a \o b) = Len(a) + Len(b)
  OBVIOUS
<1>2. CASE a = <<>> \/ b = <<>>
  <2>1. \A h, q : Overlay(h, q, <<>>) = h
    BY DEF Overlay, F!Overlay
  <2>2. CASE a = <<>>
    <3>1. a \o b = b /\ p + Len(a) = p
      BY <2>2, ConcatEmptySeq
    <3> QED
      BY <2>1, <2>2, <3>1
  <2>3. CASE b = <<>>
    <3>1. a \o b = a
      BY <2>3, ConcatEmptySeq
    <3> QED
      BY <2>1, <2>3, <3>1
  <2> QED
    BY <1>2, <2>2, <2>3
<1>3. CASE a # <<>> /\ b # <<>>
  <2>1. g \in Seq(Byte) /\ Len(g) = IF p + Len(a) > Len(f) THEN p + Len(a) ELSE Len(f)
    BY <1>3, OverlayLen
  <2>2. \A i \in 1 .. Len(g) : g[i] = IF i \in p + 1 .. p + Len(a) THEN a[i - p]
                                      ELSE IF i <= Len(f) THEN f[i] ELSE 0
    BY OverlayLen
  <2> HIDE DEF g
  <2>3. p + Len(a) \in Nat
    BY <1>1
  <2>4. /\ Overlay(g, p + Len(a), b) \in Seq(Byte)
        /\ Len(Overlay(g, p + Len(a), b)) =
             IF p + Len(a) + Len(b) > Len(g) THEN p + Len(a) + Len(b) ELSE Len(g)
        /\ \A i \in 1 .. Len(Overlay(g, p + Len(a), b)) :
             Overlay(g, p + Len(a), b)[i] =
               IF i \in p + Len(a) + 1 .. p + Len(a) + Len(b) THEN b[i - (p + Len(a))]
               ELSE IF i <= Len(g) THEN g[i] ELSE 0
    BY <1>3, <2>1, <2>3, OverlayLen
  <2>5. a \o b # <<>>
    BY <1>1, <1>3
  <2> DEFINE c == a \o b
             r == Overlay(f, p, c)
             q == Overlay(g, p + Len(a), b)
  <2>6. c \in Seq(Byte) /\ c # <<>> /\ Len(c) = Len(a) + Len(b)
    BY <1>1, <2>5
  <2>7. \A i \in 1 .. Len(a) + Len(b) : c[i] = IF i <= Len(a) THEN a[i] ELSE b[i - Len(a)]
    BY ConcatProperties
  <2> HIDE DEF c
  <2>8. /\ r \in Seq(Byte)
        /\ Len(r) = IF p + Len(c) > Len(f) THEN p + Len(c) ELSE Len(f)
        /\ \A i \in 1 .. Len(r) : r[i] = IF i \in p + 1 .. p + Len(c) THEN c[i - p]
                                         ELSE IF i <= Len(f) THEN f[i] ELSE 0
    BY <2>6, OverlayLen
  <2> HIDE DEF r, q
  <2>9. q \in Seq(Byte) /\ Len(q) = Len(r)
    <3>1. /\ Len(q) = IF p + Len(a) + Len(b) > Len(g) THEN p + Len(a) + Len(b) ELSE Len(g)
          /\ q \in Seq(Byte)
      BY <2>4 DEF q
    <3>2. Len(r) = IF p + Len(a) + Len(b) > Len(f) THEN p + Len(a) + Len(b) ELSE Len(f)
      BY <1>1, <2>6, <2>8
    <3>3. Len(g) = IF p + Len(a) > Len(f) THEN p + Len(a) ELSE Len(f)
      BY <2>1
    <3>4. p + Len(a) \in Nat /\ Len(b) \in Nat /\ Len(f) \in Nat
      BY <1>1
    <3>5. \A x, y, z, u \in Nat : u = (IF x > z THEN x ELSE z) =>
             (IF x + y > u THEN x + y ELSE u) = (IF x + y > z THEN x + y ELSE z)
      OBVIOUS
    <3>6. Len(g) \in Nat
      BY <3>3, <3>4
    <3>7. (IF p + Len(a) + Len(b) > Len(g) THEN p + Len(a) + Len(b) ELSE Len(g))
          = (IF p + Len(a) + Len(b) > Len(f) THEN p + Len(a) + Len(b) ELSE Len(f))
      BY <3>3, <3>4, <3>5, <3>6
    <3> QED
      BY <3>1, <3>2, <3>7
  <2>10. ASSUME NEW i \in 1 .. Len(r) PROVE q[i] = r[i]
    <3>1. /\ i \in Nat /\ i >= 1
          /\ q[i] = IF i \in p + Len(a) + 1 .. p + Len(a) + Len(b) THEN b[i - (p + Len(a))]
                    ELSE IF i <= Len(g) THEN g[i] ELSE 0
          /\ r[i] = IF i \in p + 1 .. p + Len(a) + Len(b) THEN c[i - p]
                    ELSE IF i <= Len(f) THEN f[i] ELSE 0
      BY <1>1, <2>4, <2>6, <2>8, <2>9 DEF q
    <3>2. CASE i > p + Len(a)
      <4>1. i <= p + Len(a) + Len(b) => c[i - p] = b[i - (p + Len(a))]
        <5>1. i <= p + Len(a) + Len(b) => i - p \in 1 .. Len(a) + Len(b) /\ ~(i - p <= Len(a))
          BY <1>1, <3>1, <3>2
        <5>2. (i - p) - Len(a) = i - (p + Len(a))
          BY <1>1, <3>1
        <5> QED
          BY <2>7, <5>1, <5>2
      <4>2. i <= Len(g) => i <= Len(f) /\ g[i] = f[i]
        BY <1>1, <2>1, <2>2, <3>1, <3>2
      <4>3. i <= Len(f) => i <= Len(g)
        BY <1>1, <2>1, <3>1, <3>2
      <4> QED
        BY <1>1, <3>1, <3>2, <4>1, <4>2, <4>3
    <3>3. CASE i <= p + Len(a)
      <4>1. i > p => i <= Len(g) /\ g[i] = a[i - p] /\ c[i - p] = a[i - p]
        <5>1. i > p => i - p \in 1 .. Len(a) + Len(b) /\ i - p <= Len(a)
          BY <1>1, <3>1, <3>3
        <5>2. i > p => c[i - p] = a[i - p]
          BY <2>7, <5>1
        <5>3. i > p => i \in 1 .. Len(g) /\ i \in p + 1 .. p + Len(a)
          BY <1>1, <2>1, <3>1, <3>3
        <5>4. i > p => g[i] = a[i - p]
          BY <2>2, <5>3
        <5> QED
          BY <5>2, <5>3, <5>4
      <4>2. i <= p => i <= Len(g) /\ g[i] = IF i <= Len(f) THEN f[i] ELSE 0
        BY <1>1, <2>1, <2>2, <3>1
      <4> QED
        BY <1>1, <3>1, <3>3, <4>1, <4>2
    <3> QED
      BY <1>1, <3>1, <3>2, <3>3
  <2> QED
    BY <2>8, <2>9, <2>10, SeqEqual DEF g, c, r, q
<1> QED
  BY <1>2, <1>3

-----------------------------------------------------------------------------
(***************************************************************************)
(* The inductive invariant: what InStep relates is well typed while plain  *)
(* holds, a closed handle has empty buffers, bytes in the write buffer or  *)
(* a handle just written leave the count of bytes to the end to be asked   *)
(* for, and the read-ahead is empty then.                                  *)
(***************************************************************************)

Typed ==
    /\ file \in Seq(Byte) /\ hpos \in Nat
    /\ currentPos \in Nat
    /\ rBuf \in Seq(Byte) /\ Len(rBuf) <= Sector /\ rStart \in 0 .. Len(rBuf)
    /\ bytesToEOF \in Int
    /\ wBuf \in Seq(Byte) /\ Len(wBuf) <= Sector
    /\ calls \in 0 .. MaxCalls

Buffered ==
    /\ ~isOpen => currentPos = 0 /\ rBuf = <<>> /\ wBuf = <<>> /\ bytesToEOFinvalid
    /\ wBuf # <<>> => bytesToEOFinvalid
    /\ bytesToEOFinvalid => rBuf = <<>>
    /\ isOpen => hpos + Len(wBuf) = currentPos + Left
    /\ rBuf # <<>> => hpos >= Len(rBuf) /\ Part(rBuf, file, hpos - Len(rBuf))

Counted ==
    isOpen /\ ~bytesToEOFinvalid /\ ~stale =>
        \/ bytesToEOF = Len(file) - currentPos
        \/ bytesToEOF <= 0 /\ currentPos >= Len(file)

FileInv == plain => Typed /\ Buffered /\ Counted

LEMMA EmptySeqs ==
    /\ <<>> \in Seq(Byte) /\ Len(<<>>) = 0
    /\ \A s \in Seq(Byte) : Len(s) \in Nat /\ (Len(s) = 0 <=> s = <<>>)
OBVIOUS

LEMMA OverlayNothing == \A f, p : Overlay(f, p, <<>>) = f
BY DEF Overlay, F!Overlay

(* The file of the program is the file once the write buffer is empty.     *)
LEMMA ContentsOfFile ==
    /\ wBuf = <<>> => Contents = file
    /\ wBuf' = <<>> => Contents' = file'
BY OverlayNothing DEF Contents

LEMMA ContentsType ==
    ASSUME Typed
    PROVE  Contents \in Seq(Byte) /\ Len(Contents) \in Nat
<1>1. Contents \in Seq(Byte)
  BY OverlayLen DEF Contents, Typed
<1> QED
  BY <1>1

LEMMA InStepFromInv == FileInv => InStep
<1> SUFFICES ASSUME FileInv, plain, isOpen PROVE InStep!2
  BY DEF InStep
<1>1. Typed /\ Buffered /\ Counted
  BY DEF FileInv
<1>2. rBuf # <<>> => wBuf = <<>>
  BY <1>1 DEF Buffered
<1>3. rBuf = Slice(file, hpos - Len(rBuf), Len(rBuf))
  <2>1. Len(rBuf) \in Nat /\ file \in Seq(Byte) /\ hpos \in Nat
    BY <1>1, EmptySeqs DEF Typed
  <2>2. CASE rBuf # <<>>
    <3>1. hpos - Len(rBuf) \in Nat /\ Part(rBuf, file, hpos - Len(rBuf))
      BY <1>1, <2>1, <2>2 DEF Buffered
    <3> QED
      BY <2>1, <3>1, PartIsSlice
  <2>3. CASE rBuf = <<>>
    <3>1. Part(rBuf, file, hpos) /\ Len(rBuf) = 0
      BY <2>1, <2>3, EmptyPart
    <3>2. rBuf = Slice(file, hpos, 0)
      BY <2>1, <3>1, PartIsSlice
    <3> QED
      BY <2>1, <3>1, <3>2
  <2> QED
    BY <2>2, <2>3
<1> QED
  BY <1>1, <1>2, <1>3 DEF Buffered, Counted

-----------------------------------------------------------------------------
(***************************************************************************)
(* The steps that keep the promise: one lemma per action.  Each shows that *)
(* the invariant is kept and that the step is one of PlainFile.            *)
(***************************************************************************)

PromiseKept ==
    /\ Typed' /\ Buffered' /\ Counted'
    /\ P!Fopen \/ P!Fclose \/ P!Fread \/ P!Fwrite \/ P!Fseek

LEMMA FopenStep ==
    ASSUME Typed, Buffered, Counted, Fopen PROVE PromiseKept
<1> USE DEF Fopen, Called, NoFault
<1>1. ~isOpen /\ rBuf = <<>> /\ wBuf = <<>> /\ rStart = 0
  BY EmptySeqs DEF Typed, Buffered
<1>2. Len(file) \in Nat /\ Left' = 0 /\ Len(wBuf') = 0
  BY <1>1 DEF Typed, Left
<1>3. Typed'
  BY <1>2, CountAssumption DEF Typed
<1>4. Buffered' /\ Counted'
  BY <1>1, <1>2 DEF Buffered, Counted, Typed
<1>5. P!Fopen
  BY <1>1, ContentsOfFile DEF P!Fopen
<1> QED
  BY <1>3, <1>4, <1>5 DEF PromiseKept

LEMMA FcreateStep ==
    ASSUME Typed, Buffered, Counted, Fcreate PROVE PromiseKept
<1> USE DEF Fcreate, Called, NoFault
<1>1. ~isOpen /\ rBuf = <<>> /\ wBuf = <<>> /\ rStart = 0 /\ bytesToEOFinvalid
  BY EmptySeqs DEF Typed, Buffered
<1>2. Left' = 0 /\ Len(wBuf') = 0
  BY <1>1 DEF Left
<1>3. Typed'
  BY EmptySeqs, CountAssumption DEF Typed
<1>4. Buffered' /\ Counted'
  BY <1>1, <1>2 DEF Buffered, Counted, Typed
<1>5. P!Fopen
  BY <1>1, ContentsOfFile DEF P!Fopen
<1> QED
  BY <1>3, <1>4, <1>5 DEF PromiseKept

LEMMA FcloseStep ==
    ASSUME Typed, Buffered, Counted, Fclose PROVE PromiseKept
<1> USE DEF Fclose, Called, NoFault, InitFileBuffer
<1>1. Len(wBuf) \in Nat /\ Contents \in Seq(Byte)
  BY ContentsType, EmptySeqs DEF Typed
<1>2. Typed'
  BY <1>1, EmptySeqs, CountAssumption, SectorAssumption DEF Typed
<1>3. Buffered' /\ Counted'
  BY DEF Buffered, Counted
<1>4. P!Fclose
  BY ContentsOfFile DEF P!Fclose
<1> QED
  BY <1>2, <1>3, <1>4 DEF PromiseKept

LEMMA FseekLocalStep ==
    ASSUME Typed, Buffered, Counted, NEW off \in Int, FseekLocal(off) PROVE PromiseKept
<1> USE DEF FseekLocal, Called, NoFault
<1>1. /\ rStart + off \in 0 .. Len(rBuf) - 1
      /\ Len(rBuf) \in Nat /\ rStart \in Nat /\ hpos \in Nat /\ currentPos \in Nat
  BY EmptySeqs DEF InReadAhead, Typed
<1>2. rBuf # <<>> /\ wBuf = <<>>
  BY <1>1, EmptySeqs DEF Buffered
<1>3. file' = file /\ hpos' = hpos
  BY <1>1, <1>2, ContentsOfFile, EmptySeqs
<1>4. hpos = currentPos + (Len(rBuf) - rStart) /\ hpos >= Len(rBuf)
  BY <1>1, <1>2, EmptySeqs DEF Buffered, Left
<1>5. currentPos + off \in Nat
  BY <1>1, <1>4
<1>6. Typed'
  BY <1>1, <1>3, <1>5, EmptySeqs, CountAssumption, SectorAssumption DEF Typed
<1>7. Buffered'
  BY <1>1, <1>2, <1>3, <1>4, EmptySeqs DEF Buffered, Left
<1>8. Counted'
  <2>1. CASE off = 0
    <3>1. currentPos' = currentPos
      BY <1>1, <2>1
    <3>2. ~stale' => ~stale
      OBVIOUS
    <3> QED
      BY <1>3, <3>1, <3>2 DEF Counted
  <2>2. CASE off # 0
    <3>1. stale'
      BY <2>2
    <3> QED
      BY <3>1 DEF Counted
  <2> QED
    BY <2>1, <2>2
<1>9. P!Fseek
  BY <1>2, <1>3, <1>5, ContentsOfFile DEF P!Fseek
<1> QED
  BY <1>6, <1>7, <1>8, <1>9 DEF PromiseKept

LEMMA FseekRealStep ==
    ASSUME Typed, Buffered, Counted, NEW mode, NEW off \in Int, FseekReal(mode, off)
    PROVE  PromiseKept
<1> USE DEF FseekReal, Called, NoFault
<1> DEFINE p == Target(mode, off)
<1>1. p \in Nat /\ hpos' = p /\ currentPos' = p
  BY CountAssumption
<1> HIDE DEF p
<1>2. Contents \in Seq(Byte) /\ Len(Contents) \in Nat
  BY ContentsType
<1>3. bytesToEOF' = Len(Contents) - p
  BY DEF p
<1>4. Typed'
  BY <1>1, <1>2, <1>3, EmptySeqs, CountAssumption, SectorAssumption DEF Typed
<1>5. Buffered' /\ Counted'
  BY <1>1, <1>2, <1>3, EmptySeqs DEF Buffered, Counted, Left
<1>6. P!Fseek
  BY <1>1, ContentsOfFile DEF P!Fseek
<1> QED
  BY <1>4, <1>5, <1>6 DEF PromiseKept

LEMMA FseekRefusedStep ==
    ASSUME Typed, Buffered, Counted, NEW mode, NEW off \in Int, FseekRefused(mode, off),
           plain'
    PROVE  PromiseKept
<1> USE DEF FseekRefused, Called, NoFault
<1>1. /\ Len(rBuf) \in Nat /\ rStart \in Nat /\ hpos \in Nat /\ currentPos \in Nat
      /\ Len(wBuf) \in Nat
  BY EmptySeqs DEF Typed
<1>2. hpos' = currentPos
  <2>1. mode = "cur" \/ Left = 0
    OBVIOUS
  <2>2. isOpen /\ hpos' = IF mode = "cur" THEN currentPos ELSE hpos + Len(wBuf)
    OBVIOUS
  <2>3. hpos + Len(wBuf) = currentPos + Left
    BY <2>2 DEF Buffered
  <2> QED
    BY <1>1, <2>1, <2>2, <2>3
<1>3. Contents \in Seq(Byte)
  BY ContentsType
<1>4. Typed'
  BY <1>1, <1>2, <1>3, EmptySeqs, CountAssumption, SectorAssumption DEF Typed
<1>5. Buffered'
  BY <1>1, <1>2, EmptySeqs DEF Buffered, Left
<1>6. Counted'
  BY ContentsOfFile DEF Buffered, Counted
<1>7. P!Fseek
  BY <1>1, ContentsOfFile DEF P!Fseek
<1> QED
  BY <1>4, <1>5, <1>6, <1>7 DEF PromiseKept

-----------------------------------------------------------------------------
(* Fwrite: what goes to the RPi and what stays in the buffer are the bytes *)
(* of the buffer and of the program, in order.                             *)

LEMMA SplitInTwo ==
    ASSUME NEW s \in Seq(Byte), NEW k \in 0 .. Len(s)
    PROVE  SubSeq(s, 1, k) \o SubSeq(s, k + 1, Len(s)) = s
<1> DEFINE x == SubSeq(s, 1, k)
           y == SubSeq(s, k + 1, Len(s))
<1>1. Len(s) \in Nat /\ k \in Nat /\ k <= Len(s)
  OBVIOUS
<1>2. /\ x \in Seq(Byte) /\ Len(x) = k
      /\ y \in Seq(Byte) /\ Len(y) = Len(s) - k
      /\ \A i \in 1 .. k : x[i] = s[i]
      /\ \A i \in 1 .. Len(s) - k : y[i] = s[k + i]
  BY <1>1
<1> HIDE DEF x, y
<1>3. x \o y \in Seq(Byte) /\ Len(x \o y) = Len(s)
  BY <1>1, <1>2
<1>4. ASSUME NEW i \in 1 .. Len(s) PROVE (x \o y)[i] = s[i]
  <2>1. (x \o y)[i] = IF i <= k THEN x[i] ELSE y[i - k]
    BY <1>1, <1>2
  <2>2. CASE i <= k
    BY <1>1, <1>2, <2>1, <2>2
  <2>3. CASE i > k
    <3>1. i - k \in 1 .. Len(s) - k /\ k + (i - k) = i /\ ~(i <= k)
      BY <1>1, <2>3
    <3> QED
      BY <1>2, <2>1, <3>1
  <2>4. i <= k \/ i > k
    BY <1>1
  <2> QED
    BY <2>2, <2>3, <2>4
<1> QED
  BY <1>3, <1>4, SeqEqual DEF x, y

LEMMA KeptBytes ==
    ASSUME Typed, NEW n \in Nat, NEW odd \in BOOLEAN
    PROVE  /\ Kept(n, odd) \in 0 .. Len(wBuf) + n
           /\ Kept(n, odd) <= Sector
<1>1. Len(wBuf) \in 0 .. Sector /\ Sector \in Nat \ {0} /\ Space \in 0 .. Sector
      /\ Space = Sector - Len(wBuf)
  BY SectorAssumption, EmptySeqs DEF Typed, Space
<1>2. FillUp(odd) \in 0 .. Sector
  <2>1. Space % 2 \in 0 .. 1 /\ (Space = 0 => Space % 2 = 0)
    BY <1>1
  <2> QED
    BY <1>1, <2>1 DEF FillUp
<1>3. CASE n <= Sector
  BY <1>1, <1>3 DEF Kept
<1>4. CASE n > Sector
  BY <1>1, <1>2, <1>4 DEF Kept
<1> QED
  BY <1>1, <1>3, <1>4

LEMMA FwriteStep ==
    ASSUME Typed, Buffered, Counted, NEW n \in WriteCounts, NEW odd \in BOOLEAN,
           Fwrite(n, odd), plain'
    PROVE  PromiseKept
<1> DEFINE all  == wBuf \o Bytes(n)
           sent == Len(all) - Kept(n, odd)
           x    == SubSeq(all, 1, sent)
           y    == SubSeq(all, sent + 1, Len(all))
<1>1. /\ isOpen /\ calls < MaxCalls /\ calls' = calls + 1
      /\ call' = [op |-> "write", n |-> n, bytes |-> Bytes(n)]
      /\ file' = Overlay(file, hpos, x) /\ hpos' = hpos + sent /\ wBuf' = y
      /\ currentPos' = currentPos + n /\ bytesToEOFinvalid' = TRUE
      /\ UNCHANGED <<isOpen, rBuf, rStart, bytesToEOF, got, stale>>
      /\ rBuf = <<>>
  BY DEF Fwrite, Called, WritesBehindRead
<1>2. n \in Nat /\ calls \in Nat /\ hpos \in Nat /\ currentPos \in Nat
      /\ Len(wBuf) \in Nat /\ wBuf \in Seq(Byte) /\ file \in Seq(Byte)
      /\ rStart = 0 /\ Len(rBuf) = 0
  BY <1>1, CountAssumption, EmptySeqs DEF Typed
<1>3. Bytes(n) \in Seq(Byte) /\ Len(Bytes(n)) = n
  <2>1. calls + 1 \in Byte
    BY <1>1, <1>2, CountAssumption DEF Byte
  <2> QED
    BY <1>2, <2>1 DEF Bytes
<1>4. all \in Seq(Byte) /\ Len(all) = Len(wBuf) + n
  BY <1>2, <1>3
<1> HIDE DEF all
<1>5. sent \in 0 .. Len(all) /\ Len(all) - sent <= Sector
  <2>1. Kept(n, odd) \in 0 .. Len(wBuf) + n /\ Kept(n, odd) <= Sector
    BY <1>2, KeptBytes
  <2> QED
    BY <1>2, <1>4, <2>1, SectorAssumption
<1> HIDE DEF sent
<1>6. /\ x \in Seq(Byte) /\ Len(x) = sent
      /\ y \in Seq(Byte) /\ Len(y) = Len(all) - sent
      /\ \A i \in 1 .. sent : x[i] = all[i]
      /\ \A i \in 1 .. Len(all) - sent : y[i] = all[sent + i]
  BY <1>2, <1>4, <1>5
<1>7. x \o y = all
  BY <1>4, <1>5, SplitInTwo
<1>8. Contents' = Overlay(file, hpos, all)
  <2>1. Contents' = Overlay(Overlay(file, hpos, x), hpos + sent, y)
    BY <1>1 DEF Contents
  <2> HIDE DEF x, y
  <2>2. Overlay(Overlay(file, hpos, x), hpos + Len(x), y) = Overlay(file, hpos, x \o y)
    BY <1>2, <1>6, OverlayTwice
  <2> QED
    BY <1>6, <1>7, <2>1, <2>2
<1>9. hpos + Len(wBuf) = currentPos
  BY <1>1, <1>2 DEF Buffered, Left
<1>10. Contents' = Overlay(Contents, currentPos, Bytes(n))
  <2>1. Overlay(Overlay(file, hpos, wBuf), hpos + Len(wBuf), Bytes(n)) = Overlay(file, hpos, all)
    BY <1>2, <1>3, OverlayTwice DEF all
  <2> QED
    BY <1>8, <1>9, <2>1 DEF Contents
<1>11. Typed'
  <2>1. file' \in Seq(Byte)
    BY <1>1, <1>2, <1>6, OverlayLen
  <2> HIDE DEF x, y
  <2>2. hpos' \in Nat /\ currentPos' \in Nat /\ calls' \in 0 .. MaxCalls
    BY <1>1, <1>2, <1>4, <1>5, CountAssumption
  <2> QED
    BY <1>1, <1>5, <1>6, <2>1, <2>2 DEF Typed
<1>12. Buffered' /\ Counted'
  <2> HIDE DEF x, y
  <2>1. Left' = 0 /\ Len(wBuf') = Len(all) - sent
    BY <1>1, <1>2, <1>6 DEF Left
  <2>2. hpos' + Len(wBuf') = currentPos' + Left'
    <3>1. hpos' = hpos + sent /\ currentPos' = currentPos + n
          /\ Len(all) = Len(wBuf) + n
      BY <1>1, <1>4
    <3>2. hpos \in Nat /\ n \in Nat /\ sent \in Int /\ Len(wBuf) \in Nat
      BY <1>2, <1>4, <1>5
    <3> QED
      BY <1>9, <2>1, <3>1, <3>2
  <2> QED
    BY <1>1, <2>2 DEF Buffered, Counted
<1>13. P!Fwrite
  <2>1. call'.op = "write" /\ call'.n = n /\ call'.bytes = Bytes(n)
    BY <1>1
  <2>2. Contents' = P!Overlay(Contents, currentPos, Bytes(n))
    BY <1>10 DEF Overlay, F!Overlay, P!Overlay, F!More, P!More
  <2> QED
    BY <1>1, <2>1, <2>2 DEF P!Fwrite
<1> QED
  BY <1>11, <1>12, <1>13 DEF PromiseKept

-----------------------------------------------------------------------------
(* Fread: the answer is a part of the file from the position of the        *)
(* program on, as long as was asked for or to the end.                     *)

LEMMA ModSmall ==
    ASSUME NEW a \in Nat, NEW m \in Nat \ {0}
    PROVE  a % m \in 0 .. m - 1 /\ a % m <= a
<1>1. a % m \in 0 .. m - 1
  OBVIOUS
<1>2. CASE a >= m
  BY <1>1, <1>2
<1>3. CASE a < m
  <2>1. a % m = a
    BY <1>3
  <2> QED
    BY <1>1, <2>1
<1> QED
  BY <1>2, <1>3

LEMMA ReadAhead ==
    ASSUME Typed, Buffered, isOpen, wBuf = <<>>
    PROVE  /\ Part(Unread, file, currentPos) /\ Len(Unread) = Left
           /\ Left \in 0 .. Sector /\ hpos = currentPos + Left
           /\ bytesToEOFinvalid => Left = 0
           /\ \A n \in 0 .. Left :
                 /\ Part(SubSeq(rBuf, rStart + 1, rStart + n), file, currentPos)
                 /\ Len(SubSeq(rBuf, rStart + 1, rStart + n)) = n
<1>1. /\ Len(rBuf) \in Nat /\ rStart \in Nat /\ rStart <= Len(rBuf)
      /\ Len(rBuf) <= Sector /\ Len(wBuf) = 0 /\ hpos \in Nat /\ currentPos \in Nat
      /\ file \in Seq(Byte)
  BY EmptySeqs DEF Typed
<1>2. Left \in 0 .. Sector /\ hpos = currentPos + Left /\ Left = Len(rBuf) - rStart
  BY <1>1, SectorAssumption DEF Left, Buffered
<1>3. bytesToEOFinvalid => Left = 0
  BY <1>1, <1>2, EmptySeqs DEF Buffered
<1>4. ASSUME NEW n \in 0 .. Left
      PROVE  /\ Part(SubSeq(rBuf, rStart + 1, rStart + n), file, currentPos)
             /\ Len(SubSeq(rBuf, rStart + 1, rStart + n)) = n
  <2> DEFINE p == hpos - Len(rBuf)
  <2>1. rStart + n \in 0 .. Len(rBuf) /\ rStart \in 0 .. rStart + n
        /\ (rStart + n) - rStart = n
    BY <1>1, <1>2
  <2>2. CASE rBuf # <<>>
    <3>1. p \in Nat /\ Part(rBuf, file, p) /\ p + rStart = currentPos
      BY <1>1, <1>2, <2>2 DEF Buffered
    <3> HIDE DEF p
    <3> QED
      BY <1>1, <2>1, <3>1, SubPart
  <2>3. CASE rBuf = <<>>
    <3>1. Part(rBuf, file, hpos) /\ hpos + rStart = currentPos
      BY <1>1, <1>2, <2>3, EmptyPart, EmptySeqs
    <3> QED
      BY <1>1, <2>1, <3>1, SubPart
  <2> QED
    BY <2>2, <2>3
<1>5. Part(Unread, file, currentPos) /\ Len(Unread) = Left
  <2>1. Left \in 0 .. Left /\ rStart + Left = Len(rBuf)
    BY <1>1, <1>2
  <2> QED
    BY <1>4, <2>1 DEF Unread
<1> QED
  BY <1>2, <1>3, <1>4, <1>5

(* The count the driver goes by is right, or not above zero where nothing  *)
(* is left.                                                                *)
LEMMA CountAsked ==
    ASSUME Typed, Buffered, Counted, isOpen, wBuf = <<>>, ~(stale /\ ~bytesToEOFinvalid)
    PROVE  /\ ToEOF \in Int
           /\ \/ ToEOF = Len(file) - currentPos
              \/ ToEOF <= 0 /\ currentPos >= Len(file)
<1>1. Len(file) \in Nat /\ hpos \in Nat /\ currentPos \in Nat /\ bytesToEOF \in Int
  BY DEF Typed
<1>2. CASE bytesToEOFinvalid
  <2>1. hpos = currentPos
    BY <1>1, <1>2, ReadAhead
  <2> QED
    BY <1>1, <1>2, <2>1 DEF ToEOF
<1>3. CASE ~bytesToEOFinvalid
  BY <1>1, <1>3 DEF ToEOF, Counted
<1> QED
  BY <1>2, <1>3

LEMMA AnswerRight ==
    ASSUME Typed, isOpen, wBuf = <<>>, NEW n \in Nat, NEW data,
           Part(data, file, currentPos),
           Len(data) = n \/ (Len(data) < n /\ currentPos + Len(data) >= Len(file)),
           call'.op = "read", call'.n = n,
           Returned(data), UNCHANGED <<file, isOpen, wBuf>>
    PROVE  /\ P!Fread /\ currentPos' \in Nat
           /\ currentPos' = currentPos + Len(data) /\ Len(data) \in Nat
           /\ got' = data
<1>1. currentPos \in Nat /\ file \in Seq(Byte)
  BY DEF Typed
<1>2. got' = data /\ currentPos' = currentPos + Len(data)
  BY DEF Returned
<1>3. data = Slice(file, currentPos, n)
  BY <1>1, PartIsSlice
<1>4. data = P!Slice(Contents, currentPos, n)
  BY <1>3, ContentsOfFile DEF Slice, F!Slice, P!Slice, F!Less, P!Less
<1>5. Contents' = Contents
  BY ContentsOfFile
<1>6. Len(data) \in Nat
  BY DEF Part
<1>7. P!Fread
  BY <1>2, <1>4, <1>5 DEF P!Fread
<1> QED
  BY <1>1, <1>2, <1>6, <1>7

LEMMA CountKept ==
    ASSUME Typed, Buffered, Counted, isOpen, wBuf = <<>>,
           NEW data, Part(data, file, currentPos), Returned(data),
           bytesToEOF' = ToEOF - Len(got'),
           stale' = (stale /\ ~bytesToEOFinvalid), UNCHANGED <<file, isOpen>>
    PROVE  Counted' /\ bytesToEOF' \in Int
<1>1. /\ Len(file) \in Nat /\ hpos \in Nat /\ currentPos \in Nat /\ bytesToEOF \in Int
      /\ Len(data) \in Nat /\ (Len(data) # 0 => currentPos + Len(data) <= Len(file))
  <2>1. data \in Seq(Byte)
    BY DEF Part
  <2>2. Len(data) \in Nat /\ (Len(data) # 0 => data # <<>>)
    BY <2>1
  <2> QED
    BY <2>2 DEF Typed, Part
<1>2. got' = data /\ currentPos' = currentPos + Len(data)
  BY DEF Returned
<1>3. ToEOF \in Int
  BY <1>1 DEF ToEOF
<1>4. bytesToEOF' \in Int
  BY <1>1, <1>2, <1>3
<1>5. ASSUME ~stale' PROVE Counted'
  <2>1. ~(stale /\ ~bytesToEOFinvalid)
    BY <1>5
  <2>2. ToEOF = Len(file) - currentPos \/ (ToEOF <= 0 /\ currentPos >= Len(file))
    BY <2>1, CountAsked
  <2>3. \/ bytesToEOF' = Len(file) - currentPos'
        \/ bytesToEOF' <= 0 /\ currentPos' >= Len(file)
    BY <1>1, <1>2, <1>3, <2>2
  <2> QED
    BY <2>3 DEF Counted
<1>6. ASSUME stale' PROVE Counted'
  BY <1>6 DEF Counted
<1> QED
  BY <1>4, <1>5, <1>6

LEMMA FreadSmallStep ==
    ASSUME Typed, Buffered, Counted, NEW n \in ReadCounts, FreadSmall(n), plain'
    PROVE  PromiseKept
<1> DEFINE rest  == n - Left
           avail == More(0, Len(file) - hpos)
           used  == rest - 1 - ((rest - 1) % Sector)
<1>1. /\ isOpen /\ wBuf = <<>> /\ calls < MaxCalls /\ calls' = calls + 1
      /\ call'.op = "read" /\ call'.n = n
      /\ bytesToEOF' = ToEOF - Len(got')
      /\ stale' = (stale /\ ~bytesToEOFinvalid)
      /\ UNCHANGED <<file, isOpen, wBuf>>
  BY DEF FreadSmall, Called, ReadsBehindWrite, KeepFile
<1>2. IF rest <= 0
      THEN /\ Returned(SubSeq(rBuf, rStart + 1, rStart + n))
           /\ rStart' = rStart + n /\ UNCHANGED <<rBuf, hpos>>
      ELSE /\ Returned(Unread \o Slice(file, hpos, rest))
           /\ IF rest <= avail
              THEN /\ rBuf' = Slice(file, hpos + used, Sector)
                   /\ rStart' = rest - used
                   /\ hpos' = Advance(hpos, used + Sector)
              ELSE /\ rBuf' = <<>> /\ rStart' = 0
                   /\ hpos' = Advance(hpos, rest)
  BY DEF FreadSmall
<1>3. /\ n \in Nat /\ hpos \in Nat /\ currentPos \in Nat /\ file \in Seq(Byte)
      /\ Len(file) \in Nat /\ Len(wBuf) = 0 /\ rBuf \in Seq(Byte) /\ Len(rBuf) \in Nat
      /\ rStart \in 0 .. Len(rBuf) /\ Sector \in Nat \ {0} /\ Len(rBuf) <= Sector
  BY <1>1, CountAssumption, SectorAssumption, EmptySeqs DEF Typed
<1>4. /\ Part(Unread, file, currentPos) /\ Len(Unread) = Left
      /\ Left \in 0 .. Sector /\ hpos = currentPos + Left
      /\ \A m \in 0 .. Left :
            /\ Part(SubSeq(rBuf, rStart + 1, rStart + m), file, currentPos)
            /\ Len(SubSeq(rBuf, rStart + 1, rStart + m)) = m
  BY <1>1, ReadAhead
<1>5. rest \in Int /\ rest = n - Left
      /\ avail = IF Len(file) > hpos THEN Len(file) - hpos ELSE 0
  BY <1>3, <1>4 DEF More, F!More
<1>6. /\ hpos \in Nat /\ currentPos \in Nat /\ Len(file) \in Nat /\ Left \in Nat
      /\ Sector \in Nat \ {0} /\ n \in Nat /\ rest \in Int /\ n = Left + rest
      /\ hpos = currentPos + Left /\ Left <= Sector
  BY <1>3, <1>4, <1>5
<1>7. calls' \in 0 .. MaxCalls
  BY <1>1, CountAssumption DEF Typed
<1> HIDE DEF avail, rest
<1>8. CASE rest <= 0
  <2> DEFINE data == SubSeq(rBuf, rStart + 1, rStart + n)
  <2>1. Returned(data) /\ rStart' = rStart + n /\ rBuf' = rBuf /\ hpos' = hpos
    BY <1>2, <1>8
  <2>2. Part(data, file, currentPos) /\ Len(data) = n
    <3>1. n \in 0 .. Left
      BY <1>3, <1>4, <1>5, <1>8
    <3> QED
      BY <1>4, <3>1
  <2> HIDE DEF data
  <2>3. P!Fread /\ currentPos' = currentPos + n /\ currentPos' \in Nat
    BY <1>1, <1>3, <2>1, <2>2, AnswerRight
  <2>4. Counted' /\ bytesToEOF' \in Int
    BY <1>1, <2>1, <2>2, CountKept
  <2>5. Left' = Left - n /\ rStart' \in 0 .. Len(rBuf) /\ ~bytesToEOFinvalid'
    <3>1. n <= Left /\ Left = Len(rBuf) - rStart /\ Left' = Len(rBuf) - (rStart + n)
      BY <1>3, <1>4, <1>5, <1>8, <2>1 DEF Left
    <3> QED
      BY <1>3, <2>1, <3>1 DEF Returned
  <2>6. Typed'
    BY <1>1, <1>3, <1>7, <2>1, <2>3, <2>4, <2>5 DEF Typed
  <2>7. Buffered'
    BY <1>1, <1>3, <1>4, <2>1, <2>3, <2>5 DEF Buffered
  <2> QED
    BY <2>3, <2>4, <2>6, <2>7 DEF PromiseKept
<1>9. CASE rest > 0
  <2> DEFINE s == Slice(file, hpos, rest)
             data == Unread \o s
  <2>1. /\ Part(s, file, hpos)
        /\ Len(s) \in Nat
        /\ hpos >= Len(file) => Len(s) = 0
        /\ hpos < Len(file) /\ hpos + rest <= Len(file) => Len(s) = rest
        /\ hpos < Len(file) /\ hpos + rest > Len(file) => Len(s) = Len(file) - hpos
    <3>1. rest \in Nat
      BY <1>5, <1>9
    <3>2. Part(s, file, hpos)
      BY <1>3, <3>1, SlicePart
    <3> QED
      BY <1>3, <3>1, <3>2, SliceBytes
  <2>2. Returned(data)
    BY <1>2, <1>5, <1>9
  <2> HIDE DEF s
  <2>3. Part(data, file, currentPos) /\ Len(data) = Left + Len(s)
    <3>1. currentPos + Len(Unread) = hpos
      BY <1>4
    <3>2. Part(data, file, currentPos) /\ Len(data) = Len(Unread) + Len(s)
      <4>1. Part(Unread, file, currentPos) /\ Part(s, file, hpos)
            /\ hpos = currentPos + Len(Unread)
        BY <1>4, <2>1, <3>1
      <4>2. currentPos \in Nat /\ file \in Seq(Byte)
        BY <1>3
      <4> HIDE DEF data
      <4>3. data = Unread \o s
        BY DEF data
      <4> QED
        BY <4>1, <4>2, <4>3, ConcatPart
    <3> QED
      BY <1>4, <3>2
  <2> HIDE DEF data
  <2>4. Len(data) = n \/ (Len(data) < n /\ currentPos + Len(data) >= Len(file))
    BY <1>9, <1>6, <2>1, <2>3
  <2>5. P!Fread /\ currentPos' = currentPos + Len(data) /\ currentPos' \in Nat
    BY <1>1, <1>3, <2>2, <2>3, <2>4, AnswerRight
  <2>6. Counted' /\ bytesToEOF' \in Int
    BY <1>1, <2>2, <2>3, CountKept
  <2>7. ~bytesToEOFinvalid'
    BY <2>2 DEF Returned
  <2>8. CASE rest <= avail
    <3> DEFINE buf == Slice(file, hpos + used, Sector)
    <3>1. (rest - 1) % Sector \in 0 .. Sector - 1 /\ (rest - 1) % Sector <= rest - 1
      <4>1. rest - 1 \in Nat
        BY <1>5, <1>9
      <4> QED
        BY <1>3, <4>1, ModSmall
    <3>2. used \in Nat /\ rest - used \in 1 .. Sector
      <4> DEFINE r == (rest - 1) % Sector
      <4>1. r \in 0 .. Sector - 1 /\ r <= rest - 1 /\ used = rest - 1 - r
        BY <3>1
      <4> HIDE DEF r, used
      <4> QED
        BY <1>3, <1>5, <1>9, <4>1
    <3>3. rBuf' = buf /\ rStart' = rest - used /\ hpos' = Advance(hpos, used + Sector)
      BY <1>2, <1>5, <1>9, <2>8
    <3> HIDE DEF used
    <3>4. hpos + used \in Nat /\ hpos + used < Len(file)
      BY <1>3, <1>5, <1>9, <2>8, <3>2
    <3>5. /\ buf \in Seq(Byte) /\ Part(buf, file, hpos + used) /\ Len(buf) \in Nat
          /\ hpos + used + Sector <= Len(file) => Len(buf) = Sector
          /\ hpos + used + Sector > Len(file) => Len(buf) = Len(file) - (hpos + used)
      BY <1>3, <3>4, SlicePart, SliceBytes
    <3> HIDE DEF buf
    <3>6. hpos' = hpos + used + Len(buf)
      BY <1>6, <3>2, <3>3, <3>4, <3>5 DEF Advance, Less, F!Less
    <3>7. rStart' \in 0 .. Len(rBuf') /\ Len(rBuf') <= Sector /\ hpos' \in Nat
      <4>1. rest <= Len(file) - hpos
        BY <1>3, <1>5, <1>9, <2>8
      <4>2. Len(buf) <= Sector /\ Len(buf) \in Nat
        BY <1>3, <3>4, <3>5
      <4>3. rest - used <= Len(buf) /\ rest - used \in Nat
        <5>1. rest - used \in Nat /\ rest - used <= Sector /\ used + (rest - used) = rest
              /\ hpos \in Nat /\ Len(file) \in Nat /\ Sector \in Nat
          BY <1>3, <1>5, <1>9, <3>2
        <5>2. rest - used <= Len(file) - (hpos + used)
          BY <3>2, <4>1, <5>1
        <5>3. Len(buf) = Sector \/ Len(buf) = Len(file) - (hpos + used)
          BY <3>2, <3>5, <5>1
        <5> QED
          BY <5>1, <5>2, <5>3
      <4>4. hpos' \in Nat
        BY <3>4, <3>6, <4>2
      <4> QED
        BY <3>3, <4>2, <4>3, <4>4
    <3>8. Typed'
      BY <1>1, <1>3, <1>7, <2>5, <2>6, <3>3, <3>5, <3>7 DEF Typed
    <3>9. hpos' = currentPos' + Left'
      <4>1. currentPos' = hpos + rest
        BY <1>5, <1>9, <1>6, <2>1, <2>3, <2>5, <2>8
      <4>2. Left' = Len(buf) - (rest - used)
        BY <3>3 DEF Left
      <4>3. hpos \in Nat /\ rest \in Nat /\ used \in Nat /\ Len(buf) \in Nat
        BY <1>3, <1>5, <1>9, <3>2, <3>5
      <4> QED
        BY <3>6, <4>1, <4>2, <4>3
    <3>10. hpos' >= Len(buf) /\ hpos' - Len(buf) = hpos + used
      BY <1>3, <3>2, <3>4, <3>5, <3>6
    <3>11. Buffered'
      BY <1>1, <1>3, <2>7, <3>3, <3>5, <3>7, <3>9, <3>10 DEF Buffered
    <3> QED
      BY <2>5, <2>6, <3>8, <3>11 DEF PromiseKept
  <2>9. CASE ~(rest <= avail)
    <3>1. rBuf' = <<>> /\ rStart' = 0 /\ hpos' = Advance(hpos, rest)
      BY <1>2, <1>5, <1>9, <2>9
    <3>2. hpos' = currentPos' /\ Left' = 0 /\ Len(rBuf') = 0
      <4>1. hpos' = hpos + Len(s)
        BY <1>5, <1>9, <1>6, <2>1, <2>9, <3>1 DEF Advance, Less, F!Less
      <4>2. Left' = 0 /\ Len(rBuf') = 0
        BY <3>1, EmptySeqs DEF Left
      <4> QED
        BY <1>6, <2>1, <2>3, <2>5, <4>1, <4>2
    <3>3. Typed'
      BY <1>1, <1>3, <1>7, <2>5, <2>6, <3>1, <3>2, EmptySeqs DEF Typed
    <3>4. Buffered'
      BY <1>1, <1>3, <2>7, <2>5, <3>1, <3>2 DEF Buffered
    <3> QED
      BY <2>5, <2>6, <3>3, <3>4 DEF PromiseKept
  <2> QED
    BY <2>8, <2>9
<1> QED
  BY <1>5, <1>8, <1>9

-----------------------------------------------------------------------------
(* fread_big(): the bytes used of the read-ahead end where the blocks      *)
(* begin, unless the odd byte is lost.                                     *)

LEMMA AheadPart ==
    ASSUME Typed, Buffered, isOpen, wBuf = <<>>, NEW odd \in BOOLEAN
    PROVE  /\ Part(Ahead(odd), file, currentPos) /\ Ahead(odd) \in Seq(Byte)
           /\ Len(Ahead(odd)) \in 0 .. Sector
           /\ Start(odd) = currentPos + Len(Ahead(odd))
           /\ Fills(odd) /\ Ahead(odd) = <<>> =>
                 hpos = currentPos /\ currentPos >= Len(file)
           /\ currentPos >= Len(file) => Ahead(odd) = <<>>
<1>1. /\ hpos \in Nat /\ currentPos \in Nat /\ file \in Seq(Byte) /\ Len(file) \in Nat
      /\ Sector \in Nat \ {0}
  BY SectorAssumption DEF Typed
<1>2. /\ Part(Unread, file, currentPos) /\ Len(Unread) = Left
      /\ Left \in 0 .. Sector /\ hpos = currentPos + Left
  BY ReadAhead
<1>3. CASE Fills(odd)
  <2> DEFINE s == Slice(file, hpos, Sector)
  <2>1. Left = 0 /\ hpos = currentPos
    BY <1>1, <1>2, <1>3 DEF Fills
  <2>2. Ahead(odd) = s /\ Start(odd) = Advance(hpos, Sector)
    BY <1>3 DEF Ahead, Start
  <2>3. /\ Part(s, file, hpos)
        /\ s \in Seq(Byte) /\ Len(s) \in Nat
        /\ (hpos >= Len(file) => Len(s) = 0)
        /\ (hpos < Len(file) /\ hpos + Sector <= Len(file) => Len(s) = Sector)
        /\ (hpos < Len(file) /\ hpos + Sector > Len(file) => Len(s) = Len(file) - hpos)
    BY <1>1, SlicePart, SliceBytes
  <2> HIDE DEF s
  <2>4. Advance(hpos, Sector) = hpos + Len(s) /\ Len(s) \in 0 .. Sector
    BY <1>1, <2>3 DEF Advance, Less, F!Less
  <2>5. (s = <<>> => hpos >= Len(file)) /\ (hpos >= Len(file) => s = <<>>)
    BY <1>1, <2>3, EmptySeqs
  <2> QED
    BY <2>1, <2>2, <2>3, <2>4, <2>5
<1>4. CASE ~Fills(odd)
  <2>1. Ahead(odd) = Unread /\ Start(odd) = hpos
    BY <1>4 DEF Ahead, Start
  <2>2. Unread \in Seq(Byte)
    BY <1>2 DEF Part
  <2>3. currentPos >= Len(file) => Unread = <<>>
    <3>1. Unread # <<>> => currentPos + Len(Unread) <= Len(file) /\ Len(Unread) # 0
      BY <1>2, <2>2, EmptySeqs DEF Part
    <3> QED
      BY <1>1, <1>2, <3>1
  <2> QED
    BY <1>2, <1>4, <2>1, <2>2, <2>3
<1> QED
  BY <1>3, <1>4

LEMMA UsedPart ==
    ASSUME Typed, Buffered, isOpen, wBuf = <<>>, NEW odd \in BOOLEAN
    PROVE  /\ Back(odd) \in {0, 1} /\ Used(odd) \in 0 .. Sector
           /\ Used(odd) = Len(Ahead(odd)) - Back(odd)
           /\ Start(odd) = currentPos + Used(odd) + Back(odd)
           /\ Part(SubSeq(Ahead(odd), 1, Used(odd)), file, currentPos)
           /\ Len(SubSeq(Ahead(odd), 1, Used(odd))) = Used(odd)
           /\ currentPos >= Len(file) => Used(odd) = 0
<1>1. /\ Part(Ahead(odd), file, currentPos) /\ Ahead(odd) \in Seq(Byte)
      /\ Len(Ahead(odd)) \in 0 .. Sector
      /\ Start(odd) = currentPos + Len(Ahead(odd))
      /\ (currentPos >= Len(file) => Ahead(odd) = <<>>)
  BY AheadPart
<1>2. /\ currentPos \in Nat /\ file \in Seq(Byte) /\ Len(file) \in Nat
      /\ Sector \in Nat \ {0}
  BY SectorAssumption DEF Typed
<1>3. Back(odd) \in {0, 1} /\ (Back(odd) = 1 => Ahead(odd) # <<>>)
  BY DEF Back
<1>4. Ahead(odd) = <<>> <=> Len(Ahead(odd)) = 0
  BY <1>1, EmptySeqs
<1>5. Used(odd) = Len(Ahead(odd)) - Back(odd)
  BY DEF Used
<1>6. Used(odd) \in 0 .. Sector /\ Used(odd) \in 0 .. Len(Ahead(odd))
  BY <1>1, <1>2, <1>3, <1>4, <1>5
<1>7. /\ Part(SubSeq(Ahead(odd), 0 + 1, Used(odd)), file, currentPos + 0)
      /\ Len(SubSeq(Ahead(odd), 0 + 1, Used(odd))) = Used(odd) - 0
  <2>1. 0 \in 0 .. Used(odd)
    BY <1>6
  <2> QED
    BY <1>1, <1>2, <1>6, <2>1, SubPart
<1>8. /\ Part(SubSeq(Ahead(odd), 1, Used(odd)), file, currentPos)
      /\ Len(SubSeq(Ahead(odd), 1, Used(odd))) = Used(odd)
  <2>1. 0 + 1 = 1 /\ currentPos + 0 = currentPos /\ Used(odd) - 0 = Used(odd)
    BY <1>2, <1>6
  <2> QED
    BY <1>7, <2>1
<1>9. Start(odd) = currentPos + Used(odd) + Back(odd)
  BY <1>1, <1>2, <1>3, <1>5, <1>6
<1>10. currentPos >= Len(file) => Used(odd) = 0
  BY <1>1, <1>3, <1>4, <1>5, <1>6
<1> QED
  BY <1>3, <1>5, <1>6, <1>8, <1>9, <1>10

LEMMA NeededBytes ==
    ASSUME Typed, Buffered, Counted, isOpen, wBuf = <<>>,
           ~(stale /\ ~bytesToEOFinvalid),
           NEW odd \in BOOLEAN, NEW n \in Nat, n > 2 * Sector
    PROVE  /\ Needed(n, odd) \in Nat /\ Needed(n, odd) <= n - Used(odd)
           /\ \/ Needed(n, odd) = n - Used(odd)
              \/ currentPos + Used(odd) + Needed(n, odd) >= Len(file)
           /\ Whole(n, odd) \in 0 .. Needed(n, odd)
<1>1. /\ currentPos \in Nat /\ Len(file) \in Nat /\ Sector \in Nat \ {0}
      /\ Used(odd) \in 0 .. Sector /\ (currentPos >= Len(file) => Used(odd) = 0)
  BY SectorAssumption, UsedPart DEF Typed
<1>2. /\ ToEOF \in Int
      /\ ToEOF = Len(file) - currentPos \/ (ToEOF <= 0 /\ currentPos >= Len(file))
  BY CountAsked
<1>3. /\ Needed(n, odd) \in Nat /\ Needed(n, odd) <= n - Used(odd)
      /\ \/ Needed(n, odd) = n - Used(odd)
         \/ currentPos + Used(odd) + Needed(n, odd) >= Len(file)
  BY <1>1, <1>2 DEF Needed
<1>4. Needed(n, odd) % Sector \in Nat /\ Needed(n, odd) % Sector <= Needed(n, odd)
  <2>1. Needed(n, odd) \in Nat /\ Sector \in Nat \ {0}
    BY <1>1, <1>3
  <2>2. /\ Needed(n, odd) % Sector \in 0 .. Sector - 1
        /\ Needed(n, odd) % Sector <= Needed(n, odd)
    BY <2>1, ModSmall
  <2> QED
    BY <2>1, <2>2
<1> QED
  BY <1>3, <1>4 DEF Whole

LEMMA BlocksLinear ==
    ASSUME Typed, Buffered, Counted, isOpen, wBuf = <<>>,
           ~(stale /\ ~bytesToEOFinvalid),
           NEW odd \in BOOLEAN, NEW n \in Nat, n > 2 * Sector,
           NEW b \in BlockSizes, ~LosesOddByte(n, odd, b)
    PROVE  /\ \A j \in Nat : j < Whole(n, odd) =>
                  Position(odd, b, j) = currentPos + Used(odd) + j
           /\ Whole(n, odd) = 0 => Start(odd) = currentPos + Used(odd)
<1>1. /\ b \in Nat \ {0} /\ currentPos \in Nat /\ Used(odd) \in Nat
      /\ Whole(n, odd) \in Nat
      /\ Back(odd) \in {0, 1} /\ Start(odd) = currentPos + Used(odd) + Back(odd)
  <2>1. b \in Nat \ {0}
    BY BlockAssumption, SectorAssumption
  <2>2. Used(odd) \in 0 .. Sector /\ Back(odd) \in {0, 1}
        /\ Start(odd) = currentPos + Used(odd) + Back(odd)
    BY UsedPart
  <2>3. Needed(n, odd) \in Nat /\ Whole(n, odd) \in 0 .. Needed(n, odd)
    BY NeededBytes
  <2> QED
    BY <2>1, <2>2, <2>3, SectorAssumption DEF Typed
<1>2. CASE Back(odd) = 0
  <2>1. \A j \in Nat : j \div b \in Int
    BY <1>1
  <2>2. \A j \in Nat : Back(odd) * (j \div b + 1) = 0
    BY <1>2, <2>1
  <2>3. \A j \in Nat : Position(odd, b, j) = Start(odd) - 0 + j
    BY <2>2 DEF Position
  <2> QED
    BY <1>1, <1>2, <2>3
<1>3. CASE Back(odd) = 1
  <2>1. Whole(n, odd) \in 1 .. b
    BY <1>3 DEF LosesOddByte
  <2>2. ASSUME NEW j \in Nat, j < Whole(n, odd) PROVE j \div b = 0
    <3>1. j < b
      BY <1>1, <2>1, <2>2
    <3> QED
      BY <1>1, <3>1
  <2>3. ASSUME NEW j \in Nat, j < Whole(n, odd)
        PROVE  Position(odd, b, j) = Start(odd) - 1 * (0 + 1) + j
    BY <1>3, <2>2, <2>3 DEF Position
  <2> QED
    BY <1>1, <1>3, <2>1, <2>3
<1> QED
  BY <1>1, <1>2, <1>3

(* How many bytes the blocks read: all of the whole sectors, or up to the  *)
(* end of the file.                                                        *)
LEMMA BlockBytes ==
    ASSUME NEW n \in Nat, NEW odd \in BOOLEAN, NEW b \in BlockSizes, NEW base \in Nat,
           file \in Seq(Byte), Whole(n, odd) \in Nat,
           \A j \in Nat : j < Whole(n, odd) => Position(odd, b, j) = base + j
    PROVE  LET k == InFile(n, odd, b)
               d == BlockData(odd, b, k)
           IN /\ k \in 0 .. Whole(n, odd)
              /\ k < Whole(n, odd) => base + k >= Len(file)
              /\ Part(d, file, base) /\ Len(d) = k
<1> DEFINE W == Whole(n, odd)
           k == InFile(n, odd, b)
           d == BlockData(odd, b, k)
           Good(i) == /\ i < W => Position(odd, b, i) >= Len(file)
                      /\ i > 0 => Position(odd, b, i - 1) < Len(file)
<1>1. Len(file) \in Nat /\ W \in Nat
  OBVIOUS
<1>2. \E i \in 0 .. W : Good(i)
  <2> DEFINE w == IF Len(file) <= base THEN 0
                  ELSE IF Len(file) - base < W THEN Len(file) - base ELSE W
  <2>1. w \in 0 .. W /\ (w < W => base + w >= Len(file))
        /\ (w > 0 => base + (w - 1) < Len(file))
    BY <1>1
  <2> HIDE DEF w
  <2>2. w < W => Position(odd, b, w) = base + w
    BY <1>1, <2>1
  <2>3. w > 0 => Position(odd, b, w - 1) = base + (w - 1)
    <3>1. w > 0 => w - 1 \in Nat /\ w - 1 < W
      BY <1>1, <2>1
    <3> QED
      BY <3>1
  <2>4. Good(w)
    BY <2>1, <2>2, <2>3
  <2> QED
    BY <2>1, <2>4
<1>3. k \in 0 .. W /\ Good(k)
  <2>1. k = CHOOSE i \in 0 .. W : Good(i)
    BY DEF InFile
  <2> HIDE DEF k, Good
  <2> QED
    BY <1>2, <2>1
<1> HIDE DEF k
<1>4. k < W => base + k >= Len(file)
  BY <1>1, <1>3
<1>5. k > 0 => base + (k - 1) < Len(file)
  <2>1. k > 0 => k - 1 \in Nat /\ k - 1 < W
    BY <1>1, <1>3
  <2>2. k > 0 => Position(odd, b, k - 1) = base + (k - 1)
    BY <2>1
  <2> QED
    BY <1>3, <2>2
<1>6. \A i \in 1 .. k : d[i] = file[base + i] /\ base + i \in 1 .. Len(file)
  <2> TAKE i \in 1 .. k
  <2>1. i - 1 \in Nat /\ i - 1 < W
    BY <1>1, <1>3
  <2>2. Position(odd, b, i - 1) = base + (i - 1)
    BY <2>1
  <2>3. (base + (i - 1)) + 1 = base + i
    BY <1>3
  <2>4. d[i] = file[base + i]
    BY <2>2, <2>3 DEF BlockData
  <2>5. base + i \in 1 .. Len(file)
    BY <1>1, <1>3, <1>5
  <2> QED
    BY <2>4, <2>5
<1>7. d \in Seq(Byte) /\ Len(d) = k
  <2>1. \A i \in 1 .. k : file[base + i] \in Byte
    BY <1>6
  <2>2. d = [i \in 1 .. k |-> d[i]]
    BY DEF BlockData
  <2>3. \A i \in 1 .. k : d[i] \in Byte
    BY <1>6, <2>1
  <2> HIDE DEF d
  <2>4. k \in Nat
    BY <1>3
  <2>5. d \in [1 .. k -> Byte]
    BY <2>2, <2>3
  <2> QED
    BY <2>4, <2>5
<1>8. Part(d, file, base)
  <2> HIDE DEF d
  <2>1. d # <<>> => base + Len(d) <= Len(file)
    BY <1>1, <1>3, <1>5, <1>7, EmptySeqs
  <2> QED
    BY <1>6, <1>7, <2>1 DEF Part
<1> QED
  BY <1>3, <1>4, <1>7, <1>8 DEF k

LEMMA FreadBigStep ==
    ASSUME Typed, Buffered, Counted, NEW n \in ReadCounts, NEW odd \in BOOLEAN,
           NEW b \in BlockSizes, FreadBig(n, odd, b), plain'
    PROVE  PromiseKept
<1> DEFINE base == currentPos + Used(odd)
           need == Needed(n, odd)
           W    == Whole(n, odd)
           k    == InFile(n, odd, b)
           rest == need - k
           h    == AfterBlocks(odd, b, k)
           head == SubSeq(Ahead(odd), 1, Used(odd))
           d    == BlockData(odd, b, k)
           tail == Slice(file, h, rest)
           buf  == Slice(file, h, Sector)
<1>1. /\ isOpen /\ wBuf = <<>> /\ calls < MaxCalls /\ calls' = calls + 1
      /\ call'.op = "read" /\ call'.n = n /\ n > 2 * Sector
      /\ stale' = (stale /\ ~bytesToEOFinvalid) /\ ~stale'
      /\ ~LosesOddByte(n, odd, b)
      /\ UNCHANGED <<file, isOpen, wBuf>>
  BY DEF FreadBig, Called, ReadsBehindWrite, KeepFile
<1>2. IF Fills(odd) /\ Ahead(odd) = <<>>
      THEN /\ Returned(<<>>) /\ bytesToEOF' = 0
           /\ rBuf' = <<>> /\ rStart' = 0 /\ UNCHANGED hpos
      ELSE IF k < W \/ rest = 0
      THEN /\ Returned(head \o d)
           /\ bytesToEOF' = IF k < W THEN 0 ELSE ToEOF - Len(got')
           /\ rBuf' = <<>> /\ rStart' = 0
           /\ hpos' = IF k < W THEN Position(odd, b, k) ELSE h
      ELSE /\ Returned(head \o d \o tail)
           /\ bytesToEOF' = ToEOF - Len(got')
           /\ rBuf' = buf /\ rStart' = Len(tail)
           /\ hpos' = Advance(h, Sector)
  BY DEF FreadBig
<1>3. /\ n \in Nat /\ hpos \in Nat /\ currentPos \in Nat /\ file \in Seq(Byte)
      /\ Len(file) \in Nat /\ Sector \in Nat \ {0} /\ wBuf \in Seq(Byte) /\ Len(wBuf) = 0
      /\ calls' \in 0 .. MaxCalls
  BY <1>1, CountAssumption, SectorAssumption, EmptySeqs DEF Typed
<1>4. ~(stale /\ ~bytesToEOFinvalid)
  BY <1>1
<1>5. /\ Used(odd) \in Nat /\ Used(odd) <= Sector
      /\ Part(head, file, currentPos) /\ Len(head) = Used(odd)
  <2>1. Used(odd) \in 0 .. Sector
    BY <1>1, UsedPart
  <2> QED
    BY <1>1, <1>3, <2>1, UsedPart
<1>6. /\ need \in Nat /\ need <= n - Used(odd)
      /\ need = n - Used(odd) \/ base + need >= Len(file)
      /\ W \in 0 .. need
  BY <1>1, <1>3, <1>4, NeededBytes
<1>7. /\ \A j \in Nat : j < W => Position(odd, b, j) = base + j
      /\ W = 0 => Start(odd) = base
  BY <1>1, <1>3, <1>4, BlocksLinear
<1>8. base \in Nat /\ base = currentPos + Used(odd) /\ W \in Nat
  BY <1>3, <1>5, <1>6
<1> HIDE DEF base, need, W
<1>9. /\ k \in 0 .. W /\ (k < W => base + k >= Len(file))
      /\ Part(d, file, base) /\ Len(d) = k
  BY <1>3, <1>7, <1>8, BlockBytes DEF W
<1> HIDE DEF k, d, head
<1>10. Part(head \o d, file, currentPos) /\ Len(head \o d) = Used(odd) + k
  <2>1. Part(head \o d, file, currentPos) /\ Len(head \o d) = Len(head) + Len(d)
    <3>1. base = currentPos + Len(head)
      BY <1>5, <1>8
    <3>2. file \in Seq(Byte) /\ currentPos \in Nat
      BY <1>3
    <3>3. Part(head, file, currentPos) /\ Part(d, file, currentPos + Len(head))
      BY <1>5, <1>9, <3>1
    <3> QED
      BY <3>2, <3>3, ConcatPart
  <2> QED
    BY <1>5, <1>9, <2>1
<1>11. CASE Fills(odd) /\ Ahead(odd) = <<>>
  <2>1. /\ Returned(<<>>) /\ bytesToEOF' = 0
        /\ rBuf' = <<>> /\ rStart' = 0 /\ hpos' = hpos
    BY <1>2, <1>11
  <2>2. hpos = currentPos /\ currentPos >= Len(file)
    BY <1>1, <1>11, AheadPart
  <2>3. Part(<<>>, file, currentPos) /\ Len(<<>>) = 0
    BY <1>3, EmptyPart, EmptySeqs
  <2>4. Len(<<>>) = n \/ (Len(<<>>) < n /\ currentPos + Len(<<>>) >= Len(file))
    BY <1>3, <2>2, <2>3
  <2>5. P!Fread /\ currentPos' = currentPos
    <3>1. P!Fread /\ currentPos' = currentPos + Len(<<>>)
      BY <1>1, <1>3, <2>1, <2>3, <2>4, AnswerRight
    <3> QED
      BY <1>3, <2>3, <3>1
  <2>6. Left' = 0 /\ ~bytesToEOFinvalid' /\ Len(rBuf') = 0 /\ <<>> \in Seq(Byte)
    BY <2>1, EmptySeqs DEF Left, Returned
  <2>7. Typed'
    BY <1>1, <1>3, <2>1, <2>5, <2>6 DEF Typed
  <2>8. Buffered' /\ Counted'
    BY <1>1, <1>3, <2>1, <2>2, <2>5, <2>6 DEF Buffered, Counted
  <2> QED
    BY <2>5, <2>7, <2>8 DEF PromiseKept
<1>12. CASE ~(Fills(odd) /\ Ahead(odd) = <<>>) /\ (k < W \/ rest = 0)
  <2> DEFINE data == head \o d
  <2>1. /\ Returned(data)
        /\ bytesToEOF' = IF k < W THEN 0 ELSE ToEOF - Len(got')
        /\ rBuf' = <<>> /\ rStart' = 0
        /\ hpos' = IF k < W THEN Position(odd, b, k) ELSE h
    BY <1>2, <1>12
  <2>2. Part(data, file, currentPos) /\ Len(data) = Used(odd) + k
    BY <1>10
  <2> HIDE DEF data
  <2>3. Len(data) = n \/ (Len(data) < n /\ currentPos + Len(data) >= Len(file))
    BY <1>3, <1>5, <1>6, <1>8, <1>9, <1>12, <2>2
  <2>4. P!Fread /\ currentPos' = base + k /\ currentPos' \in Nat
    <3>1. P!Fread /\ currentPos' = currentPos + Len(data) /\ currentPos' \in Nat
      BY <1>1, <1>3, <2>1, <2>2, <2>3, AnswerRight
    <3> QED
      BY <1>3, <1>5, <1>8, <1>9, <2>2, <3>1
  <2>5. hpos' = base + k
    <3>1. CASE k < W
      BY <1>7, <1>8, <1>9, <2>1, <3>1
    <3>2. CASE ~(k < W)
      <4>1. k = W
        BY <1>8, <1>9, <3>2
      <4>2. h = base + k
        <5>1. CASE k = 0
          BY <1>7, <1>8, <4>1, <5>1 DEF AfterBlocks
        <5>2. CASE k # 0
          <6>1. k - 1 \in Nat /\ k - 1 < W
            BY <1>8, <1>9, <5>2
          <6>2. h = (base + (k - 1)) + 1
            BY <1>7, <5>2, <6>1 DEF AfterBlocks
          <6> QED
            BY <1>8, <1>9, <6>2
        <5> QED
          BY <5>1, <5>2
      <4> QED
        BY <2>1, <3>2, <4>2
    <3> QED
      BY <3>1, <3>2
  <2>6. Counted' /\ bytesToEOF' \in Int
    <3>1. CASE k < W
      BY <1>9, <1>1, <1>3, <2>1, <2>4, <3>1 DEF Counted
    <3>2. CASE ~(k < W)
      <4>1. bytesToEOF' = ToEOF - Len(got')
        BY <2>1, <3>2
      <4> QED
        BY <1>1, <2>1, <2>2, <4>1, CountKept
    <3> QED
      BY <3>1, <3>2
  <2>7. Left' = 0 /\ ~bytesToEOFinvalid' /\ Len(rBuf') = 0 /\ rBuf' \in Seq(Byte)
    BY <2>1, EmptySeqs DEF Left, Returned
  <2>8. Typed'
    BY <1>1, <1>3, <2>1, <2>4, <2>5, <2>6, <2>7 DEF Typed
  <2>9. Buffered'
    BY <1>1, <1>3, <2>1, <2>4, <2>5, <2>7 DEF Buffered
  <2> QED
    BY <2>4, <2>6, <2>8, <2>9 DEF PromiseKept
<1>13. CASE ~(Fills(odd) /\ Ahead(odd) = <<>>) /\ ~(k < W \/ rest = 0)
  <2> DEFINE data == head \o d \o tail
  <2>1. /\ Returned(data) /\ bytesToEOF' = ToEOF - Len(got')
        /\ rBuf' = buf /\ rStart' = Len(tail) /\ hpos' = Advance(h, Sector)
    BY <1>2, <1>13
  <2>2. k = W /\ rest \in Nat \ {0}
    BY <1>6, <1>8, <1>9, <1>13
  <2>3. h = base + k /\ h \in Nat
    <3>1. CASE k = 0
      BY <1>7, <1>8, <2>2, <3>1 DEF AfterBlocks
    <3>2. CASE k # 0
      <4>1. k - 1 \in Nat /\ k - 1 < W
        BY <1>8, <1>9, <3>2
      <4>2. h = (base + (k - 1)) + 1
        BY <1>7, <3>2, <4>1 DEF AfterBlocks
      <4> QED
        BY <1>8, <1>9, <4>2
    <3> QED
      BY <3>1, <3>2
  <2>4. rest = need - k /\ rest < Sector
    <3>1. need % Sector \in 0 .. Sector - 1 /\ W = need - (need % Sector)
      BY <1>3, <1>6 DEF W, need, Whole
    <3> QED
      BY <1>3, <1>6, <2>2, <3>1
  <2> HIDE DEF h, rest
  <2>5. /\ Part(tail, file, h) /\ Len(tail) \in Nat
        /\ (h >= Len(file) => Len(tail) = 0)
        /\ (h < Len(file) /\ h + rest <= Len(file) => Len(tail) = rest)
        /\ (h < Len(file) /\ h + rest > Len(file) => Len(tail) = Len(file) - h)
    BY <1>3, <2>2, <2>3, SlicePart, SliceBytes
  <2>6. /\ Part(buf, file, h) /\ buf \in Seq(Byte) /\ Len(buf) \in Nat
        /\ (h >= Len(file) => Len(buf) = 0)
        /\ (h < Len(file) /\ h + Sector <= Len(file) => Len(buf) = Sector)
        /\ (h < Len(file) /\ h + Sector > Len(file) => Len(buf) = Len(file) - h)
    BY <1>3, <2>3, SlicePart, SliceBytes
  <2> HIDE DEF tail, buf
  <2>7. Part(data, file, currentPos) /\ Len(data) = Used(odd) + k + Len(tail)
    <3> DEFINE e == head \o d
    <3>1. Part(e, file, currentPos) /\ Len(e) = Used(odd) + k
      BY <1>10
    <3> HIDE DEF e
    <3>2. h = currentPos + Len(e)
      BY <1>3, <1>5, <1>8, <1>9, <2>3, <3>1
    <3>3. Part(e \o tail, file, currentPos) /\ Len(e \o tail) = Len(e) + Len(tail)
      <4>1. file \in Seq(Byte) /\ currentPos \in Nat /\ Part(tail, file, h)
        BY <1>3, <2>5
      <4> QED
        BY <3>1, <3>2, <4>1, ConcatPart
    <3>4. data = e \o tail
      BY DEF e
    <3> QED
      BY <3>1, <3>3, <3>4
  <2> HIDE DEF data
  <2>8. Len(data) = n \/ (Len(data) < n /\ currentPos + Len(data) >= Len(file))
    <3>1. /\ h = currentPos + Used(odd) + k /\ need = k + rest
          /\ Used(odd) \in Nat /\ k \in Nat /\ rest \in Nat \ {0} /\ h \in Nat
          /\ need \in Nat /\ need <= n - Used(odd)
          /\ need = n - Used(odd) \/ h + rest >= Len(file)
      BY <1>3, <1>5, <1>6, <1>8, <1>9, <2>2, <2>3, <2>4
    <3>2. Len(data) = Used(odd) + k + Len(tail) /\ n \in Nat /\ currentPos \in Nat
          /\ Len(file) \in Nat /\ Len(tail) \in Nat
      BY <1>3, <2>5, <2>7
    <3>3. CASE Len(tail) = rest
      <4>1. Len(data) = Used(odd) + need
        BY <3>1, <3>2, <3>3
      <4>2. need = n - Used(odd) => Len(data) = n
        BY <3>1, <3>2, <4>1
      <4>3. currentPos + Len(data) = h + rest /\ Len(data) <= n
        BY <3>1, <3>2, <3>3, <4>1
      <4>4. need = n - Used(odd) \/ h + rest >= Len(file)
        BY <3>1
      <4>5. Len(data) \in Nat
        BY <3>1, <4>1
      <4> QED
        BY <3>2, <4>2, <4>3, <4>4, <4>5
    <3>4. CASE Len(tail) < rest /\ h + Len(tail) >= Len(file)
      <4>1. currentPos + Len(data) = h + Len(tail)
        BY <3>1, <3>2
      <4>2. /\ Used(odd) \in Nat /\ k \in Nat /\ rest \in Nat /\ n \in Nat
            /\ need = k + rest /\ need <= n - Used(odd)
            /\ Len(data) = Used(odd) + k + Len(tail) /\ Len(tail) \in Nat
        BY <3>1, <3>2
      <4>3. Len(data) < n
        BY <3>4, <4>2
      <4> QED
        BY <3>4, <4>1, <4>3
    <3>5. Len(tail) = rest \/ (Len(tail) < rest /\ h + Len(tail) >= Len(file))
      <4>1. CASE h >= Len(file)
        BY <2>5, <3>1, <3>2, <4>1
      <4>2. CASE h < Len(file) /\ h + rest <= Len(file)
        BY <2>5, <4>2
      <4>3. CASE h < Len(file) /\ h + rest > Len(file)
        <5>1. Len(tail) = Len(file) - h
          BY <2>5, <4>3
        <5>2. h \in Nat /\ rest \in Nat /\ Len(file) \in Nat
          BY <3>1, <3>2
        <5>3. Len(file) - h < rest /\ h + (Len(file) - h) >= Len(file)
          BY <4>3, <5>2
        <5> QED
          BY <5>1, <5>3
      <4> QED
        BY <3>1, <3>2, <4>1, <4>2, <4>3
    <3> QED
      BY <3>3, <3>4, <3>5
  <2>9. P!Fread /\ currentPos' = h + Len(tail) /\ currentPos' \in Nat
    <3>1. P!Fread /\ currentPos' = currentPos + Len(data) /\ currentPos' \in Nat
      BY <1>1, <1>3, <2>1, <2>7, <2>8, AnswerRight
    <3> QED
      <4>1. h = currentPos + Used(odd) + k /\ Used(odd) \in Nat /\ k \in Nat
        BY <1>3, <1>5, <1>8, <1>9, <2>3
      <4>2. Len(data) = Used(odd) + k + Len(tail) /\ Len(tail) \in Nat
        BY <2>5, <2>7
      <4>3. currentPos \in Nat
        BY <1>3
      <4> QED
        BY <3>1, <4>1, <4>2, <4>3
  <2>10. Counted' /\ bytesToEOF' \in Int
    BY <1>1, <2>1, <2>7, CountKept
  <2>11. hpos' = h + Len(buf) /\ Len(tail) <= Len(buf) /\ Len(buf) <= Sector
    <3>1. hpos' = IF Len(file) <= h THEN h
                  ELSE IF h + Sector < Len(file) THEN h + Sector ELSE Len(file)
      BY <1>1, <2>1 DEF Advance, Less, F!Less
    <3> QED
      BY <1>3, <2>2, <2>3, <2>4, <2>5, <2>6, <3>1
  <2>12. rStart' \in 0 .. Len(rBuf') /\ hpos' = currentPos' + Left'
         /\ ~bytesToEOFinvalid'
    <3>1. Left' = Len(buf) - Len(tail)
      BY <2>1 DEF Left
    <3> QED
      BY <2>1, <2>3, <2>5, <2>6, <2>9, <2>11, <3>1 DEF Returned
  <2>13. Typed'
    <3>1. hpos' \in Nat /\ rBuf' \in Seq(Byte) /\ Len(rBuf') <= Sector
      BY <2>1, <2>3, <2>6, <2>11
    <3> QED
      BY <1>1, <1>3, <2>9, <2>10, <2>12, <3>1 DEF Typed
  <2>14. Buffered'
    <3>1. hpos' >= Len(buf) /\ hpos' - Len(buf) = h
      BY <2>3, <2>6, <2>11
    <3>2. Part(rBuf', file', hpos' - Len(rBuf'))
      BY <1>1, <2>1, <2>6, <3>1
    <3>3. hpos' + Len(wBuf') = currentPos' + Left'
      <4>1. hpos' \in Nat
        BY <2>13 DEF Typed
      <4> QED
        BY <1>1, <1>3, <2>12, <4>1
    <3> QED
      BY <1>1, <2>1, <2>12, <3>1, <3>2, <3>3 DEF Buffered
  <2> QED
    BY <2>9, <2>10, <2>13, <2>14 DEF PromiseKept
<1> QED
  BY <1>11, <1>12, <1>13

-----------------------------------------------------------------------------
(***************************************************************************)
(* The theorems                                                            *)
(***************************************************************************)

LEMMA FileInvInit ==
    ASSUME Init PROVE FileInv /\ P!FileInit
<1> USE DEF Init
<1>1. PICK n \in Lengths : file = [i \in 1 .. n |-> -i]
  OBVIOUS
<1>2. n \in Nat /\ n <= MaxLen /\ MaxLen \in Nat
  BY CountAssumption
<1>3. file \in Seq(Byte)
  <2>1. \A i \in 1 .. n : -i \in Byte
    BY <1>2, CountAssumption DEF Byte
  <2> QED
    BY <1>1, <1>2, <2>1
<1>4. Typed
  BY <1>3, EmptySeqs, CountAssumption, SectorAssumption DEF Typed
<1>5. Buffered /\ Counted
  BY DEF Buffered, Counted
<1>6. P!FileInit
  BY <1>3, ContentsOfFile DEF P!FileInit
<1> QED
  BY <1>4, <1>5, <1>6 DEF FileInv

(* Once the promise is given up it stays so, and a fault gives it up.      *)
LEMMA StaysGivenUp ==
    ASSUME Next, plain' PROVE plain
<1>1. CASE Open
  BY <1>1 DEF Open, Fopen, FopenFault, Fcreate, Fault
<1>2. CASE Read
  <2>1. PICK n \in ReadCounts, odd \in BOOLEAN, b \in BlockSizes :
           \/ FreadSmall(n) \/ FreadSmallFault(n)
           \/ FreadBig(n, odd, b) \/ FreadBigFault(n, odd, b)
    BY <1>2 DEF Read
  <2>2. CASE FreadSmall(n)
    BY <2>2 DEF FreadSmall
  <2>3. CASE FreadBig(n, odd, b)
    BY <2>3 DEF FreadBig
  <2> QED
    BY <2>1, <2>2, <2>3 DEF FreadSmallFault, FreadBigFault, Fault
<1>3. CASE Write
  <2>1. PICK n \in WriteCounts, odd \in BOOLEAN, b \in BlockSizes :
           Fwrite(n, odd) \/ FwriteFault(n, odd, b)
    BY <1>3 DEF Write
  <2>2. CASE Fwrite(n, odd)
    BY <2>2 DEF Fwrite
  <2> QED
    BY <2>1, <2>2 DEF FwriteFault, Fault
<1>4. CASE Seek
  BY <1>4 DEF Seek, FseekReal, FseekRefused, FseekFault, FseekLocal, Fault
<1>5. CASE Fclose \/ FcloseFault
  BY <1>5 DEF Fclose, FcloseFault, Fault
<1> QED
  BY <1>1, <1>2, <1>3, <1>4, <1>5 DEF Next

LEMMA PromisedStep ==
    ASSUME Typed, Buffered, Counted, Next, plain' PROVE PromiseKept
<1>1. CASE Open
  BY <1>1, FopenStep, FcreateStep DEF Open, FopenFault, Fault
<1>2. CASE Read
  <2>1. PICK n \in ReadCounts, odd \in BOOLEAN, b \in BlockSizes :
           \/ FreadSmall(n) \/ FreadSmallFault(n)
           \/ FreadBig(n, odd, b) \/ FreadBigFault(n, odd, b)
    BY <1>2 DEF Read
  <2>2. ~FreadSmallFault(n) /\ ~FreadBigFault(n, odd, b)
    BY DEF FreadSmallFault, FreadBigFault, Fault
  <2> QED
    BY <2>1, <2>2, FreadSmallStep, FreadBigStep
<1>3. CASE Write
  <2>1. PICK n \in WriteCounts, odd \in BOOLEAN, b \in BlockSizes :
           Fwrite(n, odd) \/ FwriteFault(n, odd, b)
    BY <1>3 DEF Write
  <2>2. ~FwriteFault(n, odd, b)
    BY DEF FwriteFault, Fault
  <2> QED
    BY <2>1, <2>2, FwriteStep
<1>4. CASE Seek
  <2>1. PICK mode \in Modes, off \in Offsets \union {-o : o \in Offsets} :
            \/ FseekReal(mode, off) \/ FseekRefused(mode, off)
            \/ FseekFault(mode, off) \/ FseekLocal(off)
    BY <1>4 DEF Seek
  <2>2. off \in Int
    BY CountAssumption
  <2>3. ~FseekFault(mode, off)
    BY DEF FseekFault, Fault
  <2> QED
    BY <2>1, <2>2, <2>3, FseekRealStep, FseekRefusedStep, FseekLocalStep
<1>5. CASE Fclose
  BY <1>5, FcloseStep
<1>6. CASE FcloseFault
  BY <1>6 DEF FcloseFault, Fault
<1> QED
  BY <1>1, <1>2, <1>3, <1>4, <1>5, <1>6 DEF Next

LEMMA FileInvStep ==
    ASSUME FileInv, [Next]_vars
    PROVE  FileInv' /\ [P!FileNext]_(P!fileVars)
<1>1. CASE Next /\ plain'
  <2>1. plain
    BY <1>1, StaysGivenUp
  <2>2. PromiseKept
    BY <1>1, <2>1, PromisedStep DEF FileInv
  <2> QED
    BY <1>1, <2>1, <2>2 DEF PromiseKept, FileInv, P!FileNext
<1>2. CASE Next /\ ~plain'
  BY <1>2 DEF FileInv, P!FileNext, P!GivenUp
<1>3. CASE UNCHANGED vars
  <2>1. UNCHANGED <<file, hpos, isOpen, currentPos, rBuf, rStart, bytesToEOF,
                    bytesToEOFinvalid, wBuf, call, got, stale, plain, calls, faults>>
    BY <1>3 DEF vars, rpiVars, atariVars
  <2>2. FileInv'
    BY <2>1 DEF FileInv, Typed, Buffered, Counted, Left
  <2>3. UNCHANGED P!fileVars
    BY <2>1 DEF P!fileVars, Contents
  <2> QED
    BY <2>2, <2>3
<1> QED
  BY <1>1, <1>2, <1>3

(* InStep in every reachable state: the two positions of the file differ   *)
(* by what is buffered, the read-ahead is what the file holds before the   *)
(* position on the RPi, and the count of bytes to the end is right or will *)
(* be asked for again.                                                     *)
THEOREM InStepHolds == Spec => []InStep
<1>1. Init => FileInv
  BY FileInvInit
<1>2. FileInv /\ [Next]_vars => FileInv'
  BY FileInvStep
<1>3. FileInv => InStep
  BY InStepFromInv
<1> QED
  BY <1>1, <1>2, <1>3, PTL DEF Spec

(* The file calls of the driver, with their buffers, are those of a plain  *)
(* file, for files, reads, writes and seeks of any size, as long as the    *)
(* promise is not given up.                                                *)
THEOREM ActsAsAFileHolds == Spec => ActsAsAFile
<1>1. Init => FileInv /\ P!FileInit
  BY FileInvInit
<1>2. FileInv /\ [Next]_vars => FileInv' /\ [P!FileNext]_(P!fileVars)
  BY FileInvStep
<1> QED
  BY <1>1, <1>2, PTL DEF Spec, ActsAsAFile, P!FileSpec
=============================================================================
