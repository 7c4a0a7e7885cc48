-------------------------- MODULE NetStreamProofs --------------------------
(***************************************************************************)
(* Proofs about NetStream, for streams and requests of any length, sectors *)
(* and buffers of any size and any number of faults: no byte comes twice;  *)
(* the Atari's buffer and the socket are in step; and the end is the end.  *)
(***************************************************************************)
EXTENDS NetStream, SequenceTheorems, TLAPS

-----------------------------------------------------------------------------
(***************************************************************************)
(* The inductive invariant: the bytes peeked at are the next ones of the   *)
(* socket (Peeked); nothing is left in a socket that was closed, and the   *)
(* Atari only takes a connection for closed when its socket is (Ended);    *)
(* what the program got is behind what comes next (Behind).                *)
(***************************************************************************)

Peeked ==
    /\ sent \in Nat /\ taken \in Nat /\ taken <= sent
    /\ faults \in Nat /\ got \in Seq(Nat)
    /\ chars \in Seq(Nat) /\ used \in 0 .. Len(chars)
    /\ chars # <<>> => taken + Len(chars) <= sent
    /\ \A i \in 1 .. Len(chars) : chars[i] = taken + i

Ended ==
    /\ eof => info.state = "closed"
    /\ info.state = "closed" => ~open
    /\ ~open => fin
    /\ ~open /\ ~cut => sent = taken
    /\ ~open /\ faults = 0 => info.state = "closed"

Behind ==
    ~forgot =>
        /\ \A i, j \in 1 .. Len(got) : i < j => got[i] < got[j]
        /\ open \/ chars # <<>> => \A i \in 1 .. Len(got) : got[i] <= taken + used

NoGaps == careful /\ faults = 0 => got = Bytes(0, taken + used)

NetInv == Peeked /\ Ended /\ Behind /\ NoGaps

LEMMA BytesType ==
    ASSUME NEW p \in Nat, NEW n \in Nat
    PROVE  /\ Bytes(p, n) \in Seq(Nat) /\ Len(Bytes(p, n)) = n
           /\ \A i \in 1 .. n : Bytes(p, n)[i] = p + i
<1>1. \A i \in 1 .. n : p + i \in Nat
  OBVIOUS
<1> QED
  BY <1>1 DEF Bytes

LEMMA BytesConcat ==
    ASSUME NEW p \in Nat, NEW m \in Nat, NEW n \in Nat
    PROVE  Bytes(p, m) \o Bytes(p + m, n) = Bytes(p, m + n)
<1> DEFINE s == Bytes(p, m)
           t == Bytes(p + m, n)
           r == Bytes(p, m + n)
<1>1. /\ s \in Seq(Nat) /\ Len(s) = m /\ (\A i \in 1 .. m : s[i] = p + i)
      /\ t \in Seq(Nat) /\ Len(t) = n /\ (\A i \in 1 .. n : t[i] = p + m + i)
      /\ r \in Seq(Nat) /\ Len(r) = m + n /\ (\A i \in 1 .. m + n : r[i] = p + i)
  <2>1. p + m \in Nat /\ m + n \in Nat
    OBVIOUS
  <2> QED
    BY <2>1, BytesType
<1> HIDE DEF s, t, r
<1>2. s \o t \in Seq(Nat) /\ Len(s \o t) = m + n
  <2>1. s \in Seq(Nat) /\ t \in Seq(Nat) /\ Len(s) = m /\ Len(t) = n
    BY <1>1
  <2>2. s \o t \in Seq(Nat) /\ Len(s \o t) = Len(s) + Len(t)
    BY <2>1
  <2> QED
    BY <2>1, <2>2
<1>3. ASSUME NEW i \in 1 .. m + n PROVE (s \o t)[i] = r[i]
  <2>1. (s \o t)[i] = IF i <= m THEN s[i] ELSE t[i - m]
    <3>1. s \in Seq(Nat) /\ t \in Seq(Nat) /\ Len(s) = m /\ Len(t) = n
      BY <1>1
    <3>2. i \in 1 .. Len(s) + Len(t)
      BY <3>1
    <3>3. (s \o t)[i] = IF i <= Len(s) THEN s[i] ELSE t[i - Len(s)]
      BY <3>1, <3>2, ConcatProperties
    <3> QED
      BY <3>1, <3>3
  <2>2. CASE i <= m
    BY <1>1, <2>1, <2>2
  <2>3. CASE i > m
    <3>1. i - m \in 1 .. n /\ ~(i <= m) /\ p + m + (i - m) = p + i
      BY <2>3
    <3> QED
      BY <1>1, <2>1, <3>1
  <2>4. i <= m \/ i > m
    OBVIOUS
  <2> QED
    BY <2>2, <2>3, <2>4
<1> QED
  BY <1>1, <1>2, <1>3, SeqEqual DEF s, t, r

LEMMA NoBytes == \A p \in Nat : Bytes(p, 0) = <<>>
<1> TAKE p \in Nat
<1>1. Bytes(p, 0) \in Seq(Nat) /\ Len(Bytes(p, 0)) = 0
  BY BytesType
<1> QED
  BY <1>1

LEMMA InvInit == ASSUME Init PROVE NetInv
<1> USE DEF Init
<1>1. Peeked
  BY DEF Peeked
<1>2. Ended
  BY DEF Ended
<1>3. Behind
  BY DEF Behind
<1>4. NoGaps
  BY NoBytes DEF NoGaps
<1> QED
  BY <1>1, <1>2, <1>3, <1>4 DEF NetInv

LEMMA NetProperties == NetInv => NoneTwice /\ InStep /\ EofIsEnd
<1> SUFFICES ASSUME NetInv PROVE NoneTwice /\ InStep /\ EofIsEnd
  OBVIOUS
<1> USE DEF NetInv
<1>1. NoneTwice
  BY DEF NoneTwice, Behind
<1>2. chars = Bytes(taken, Len(chars))
  <2>1. chars \in Seq(Nat) /\ Len(chars) \in Nat /\ taken \in Nat
    BY DEF Peeked
  <2>2. Bytes(taken, Len(chars)) \in Seq(Nat) /\ Len(Bytes(taken, Len(chars))) = Len(chars)
        /\ \A i \in 1 .. Len(chars) : Bytes(taken, Len(chars))[i] = taken + i
    BY <2>1, BytesType
  <2>3. \A i \in 1 .. Len(chars) : chars[i] = Bytes(taken, Len(chars))[i]
    BY <2>2 DEF Peeked
  <2> QED
    BY <2>1, <2>2, <2>3, SeqEqual
<1>3. InStep
  BY <1>2 DEF InStep, NoGaps
<1>4. EofIsEnd
  <2> SUFFICES ASSUME eof, careful, faults = 0, ~cut PROVE Len(got) = sent
    BY DEF EofIsEnd
  <2>1. sent = taken
    BY DEF Ended
  <2>2. Len(chars) \in Nat /\ taken \in Nat /\ used \in 0 .. Len(chars)
    BY DEF Peeked
  <2>3. Len(chars) = 0
    <3>1. Len(chars) # 0 => chars # <<>>
      BY DEF Peeked
    <3> QED
      BY <2>1, <2>2, <3>1 DEF Peeked
  <2>4. got = Bytes(0, taken + used) /\ used = 0
    BY <2>2, <2>3 DEF NoGaps
  <2> QED
    BY <2>1, <2>2, <2>4, BytesType
<1> QED
  BY <1>1, <1>3, <1>4

-----------------------------------------------------------------------------
(***************************************************************************)
(* What arrives and what update_con_info() learns                          *)
(***************************************************************************)

Learned ==
    /\ sent' \in Nat /\ sent' >= sent
    /\ open' => open
    /\ ~open' => fin'
    /\ ~open' /\ ~cut' => sent' = taken
    /\ info'.state = "closed" => ~open'
    /\ info.state = "closed" => info'.state = "closed"
    /\ ~open' /\ faults' = 0 => info'.state = "closed"

LEMMA Arrived ==
    ASSUME NetInv, NEW k \in {0, 1}, NEW f \in BOOLEAN, Arrive(k, f)
    PROVE  /\ sent' \in Nat /\ sent' >= sent /\ (fin => sent' = sent)
           /\ (fin \/ f => fin')
<1>1. sent' = sent + k /\ (k > 0 => ~fin) /\ sent \in Nat
  BY DEF Arrive, NetInv, Peeked
<1>2. fin => k = 0
  BY <1>1
<1>3. fin \/ f => fin'
  BY DEF Arrive
<1> QED
  BY <1>1, <1>2, <1>3

LEMMA HungUp ==
    ASSUME NEW f \in BOOLEAN, NEW hup \in HangsUp(f), hup
    PROVE  open /\ InSocket = 0 /\ (fin \/ f)
BY DEF HangsUp

LEMMA UpdateLearns ==
    ASSUME NetInv, NEW k \in {0, 1}, NEW f \in BOOLEAN, NEW o \in Outcomes,
           Arrive(k, f), Info(f, o),
           faults' \in Nat, faults' >= faults, o # "ok" => faults' > 0
    PROVE  Learned
<1>1. /\ sent' \in Nat /\ sent' >= sent /\ (fin => sent' = sent) /\ (fin \/ f => fin')
  BY Arrived
<1>2. /\ sent \in Nat /\ taken \in Nat /\ taken <= sent /\ faults \in Nat
      /\ (info.state = "closed" => ~open) /\ (~open => fin)
      /\ (~open /\ ~cut => sent = taken)
      /\ (~open /\ faults = 0 => info.state = "closed")
  BY DEF NetInv, Peeked, Ended
<1>3. faults' = 0 => faults = 0 /\ o = "ok"
  BY <1>2
<1>4. CASE UNCHANGED <<open, info, cut>>
  BY <1>1, <1>2, <1>3, <1>4 DEF Learned
<1>5. CASE Updated(f, o) /\ ~UNCHANGED <<open, info, cut>>
  <2>1. o # "unrun"
    BY <1>5 DEF Updated
  <2>2. PICK hup \in HangsUp(f) :
           /\ open' = (open /\ ~hup)
           /\ cut' = (cut \/ (hup /\ InSocket = 0 /\ sent' > taken))
           /\ info' = IF o = "run" THEN info
                      ELSE [count |-> InSocket,
                            state |-> IF open' THEN "up" ELSE "closed"]
    BY <1>5, <2>1 DEF Updated
  <2>3. hup => open /\ InSocket = 0 /\ (fin \/ f)
    BY HungUp
  <2>4. hup => sent = taken
    BY <1>2, <2>3 DEF InSocket
  <2>5. (open' => open) /\ (~open' => ~open \/ hup)
    BY <2>2
  <2>6. ~open' => fin'
    BY <1>1, <1>2, <2>3, <2>5
  <2>7. ~cut' => ~cut /\ ~(hup /\ InSocket = 0 /\ sent' > taken)
    BY <2>2
  <2>8. ~open' /\ ~cut' => sent' = taken
    <3>1. CASE ~open
      BY <1>1, <1>2, <2>7, <3>1
    <3>2. CASE hup
      <4>1. ~cut' => ~(sent' > taken)
        BY <2>3, <2>7, <3>2
      <4> QED
        BY <1>1, <1>2, <2>4, <3>2, <4>1
    <3> QED
      BY <2>5, <3>1, <3>2
  <2>9. CASE o = "run"
    <3>1. info' = info /\ faults' # 0
      BY <1>3, <2>2, <2>9
    <3> QED
      BY <1>1, <1>2, <2>5, <2>6, <2>8, <3>1 DEF Learned
  <2>10. CASE o # "run"
    <3>1. info'.state = IF open' THEN "up" ELSE "closed"
      BY <2>2, <2>10
    <3>2. info'.state = "closed" <=> ~open'
      BY <3>1
    <3> QED
      BY <1>1, <1>2, <2>5, <2>6, <2>8, <3>2 DEF Learned
  <2> QED
    BY <2>9, <2>10
<1> QED
  BY <1>4, <1>5 DEF Info

(* What is learned without a call keeps the invariant.                     *)
LEMMA LearningKeeps ==
    ASSUME NetInv, Learned, faults' \in Nat, faults' >= faults,
           UNCHANGED <<taken, chars, used, got, forgot, careful>>,
           eof' => eof \/ info'.state = "closed"
    PROVE  NetInv'
<1> USE DEF NetInv
<1>1. Peeked'
  BY DEF Peeked, Learned
<1>2. Ended'
  BY DEF Ended, Learned
<1>3. Behind'
  BY DEF Behind, Learned
<1>4. NoGaps'
  BY DEF NoGaps, Peeked
<1> QED
  BY <1>1, <1>2, <1>3, <1>4

LEMMA MeanwhileType ==
    ASSUME NEW a \in Meanwhile PROVE a[1] \in {0, 1} /\ a[2] \in BOOLEAN
BY DEF Meanwhile

LEMMA PeerSteps ==
    ASSUME NetInv, PeerSends \/ PeerCloses PROVE NetInv'
<1>1. PICK k \in {0, 1}, f \in BOOLEAN :
         Arrive(k, f) /\ UNCHANGED <<open, info, cut, read, careful, faults>>
         /\ (PeerCloses => ~fin)
  BY DEF PeerSends, PeerCloses
<1>2. sent' \in Nat /\ sent' >= sent /\ (fin => sent' = sent) /\ (fin \/ f => fin')
  BY <1>1, Arrived
<1>3. Learned /\ faults' \in Nat
  BY <1>1, <1>2 DEF Learned, NetInv, Ended, Peeked
<1> QED
  BY <1>1, <1>3, LearningKeeps DEF read

LEMMA VblStep ==
    ASSUME NetInv, VblUpdate PROVE NetInv'
<1>1. PICK a \in Meanwhile, o \in Outcomes :
         /\ faults' = faults + Faulty(o)
         /\ Arrive(a[1], a[2]) /\ Updated(a[2], o) /\ UNCHANGED <<read, careful>>
  BY DEF VblUpdate
<1>2. faults' \in Nat /\ faults' >= faults /\ (o # "ok" => faults' > 0)
  BY <1>1 DEF Faulty, NetInv, Peeked
<1>3. Learned
  BY <1>1, <1>2, MeanwhileType, UpdateLearns DEF Info
<1> QED
  BY <1>1, <1>2, <1>3, LearningKeeps DEF read

LEMMA ByteCountStep ==
    ASSUME NetInv, ByteCount PROVE NetInv'
<1>1. PICK a \in Meanwhile, o \in Outcomes :
         /\ faults' = faults + Faulty(o)
         /\ Arrive(a[1], a[2]) /\ Info(a[2], o)
         /\ eof' = (eof \/ info' = [count |-> 0, state |-> "closed"])
         /\ UNCHANGED <<taken, chars, used, got, forgot, careful>>
  BY DEF ByteCount, Info
<1>2. faults' \in Nat /\ faults' >= faults /\ (o # "ok" => faults' > 0)
  BY <1>1 DEF Faulty, NetInv, Peeked
<1>3. Learned
  BY <1>1, <1>2, MeanwhileType, UpdateLearns
<1>4. eof' => eof \/ info'.state = "closed"
  <2> DEFINE ended == [count |-> 0, state |-> "closed"]
  <2>1. ended.state = "closed"
    OBVIOUS
  <2>2. eof' => eof \/ info' = ended
    BY <1>1
  <2> HIDE DEF ended
  <2> QED
    BY <2>1, <2>2
<1> QED
  BY <1>1, <1>2, <1>3, <1>4, LearningKeeps

-----------------------------------------------------------------------------
(***************************************************************************)
(* Reads.  A command removes the used bytes and r bytes more, and the      *)
(* program gets the first m of these; or the command never ran.            *)
(***************************************************************************)

\* The program reads: the Atari does not take the connection for closed.
Reads ==
    /\ Learned /\ faults' \in Nat /\ faults' >= faults
    /\ info'.state # "closed" /\ UNCHANGED <<eof, careful>>

\* So many bytes are there behind the used ones.
There == IF open' THEN sent' - (taken + used) ELSE 0

LEMMA ReadsFacts ==
    ASSUME NetInv, Reads
    PROVE  /\ There \in Nat /\ There = Left(used)
           /\ taken \in Nat /\ used \in Nat /\ sent' \in Nat /\ taken <= sent'
           /\ open' => open /\ taken + used <= sent' /\ taken + used + There = sent'
           /\ ~open' => There = 0
           /\ faults' = 0 => open' /\ faults = 0
           /\ (~open' => taken' = taken) => Ended'
<1>1. /\ sent \in Nat /\ taken \in Nat /\ taken <= sent /\ used \in Nat
      /\ taken + used <= sent \/ used = 0
  <2>1. used \in Nat /\ used <= Len(chars) /\ Len(chars) \in Nat
        /\ (Len(chars) # 0 => chars # <<>>) /\ sent \in Nat /\ taken \in Nat
        /\ taken <= sent
    BY DEF NetInv, Peeked
  <2>2. Len(chars) # 0 => taken + Len(chars) <= sent
    BY <2>1 DEF NetInv, Peeked
  <2> QED
    BY <2>1, <2>2
<1>2. sent' \in Nat /\ sent' >= sent
  BY DEF Reads, Learned
<1>3. There \in Nat /\ There = Left(used) /\ taken + used <= sent'
  <2>1. taken + used <= sent'
    BY <1>1, <1>2
  <2>2. taken + used \in Nat
    BY <1>1
  <2>3. \A x, y \in Nat : x <= y => y - x \in Nat
    OBVIOUS
  <2>4. sent' - (taken + used) \in Nat
    BY <1>2, <2>1, <2>2, <2>3
  <2> QED
    BY <2>1, <2>4 DEF There, Left
<1>4. ~open' /\ ~cut' => sent' = taken
  BY DEF Reads, Learned
<1>5. eof' => info'.state = "closed"
  BY DEF Reads, Learned, NetInv, Ended
<1>6. faults' = 0 => open' /\ faults = 0
  BY DEF Reads, Learned, NetInv, Peeked
<1>7. (open' => open) /\ (~open' => There = 0) /\ taken <= sent'
  <2>1. open' => open
    BY DEF Reads, Learned
  <2>2. ~open' => There = 0
    BY DEF There
  <2>3. taken <= sent'
    BY <1>1, <1>2
  <2> QED
    BY <2>1, <2>2, <2>3
<1>8. open' => taken + used + There = sent'
  <2>1. ASSUME open' PROVE There = sent' - (taken + used)
    BY <2>1 DEF There
  <2>2. \A x, y, z \in Nat : z = y - x => x + z = y
    OBVIOUS
  <2>3. taken + used \in Nat
    BY <1>1
  <2>4. ASSUME open' PROVE (taken + used) + There = sent'
    BY <1>2, <1>3, <2>1, <2>2, <2>3, <2>4
  <2> QED
    BY <2>4
<1>9. ASSUME ~open' => taken' = taken PROVE Ended'
  BY <1>4, <1>5, <1>9 DEF Reads, Learned, Ended
<1> QED
  BY <1>1, <1>2, <1>3, <1>6, <1>7, <1>9, <1>8

LEMMA GotMore ==
    ASSUME NetInv, NEW m \in Nat, taken + used \in Nat,
           got' = got \o Bytes(taken + used, m)
    PROVE  /\ got' \in Seq(Nat) /\ Len(got') = Len(got) + m /\ Len(got) \in Nat
           /\ \A i \in 1 .. Len(got) : got'[i] = got[i]
           /\ \A i \in 1 .. m : got'[Len(got) + i] = taken + used + i
<1> DEFINE b == Bytes(taken + used, m)
<1>1. /\ b \in Seq(Nat) /\ Len(b) = m
      /\ \A i \in 1 .. m : b[i] = taken + used + i
  BY BytesType
<1>2. got \in Seq(Nat) /\ Len(got) \in Nat
  BY DEF NetInv, Peeked
<1> HIDE DEF b
<1>3. got' = got \o b
  BY DEF b
<1>4. got' \in Seq(Nat) /\ Len(got') = Len(got) + m
  <2>1. b \in Seq(Nat) /\ got \in Seq(Nat)
    BY <1>1, <1>2
  <2>2. got \o b \in Seq(Nat) /\ Len(got \o b) = Len(got) + Len(b)
    BY <2>1
  <2> QED
    BY <1>1, <1>3, <2>2
<1>5. \A i \in 1 .. Len(got) + Len(b) :
         got'[i] = IF i <= Len(got) THEN got[i] ELSE b[i - Len(got)]
  BY <1>1, <1>2, <1>3, ConcatProperties
<1>6. \A i \in 1 .. Len(got) : got'[i] = got[i]
  BY <1>1, <1>2, <1>5
<1>7. ASSUME NEW i \in 1 .. m PROVE got'[Len(got) + i] = taken + used + i
  <2>1. Len(got) + i \in 1 .. Len(got) + Len(b) /\ ~(Len(got) + i <= Len(got))
        /\ (Len(got) + i) - Len(got) = i
    BY <1>1, <1>2
  <2> QED
    BY <1>1, <1>5, <2>1
<1> QED
  BY <1>2, <1>4, <1>6, <1>7

(* What the program gets more is behind what it has.                       *)
LEMMA StaysInOrder ==
    ASSUME NetInv, NEW m \in Nat, taken + used \in Nat,
           got' = got \o Bytes(taken + used, m),
           ~forgot, m > 0 => open \/ chars # <<>>
    PROVE  /\ \A i, j \in 1 .. Len(got') : i < j => got'[i] < got'[j]
           /\ open \/ chars # <<>> =>
                 \A i \in 1 .. Len(got') : got'[i] <= taken + used + m
<1>1. /\ Len(got') = Len(got) + m /\ Len(got) \in Nat
      /\ \A i \in 1 .. Len(got) : got'[i] = got[i]
      /\ \A i \in 1 .. m : got'[Len(got) + i] = taken + used + i
  BY GotMore
<1>2. /\ got \in Seq(Nat)
      /\ \A i, j \in 1 .. Len(got) : i < j => got[i] < got[j]
      /\ open \/ chars # <<>> => \A i \in 1 .. Len(got) : got[i] <= taken + used
  BY DEF NetInv, Peeked, Behind
<1>3. \A i \in 1 .. Len(got) : got[i] \in Nat
  BY <1>2
<1>4. \A i \in 1 .. Len(got') : i > Len(got) =>
         i - Len(got) \in 1 .. m /\ got'[i] = taken + used + (i - Len(got))
  <2> TAKE i \in 1 .. Len(got')
  <2> HAVE i > Len(got)
  <2>1. i - Len(got) \in 1 .. m /\ Len(got) + (i - Len(got)) = i
    BY <1>1
  <2> QED
    BY <1>1, <2>1
<1>5. ASSUME open \/ chars # <<>>, NEW i \in 1 .. Len(got')
      PROVE  got'[i] <= taken + used + m
  <2>1. CASE i <= Len(got)
    <3>1. got'[i] = got[i] /\ got[i] <= taken + used /\ got[i] \in Nat
      BY <1>1, <1>2, <1>3, <1>5, <2>1
    <3> QED
      BY <3>1
  <2>2. CASE i > Len(got)
    <3>1. i - Len(got) \in 1 .. m /\ got'[i] = taken + used + (i - Len(got))
      BY <1>4, <2>2
    <3> QED
      BY <1>1, <3>1
  <2>3. i <= Len(got) \/ i > Len(got)
    BY <1>1
  <2> QED
    BY <2>1, <2>2, <2>3
<1>6. ASSUME NEW i \in 1 .. Len(got'), NEW j \in 1 .. Len(got'), i < j
      PROVE  got'[i] < got'[j]
  <2>1. CASE j <= Len(got)
    <3>1. i \in 1 .. Len(got) /\ j \in 1 .. Len(got)
      BY <1>1, <1>6, <2>1
    <3>2. got'[i] = got[i] /\ got'[j] = got[j]
      BY <1>1, <3>1
    <3> QED
      BY <1>2, <1>6, <3>1, <3>2
  <2>2. CASE i <= Len(got) /\ j > Len(got)
    <3>1. j - Len(got) \in 1 .. m /\ got'[j] = taken + used + (j - Len(got))
      BY <1>4, <2>2
    <3>2. i \in 1 .. Len(got) /\ m > 0
      BY <1>1, <2>2, <3>1
    <3>3. got'[i] = got[i] /\ got[i] <= taken + used /\ got[i] \in Nat
      BY <1>1, <1>2, <1>3, <3>2
    <3> QED
      BY <1>1, <3>1, <3>3
  <2>3. CASE i > Len(got) /\ j > Len(got)
    <3>1. got'[i] = taken + used + (i - Len(got))
          /\ got'[j] = taken + used + (j - Len(got))
      BY <1>4, <2>3
    <3> QED
      BY <1>1, <1>6, <3>1
  <2>4. j <= Len(got) \/ (i <= Len(got) /\ j > Len(got)) \/ (i > Len(got) /\ j > Len(got))
    BY <1>1, <1>6
  <2> QED
    BY <2>1, <2>2, <2>3, <2>4
<1> QED
  BY <1>5, <1>6

\* A command removes the used bytes and r more; the program gets m of them.
Removes(r, m) ==
    /\ got' = got \o Bytes(taken + used, m)
    /\ taken' = (IF open' THEN taken + used ELSE taken) + r
    /\ chars' = <<>> /\ used' = 0 /\ (forgot => forgot')

\* The command never ran.
NeverRan ==
    /\ faults' > 0 /\ got' = got /\ taken' = taken
    /\ chars' = <<>> /\ used' = 0 /\ (forgot \/ used > 0 => forgot')

LEMMA EmptyChars ==
    ASSUME NetInv, Reads, chars' = <<>>, used' = 0,
           taken' \in Nat, taken' <= sent', got' \in Seq(Nat)
    PROVE  Peeked'
BY DEF Reads, Learned, NetInv, Peeked

LEMMA RemovesKeeps ==
    ASSUME NetInv, Reads, NEW m \in Nat, NEW r \in Nat, m <= r, r <= There,
           Removes(r, m), careful /\ faults' = 0 => m = r
    PROVE  NetInv'
<1>1. /\ There \in Nat /\ taken \in Nat /\ used \in Nat /\ sent' \in Nat
      /\ taken <= sent' /\ (open' => open /\ taken + used + There = sent')
      /\ (~open' => There = 0) /\ (faults' = 0 => open' /\ faults = 0)
      /\ ((~open' => taken' = taken) => Ended')
  BY ReadsFacts
<1>2. got' = got \o Bytes(taken + used, m) /\ chars' = <<>> /\ used' = 0
      /\ taken' = (IF open' THEN taken + used ELSE taken) + r /\ (forgot => forgot')
  BY DEF Removes
<1>3. CASE open'
  <2>1. taken' = taken + used + r /\ taken' \in Nat
    BY <1>1, <1>2, <1>3
  <2>2. taken' <= sent'
    BY <1>1, <1>3, <2>1
  <2>3. taken + used \in Nat /\ got' \in Seq(Nat)
    BY <1>1, <1>2, GotMore
  <2>4. Peeked'
    BY <1>2, <2>1, <2>2, <2>3, EmptyChars
  <2>5. Behind'
    <3> SUFFICES ASSUME ~forgot' PROVE Behind'
      BY DEF Behind
    <3>1. ~forgot /\ open
      BY <1>1, <1>2, <1>3
    <3>2. /\ \A i, j \in 1 .. Len(got') : i < j => got'[i] < got'[j]
          /\ \A i \in 1 .. Len(got') : got'[i] <= taken + used + m
      BY <1>2, <2>3, <3>1, StaysInOrder
    <3>3. \A i \in 1 .. Len(got') : got'[i] \in Nat
      BY <2>3
    <3>4. \A i \in 1 .. Len(got') : got'[i] <= taken' + used'
      BY <1>1, <1>2, <2>1, <3>2, <3>3
    <3> QED
      BY <3>2, <3>4 DEF Behind
  <2>6. NoGaps'
    <3> SUFFICES ASSUME careful', faults' = 0 PROVE got' = Bytes(0, taken' + used')
      BY DEF NoGaps
    <3>1. careful /\ m = r
      BY DEF Reads
    <3>2. faults = 0 /\ got = Bytes(0, taken + used)
      BY <1>1, <3>1 DEF NetInv, NoGaps
    <3>3. Bytes(0, taken + used) \o Bytes(0 + (taken + used), m) = Bytes(0, taken + used + m)
      BY <2>3, BytesConcat
    <3>4. 0 + (taken + used) = taken + used /\ taken' + used' = taken + used + m
      BY <1>1, <1>2, <2>1, <3>1
    <3> QED
      BY <1>2, <3>2, <3>3, <3>4
  <2> QED
    BY <1>1, <1>3, <2>4, <2>5, <2>6 DEF NetInv
<1>4. CASE ~open'
  <2>1. r = 0 /\ m = 0 /\ taken' = taken /\ faults' # 0
    BY <1>1, <1>2, <1>4
  <2>2. got' = got /\ got \in Seq(Nat)
    <3>1. got \in Seq(Nat) /\ Bytes(taken + used, 0) = <<>>
      BY <1>1, NoBytes DEF NetInv, Peeked
    <3> QED
      BY <1>2, <2>1, <3>1
  <2>3. Peeked'
    BY <1>1, <1>2, <2>1, <2>2, EmptyChars
  <2>4. Behind'
    BY <1>2, <1>4, <2>2 DEF NetInv, Behind
  <2>5. NoGaps'
    BY <2>1 DEF NoGaps
  <2> QED
    BY <1>1, <2>1, <2>3, <2>4, <2>5 DEF NetInv
<1> QED
  BY <1>3, <1>4

LEMMA NeverRanKeeps ==
    ASSUME NetInv, Reads, NeverRan PROVE NetInv'
<1>1. /\ taken \in Nat /\ used \in Nat /\ taken <= sent' /\ (open' => open)
      /\ ((~open' => taken' = taken) => Ended')
  BY ReadsFacts
<1>2. /\ got' = got /\ taken' = taken /\ chars' = <<>> /\ used' = 0
      /\ (forgot \/ used > 0 => forgot') /\ faults' # 0
  BY DEF NeverRan, Reads
<1>3. Peeked'
  BY <1>1, <1>2, EmptyChars DEF NetInv, Peeked
<1>4. Behind'
  <2> SUFFICES ASSUME ~forgot' PROVE Behind'
    BY DEF Behind
  <2>1. ~forgot /\ used = 0
    BY <1>1, <1>2
  <2> QED
    BY <1>1, <1>2, <2>1 DEF NetInv, Behind
<1>5. NoGaps'
  BY <1>2 DEF NoGaps
<1> QED
  BY <1>1, <1>2, <1>3, <1>4, <1>5 DEF NetInv

(* CNget_char() from the buffer, and with a full one.                      *)
LEMMA UsesByte ==
    ASSUME NetInv, Reads, used < Len(chars),
           got' = got \o Bytes(taken + used, 1), used' = used + 1,
           UNCHANGED <<taken, chars, forgot>>
    PROVE  NetInv'
<1>1. /\ taken \in Nat /\ used \in Nat /\ taken <= sent' /\ (open' => open)
      /\ (faults' = 0 => faults = 0)
      /\ ((~open' => taken' = taken) => Ended')
  BY ReadsFacts
<1>2. chars # <<>> /\ Len(chars) \in Nat /\ used + 1 <= Len(chars)
  BY <1>1 DEF NetInv, Peeked
<1>3. taken + used \in Nat /\ got' \in Seq(Nat)
  <2>1. taken + used \in Nat /\ 1 \in Nat
    BY <1>1
  <2> QED
    BY <2>1, GotMore
<1>4. Peeked'
  BY <1>1, <1>2, <1>3 DEF NetInv, Peeked, Reads, Learned
<1>5. Behind'
  <2> SUFFICES ASSUME ~forgot' PROVE Behind'
    BY DEF Behind
  <2>1. /\ \A i, j \in 1 .. Len(got') : i < j => got'[i] < got'[j]
        /\ \A i \in 1 .. Len(got') : got'[i] <= taken + used + 1
    BY <1>2, <1>3, StaysInOrder
  <2>2. taken + used + 1 = taken' + used'
    BY <1>1
  <2> QED
    BY <2>1, <2>2 DEF Behind
<1>6. NoGaps'
  <2> SUFFICES ASSUME careful', faults' = 0 PROVE got' = Bytes(0, taken' + used')
    BY DEF NoGaps
  <2>1. got = Bytes(0, taken + used)
    BY <1>1 DEF NetInv, NoGaps, Reads
  <2>2. Bytes(0, taken + used) \o Bytes(0 + (taken + used), 1) = Bytes(0, taken + used + 1)
    BY <1>3, BytesConcat
  <2>3. 0 + (taken + used) = taken + used /\ taken' + used' = taken + used + 1
    BY <1>1
  <2> QED
    BY <2>1, <2>2, <2>3
<1> QED
  BY <1>1, <1>4, <1>5, <1>6 DEF NetInv

LEMMA FillsBuffer ==
    ASSUME NetInv, Reads, NEW n \in Nat \ {0}, n <= There, open',
           got' = got \o Bytes(taken + used, 1), taken' = taken + used,
           chars' = Bytes(taken + used, n), used' = 1, forgot' = forgot
    PROVE  NetInv'
<1>1. /\ There \in Nat /\ taken \in Nat /\ used \in Nat /\ sent' \in Nat
      /\ taken <= sent' /\ open /\ taken + used + There = sent'
      /\ (faults' = 0 => faults = 0)
      /\ ((~open' => taken' = taken) => Ended')
  BY ReadsFacts
<1>2. taken + used \in Nat /\ got' \in Seq(Nat)
  BY <1>1, GotMore
<1>3. /\ chars' \in Seq(Nat) /\ Len(chars') = n
      /\ \A i \in 1 .. n : chars'[i] = taken' + i
  BY <1>2, BytesType
<1>4. taken' + Len(chars') <= sent'
  BY <1>1, <1>3
<1>5. Peeked'
  BY <1>1, <1>2, <1>3, <1>4 DEF NetInv, Peeked, Reads, Learned
<1>6. Behind'
  <2> SUFFICES ASSUME ~forgot' PROVE Behind'
    BY DEF Behind
  <2>1. /\ \A i, j \in 1 .. Len(got') : i < j => got'[i] < got'[j]
        /\ \A i \in 1 .. Len(got') : got'[i] <= taken + used + 1
    BY <1>1, <1>2, StaysInOrder
  <2>2. taken + used + 1 = taken' + used'
    BY <1>1
  <2> QED
    BY <2>1, <2>2 DEF Behind
<1>7. NoGaps'
  <2> SUFFICES ASSUME careful', faults' = 0 PROVE got' = Bytes(0, taken' + used')
    BY DEF NoGaps
  <2>1. got = Bytes(0, taken + used)
    BY <1>1 DEF NetInv, NoGaps, Reads
  <2>2. Bytes(0, taken + used) \o Bytes(0 + (taken + used), 1) = Bytes(0, taken + used + 1)
    BY <1>2, BytesConcat
  <2>3. 0 + (taken + used) = taken + used /\ taken' + used' = taken + used + 1
    BY <1>1
  <2> QED
    BY <2>1, <2>2, <2>3
<1> QED
  BY <1>1, <1>5, <1>6, <1>7 DEF NetInv

-----------------------------------------------------------------------------
(***************************************************************************)
(* The calls of the program                                                *)
(***************************************************************************)

LEMMA CallLearns ==
    ASSUME NetInv, NEW a \in Meanwhile, NEW ou \in Outcomes, NEW o \in Outcomes,
           faults' = faults + Faulty(ou) + Faulty(o),
           Arrive(a[1], a[2]), Info(a[2], ou)
    PROVE  /\ Learned /\ faults' \in Nat /\ faults' >= faults
           /\ o # "ok" => faults' > 0
<1>1. /\ faults \in Nat /\ Faulty(ou) \in Nat /\ Faulty(o) \in Nat
      /\ (ou # "ok" => Faulty(ou) = 1) /\ (o # "ok" => Faulty(o) = 1)
  BY DEF Faulty, NetInv, Peeked
<1>2. /\ faults' \in Nat /\ faults' >= faults /\ (o # "ok" => faults' > 0)
      /\ (ou # "ok" => faults' > 0)
  BY <1>1
<1>3. Learned
  BY <1>2, MeanwhileType, UpdateLearns
<1> QED
  BY <1>2, <1>3

(* The call that finds the connection closed.                              *)
LEMMA EndKeeps ==
    ASSUME NetInv, Learned, faults' \in Nat, faults' >= faults,
           info'.state = "closed",
           UNCHANGED <<taken, chars, used, force, got, forgot, careful>>
    PROVE  NetInv'
BY LearningKeeps

LEMMA NothingGot ==
    ASSUME NetInv, NEW bytes, Gets(FALSE, bytes)
    PROVE  got' = got /\ got' = got \o Bytes(taken + used, 0)
<1>1. got \in Seq(Nat) /\ taken + used \in Nat
  <2>1. Len(chars) \in Nat
    BY DEF NetInv, Peeked
  <2> QED
    BY <2>1 DEF NetInv, Peeked
<1>2. got' = got \o <<>>
  BY DEF Gets
<1> QED
  BY <1>1, <1>2, NoBytes

(* A command that brings the program nothing.                              *)
LEMMA NothingKeeps ==
    ASSUME NetInv, Reads, NEW o \in Outcomes, o # "ok" => faults' > 0,
           NEW bytes, Gets(FALSE, bytes), NoChars(o), taken' = Removed(o)
    PROVE  NetInv'
<1>1. got' = got /\ got' = got \o Bytes(taken + used, 0)
  BY NothingGot
<1>2. CASE o = "unrun"
  <2>1. NeverRan
    BY <1>1, <1>2 DEF NeverRan, NoChars, Removed
  <2> QED
    BY <2>1, NeverRanKeeps
<1>3. CASE o # "unrun"
  <2>1. taken' = (IF open' THEN taken + used ELSE taken) + 0
    BY <1>3, ReadsFacts DEF Removed
  <2>2. Removes(0, 0)
    BY <1>1, <2>1 DEF Removes, NoChars
  <2>3. 0 <= There /\ 0 \in Nat
    BY ReadsFacts
  <2> QED
    BY <2>2, <2>3, RemovesKeeps
<1> QED
  BY <1>2, <1>3

LEMMA LessNat ==
    ASSUME NEW x \in Nat, NEW y \in Nat
    PROVE  Less(x, y) \in Nat /\ Less(x, y) <= x /\ Less(x, y) <= y
           /\ (x > 0 /\ y > 0 => Less(x, y) > 0)
BY DEF Less

LEMMA CharKeeps ==
    ASSUME NetInv, Reads, NEW o \in Outcomes, o # "ok" => faults' > 0,
           NEW k, Char(o, k)
    PROVE  NetInv'
<1>1. /\ There \in Nat /\ There = Left(used) /\ taken \in Nat /\ used \in Nat
      /\ (~open' => There = 0) /\ taken + used \in Nat
  BY ReadsFacts
<1>2. \A x \in Nat : x = taken + used + 1 => <<x>> = Bytes(taken + used, 1)
  <2> TAKE x \in Nat
  <2> HAVE x = taken + used + 1
  <2>1. Bytes(taken + used, 1) \in Seq(Nat) /\ Len(Bytes(taken + used, 1)) = 1
        /\ Bytes(taken + used, 1)[1] = taken + used + 1
    <3>1. 1 \in Nat /\ 1 \in 1 .. 1
      OBVIOUS
    <3> QED
      BY <1>1, <3>1, BytesType
  <2>2. <<x>> \in Seq(Nat) /\ Len(<<x>>) = 1 /\ <<x>>[1] = x
    OBVIOUS
  <2>3. \A i \in 1 .. 1 : <<x>>[i] = Bytes(taken + used, 1)[i]
    BY <2>1, <2>2
  <2> QED
    BY <2>1, <2>2, <2>3, SeqEqual
<1>3. CASE used < Len(chars)
  <2>1. /\ Gets(TRUE, <<chars[used + 1]>>) /\ used' = used + 1
        /\ UNCHANGED <<taken, chars, forgot>>
    BY <1>3 DEF Char
  <2>2. chars[used + 1] = taken + (used + 1)
    <3>1. used + 1 \in 1 .. Len(chars)
      BY <1>1, <1>3 DEF NetInv, Peeked
    <3> QED
      BY <3>1 DEF NetInv, Peeked
  <2>3. chars[used + 1] \in Nat /\ chars[used + 1] = taken + used + 1
    BY <1>1, <2>2
  <2>4. got' = got \o Bytes(taken + used, 1)
    BY <1>2, <2>1, <2>3 DEF Gets
  <2> QED
    BY <1>3, <2>1, <2>4, UsesByte
<1>4. CASE ~(used < Len(chars))
  <2> DEFINE n == Less(MaxChars, Left(used))
             peeked == Bytes(taken + used, n)
  <2>1. /\ taken' = Removed(o)
        /\ IF o = "ok" /\ peeked # <<>>
           THEN /\ chars' = peeked /\ used' = 1 /\ UNCHANGED forgot
                /\ Gets(TRUE, <<Head(peeked)>>)
           ELSE NoChars(o) /\ Gets(FALSE, <<>>)
    BY <1>4 DEF Char
  <2>2. n \in Nat /\ n <= There
    BY <1>1, LessNat, NetAssumption
  <2> HIDE DEF n
  <2>3. CASE o = "ok" /\ peeked # <<>>
    <3>1. n > 0
      BY <1>1, <2>2, <2>3, NoBytes
    <3>2. open' /\ n \in Nat \ {0}
      BY <1>1, <2>2, <3>1
    <3>3. Head(peeked) = taken + used + 1
      BY <1>1, <3>2, BytesType
    <3>4. got' = got \o Bytes(taken + used, 1)
      <4>1. got' = got \o <<Head(peeked)>>
        BY <2>1, <2>3 DEF Gets
      <4>2. Head(peeked) \in Nat
        BY <1>1, <3>3
      <4> QED
        BY <1>2, <3>3, <4>1, <4>2
    <3>5. taken' = taken + used
      BY <2>1, <2>3, <3>2 DEF Removed
    <3> QED
      BY <2>1, <2>2, <2>3, <3>2, <3>4, <3>5, FillsBuffer
  <2>4. CASE ~(o = "ok" /\ peeked # <<>>)
    BY <2>1, <2>4, NothingKeeps
  <2> QED
    BY <2>3, <2>4
<1> QED
  BY <1>3, <1>4

LEMMA GetCharStep ==
    ASSUME NetInv, GetChar PROVE NetInv'
<1>1. PICK a \in Meanwhile, ou \in Outcomes, o \in Outcomes :
         /\ faults' = faults + Faulty(ou) + Faulty(o)
         /\ Arrive(a[1], a[2]) /\ Info(a[2], ou)
         /\ IF info'.state = "closed"
            THEN UNCHANGED <<taken, chars, used, force, got, forgot>>
            ELSE Char(o, a[1]) /\ UNCHANGED eof
         /\ UNCHANGED careful
  BY DEF GetChar, Call
<1>2. /\ Learned /\ faults' \in Nat /\ faults' >= faults
      /\ (o # "ok" => faults' > 0)
  BY <1>1, CallLearns
<1>3. CASE info'.state = "closed"
  BY <1>1, <1>2, <1>3, EndKeeps
<1>4. CASE info'.state # "closed"
  BY <1>1, <1>2, <1>4, CharKeeps DEF Reads
<1> QED
  BY <1>3, <1>4

(* The parts of a block.                                                   *)
LEMMA ReachRanges ==
    ASSUME NEW n \in Lengths, NEW fast \in BOOLEAN
    PROVE  /\ Parts(n, fast) \in Int
           /\ Reach(n, fast, Parts(n, fast)) = n /\ n \in Nat \ {0}
           /\ Parts(n, fast) > 0 => Reach(n, fast, 0) = 0
           /\ \A i \in 0 .. Parts(n, fast), j \in 0 .. Parts(n, fast) : i <= j =>
                 /\ Reach(n, fast, i) \in Nat /\ Reach(n, fast, j) \in Nat
                 /\ Reach(n, fast, i) <= Reach(n, fast, j)
<1>1. n \in Nat \ {0} /\ Sector \in Nat \ {0} /\ FastRam \in Nat \ {0}
  BY NetAssumption
<1> DEFINE L == Long(n)
           S == Size(n, fast)
           P == Parts(n, fast)
<1>2. L \in Nat /\ L <= n
  <2>1. n % Sector \in 0 .. Sector - 1
    BY <1>1
  <2>2. n % Sector <= n
    <3>1. CASE n >= Sector
      BY <1>1, <2>1, <3>1
    <3>2. CASE n < Sector
      <4>1. n % Sector = n
        BY <1>1, <3>2
      <4> QED
        BY <1>1, <4>1
    <3> QED
      BY <1>1, <3>1, <3>2
  <2> QED
    BY <1>1, <2>1, <2>2 DEF Long
<1>3. S \in Nat /\ (L # 0 => S \in Nat \ {0})
  BY <1>1, <1>2 DEF Size
<1>4. LongParts(n, fast) \in Int
  <2>1. CASE L = 0
    BY <2>1 DEF LongParts
  <2>2. CASE L # 0
    <3>1. (L + S - 1) \div S \in Int
      BY <1>2, <1>3, <2>2
    <3> QED
      BY <2>2, <3>1 DEF LongParts
  <2> QED
    BY <2>1, <2>2
<1>5. P \in Int
  BY <1>1, <1>2, <1>4 DEF Parts
<1> HIDE DEF L, S, P
<1>6. Reach(n, fast, P) = n
  BY DEF Reach, P
<1>7. \A i \in Nat : i # P => Reach(n, fast, i) = Less(i * S, L)
  BY DEF Reach, P, S, L
<1>8. P > 0 => Reach(n, fast, 0) = 0
  <2>1. P > 0 => 0 # P
    BY <1>5
  <2>2. 0 * S = 0
    BY <1>3
  <2>3. Less(0, L) = 0
    BY <1>2 DEF Less
  <2> QED
    BY <1>7, <2>1, <2>2, <2>3
<1>9. ASSUME NEW i \in 0 .. P, NEW j \in 0 .. P, i <= j
      PROVE  /\ Reach(n, fast, i) \in Nat /\ Reach(n, fast, j) \in Nat
             /\ Reach(n, fast, i) <= Reach(n, fast, j)
  <2>1. ASSUME NEW m \in Nat PROVE m * S \in Nat
    BY <1>3
  <2>2. ASSUME NEW m \in Nat, m # P
        PROVE  Reach(n, fast, m) \in Nat /\ Reach(n, fast, m) <= L
    BY <1>2, <1>7, <2>1, <2>2, LessNat
  <2>3. CASE j = P
    <3>1. CASE i = P
      BY <1>1, <1>6, <2>3, <3>1
    <3>2. CASE i # P
      BY <1>1, <1>2, <1>5, <1>6, <2>2, <2>3, <3>2
    <3> QED
      BY <3>1, <3>2
  <2>4. CASE j # P
    <3>1. i \in Nat /\ j \in Nat /\ i # P /\ j - i \in Nat
      BY <1>5, <1>9, <2>4
    <3>2. j * S = i * S + (j - i) * S
      BY <1>3, <3>1
    <3>3. i * S \in Nat /\ (j - i) * S \in Nat /\ j * S \in Nat
      BY <2>1, <3>1
    <3>4. \A x, y, z \in Nat : y = x + z => Less(x, L) <= Less(y, L)
      BY <1>2 DEF Less
    <3>5. Less(i * S, L) <= Less(j * S, L)
      BY <3>2, <3>3, <3>4
    <3>6. Reach(n, fast, i) = Less(i * S, L) /\ Reach(n, fast, j) = Less(j * S, L)
      BY <1>7, <2>4, <3>1
    <3> QED
      BY <2>2, <2>4, <3>1, <3>5, <3>6
  <2> QED
    BY <2>3, <2>4
<1> QED
  BY <1>1, <1>5, <1>6, <1>8, <1>9 DEF P

LEMMA BlockKeeps ==
    ASSUME NetInv, Reads, NEW o \in Outcomes, o # "ok" => faults' > 0,
           NEW n \in Lengths, NEW fast \in BOOLEAN,
           NEW at \in 1 .. Parts(n, fast), careful => Parts(n, fast) = 1,
           Block(n, fast, o, at)
    PROVE  NetInv'
<1> DEFINE P == Parts(n, fast)
           R(i) == Reach(n, fast, i)
<1>1. PICK done \in 0 .. P :
        LET all  == o = "ok" /\ done = P
            ran  == IF o = "ok" THEN done
                    ELSE Less(done, IF o = "run" THEN at ELSE at - 1)
            none == o = "unrun" /\ at = 1
        IN /\ Done(n, fast, done)
           /\ taken' = Removed(IF none THEN "unrun" ELSE "ok") + R(ran)
           /\ NoChars(IF none THEN "unrun" ELSE "ok")
           /\ Gets(all, Bytes(taken + used, n))
  BY DEF Block
<1> DEFINE all == o = "ok" /\ done = P
           ran == IF o = "ok" THEN done
                  ELSE Less(done, IF o = "run" THEN at ELSE at - 1)
<1>2. /\ P \in Int /\ P > 0 /\ R(P) = n /\ n \in Nat /\ R(0) = 0
      /\ \A i \in 0 .. P, j \in 0 .. P : i <= j =>
            R(i) \in Nat /\ R(j) \in Nat /\ R(i) <= R(j)
  <2>1. Parts(n, fast) \in Int
    BY ReachRanges
  <2>2. Parts(n, fast) > 0
    BY <2>1
  <2> QED
    BY <2>1, <2>2, ReachRanges
<1>3. /\ There \in Nat /\ There = Left(used) /\ taken \in Nat /\ used \in Nat
      /\ (~open' => There = 0)
  BY ReadsFacts
<1>4. done > 0 => R(done) <= There
  BY <1>1, <1>3 DEF Done
<1>5. ran \in 0 .. done
  <2> DEFINE b == IF o = "run" THEN at ELSE at - 1
  <2>1. done \in Nat /\ b \in Nat
    BY <1>2
  <2>2. Less(done, b) \in Nat /\ Less(done, b) <= done
    BY <2>1, LessNat
  <2> QED
    BY <2>1, <2>2
<1> HIDE DEF P, R
<1>6. R(ran) \in Nat /\ R(ran) <= There
  <2>1. ran \in 0 .. P /\ done \in 0 .. P /\ ran <= done
    BY <1>2, <1>5
  <2>2. R(ran) \in Nat /\ R(done) \in Nat /\ R(ran) <= R(done)
    BY <1>2, <2>1
  <2>3. R(done) <= There
    BY <1>2, <1>3, <1>4, <2>1
  <2> QED
    BY <1>3, <2>2, <2>3
<1>7. CASE o = "unrun" /\ at = 1
  <2>1. ran = 0
    BY <1>7, <1>2 DEF Less
  <2>2. taken' = Removed("unrun") /\ NoChars("unrun")
    BY <1>1, <1>2, <1>3, <1>7, <2>1 DEF Removed, R
  <2>3. Gets(FALSE, Bytes(taken + used, n))
    BY <1>1, <1>7
  <2>4. faults' > 0
    BY <1>7
  <2> QED
    BY <2>2, <2>3, <2>4, NothingKeeps DEF Outcomes
<1>8. CASE ~(o = "unrun" /\ at = 1)
  <2> DEFINE m == IF all THEN n ELSE 0
  <2>1. taken' = Removed("ok") + R(ran) /\ NoChars("ok")
        /\ Gets(all, Bytes(taken + used, n))
    BY <1>1, <1>8 DEF P, R
  <2>2. got' = got \o Bytes(taken + used, m)
    BY <1>3, <2>1, NothingGot DEF Gets
  <2>3. taken' = (IF open' THEN taken + used ELSE taken) + R(ran)
    BY <2>1 DEF Removed
  <2>4. Removes(R(ran), m)
    BY <2>1, <2>2, <2>3 DEF Removes, NoChars
  <2>5. m \in Nat /\ m <= R(ran)
    BY <1>2, <1>6
  <2>6. careful /\ faults' = 0 => m = R(ran)
    <3> SUFFICES ASSUME careful, faults' = 0 PROVE m = R(ran)
      OBVIOUS
    <3>1. o = "ok" /\ P = 1 /\ ran = done
      BY DEF P
    <3>2. done = 0 \/ done = P
      BY <3>1
    <3> QED
      BY <1>2, <3>1, <3>2
  <2> HIDE DEF m, ran
  <2> QED
    BY <1>6, <2>4, <2>5, <2>6, RemovesKeeps
<1> QED
  BY <1>7, <1>8

LEMMA GetBlockStep ==
    ASSUME NetInv, GetBlock PROVE NetInv'
<1>1. PICK n \in Lengths, fast \in BOOLEAN : \E at \in 1 .. Parts(n, fast) :
         /\ careful => Parts(n, fast) = 1
         /\ Call(FALSE, LAMBDA o, k : Block(n, fast, o, at))
  BY DEF GetBlock
<1>2. PICK at \in 1 .. Parts(n, fast) :
         /\ careful => Parts(n, fast) = 1
         /\ Call(FALSE, LAMBDA o, k : Block(n, fast, o, at))
  BY <1>1
<1>3. PICK a \in Meanwhile, ou \in Outcomes, o \in Outcomes :
         /\ faults' = faults + Faulty(ou) + Faulty(o)
         /\ Arrive(a[1], a[2]) /\ Info(a[2], ou)
         /\ IF info'.state = "closed"
            THEN UNCHANGED <<taken, chars, used, force, got, forgot>>
            ELSE Block(n, fast, o, at) /\ UNCHANGED eof
         /\ UNCHANGED careful
  BY <1>2 DEF Call
<1>4. /\ Learned /\ faults' \in Nat /\ faults' >= faults
      /\ (o # "ok" => faults' > 0)
  BY <1>3, CallLearns
<1>5. CASE info'.state = "closed"
  BY <1>3, <1>4, <1>5, EndKeeps
<1>6. CASE info'.state # "closed"
  BY <1>2, <1>3, <1>4, <1>6, BlockKeeps DEF Reads
<1> QED
  BY <1>5, <1>6

LEMMA LineKeeps ==
    ASSUME NetInv, Reads, NEW o \in Outcomes, o # "ok" => faults' > 0,
           NEW n \in Lengths, Line(n, o)
    PROVE  NetInv'
<1>1. PICK i \in 0 .. Left(used) :
        LET fits == i \in 1 .. n
        IN /\ taken' = Removed(o) + (IF fits /\ o # "unrun" THEN i ELSE 0)
           /\ NoChars(o)
           /\ Gets(fits /\ o = "ok", Bytes(taken + used, i))
  BY DEF Line
<1> DEFINE fits == i \in 1 .. n
           r == IF fits THEN i ELSE 0
           m == IF fits /\ o = "ok" THEN i ELSE 0
<1>2. There \in Nat /\ There = Left(used) /\ taken \in Nat /\ used \in Nat
  BY ReadsFacts
<1>3. CASE o = "unrun"
  <2>1. taken' = Removed(o)
    BY <1>1, <1>2, <1>3 DEF Removed
  <2>2. Gets(FALSE, Bytes(taken + used, i))
    BY <1>1, <1>3
  <2> QED
    BY <1>1, <2>1, <2>2, NothingKeeps
<1>4. CASE o # "unrun"
  <2>1. got' = got \o Bytes(taken + used, m)
    BY <1>1, NothingGot DEF Gets
  <2>2. taken' = (IF open' THEN taken + used ELSE taken) + r
    BY <1>1, <1>4 DEF Removed
  <2>3. Removes(r, m)
    BY <1>1, <2>1, <2>2 DEF Removes, NoChars
  <2>4. m \in Nat /\ r \in Nat /\ m <= r /\ r <= There
    BY <1>2
  <2>5. careful /\ faults' = 0 => m = r
    OBVIOUS
  <2> HIDE DEF m, r
  <2> QED
    BY <2>3, <2>4, <2>5, RemovesKeeps
<1> QED
  BY <1>3, <1>4

LEMMA GetLineStep ==
    ASSUME NetInv, GetLine PROVE NetInv'
<1>1. PICK n \in Lengths : Call(FALSE, LAMBDA o, k : Line(n, o))
  BY DEF GetLine
<1>2. PICK a \in Meanwhile, ou \in Outcomes, o \in Outcomes :
         /\ faults' = faults + Faulty(ou) + Faulty(o)
         /\ Arrive(a[1], a[2]) /\ Info(a[2], ou)
         /\ IF info'.state = "closed"
            THEN UNCHANGED <<taken, chars, used, force, got, forgot>>
            ELSE Line(n, o) /\ UNCHANGED eof
         /\ UNCHANGED careful
  BY <1>1 DEF Call
<1>3. /\ Learned /\ faults' \in Nat /\ faults' >= faults
      /\ (o # "ok" => faults' > 0)
  BY <1>2, CallLearns
<1>4. CASE info'.state = "closed"
  BY <1>2, <1>3, <1>4, EndKeeps
<1>5. CASE info'.state # "closed"
  BY <1>1, <1>2, <1>3, <1>5, LineKeeps DEF Reads
<1> QED
  BY <1>4, <1>5

LEMMA NdbKeeps ==
    ASSUME NetInv, Reads, ~careful, NEW o \in Outcomes, NEW od \in Outcomes,
           o # "ok" \/ od # "ok" => faults' > 0,
           NEW late \in {0, 1}, NEW mem \in Nat, Ndb(o, od, late, mem)
    PROVE  NetInv'
<1> DEFINE first == Less(BuffSize, Left(used) - late)
           data  == Less(BuffSize, Left(used))
           kept  == Less(first, mem)
<1>1. /\ late > 0 => Left(used) > late
      /\ IF o # "ok" \/ mem = 0
         THEN taken' = Removed(o) /\ Gets(FALSE, <<>>)
         ELSE /\ taken' = Removed(o) + (IF od = "unrun" THEN 0 ELSE data)
              /\ Gets(od = "ok", Bytes(taken + used, kept))
      /\ NoChars(o)
  BY DEF Ndb
<1>2. There \in Nat /\ There = Left(used) /\ taken \in Nat /\ used \in Nat
  BY ReadsFacts
<1>3. CASE o # "ok" \/ mem = 0
  BY <1>1, <1>3, NothingKeeps
<1>4. CASE ~(o # "ok" \/ mem = 0)
  <2> DEFINE r == IF od = "unrun" THEN 0 ELSE data
             m == IF od = "ok" THEN kept ELSE 0
  <2>1. data \in Nat /\ data <= There
    BY <1>2, LessNat, NetAssumption
  <2>2. kept \in Nat /\ kept <= data
    <3>1. Left(used) - late \in Nat /\ BuffSize \in Nat /\ Left(used) \in Nat
      BY <1>1, <1>2, NetAssumption
    <3>2. first \in Nat /\ first <= data
      BY <3>1 DEF Less
    <3> HIDE DEF first, data
    <3>3. kept \in Nat /\ kept <= first
      BY <3>2, LessNat
    <3> QED
      BY <2>1, <3>2, <3>3
  <2> HIDE DEF data, kept
  <2>3. got' = got \o Bytes(taken + used, m)
    BY <1>1, <1>4, NothingGot DEF Gets, kept
  <2>4. taken' = (IF open' THEN taken + used ELSE taken) + r
    BY <1>1, <1>4 DEF Removed, data
  <2>5. Removes(r, m)
    BY <1>1, <2>3, <2>4 DEF Removes, NoChars
  <2>6. m \in Nat /\ r \in Nat /\ m <= r /\ r <= There
    BY <1>2, <2>1, <2>2
  <2> HIDE DEF m, r
  <2> QED
    BY <2>5, <2>6, RemovesKeeps
<1> QED
  BY <1>3, <1>4

LEMMA GetNdbStep ==
    ASSUME NetInv, GetNdb PROVE NetInv'
<1>1. PICK second \in BOOLEAN, late \in {0, 1}, mem \in {0, 1, BuffSize} :
        /\ ~careful
        /\ Call(FALSE, LAMBDA o, k :
                           /\ late <= k
                           /\ Ndb(IF second THEN "ok" ELSE o,
                                  IF second THEN o ELSE "ok", late, mem))
  BY DEF GetNdb
<1>2. PICK a \in Meanwhile, ou \in Outcomes, o \in Outcomes :
         /\ faults' = faults + Faulty(ou) + Faulty(o)
         /\ Arrive(a[1], a[2]) /\ Info(a[2], ou)
         /\ IF info'.state = "closed"
            THEN UNCHANGED <<taken, chars, used, force, got, forgot>>
            ELSE /\ Ndb(IF second THEN "ok" ELSE o,
                        IF second THEN o ELSE "ok", late, mem)
                 /\ UNCHANGED eof
         /\ UNCHANGED careful
  BY <1>1 DEF Call
<1>3. /\ Learned /\ faults' \in Nat /\ faults' >= faults
      /\ (o # "ok" => faults' > 0)
  BY <1>2, CallLearns
<1>4. CASE info'.state = "closed"
  BY <1>2, <1>3, <1>4, EndKeeps
<1>5. CASE info'.state # "closed"
  <2>1. Reads
    BY <1>2, <1>3, <1>5 DEF Reads
  <2>2. mem \in Nat /\ "ok" \in Outcomes
    BY NetAssumption DEF Outcomes
  <2> DEFINE p == IF second THEN "ok" ELSE o
             q == IF second THEN o ELSE "ok"
  <2>3. p \in Outcomes /\ q \in Outcomes /\ (p # "ok" \/ q # "ok" => faults' > 0)
    BY <1>3, <2>2
  <2>4. Ndb(p, q, late, mem)
    BY <1>2, <1>5
  <2> HIDE DEF p, q
  <2> QED
    BY <1>1, <2>1, <2>2, <2>3, <2>4, NdbKeeps
<1> QED
  BY <1>4, <1>5

-----------------------------------------------------------------------------
(***************************************************************************)
(* Every step keeps the invariant, and the properties that follow from it. *)
(***************************************************************************)

LEMMA InvNext == ASSUME NetInv, [Next]_vars PROVE NetInv'
<1>1. CASE PeerSends \/ PeerCloses
  BY <1>1, PeerSteps
<1>2. CASE VblUpdate
  BY <1>2, VblStep
<1>3. CASE ByteCount
  BY <1>3, ByteCountStep
<1>4. CASE GetChar
  BY <1>4, GetCharStep
<1>5. CASE GetBlock
  BY <1>5, GetBlockStep
<1>6. CASE GetLine
  BY <1>6, GetLineStep
<1>7. CASE GetNdb
  BY <1>7, GetNdbStep
<1>8. CASE UNCHANGED vars
  BY <1>8 DEF vars, update, read, NetInv, Peeked, Ended, Behind, NoGaps, Bytes
<1> QED
  BY <1>1, <1>2, <1>3, <1>4, <1>5, <1>6, <1>7, <1>8 DEF Next

LEMMA Invariant == Spec => []NetInv
<1>1. Init => NetInv
  BY InvInit
<1>2. NetInv /\ [Next]_vars => NetInv'
  BY InvNext
<1> QED
  BY <1>1, <1>2, PTL DEF Spec

(* Whatever calls CNget_char(), CNget_block(), CNgets(), CNget_NDB() and   *)
(* CNbyte_count() are mixed, however the peer's bytes arrive between them  *)
(* and whichever commands fail, the program gets no byte twice nor out of  *)
(* order, unless the command that was to remove used bytes never ran.      *)
THEOREM NoneTwiceHolds == Spec => []NoneTwice
<1>1. NetInv => NoneTwice
  BY NetProperties
<1> QED
  BY <1>1, Invariant, PTL

(* The Atari's buffer and the socket on the Raspberry Pi are in step: a    *)
(* program that keeps to calls of one command gets all that was removed    *)
(* from the socket, and charsUsed of the bytes CNget_char() peeked at.     *)
THEOREM InStepHolds == Spec => []InStep
<1>1. NetInv => InStep
  BY NetProperties
<1> QED
  BY <1>1, Invariant, PTL

(* A program that is told E_EOF has all the peer sent, unless              *)
(* didSocketHangUp() closed a socket in which bytes had just arrived.      *)
THEOREM EofIsEndHolds == Spec => []EofIsEnd
<1>1. NetInv => EofIsEnd
  BY NetProperties
<1> QED
  BY <1>1, Invariant, PTL
=============================================================================
