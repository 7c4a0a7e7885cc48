----------------------------- MODULE IkbdProofs -----------------------------
(***************************************************************************)
(* Proofs about FranzUart, the bytes between the ST, its keyboard and the  *)
(* Raspberry Pi, and about IkbdKeys, what the Raspberry Pi makes of the    *)
(* keys: for buffers, inputs, reads, keyboards and batches of any size.    *)
(*                                                                         *)
(* FranzUart.  Path is all that is on the way to the RPi, ToSt all that is *)
(* at or on the way to the ST.  A step does one of few things to them      *)
(* (StepKinds): nothing; a byte with its mark is appended to Path, whole   *)
(* or, if the buffer is full, without its mark, its byte or both; a byte   *)
(* or a packet is appended to ToSt; a read moves the front of Path to what *)
(* was taken.  Final is what the RPi has after all of Path: the division   *)
(* by marks of a concatenation is that of its parts, one after the other   *)
(* (AfterConcat), so reads leave it as it is, however they cut the pairs.  *)
(*                                                                         *)
(* IkbdKeys.  InCall is an invariant of the calls, kept by every single    *)
(* key of a batch: the counters are the keys that are held, what the ST    *)
(* was told has the meaning now that it had when it was told, and the      *)
(* joystick's axis and button are those of keys that are held.             *)
(***************************************************************************)
EXTENDS FranzUart, IkbdKeys, FiniteSetTheorems, SequenceTheorems,
        WellFoundedInduction, TLAPS

-----------------------------------------------------------------------------
(* Induction.  The library's induction theorems take an operator for the   *)
(* property; a set for it says the same.                                   *)

LEMMA NatWellFounded == IsWellFoundedOn({ss \in Nat \X Nat : ss[1] < ss[2]}, Nat)
BY NatLessThanWellFounded DEF OpToRel

(* A set of natural numbers that is not empty has a least element.         *)
LEMMA Smallest ==
    ASSUME NEW T, T \subseteq Nat, T # {}
    PROVE  \E x \in T : \A y \in T : x <= y
<1> DEFINE R == {ss \in Nat \X Nat : ss[1] < ss[2]}
<1>1. IsWellFoundedOn(R, Nat)
  BY NatWellFounded
<1> HIDE DEF R
<1>2. PICK x \in T : \A y \in T : ~(<<y, x>> \in R)
  BY <1>1, WFMin
<1>3. ASSUME NEW y \in T
      PROVE  x <= y
  <2>1. ~(<<y, x>> \in R)
    BY <1>2
  <2> QED
    BY <2>1 DEF R
<1> QED
  BY <1>3

(* Induction on natural numbers.                                           *)
LEMMA NatInduct ==
    ASSUME NEW S, 0 \in S, \A n \in Nat : n \in S => n + 1 \in S
    PROVE  Nat \subseteq S
<1> DEFINE T == Nat \ S
<1> SUFFICES ASSUME T # {} PROVE FALSE
  OBVIOUS
<1>1. PICK x \in T : \A y \in T : x <= y
  BY Smallest
<1>2. x # 0
  OBVIOUS
<1>3. x - 1 \in Nat /\ x - 1 \notin T
  BY <1>1, <1>2
<1> QED
  BY <1>1, <1>3

(* Induction on sequences, by their last elements.                         *)
LEMMA SeqInduct ==
    ASSUME NEW B, NEW S, <<>> \in S,
           \A s \in Seq(B), b \in B : s \in S => Append(s, b) \in S
    PROVE  Seq(B) \subseteq S
<1> DEFINE N == {n \in Nat : \A s \in Seq(B) : Len(s) = n => s \in S}
<1>1. 0 \in N
  <2>1. \A s \in Seq(B) : Len(s) = 0 => s = <<>>
    BY EmptySeq
  <2> QED
    BY <2>1
<1>2. ASSUME NEW n \in Nat, n \in N
      PROVE  n + 1 \in N
  <2>1. ASSUME NEW s \in Seq(B), Len(s) = n + 1
        PROVE  s \in S
    <3>1. s # <<>>
      BY <2>1, EmptySeq
    <3>2. PICK t \in Seq(B), b \in B : s = Append(t, b)
      BY <3>1, SequenceEmptyOrAppend
    <3>3. Len(t) \in Nat /\ Len(t) + 1 = Len(s)
      BY <3>2, AppendProperties, LenProperties
    <3>4. t \in S
      BY <1>2, <2>1, <3>3
    <3> QED
      BY <3>2, <3>4
  <2> QED
    BY <2>1
<1> HIDE DEF N
<1>3. Nat \subseteq N
  BY <1>1, <1>2, NatInduct
<1>4. ASSUME NEW s \in Seq(B)
      PROVE  s \in S
  <2>1. Len(s) \in Nat
    BY LenProperties
  <2> QED
    BY <1>3, <2>1 DEF N
<1> QED
  BY <1>4

LEMMA ConcatAppend ==
    ASSUME NEW B, NEW s \in Seq(B), NEW t \in Seq(B), NEW b \in B
    PROVE  s \o Append(t, b) = Append(s \o t, b)
OBVIOUS

-----------------------------------------------------------------------------
(* The pairs of a mark and a byte *)

\* d is the function of Divided, up to the n-th byte.
DivSteps(h, s, n, d) ==
    d = [i \in 0 .. n |-> IF i = 0 THEN [st |-> <<>>, key |-> <<>>, half |-> h]
                          ELSE Paired(d[i - 1], s[i])]

(* There is one.                                                           *)
LEMMA DivExists ==
    ASSUME NEW h, NEW s
    PROVE  \A n \in Nat : \E d : DivSteps(h, s, n, d)
<1> DEFINE N == {n \in Nat : \E d : DivSteps(h, s, n, d)}
<1> DEFINE B == [st |-> <<>>, key |-> <<>>, half |-> h]
<1>1. 0 \in N
  <2> DEFINE d == [i \in 0 .. 0 |-> B]
  <2>1. DivSteps(h, s, 0, d)
    BY DEF DivSteps
  <2> QED
    BY <2>1
<1>2. ASSUME NEW n \in Nat, n \in N
      PROVE  n + 1 \in N
  <2>1. PICK d : DivSteps(h, s, n, d)
    BY <1>2
  <2> DEFINE e == [i \in 0 .. n + 1 |-> IF i = n + 1 THEN Paired(d[n], s[n + 1])
                                        ELSE d[i]]
  <2>2. ASSUME NEW i \in 0 .. n + 1
        PROVE  e[i] = IF i = 0 THEN B ELSE Paired(e[i - 1], s[i])
    BY <2>1 DEF DivSteps
  <2>3. DivSteps(h, s, n + 1, e)
    BY <2>2, Zenon DEF DivSteps
  <2> QED
    BY <2>3
<1> HIDE DEF N
<1>3. Nat \subseteq N
  BY <1>1, <1>2, NatInduct
<1> QED
  BY <1>3 DEF N

(* It only depends on the bytes so far.                                    *)
LEMMA DivAgree ==
    ASSUME NEW h, NEW s, NEW t, NEW n \in Nat, NEW m \in Nat, n <= m,
           \A i \in 1 .. n : s[i] = t[i],
           NEW d, NEW e, DivSteps(h, s, n, d), DivSteps(h, t, m, e)
    PROVE  \A i \in 0 .. n : d[i] = e[i]
<1> DEFINE N == {i \in Nat : i <= n => d[i] = e[i]}
<1>1. 0 \in N
  BY DEF DivSteps
<1>2. ASSUME NEW i \in Nat, i \in N
      PROVE  i + 1 \in N
  <2>1. CASE i + 1 <= n
    <3>1. d[i] = e[i] /\ s[i + 1] = t[i + 1]
      BY <1>2, <2>1
    <3>2. d[i + 1] = Paired(d[i], s[i + 1]) /\ e[i + 1] = Paired(e[i], t[i + 1])
      BY <2>1 DEF DivSteps
    <3> QED
      BY <3>1, <3>2
  <2> QED
    BY <2>1
<1> HIDE DEF N
<1>3. Nat \subseteq N
  BY <1>1, <1>2, NatInduct
<1> QED
  BY <1>3 DEF N

(* Divided() is its last value.                                            *)
LEMMA DivIs ==
    ASSUME NEW h, NEW s, Len(s) \in Nat, NEW d, DivSteps(h, s, Len(s), d)
    PROVE  Divided(h, s) = d[Len(s)]
<1> DEFINE c == CHOOSE e : DivSteps(h, s, Len(s), e)
<1>1. DivSteps(h, s, Len(s), c)
  OBVIOUS
<1>2. Divided(h, s) = c[Len(s)]
  BY DEF Divided, DivSteps
<1> HIDE DEF c
<1>3. \A i \in 0 .. Len(s) : c[i] = d[i]
  BY <1>1, DivAgree
<1> QED
  BY <1>2, <1>3

(* Divided() byte after byte.                                              *)
LEMMA DivEmpty ==
    ASSUME NEW h
    PROVE  Divided(h, <<>>) = [st |-> <<>>, key |-> <<>>, half |-> h]
<1>1. Len(<<>>) = 0
  OBVIOUS
<1>2. PICK d : DivSteps(h, <<>>, 0, d)
  BY DivExists
<1>3. Divided(h, <<>>) = d[0]
  BY <1>1, <1>2, DivIs
<1> QED
  BY <1>2, <1>3 DEF DivSteps

LEMMA DivAppend ==
    ASSUME NEW B, NEW s \in Seq(B), NEW b \in B, NEW h
    PROVE  Divided(h, Append(s, b)) = Paired(Divided(h, s), b)
<1> DEFINE t == Append(s, b)
           n == Len(s)
<1>1. n \in Nat /\ Len(t) = n + 1 /\ t[n + 1] = b /\ \A i \in 1 .. n : s[i] = t[i]
  BY AppendProperties, LenProperties
<1> HIDE DEF t, n
<1>2. PICK d : DivSteps(h, s, n, d)
  BY <1>1, DivExists
<1>3. n + 1 \in Nat
  BY <1>1
<1>4. PICK e : DivSteps(h, t, n + 1, e)
  BY <1>3, DivExists
<1>5. Divided(h, s) = d[n]
  BY <1>1, <1>2, DivIs DEF n
<1>6. Divided(h, t) = e[n + 1]
  BY <1>1, <1>3, <1>4, DivIs
<1>7. n <= n + 1
  BY <1>1
<1>8. \A i \in 0 .. n : d[i] = e[i]
  <2>1. \A k, m \in Nat : k <= m /\ DivSteps(h, s, k, d) /\ DivSteps(h, t, m, e)
                           /\ (\A i \in 1 .. k : s[i] = t[i])
                          => \A i \in 0 .. k : d[i] = e[i]
    BY DivAgree
  <2> QED
    BY <1>1, <1>2, <1>3, <1>4, <1>7, <2>1
<1>9. d[n] = e[n]
  BY <1>1, <1>8
<1>10. e[n + 1] = Paired(e[n], t[n + 1])
  BY <1>1, <1>4 DEF DivSteps
<1> QED
  BY <1>1, <1>5, <1>6, <1>9, <1>10 DEF t

\* What the RPi has of the bytes: commands, keys and the half of a pair.
Rec(B) == [st : Seq(B), key : Seq(B), half : Seq(B)]

\* The same after the bytes s.
After(r, s) == [st   |-> r.st \o Divided(r.half, s).st,
                key  |-> r.key \o Divided(r.half, s).key,
                half |-> Divided(r.half, s).half]

LEMMA RecParts ==
    ASSUME NEW B, NEW r \in Rec(B)
    PROVE  /\ r.st \in Seq(B) /\ r.key \in Seq(B) /\ r.half \in Seq(B)
           /\ r = [st |-> r.st, key |-> r.key, half |-> r.half]
BY DEF Rec

(* One byte: the cases of Paired, spelled out.                             *)
LEMMA PairedCases ==
    ASSUME NEW B, NEW r \in Rec(B), NEW b \in B
    PROVE  /\ Paired(r, b) \in Rec(B)
           /\ r.half = <<"AA">> =>
                Paired(r, b) = [st |-> Append(r.st, b), key |-> r.key, half |-> <<>>]
           /\ r.half = <<"BB">> =>
                Paired(r, b) = [st |-> r.st, key |-> Append(r.key, b), half |-> <<>>]
           /\ r.half \notin {<<"AA">>, <<"BB">>} =>
                Paired(r, b) = [st |-> r.st, key |-> r.key, half |-> <<b>>]
<1>1. /\ r.st \in Seq(B) /\ r.key \in Seq(B) /\ r.half \in Seq(B)
      /\ r = [st |-> r.st, key |-> r.key, half |-> r.half]
  BY RecParts
<1>2. "AA" # "BB" /\ <<"AA">> # <<"BB">>
  <2>1. <<"AA">>[1] # <<"BB">>[1]
    OBVIOUS
  <2> QED
    BY <2>1
<1>3. Append(r.st, b) \in Seq(B) /\ Append(r.key, b) \in Seq(B)
  BY <1>1, AppendProperties
<1>4. <<b>> \in Seq(B) /\ <<>> \in Seq(B)
  OBVIOUS
<1>5. CASE r.half = <<"AA">>
  <2>1. Paired(r, b) = [st |-> Append(r.st, b), key |-> r.key, half |-> <<>>]
    BY <1>1, <1>2, <1>5 DEF Paired
  <2> QED
    BY <1>1, <1>2, <1>3, <1>4, <1>5, <2>1 DEF Rec
<1>6. CASE r.half = <<"BB">>
  <2>1. Paired(r, b) = [st |-> r.st, key |-> Append(r.key, b), half |-> <<>>]
    BY <1>1, <1>2, <1>6 DEF Paired
  <2> QED
    BY <1>1, <1>2, <1>3, <1>4, <1>6, <2>1 DEF Rec
<1>7. CASE r.half \notin {<<"AA">>, <<"BB">>}
  <2>1. Paired(r, b) = [st |-> r.st, key |-> r.key, half |-> <<b>>]
    BY <1>1, <1>7 DEF Paired
  <2>2. Paired(r, b) \in Rec(B)
    BY <1>1, <1>4, <2>1 DEF Rec
  <2> QED
    BY <1>7, <2>1, <2>2
<1> QED
  BY <1>5, <1>6, <1>7

(* What is divided keeps its type.                                         *)
LEMMA DivType ==
    ASSUME NEW B, NEW h \in Seq(B), NEW s \in Seq(B)
    PROVE  Divided(h, s) \in Rec(B)
<1> DEFINE S == {t \in Seq(B) : Divided(h, t) \in Rec(B)}
<1>1. <<>> \in S
  <2>1. Divided(h, <<>>) = [st |-> <<>>, key |-> <<>>, half |-> h]
    BY DivEmpty
  <2>2. <<>> \in Seq(B)
    BY EmptySeq
  <2>3. [st |-> <<>>, key |-> <<>>, half |-> h] \in Rec(B)
    BY <2>2 DEF Rec
  <2> QED
    BY <2>1, <2>2, <2>3
<1>2. ASSUME NEW t \in Seq(B), NEW b \in B, t \in S
      PROVE  Append(t, b) \in S
  <2>1. Divided(h, Append(t, b)) = Paired(Divided(h, t), b)
    BY DivAppend
  <2>2. Divided(h, t) \in Rec(B)
    BY <1>2
  <2>3. Paired(Divided(h, t), b) \in Rec(B)
    BY <2>2, PairedCases
  <2> QED
    BY <2>1, <2>3
<1> HIDE DEF S
<1>3. Seq(B) \subseteq S
  BY <1>1, <1>2, SeqInduct
<1> QED
  BY <1>3 DEF S

(* At most one byte waits for its second one.                              *)
LEMMA DivHalf ==
    ASSUME NEW B, NEW h \in Seq(B), NEW s \in Seq(B), Len(h) <= 1
    PROVE  Len(Divided(h, s).half) <= 1
<1> DEFINE S == {t \in Seq(B) : Len(Divided(h, t).half) <= 1}
<1>1. <<>> \in S
  <2>1. Divided(h, <<>>) = [st |-> <<>>, key |-> <<>>, half |-> h]
    BY DivEmpty
  <2>2. <<>> \in Seq(B)
    BY EmptySeq
  <2> QED
    BY <2>1, <2>2
<1>2. ASSUME NEW t \in Seq(B), NEW b \in B, t \in S
      PROVE  Append(t, b) \in S
  <2> DEFINE d == Divided(h, t)
  <2>1. Divided(h, Append(t, b)) = Paired(d, b)
    BY DivAppend
  <2>2. d \in Rec(B)
    BY DivType
  <2> HIDE DEF d
  <2>3. Paired(d, b).half \in {<<>>, <<b>>}
    BY <2>2, PairedCases
  <2>4. Len(<<>>) <= 1 /\ Len(<<b>>) <= 1
    OBVIOUS
  <2>5. Len(Paired(d, b).half) <= 1
    BY <2>3, <2>4
  <2> QED
    BY <2>1, <2>5, AppendProperties
<1> HIDE DEF S
<1>3. Seq(B) \subseteq S
  BY <1>1, <1>2, SeqInduct
<1> QED
  BY <1>3 DEF S

LEMMA AfterType ==
    ASSUME NEW B, NEW r \in Rec(B), NEW s \in Seq(B)
    PROVE  After(r, s) \in Rec(B)
<1>1. r.half \in Seq(B) /\ r.st \in Seq(B) /\ r.key \in Seq(B)
  BY RecParts
<1> DEFINE d == Divided(r.half, s)
<1>2. d \in Rec(B)
  BY <1>1, DivType
<1> HIDE DEF d
<1>3. d.st \in Seq(B) /\ d.key \in Seq(B) /\ d.half \in Seq(B)
  BY <1>2, RecParts
<1>4. r.st \o d.st \in Seq(B) /\ r.key \o d.key \in Seq(B)
  BY <1>1, <1>3, ConcatProperties
<1> QED
  BY <1>3, <1>4 DEF After, Rec, d

LEMMA AfterEmpty ==
    ASSUME NEW B, NEW r \in Rec(B)
    PROVE  After(r, <<>>) = r
<1>1. r.half \in Seq(B) /\ r.st \in Seq(B) /\ r.key \in Seq(B)
      /\ r = [st |-> r.st, key |-> r.key, half |-> r.half]
  BY RecParts
<1>2. Divided(r.half, <<>>) = [st |-> <<>>, key |-> <<>>, half |-> r.half]
  BY DivEmpty
<1>3. r.st \o <<>> = r.st /\ r.key \o <<>> = r.key
  BY <1>1, ConcatEmptySeq
<1> QED
  BY <1>1, <1>2, <1>3 DEF After

(* One byte more is paired with what was there before.                     *)
LEMMA AfterAppend ==
    ASSUME NEW B, NEW r \in Rec(B), NEW s \in Seq(B), NEW b \in B
    PROVE  After(r, Append(s, b)) = Paired(After(r, s), b)
<1>1. r.half \in Seq(B) /\ r.st \in Seq(B) /\ r.key \in Seq(B)
  BY RecParts
<1> DEFINE d == Divided(r.half, s)
           e == Divided(r.half, Append(s, b))
           a == After(r, s)
<1>2. d \in Rec(B)
  BY <1>1, DivType
<1>3. e = Paired(d, b)
  BY DivAppend
<1>4. a = [st |-> r.st \o d.st, key |-> r.key \o d.key, half |-> d.half]
  BY DEF After
<1>5. After(r, Append(s, b)) = [st |-> r.st \o e.st, key |-> r.key \o e.key,
                                half |-> e.half]
  BY DEF After
<1>6. a \in Rec(B)
  BY AfterType
<1> HIDE DEF d, e, a
<1>7. d.st \in Seq(B) /\ d.key \in Seq(B)
  BY <1>2, RecParts
<1>8. r.st \o Append(d.st, b) = Append(r.st \o d.st, b)
  <2>1. \A x, y \in Seq(B), c \in B : x \o Append(y, c) = Append(x \o y, c)
    BY ConcatAppend
  <2> QED
    BY <1>1, <1>7, <2>1
<1>9. r.key \o Append(d.key, b) = Append(r.key \o d.key, b)
  <2>1. \A x, y \in Seq(B), c \in B : x \o Append(y, c) = Append(x \o y, c)
    BY ConcatAppend
  <2> QED
    BY <1>1, <1>7, <2>1
<1>10. ASSUME d.half = <<"AA">>
       PROVE  After(r, Append(s, b)) = Paired(a, b)
  <2>1. e = [st |-> Append(d.st, b), key |-> d.key, half |-> <<>>]
    BY <1>2, <1>3, <1>10, PairedCases
  <2>2. Paired(a, b) = [st |-> Append(a.st, b), key |-> a.key, half |-> <<>>]
    BY <1>4, <1>6, <1>10, PairedCases
  <2>3. After(r, Append(s, b)) = [st |-> Append(r.st \o d.st, b), key |-> r.key \o d.key,
                                  half |-> <<>>]
    BY <1>5, <1>8, <2>1
  <2>4. a.st = r.st \o d.st /\ a.key = r.key \o d.key
    BY <1>4
  <2> QED
    BY <2>2, <2>3, <2>4
<1>11. ASSUME d.half = <<"BB">>
       PROVE  After(r, Append(s, b)) = Paired(a, b)
  <2>1. e = [st |-> d.st, key |-> Append(d.key, b), half |-> <<>>]
    BY <1>2, <1>3, <1>11, PairedCases
  <2>2. Paired(a, b) = [st |-> a.st, key |-> Append(a.key, b), half |-> <<>>]
    BY <1>4, <1>6, <1>11, PairedCases
  <2>3. After(r, Append(s, b)) = [st |-> r.st \o d.st, key |-> Append(r.key \o d.key, b),
                                  half |-> <<>>]
    BY <1>5, <1>9, <2>1
  <2>4. a.st = r.st \o d.st /\ a.key = r.key \o d.key
    BY <1>4
  <2> QED
    BY <2>2, <2>3, <2>4
<1>12. ASSUME d.half \notin {<<"AA">>, <<"BB">>}
       PROVE  After(r, Append(s, b)) = Paired(a, b)
  <2>1. e = [st |-> d.st, key |-> d.key, half |-> <<b>>]
    BY <1>2, <1>3, <1>12, PairedCases
  <2>2. Paired(a, b) = [st |-> a.st, key |-> a.key, half |-> <<b>>]
    BY <1>4, <1>6, <1>12, PairedCases
  <2> QED
    BY <1>4, <1>5, <2>1, <2>2
<1>13. After(r, Append(s, b)) = Paired(a, b)
  BY <1>10, <1>11, <1>12
<1> QED
  BY <1>13 DEF a

(* The reads may cut the bytes anywhere.                                   *)
LEMMA AfterConcat ==
    ASSUME NEW B, NEW r \in Rec(B), NEW p \in Seq(B), NEW q \in Seq(B)
    PROVE  After(r, p \o q) = After(After(r, p), q)
<1> DEFINE a == After(r, p)
           S == {t \in Seq(B) : After(r, p \o t) = After(a, t)}
<1>1. a \in Rec(B)
  BY AfterType
<1>2. <<>> \in S
  <2>1. p \o <<>> = p
    BY ConcatEmptySeq
  <2>2. After(a, <<>>) = a
    BY <1>1, AfterEmpty
  <2> QED
    BY <2>1, <2>2
<1> HIDE DEF a
<1>3. ASSUME NEW t \in Seq(B), NEW b \in B, t \in S
      PROVE  Append(t, b) \in S
  <2>1. p \o Append(t, b) = Append(p \o t, b)
    BY ConcatAppend
  <2>2. p \o t \in Seq(B) /\ Append(t, b) \in Seq(B)
    BY ConcatProperties, AppendProperties
  <2>3. After(r, Append(p \o t, b)) = Paired(After(r, p \o t), b)
    BY <2>2, AfterAppend
  <2>4. After(a, Append(t, b)) = Paired(After(a, t), b)
    BY <1>1, AfterAppend
  <2> QED
    BY <1>3, <2>1, <2>2, <2>3, <2>4
<1> HIDE DEF S
<1>4. Seq(B) \subseteq S
  BY <1>2, <1>3, SeqInduct
<1> QED
  BY <1>4 DEF S, a

-----------------------------------------------------------------------------
(* Some elements of a sequence *)

\* One element more.
OnlyOne(r, b, T) == IF b \in T THEN Append(r, b) ELSE r

\* d is the function of Only, up to the n-th byte.
OnlySteps(T, s, n, d) ==
    d = [i \in 0 .. n |-> IF i = 0 THEN <<>>
                          ELSE OnlyOne(d[i - 1], s[i], T)]

(* There is one.                                                           *)
LEMMA OnlyExists ==
    ASSUME NEW T, NEW s
    PROVE  \A n \in Nat : \E d : OnlySteps(T, s, n, d)
<1> DEFINE N == {n \in Nat : \E d : OnlySteps(T, s, n, d)}
<1>1. 0 \in N
  <2> DEFINE d == [i \in 0 .. 0 |-> <<>>]
  <2>1. OnlySteps(T, s, 0, d)
    BY DEF OnlySteps
  <2> QED
    BY <2>1
<1>2. ASSUME NEW n \in Nat, n \in N
      PROVE  n + 1 \in N
  <2>1. PICK d : OnlySteps(T, s, n, d)
    BY <1>2
  <2> DEFINE e == [i \in 0 .. n + 1 |-> IF i = n + 1 THEN OnlyOne(d[n], s[n + 1], T)
                                        ELSE d[i]]
  <2>2. ASSUME NEW i \in 0 .. n + 1
        PROVE  e[i] = IF i = 0 THEN <<>> ELSE OnlyOne(e[i - 1], s[i], T)
    BY <2>1 DEF OnlySteps
  <2>3. OnlySteps(T, s, n + 1, e)
    BY <2>2, Zenon DEF OnlySteps
  <2> QED
    BY <2>3
<1> HIDE DEF N
<1>3. Nat \subseteq N
  BY <1>1, <1>2, NatInduct
<1> QED
  BY <1>3 DEF N

(* It only depends on the bytes so far.                                    *)
LEMMA OnlyAgree ==
    ASSUME NEW T, NEW s, NEW t, NEW n \in Nat, NEW m \in Nat, n <= m,
           \A i \in 1 .. n : s[i] = t[i],
           NEW d, NEW e, OnlySteps(T, s, n, d), OnlySteps(T, t, m, e)
    PROVE  \A i \in 0 .. n : d[i] = e[i]
<1> DEFINE N == {i \in Nat : i <= n => d[i] = e[i]}
<1>1. 0 \in N
  BY DEF OnlySteps
<1>2. ASSUME NEW i \in Nat, i \in N
      PROVE  i + 1 \in N
  <2>1. CASE i + 1 <= n
    <3>1. d[i] = e[i] /\ s[i + 1] = t[i + 1]
      BY <1>2, <2>1
    <3>2. d[i + 1] = OnlyOne(d[i], s[i + 1], T) /\ e[i + 1] = OnlyOne(e[i], t[i + 1], T)
      BY <2>1 DEF OnlySteps
    <3> QED
      BY <3>1, <3>2
  <2> QED
    BY <2>1
<1> HIDE DEF N
<1>3. Nat \subseteq N
  BY <1>1, <1>2, NatInduct
<1> QED
  BY <1>3 DEF N

(* Only() is its last value.                                               *)
LEMMA OnlyIs ==
    ASSUME NEW T, NEW s, Len(s) \in Nat, NEW d, OnlySteps(T, s, Len(s), d)
    PROVE  Only(s, T) = d[Len(s)]
<1> DEFINE c == CHOOSE e : OnlySteps(T, s, Len(s), e)
<1>1. OnlySteps(T, s, Len(s), c)
  OBVIOUS
<1>2. Only(s, T) = c[Len(s)]
  BY DEF Only, OnlySteps, OnlyOne
<1> HIDE DEF c
<1>3. \A i \in 0 .. Len(s) : c[i] = d[i]
  BY <1>1, OnlyAgree
<1> QED
  BY <1>2, <1>3

(* Only() byte after byte.                                                 *)
LEMMA OnlyEmpty ==
    ASSUME NEW T
    PROVE  Only(<<>>, T) = <<>>
<1>1. Len(<<>>) = 0
  OBVIOUS
<1>2. PICK d : OnlySteps(T, <<>>, 0, d)
  BY OnlyExists
<1>3. Only(<<>>, T) = d[0]
  BY <1>1, <1>2, OnlyIs
<1> QED
  BY <1>2, <1>3 DEF OnlySteps

LEMMA OnlyAppend ==
    ASSUME NEW B, NEW s \in Seq(B), NEW b \in B, NEW T
    PROVE  Only(Append(s, b), T) = IF b \in T THEN Append(Only(s, T), b) ELSE Only(s, T)
<1> DEFINE t == Append(s, b)
           n == Len(s)
<1>1. n \in Nat /\ Len(t) = n + 1 /\ t[n + 1] = b /\ \A i \in 1 .. n : s[i] = t[i]
  BY AppendProperties, LenProperties
<1> HIDE DEF t, n
<1>2. PICK d : OnlySteps(T, s, n, d)
  BY <1>1, OnlyExists
<1>3. n + 1 \in Nat
  BY <1>1
<1>4. PICK e : OnlySteps(T, t, n + 1, e)
  BY <1>3, OnlyExists
<1>5. Only(s, T) = d[n]
  BY <1>1, <1>2, OnlyIs DEF n
<1>6. Only(t, T) = e[n + 1]
  BY <1>1, <1>3, <1>4, OnlyIs
<1>7. n <= n + 1
  BY <1>1
<1>8. \A i \in 0 .. n : d[i] = e[i]
  <2>1. \A k, m \in Nat : k <= m /\ OnlySteps(T, s, k, d) /\ OnlySteps(T, t, m, e)
                           /\ (\A i \in 1 .. k : s[i] = t[i])
                          => \A i \in 0 .. k : d[i] = e[i]
    BY OnlyAgree
  <2> QED
    BY <1>1, <1>2, <1>3, <1>4, <1>7, <2>1
<1>9. d[n] = e[n]
  BY <1>1, <1>8
<1>10. e[n + 1] = OnlyOne(e[n], t[n + 1], T)
  BY <1>1, <1>4 DEF OnlySteps
<1> QED
  BY <1>1, <1>5, <1>6, <1>9, <1>10 DEF t, OnlyOne

LEMMA OnlyType ==
    ASSUME NEW B, NEW T, NEW s \in Seq(B)
    PROVE  Only(s, T) \in Seq(B)
<1> DEFINE S == {t \in Seq(B) : Only(t, T) \in Seq(B)}
<1>1. <<>> \in S
  <2>1. <<>> \in Seq(B)
    BY EmptySeq
  <2>2. Only(<<>>, T) = <<>>
    BY OnlyEmpty
  <2> QED
    BY <2>1, <2>2
<1>2. ASSUME NEW t \in Seq(B), NEW b \in B, t \in S
      PROVE  Append(t, b) \in S
  <2>1. Only(Append(t, b), T) = IF b \in T THEN Append(Only(t, T), b) ELSE Only(t, T)
    BY OnlyAppend
  <2>2. Append(t, b) \in Seq(B)
    BY <1>2, AppendProperties
  <2>3. Only(Append(t, b), T) \in Seq(B)
    BY <1>2, <2>1, AppendProperties
  <2> QED
    BY <2>2, <2>3
<1> HIDE DEF S
<1>3. Seq(B) \subseteq S
  BY <1>1, <1>2, SeqInduct
<1> QED
  BY <1>3 DEF S

LEMMA OnlyConcat ==
    ASSUME NEW B, NEW T, NEW p \in Seq(B), NEW q \in Seq(B)
    PROVE  Only(p \o q, T) = Only(p, T) \o Only(q, T)
<1> DEFINE S == {t \in Seq(B) : Only(p \o t, T) = Only(p, T) \o Only(t, T)}
<1>1. <<>> \in S
  <2>1. p \o <<>> = p /\ Only(p, T) \o <<>> = Only(p, T)
    BY OnlyType, ConcatEmptySeq
  <2>2. Only(<<>>, T) = <<>> /\ <<>> \in Seq(B)
    BY OnlyEmpty, EmptySeq
  <2> QED
    BY <2>1, <2>2
<1>2. ASSUME NEW t \in Seq(B), NEW b \in B, t \in S
      PROVE  Append(t, b) \in S
  <2>1. p \o Append(t, b) = Append(p \o t, b)
    BY ConcatAppend
  <2>2. p \o t \in Seq(B) /\ Append(t, b) \in Seq(B)
    BY ConcatProperties, AppendProperties
  <2>3. Only(Append(p \o t, b), T) = IF b \in T THEN Append(Only(p \o t, T), b)
                                     ELSE Only(p \o t, T)
    BY <2>2, OnlyAppend
  <2>4. Only(Append(t, b), T) = IF b \in T THEN Append(Only(t, T), b) ELSE Only(t, T)
    BY OnlyAppend
  <2>5. Only(p, T) \in Seq(B) /\ Only(t, T) \in Seq(B)
    BY OnlyType
  <2>6. Only(p, T) \o Append(Only(t, T), b) = Append(Only(p, T) \o Only(t, T), b)
    BY <2>5, ConcatAppend
  <2>7. Only(p \o t, T) = Only(p, T) \o Only(t, T)
    BY <1>2
  <2> QED
    BY <2>1, <2>2, <2>3, <2>4, <2>6, <2>7
<1> HIDE DEF S
<1>3. Seq(B) \subseteq S
  BY <1>1, <1>2, SeqInduct
<1> QED
  BY <1>3 DEF S

-----------------------------------------------------------------------------
(* The types *)

\* The bytes on the way to the RPi: nothing of its own packets.
PathByte == Marks \union StBytes \union KeyBytes

TypeInv ==
    /\ TypeOK
    /\ uart \in Seq(PathByte) /\ dr1 \in Seq(PathByte) /\ buff1 \in Seq(PathByte)
    /\ half \in Seq(PathByte) /\ stGot \in Seq(PathByte) /\ keyGot \in Seq(PathByte)

LEMMA Bytes ==
    /\ PathByte \subseteq Byte /\ StBytes \subseteq PathByte /\ KeyBytes \subseteq PathByte
    /\ Marks \subseteq PathByte /\ "AA" \in Marks /\ "BB" \in Marks
    /\ "usb1" \in Byte /\ "usb2" \in Byte
    /\ "usb1" \notin PathByte /\ "usb2" \notin PathByte
BY BufAssumption DEF PathByte, Byte, Marks

LEMMA SeqSubset ==
    ASSUME NEW S, NEW T, S \subseteq T
    PROVE  Seq(S) \subseteq Seq(T)
BY SeqMonotonic

LEMMA AddedType ==
    ASSUME NEW B, NEW buf \in Seq(B), Len(buf) <= BufSize, NEW b \in B
    PROVE  /\ Added(buf, b) \in Seq(B) /\ Len(Added(buf, b)) <= BufSize
           /\ Dropped(buf, 1) \in {0, 1}
           /\ Dropped(buf, 1) = 0 => Added(buf, b) = Append(buf, b)
           /\ Dropped(buf, 1) = 1 => Added(buf, b) = buf
<1>1. Len(buf) \in Nat /\ BufSize \in Nat
  BY BufAssumption, LenProperties
<1>2. Append(buf, b) \in Seq(B) /\ Len(Append(buf, b)) = Len(buf) + 1
  BY AppendProperties
<1> QED
  BY <1>1, <1>2 DEF Added, Dropped

LEMMA OneByte ==
    ASSUME NEW B, NEW b \in B
    PROVE  <<b>> \in Seq(B) /\ Len(<<b>>) = 1 /\ <<b>> = Append(<<>>, b)
OBVIOUS

\* A register and its buffer, in the order they are transmitted.
LEMMA Shifted ==
    ASSUME NEW B, NEW buf \in Seq(B), buf # <<>>
    PROVE  /\ <<Head(buf)>> \in Seq(B) /\ Len(<<Head(buf)>>) = 1
           /\ Tail(buf) \in Seq(B) /\ Len(Tail(buf)) = Len(buf) - 1 /\ Len(buf) \in Nat
           /\ <<Head(buf)>> \o Tail(buf) = buf
<1>1. Head(buf) \in B /\ Tail(buf) \in Seq(B) /\ Len(Tail(buf)) = Len(buf) - 1
  BY HeadTailProperties
<1>2. Len(buf) \in Nat
  BY LenProperties
<1>3. <<Head(buf)>> \o Tail(buf) = buf
  OBVIOUS
<1> QED
  BY <1>1, <1>2, <1>3, OneByte

(* USART1 can transmit: the bytes move on, in their order.                 *)
LEMMA Tx1Step ==
    ASSUME TypeInv, Tx1
    PROVE  /\ buff1' \in Seq(PathByte) /\ Len(buff1') <= BufSize
           /\ dr1' \in Seq(PathByte) /\ Len(dr1') <= 1 /\ txie1' \in BOOLEAN
           /\ dr1' \o buff1' = dr1 \o buff1
<1>1. /\ buff1 \in Seq(PathByte) /\ Len(buff1) <= BufSize
      /\ dr1 \in Seq(PathByte) /\ Len(dr1) <= 1 /\ txie1 \in BOOLEAN
  BY DEF TypeInv, TypeOK
<1>2. CASE dr1 # <<>> \/ buff1 = <<>>
  <2>1. dr1' = dr1 /\ buff1' = buff1 /\ txie1' \in {txie1, FALSE}
    BY <1>2 DEF Tx1
  <2> QED
    BY <1>1, <2>1
<1>3. CASE dr1 = <<>> /\ buff1 # <<>>
  <2>1. dr1' = <<Head(buff1)>> /\ buff1' = Tail(buff1) /\ txie1' = txie1
    BY <1>3 DEF Tx1
  <2>2. /\ <<Head(buff1)>> \in Seq(PathByte) /\ Len(<<Head(buff1)>>) = 1
        /\ Tail(buff1) \in Seq(PathByte) /\ Len(Tail(buff1)) = Len(buff1) - 1
        /\ Len(buff1) \in Nat /\ <<Head(buff1)>> \o Tail(buff1) = buff1
    BY <1>1, <1>3, Shifted
  <2>3. dr1 \o buff1 = buff1
    BY <1>1, <1>3, ConcatEmptySeq
  <2>4. BufSize \in Nat
    BY BufAssumption
  <2> QED
    BY <1>1, <2>1, <2>2, <2>3, <2>4
<1> QED
  BY <1>2, <1>3

(* USART2 can transmit.                                                    *)
LEMMA Tx2Step ==
    ASSUME TypeInv, Tx2(buff0, dr2, txie2)
    PROVE  /\ buff0' \in Seq(Byte) /\ Len(buff0') <= BufSize
           /\ dr2' \in Seq(Byte) /\ Len(dr2') <= 1 /\ txie2' \in BOOLEAN
           /\ dr2' \o buff0' = dr2 \o buff0
<1>1. /\ buff0 \in Seq(Byte) /\ Len(buff0) <= BufSize
      /\ dr2 \in Seq(Byte) /\ Len(dr2) <= 1 /\ txie2 \in BOOLEAN
  BY DEF TypeInv, TypeOK
<1>2. CASE dr2 # <<>> \/ buff0 = <<>>
  <2>1. dr2' = dr2 /\ buff0' = buff0 /\ txie2' \in {txie2, FALSE}
    BY <1>2 DEF Tx2
  <2> QED
    BY <1>1, <2>1
<1>3. CASE dr2 = <<>> /\ buff0 # <<>>
  <2>1. dr2' = <<Head(buff0)>> /\ buff0' = Tail(buff0) /\ txie2' = txie2
    BY <1>3 DEF Tx2
  <2>2. /\ <<Head(buff0)>> \in Seq(Byte) /\ Len(<<Head(buff0)>>) = 1
        /\ Tail(buff0) \in Seq(Byte) /\ Len(Tail(buff0)) = Len(buff0) - 1
        /\ Len(buff0) \in Nat /\ <<Head(buff0)>> \o Tail(buff0) = buff0
    BY <1>1, <1>3, Shifted
  <2>3. dr2 \o buff0 = buff0
    BY <1>1, <1>3, ConcatEmptySeq
  <2>4. BufSize \in Nat
    BY BufAssumption
  <2> QED
    BY <1>1, <2>1, <2>2, <2>3, <2>4
<1> QED
  BY <1>2, <1>3

\* A byte for the ST, to USART2's register or to its buffer.
Put2(b) == IF Direct2(dr2)
           THEN dr2' = <<b>> /\ UNCHANGED <<buff0, txie2, lost>>
           ELSE /\ buff0' = Added(buff0, b) /\ txie2' = TRUE
                /\ lost' = lost + Dropped(buff0, 1) /\ UNCHANGED dr2

LEMMA Put2Step ==
    ASSUME TypeInv, NEW b \in Byte, Put2(b)
    PROVE  /\ buff0' \in Seq(Byte) /\ Len(buff0') <= BufSize
           /\ dr2' \in Seq(Byte) /\ Len(dr2') <= 1 /\ txie2' \in BOOLEAN
           /\ \/ lost' = lost /\ dr2' \o buff0' = Append(dr2 \o buff0, b)
              \/ lost' = lost + 1
<1>1. /\ buff0 \in Seq(Byte) /\ Len(buff0) <= BufSize /\ lost \in Nat
      /\ dr2 \in Seq(Byte) /\ Len(dr2) <= 1 /\ txie2 \in BOOLEAN
  BY DEF TypeInv, TypeOK
<1>2. CASE Direct2(dr2)
  <2>1. dr2' = <<b>> /\ buff0' = buff0 /\ txie2' = txie2 /\ lost' = lost
    BY <1>2 DEF Put2
  <2>2. buff0 = <<>> /\ dr2 = <<>>
    BY <1>2 DEF Direct2
  <2>3. <<b>> \in Seq(Byte) /\ Len(<<b>>) = 1 /\ <<b>> = Append(<<>>, b)
    BY OneByte
  <2>4. <<b>> \o <<>> = <<b>> /\ <<>> \o <<>> = <<>>
    BY <2>3
  <2> QED
    BY <1>1, <2>1, <2>2, <2>3, <2>4
<1>3. CASE ~Direct2(dr2)
  <2>1. /\ dr2' = dr2 /\ buff0' = Added(buff0, b) /\ txie2' = TRUE
        /\ lost' = lost + Dropped(buff0, 1)
    BY <1>3 DEF Put2
  <2>2. /\ Added(buff0, b) \in Seq(Byte) /\ Len(Added(buff0, b)) <= BufSize
        /\ Dropped(buff0, 1) \in {0, 1}
        /\ Dropped(buff0, 1) = 0 => Added(buff0, b) = Append(buff0, b)
    BY <1>1, AddedType
  <2>3. dr2 \o Append(buff0, b) = Append(dr2 \o buff0, b)
    BY <1>1, ConcatAppend
  <2>4. \/ lost' = lost /\ dr2' \o buff0' = Append(dr2 \o buff0, b)
        \/ lost' = lost + 1
    <3>1. CASE Dropped(buff0, 1) = 0
      BY <1>1, <2>1, <2>2, <2>3, <3>1
    <3>2. CASE Dropped(buff0, 1) = 1
      BY <2>1, <3>2
    <3> QED
      BY <2>2, <3>1, <3>2
  <2> QED
    BY <1>1, <2>1, <2>2, <2>4
<1> QED
  BY <1>2, <1>3

(* A byte for the RPi follows its mark, or is dropped alone or with it.    *)
LEMMA ForRpiStep ==
    ASSUME TypeInv, NEW mark \in Marks, NEW b \in StBytes \union KeyBytes,
           ForRpi(mark, b)
    PROVE  /\ buff1' \in Seq(PathByte) /\ Len(buff1') <= BufSize
           /\ dr1' \in Seq(PathByte) /\ Len(dr1') <= 1 /\ txie1' \in BOOLEAN
           /\ \/ /\ lost' = lost
                 /\ dr1' \o buff1' = Append(Append(dr1 \o buff1, mark), b)
              \/ lost' = lost + 1 /\ dr1' \o buff1' = Append(dr1 \o buff1, mark)
              \/ lost' = lost + 1 /\ dr1' \o buff1' = dr1 \o buff1
<1>1. /\ buff1 \in Seq(PathByte) /\ Len(buff1) <= BufSize /\ lost \in Nat
      /\ dr1 \in Seq(PathByte) /\ Len(dr1) <= 1 /\ txie1 \in BOOLEAN
  BY DEF TypeInv, TypeOK
<1>2. mark \in PathByte /\ b \in PathByte
  BY Bytes
<1>3. BufSize \in Nat \ {0} /\ Len(buff1) \in Nat
  BY <1>1, BufAssumption, LenProperties
<1>4. txie1' = TRUE
  BY DEF ForRpi
<1>5. CASE Direct1
  <2>1. buff1 = <<>> /\ dr1 = <<>> /\ Len(buff1) = 0
    BY <1>5 DEF Direct1
  <2>2. dr1' = <<mark>> /\ buff1' = Added(buff1, b) /\ lost' = lost + Dropped(buff1, 1)
    BY <1>5 DEF ForRpi, Marked
  <2>3. Added(buff1, b) = <<b>> /\ Dropped(buff1, 1) = 0
    BY <1>3, <2>1, OneByte DEF Added, Dropped
  <2>4. <<mark>> \o <<b>> = Append(Append(<<>> \o <<>>, mark), b)
    OBVIOUS
  <2>5. /\ <<mark>> \in Seq(PathByte) /\ Len(<<mark>>) = 1
        /\ <<b>> \in Seq(PathByte) /\ Len(<<b>>) = 1
    BY <1>2, OneByte
  <2>6. lost' = lost /\ buff1' = <<b>>
    BY <1>1, <2>2, <2>3
  <2>7. dr1' \o buff1' = Append(Append(dr1 \o buff1, mark), b)
    BY <2>1, <2>2, <2>4, <2>6
  <2>8. 1 <= BufSize
    BY <1>3
  <2>9. buff1' \in Seq(PathByte) /\ Len(buff1') <= BufSize
    BY <2>5, <2>6, <2>8
  <2>10. dr1' \in Seq(PathByte) /\ Len(dr1') <= 1 /\ txie1' \in BOOLEAN
    BY <1>4, <2>2, <2>5
  <2> QED
    BY <2>6, <2>7, <2>9, <2>10
<1>6. CASE ~Direct1
  <2> DEFINE m == Added(buff1, mark)
  <2>1. dr1' = dr1 /\ buff1' = Added(m, b) /\ lost' = lost + Dropped(buff1, 2)
    BY <1>6 DEF ForRpi, Marked
  <2>2. /\ m \in Seq(PathByte) /\ Len(m) <= BufSize
        /\ Dropped(buff1, 1) = 0 => m = Append(buff1, mark)
        /\ Dropped(buff1, 1) = 1 => m = buff1
    BY <1>1, <1>2, AddedType
  <2>3. Len(Append(buff1, mark)) = Len(buff1) + 1 /\ Append(buff1, mark) \in Seq(PathByte)
    BY <1>1, <1>2, AppendProperties
  <2> HIDE DEF m
  <2>4. /\ Added(m, b) \in Seq(PathByte) /\ Len(Added(m, b)) <= BufSize
        /\ Dropped(m, 1) = 0 => Added(m, b) = Append(m, b)
        /\ Dropped(m, 1) = 1 => Added(m, b) = m
    BY <1>2, <2>2, AddedType
  <2>5. /\ dr1 \o Append(buff1, mark) = Append(dr1 \o buff1, mark)
        /\ dr1 \o Append(Append(buff1, mark), b) = Append(dr1 \o Append(buff1, mark), b)
    BY <1>1, <1>2, <2>3, ConcatAppend
  <2>6. CASE Len(buff1) + 2 <= BufSize
    <3>1. Dropped(buff1, 1) = 0 /\ Dropped(buff1, 2) = 0
      BY <1>3, <2>6 DEF Dropped
    <3>2. m = Append(buff1, mark)
      BY <2>2, <3>1
    <3>3. Dropped(m, 1) = 0
      BY <1>3, <2>3, <2>6, <3>2 DEF Dropped
    <3>4. buff1' = Append(Append(buff1, mark), b) /\ lost' = lost
      BY <1>1, <2>1, <2>4, <3>1, <3>2, <3>3
    <3> QED
      BY <1>1, <1>4, <2>1, <2>4, <2>5, <3>4
  <2>7. CASE Len(buff1) + 1 = BufSize
    <3>1. Dropped(buff1, 1) = 0 /\ Dropped(buff1, 2) = 1
      BY <1>3, <2>7 DEF Dropped
    <3>2. m = Append(buff1, mark)
      BY <2>2, <3>1
    <3>3. Dropped(m, 1) = 1
      BY <1>3, <2>3, <2>7, <3>2 DEF Dropped
    <3>4. buff1' = Append(buff1, mark) /\ lost' = lost + 1
      BY <1>1, <2>1, <2>4, <3>1, <3>2, <3>3
    <3> QED
      BY <1>1, <1>4, <2>1, <2>4, <2>5, <3>4
  <2>8. CASE Len(buff1) = BufSize
    <3>1. Dropped(buff1, 1) = 1 /\ Dropped(buff1, 2) = 1
      BY <1>3, <2>8 DEF Dropped
    <3>2. m = buff1
      BY <2>2, <3>1
    <3>3. Dropped(m, 1) = 1
      BY <3>1, <3>2
    <3>4. buff1' = buff1 /\ lost' = lost + 1
      BY <1>1, <2>1, <2>4, <3>1, <3>2, <3>3
    <3> QED
      BY <1>1, <1>4, <2>1, <2>4, <3>4
  <2>9. Len(buff1) + 2 <= BufSize \/ Len(buff1) + 1 = BufSize \/ Len(buff1) = BufSize
    BY <1>1, <1>3
  <2> QED
    BY <2>6, <2>7, <2>8, <2>9
<1> QED
  BY <1>5, <1>6

-----------------------------------------------------------------------------
(* What the actions do to the two streams *)

\* The bytes on their way to the RPi, and those at or on their way to the ST.
Path == uart \o dr1 \o buff1
ToSt == atSt \o dr2 \o buff0 \o toFranz

LEMMA PathAssoc ==
    \A x, y, z \in Seq(PathByte) : x \o y \o z = x \o (y \o z)
BY ConcatAssociative

LEMMA ByteAssoc ==
    \A x, y, z \in Seq(Byte) : x \o y \o z = x \o (y \o z)
BY ConcatAssociative

\* The types of the variables on the way.
LEMMA TypesOf ==
    ASSUME TypeInv
    PROVE  /\ uart \in Seq(PathByte) /\ dr1 \in Seq(PathByte) /\ buff1 \in Seq(PathByte)
           /\ half \in Seq(PathByte) /\ Len(half) <= 1
           /\ stGot \in Seq(PathByte) /\ keyGot \in Seq(PathByte)
           /\ atSt \in Seq(Byte) /\ dr2 \in Seq(Byte) /\ buff0 \in Seq(Byte)
           /\ toFranz \in Seq(Byte) /\ lost \in Nat
           /\ stSent \in Seq(StBytes) /\ keySent \in Seq(KeyBytes)
           /\ hostIsUp \in BOOLEAN /\ overtook \in BOOLEAN
           /\ Path \in Seq(PathByte) /\ ToSt \in Seq(Byte)
<1>1. uart \in Seq(PathByte) /\ dr1 \in Seq(PathByte) /\ buff1 \in Seq(PathByte)
  BY DEF TypeInv
<1>2. atSt \in Seq(Byte) /\ dr2 \in Seq(Byte) /\ buff0 \in Seq(Byte)
      /\ toFranz \in Seq(Byte)
  BY DEF TypeInv, TypeOK
<1>3. Path \in Seq(PathByte)
  BY <1>1 DEF Path
<1>4. ToSt \in Seq(Byte)
  BY <1>2 DEF ToSt
<1> QED
  BY <1>1, <1>2, <1>3, <1>4 DEF TypeInv, TypeOK

LEMMA PathSeqByte == Seq(PathByte) \subseteq Seq(Byte)
BY Bytes, SeqSubset

LEMMA WireTypes ==
    ASSUME TypeInv
    PROVE  /\ uart \in Seq(PathByte) /\ dr1 \in Seq(PathByte) /\ buff1 \in Seq(PathByte)
           /\ atSt \in Seq(Byte) /\ dr2 \in Seq(Byte) /\ buff0 \in Seq(Byte)
           /\ toFranz \in Seq(Byte)
BY TypesOf

\* The register and the buffer of a UART, taken together.
LEMMA PathSplit ==
    ASSUME uart \in Seq(PathByte), dr1 \in Seq(PathByte), buff1 \in Seq(PathByte)
    PROVE  Path = uart \o (dr1 \o buff1)
BY PathAssoc DEF Path

LEMMA PathSplitNext ==
    ASSUME uart' \in Seq(PathByte), dr1' \in Seq(PathByte), buff1' \in Seq(PathByte)
    PROVE  Path' = uart' \o (dr1' \o buff1')
BY PathAssoc DEF Path

LEMMA ToStSplit ==
    ASSUME atSt \in Seq(Byte), dr2 \in Seq(Byte), buff0 \in Seq(Byte),
           toFranz \in Seq(Byte)
    PROVE  ToSt = atSt \o (dr2 \o buff0) \o toFranz
<1>1. atSt \o dr2 \o buff0 = atSt \o (dr2 \o buff0)
  BY ByteAssoc
<1> QED
  BY <1>1 DEF ToSt

LEMMA ToStSplitNext ==
    ASSUME atSt' \in Seq(Byte), dr2' \in Seq(Byte), buff0' \in Seq(Byte),
           toFranz' \in Seq(Byte)
    PROVE  ToSt' = atSt' \o (dr2' \o buff0') \o toFranz'
<1>1. atSt' \o dr2' \o buff0' = atSt' \o (dr2' \o buff0')
  BY ByteAssoc
<1> QED
  BY <1>1 DEF ToSt

\* Bytes move on, or the RPi is found up or down; a full buffer may drop one.
Quiet ==
    /\ UNCHANGED <<half, stGot, keyGot, stSent, keySent, overtook>> /\ Path' = Path
    /\ lost' = lost + 1 \/ (lost' = lost /\ ToSt' = ToSt)

\* A byte goes to the RPi after its mark.
Carried(mark, b) ==
    /\ UNCHANGED <<half, stGot, keyGot, overtook>> /\ ToSt' = ToSt
    /\ \/ lost' = lost /\ Path' = Append(Append(Path, mark), b)
       \/ lost' = lost + 1 /\ Path' = Append(Path, mark)
       \/ lost' = lost + 1 /\ Path' = Path

\* A key goes straight to the ST.
Straight(b) ==
    /\ UNCHANGED <<half, stGot, keyGot, stSent>> /\ Path' = Path
    /\ keySent' = Append(keySent, b)
    /\ \/ lost' = lost + 1
       \/ lost' = lost /\ overtook'
       \/ /\ lost' = lost /\ overtook' = overtook
          /\ UnderWay.key = <<>> /\ ToSt' = Append(ToSt, b)

LEMMA QuietUsart1Receives ==
    ASSUME TypeInv, Usart1Receives
    PROVE  TypeInv' /\ Quiet
<1>1. /\ toFranz # <<>> /\ toFranz' = Tail(toFranz) /\ Put2(Head(toFranz)) /\ Tx1
      /\ UNCHANGED <<hostIsUp, uart, half, stGot, keyGot, atSt, stSent, keySent,
                     overtook, packets, flips>>
  BY DEF Usart1Receives, Put2
<1>2. /\ <<Head(toFranz)>> \in Seq(Byte) /\ Tail(toFranz) \in Seq(Byte)
      /\ <<Head(toFranz)>> \o Tail(toFranz) = toFranz /\ Head(toFranz) \in Byte
  BY <1>1, TypesOf, Shifted, HeadTailProperties
<1>3. /\ buff1' \in Seq(PathByte) /\ Len(buff1') <= BufSize
      /\ dr1' \in Seq(PathByte) /\ Len(dr1') <= 1 /\ txie1' \in BOOLEAN
      /\ dr1' \o buff1' = dr1 \o buff1
  BY <1>1, Tx1Step
<1>4. /\ buff0' \in Seq(Byte) /\ Len(buff0') <= BufSize
      /\ dr2' \in Seq(Byte) /\ Len(dr2') <= 1 /\ txie2' \in BOOLEAN
      /\ \/ lost' = lost /\ dr2' \o buff0' = Append(dr2 \o buff0, Head(toFranz))
         \/ lost' = lost + 1
  BY <1>1, <1>2, Put2Step
<1>5. lost' \in Nat
  <2>1. lost \in Nat
    BY TypesOf
  <2> QED
    BY <1>4, <2>1
<1>6. buff1' \in Seq(Byte) /\ dr1' \in Seq(Byte)
  BY <1>3, PathSeqByte
<1>7. TypeInv'
  BY <1>1, <1>2, <1>3, <1>4, <1>5, <1>6 DEF TypeInv, TypeOK
<1>8. Path' = Path
  <2>1. Path = uart \o (dr1 \o buff1)
    BY WireTypes, PathSplit
  <2>2. Path' = uart' \o (dr1' \o buff1')
    BY <1>1, <1>3, WireTypes, PathSplitNext
  <2> QED
    BY <1>1, <1>3, <2>1, <2>2
<1>9. ASSUME lost' = lost, dr2' \o buff0' = Append(dr2 \o buff0, Head(toFranz))
      PROVE  ToSt' = ToSt
  <2> DEFINE h == <<Head(toFranz)>>
             t == Tail(toFranz)
             m == dr2 \o buff0
  <2>1. m \in Seq(Byte) /\ h \in Seq(Byte) /\ t \in Seq(Byte) /\ h \o t = toFranz
    BY <1>2, TypesOf, ByteAssoc
  <2>2. Append(m, Head(toFranz)) = m \o h
    BY <1>2, <2>1, AppendIsConcat
  <2>3. ToSt' = atSt \o (dr2' \o buff0') \o t
    <3>1. /\ atSt' \in Seq(Byte) /\ dr2' \in Seq(Byte) /\ buff0' \in Seq(Byte)
          /\ toFranz' \in Seq(Byte)
      BY <1>1, <1>2, <1>4, WireTypes
    <3>2. ToSt' = atSt' \o (dr2' \o buff0') \o toFranz'
      BY <3>1, ToStSplitNext
    <3> QED
      BY <1>1, <3>2
  <2>4. ToSt = atSt \o m \o (h \o t)
    <3>1. ToSt = atSt \o (dr2 \o buff0) \o toFranz
      BY WireTypes, ToStSplit
    <3> QED
      BY <2>1, <3>1
  <2> HIDE DEF h, t, m
  <2>5. atSt \in Seq(Byte) /\ m \in Seq(Byte) /\ h \in Seq(Byte) /\ t \in Seq(Byte)
    BY <2>1, WireTypes
  <2>6. atSt \o (m \o h) \o t = atSt \o m \o (h \o t)
    <3>1. atSt \o (m \o h) = atSt \o m \o h
      BY <2>5, ByteAssoc
    <3> DEFINE p == atSt \o m
    <3>2. p \in Seq(Byte)
      BY <2>5
    <3> HIDE DEF p
    <3>3. p \o h \o t = p \o (h \o t)
      BY <2>5, <3>2, ByteAssoc
    <3> QED
      BY <3>1, <3>3 DEF p
  <2>7. dr2' \o buff0' = m \o h
    BY <1>9, <2>2 DEF m
  <2> QED
    BY <2>3, <2>4, <2>6, <2>7
<1> QED
  BY <1>1, <1>4, <1>7, <1>8, <1>9 DEF Quiet

LEMMA QuietUsart1Transmits ==
    ASSUME TypeInv, Usart1Transmits
    PROVE  TypeInv' /\ Quiet
<1>1. /\ Tx1 /\ UNCHANGED <<hostIsUp, buff0, dr2, txie2, uart, half, toFranz, stGot,
                            keyGot, atSt, stSent, keySent, lost, overtook, packets,
                            flips>>
  BY DEF Usart1Transmits, rpi, ghosts
<1>2. /\ buff1' \in Seq(PathByte) /\ Len(buff1') <= BufSize
      /\ dr1' \in Seq(PathByte) /\ Len(dr1') <= 1 /\ txie1' \in BOOLEAN
      /\ dr1' \o buff1' = dr1 \o buff1
  BY <1>1, Tx1Step
<1>3. buff1' \in Seq(Byte) /\ dr1' \in Seq(Byte)
  BY <1>2, PathSeqByte
<1>4. TypeInv'
  BY <1>1, <1>2, <1>3 DEF TypeInv, TypeOK
<1>5. Path' = Path
  <2>1. Path = uart \o (dr1 \o buff1)
    BY WireTypes, PathSplit
  <2>2. Path' = uart' \o (dr1' \o buff1')
    BY <1>1, <1>2, WireTypes, PathSplitNext
  <2> QED
    BY <1>1, <1>2, <2>1, <2>2
<1>6. ToSt' = ToSt
  BY <1>1 DEF ToSt
<1> QED
  BY <1>1, <1>4, <1>5, <1>6 DEF Quiet

LEMMA QuietUsart2Transmits ==
    ASSUME TypeInv, Usart2Transmits
    PROVE  TypeInv' /\ Quiet
<1>1. /\ Tx2(buff0, dr2, txie2)
      /\ UNCHANGED <<hostIsUp, buff1, dr1, txie1, uart, half, toFranz, stGot, keyGot,
                     atSt, stSent, keySent, lost, overtook, packets, flips>>
  BY DEF Usart2Transmits, rpi, ghosts
<1>2. /\ buff0' \in Seq(Byte) /\ Len(buff0') <= BufSize
      /\ dr2' \in Seq(Byte) /\ Len(dr2') <= 1 /\ txie2' \in BOOLEAN
      /\ dr2' \o buff0' = dr2 \o buff0
  BY <1>1, Tx2Step
<1>3. TypeInv'
  BY <1>1, <1>2 DEF TypeInv, TypeOK
<1>4. Path' = Path
  BY <1>1 DEF Path
<1>5. ToSt' = ToSt
  <2>1. ToSt' = atSt' \o (dr2' \o buff0') \o toFranz'
    BY <1>1, <1>2, WireTypes, ToStSplitNext
  <2>2. ToSt = atSt \o (dr2 \o buff0) \o toFranz
    BY WireTypes, ToStSplit
  <2> QED
    BY <1>1, <1>2, <2>1, <2>2
<1> QED
  BY <1>1, <1>3, <1>4, <1>5 DEF Quiet

LEMMA QuietLine1 ==
    ASSUME TypeInv, Line1
    PROVE  TypeInv' /\ Quiet
<1>1. /\ uart' = uart \o dr1 /\ dr1' = <<>>
      /\ UNCHANGED <<hostIsUp, buff0, buff1, dr2, txie1, txie2, half, toFranz, stGot,
                     keyGot, atSt, stSent, keySent, lost, overtook, packets, flips>>
  BY DEF Line1, ghosts
<1>2. /\ uart \o dr1 \in Seq(PathByte) /\ <<>> \in Seq(PathByte) /\ Len(<<>>) = 0
      /\ <<>> \in Seq(Byte)
  BY TypesOf, PathAssoc, EmptySeq
<1>3. uart \o dr1 \in Seq(Byte)
  BY <1>2, PathSeqByte
<1>4. TypeInv'
  BY <1>1, <1>2, <1>3 DEF TypeInv, TypeOK
<1>5. Path' = Path
  <2>1. uart \o dr1 \o <<>> = uart \o dr1
    BY <1>2, ConcatEmptySeq
  <2> QED
    BY <1>1, <2>1 DEF Path
<1>6. ToSt' = ToSt
  BY <1>1 DEF ToSt
<1> QED
  BY <1>1, <1>4, <1>5, <1>6 DEF Quiet

LEMMA QuietLine2 ==
    ASSUME TypeInv, Line2
    PROVE  TypeInv' /\ Quiet
<1>1. /\ atSt' = atSt \o dr2 /\ dr2' = <<>>
      /\ UNCHANGED <<hostIsUp, buff0, buff1, dr1, txie1, txie2, uart, half, toFranz,
                     stGot, keyGot, stSent, keySent, lost, overtook, packets, flips>>
  BY DEF Line2, rpi, ghosts
<1>2. atSt \o dr2 \in Seq(Byte) /\ <<>> \in Seq(Byte) /\ Len(<<>>) = 0
  BY TypesOf, ByteAssoc, EmptySeq
<1>3. TypeInv'
  BY <1>1, <1>2 DEF TypeInv, TypeOK
<1>4. Path' = Path
  BY <1>1 DEF Path
<1>5. ToSt' = ToSt
  <2>1. atSt \o dr2 \o <<>> = atSt \o dr2
    BY <1>2, ConcatEmptySeq
  <2> QED
    BY <1>1, <2>1 DEF ToSt
<1> QED
  BY <1>1, <1>3, <1>4, <1>5 DEF Quiet

LEMMA QuietHostFlips ==
    ASSUME TypeInv, HostFlips
    PROVE  TypeInv' /\ Quiet
<1>1. /\ flips < MaxFlips /\ flips' = flips + 1 /\ hostIsUp' = ~hostIsUp
      /\ UNCHANGED <<buff0, buff1, dr1, dr2, txie1, txie2, uart, half, toFranz, stGot,
                     keyGot, atSt, stSent, keySent, lost, overtook, packets>>
  BY DEF HostFlips, rpi
<1>2. flips' \in 0 .. MaxFlips
  BY <1>1, BufAssumption DEF TypeInv, TypeOK
<1>3. TypeInv'
  BY <1>1, <1>2 DEF TypeInv, TypeOK
<1>4. Path' = Path /\ ToSt' = ToSt
  BY <1>1 DEF Path, ToSt
<1> QED
  BY <1>1, <1>3, <1>4 DEF Quiet

LEMMA CarriedPath ==
    ASSUME TypeInv, NEW mark \in Marks, NEW b \in StBytes \union KeyBytes,
           ForRpi(mark, b), uart' = uart
    PROVE  \/ lost' = lost /\ Path' = Append(Append(Path, mark), b)
           \/ lost' = lost + 1 /\ Path' = Append(Path, mark)
           \/ lost' = lost + 1 /\ Path' = Path
<1> DEFINE w == dr1 \o buff1
<1>1. uart \in Seq(PathByte) /\ w \in Seq(PathByte)
  BY WireTypes
<1>2. mark \in PathByte /\ b \in PathByte
  BY Bytes
<1>3. Path = uart \o w
  BY WireTypes, PathSplit
<1>4. /\ buff1' \in Seq(PathByte) /\ dr1' \in Seq(PathByte)
      /\ \/ lost' = lost /\ dr1' \o buff1' = Append(Append(w, mark), b)
         \/ lost' = lost + 1 /\ dr1' \o buff1' = Append(w, mark)
         \/ lost' = lost + 1 /\ dr1' \o buff1' = w
  BY ForRpiStep
<1>5. Path' = uart' \o (dr1' \o buff1')
  BY <1>1, <1>4, PathSplitNext
<1> HIDE DEF w
<1>6. Append(w, mark) \in Seq(PathByte)
  BY <1>1, <1>2, AppendProperties
<1>7. \A x, y \in Seq(PathByte), c \in PathByte : x \o Append(y, c) = Append(x \o y, c)
  BY ConcatAppend
<1>8. /\ uart \o Append(w, mark) = Append(uart \o w, mark)
      /\ uart \o Append(Append(w, mark), b) = Append(uart \o Append(w, mark), b)
  BY <1>1, <1>2, <1>6, <1>7
<1> QED
  BY <1>3, <1>4, <1>5, <1>8

LEMMA CarriedUsart2Receives ==
    ASSUME TypeInv, NEW b \in StBytes, Usart2Receives(b)
    PROVE  /\ TypeInv' /\ Carried("AA", b)
           /\ stSent' = Append(stSent, b) /\ keySent' = keySent
<1>1. /\ ForRpi("AA", b) /\ stSent' = Append(stSent, b) /\ Tx2(buff0, dr2, txie2)
      /\ UNCHANGED <<hostIsUp, uart, half, toFranz, stGot, keyGot, atSt, keySent,
                     overtook, packets, flips>>
  BY DEF Usart2Receives, rpi
<1>2. "AA" \in Marks /\ b \in StBytes \union KeyBytes
  BY Bytes
<1>3. /\ buff1' \in Seq(PathByte) /\ Len(buff1') <= BufSize
      /\ dr1' \in Seq(PathByte) /\ Len(dr1') <= 1 /\ txie1' \in BOOLEAN
  BY <1>1, <1>2, ForRpiStep
<1>4. /\ buff0' \in Seq(Byte) /\ Len(buff0') <= BufSize
      /\ dr2' \in Seq(Byte) /\ Len(dr2') <= 1 /\ txie2' \in BOOLEAN
      /\ dr2' \o buff0' = dr2 \o buff0
  BY <1>1, Tx2Step
<1>5. \/ lost' = lost /\ Path' = Append(Append(Path, "AA"), b)
      \/ lost' = lost + 1 /\ Path' = Append(Path, "AA")
      \/ lost' = lost + 1 /\ Path' = Path
  BY <1>1, <1>2, CarriedPath
<1>6. buff1' \in Seq(Byte) /\ dr1' \in Seq(Byte)
  BY <1>3, PathSeqByte
<1>7. stSent' \in Seq(StBytes) /\ lost' \in Nat
  <2>1. stSent \in Seq(StBytes) /\ lost \in Nat
    BY TypesOf
  <2>2. stSent' \in Seq(StBytes)
    BY <1>1, <2>1, AppendProperties
  <2>3. lost' \in Nat
    BY <1>5, <2>1
  <2> QED
    BY <2>2, <2>3
<1>8. TypeInv'
  BY <1>1, <1>3, <1>4, <1>6, <1>7 DEF TypeInv, TypeOK
<1>9. ToSt' = ToSt
  <2>1. ToSt' = atSt' \o (dr2' \o buff0') \o toFranz'
    BY <1>1, <1>4, WireTypes, ToStSplitNext
  <2>2. ToSt = atSt \o (dr2 \o buff0) \o toFranz
    BY WireTypes, ToStSplit
  <2> QED
    BY <1>1, <1>4, <2>1, <2>2
<1> QED
  BY <1>1, <1>5, <1>8, <1>9 DEF Carried

LEMMA CarriedUsart3Receives ==
    ASSUME TypeInv, NEW b \in KeyBytes, Usart3Receives(b), hostIsUp
    PROVE  /\ TypeInv' /\ Carried("BB", b)
           /\ keySent' = Append(keySent, b) /\ stSent' = stSent
<1>1. /\ ForRpi("BB", b) /\ keySent' = Append(keySent, b)
      /\ UNCHANGED <<hostIsUp, buff0, dr2, txie2, uart, half, toFranz, stGot, keyGot,
                     atSt, stSent, overtook, packets, flips>>
  BY DEF Usart3Receives, rpi
<1>2. "BB" \in Marks /\ b \in StBytes \union KeyBytes
  BY Bytes
<1>3. /\ buff1' \in Seq(PathByte) /\ Len(buff1') <= BufSize
      /\ dr1' \in Seq(PathByte) /\ Len(dr1') <= 1 /\ txie1' \in BOOLEAN
  BY <1>1, <1>2, ForRpiStep
<1>4. \/ lost' = lost /\ Path' = Append(Append(Path, "BB"), b)
      \/ lost' = lost + 1 /\ Path' = Append(Path, "BB")
      \/ lost' = lost + 1 /\ Path' = Path
  BY <1>1, <1>2, CarriedPath
<1>5. buff1' \in Seq(Byte) /\ dr1' \in Seq(Byte)
  BY <1>3, PathSeqByte
<1>6. keySent' \in Seq(KeyBytes) /\ lost' \in Nat
  <2>1. keySent \in Seq(KeyBytes) /\ lost \in Nat
    BY TypesOf
  <2>2. keySent' \in Seq(KeyBytes)
    BY <1>1, <2>1, AppendProperties
  <2>3. lost' \in Nat
    BY <1>4, <2>1
  <2> QED
    BY <2>2, <2>3
<1>7. TypeInv'
  BY <1>1, <1>3, <1>5, <1>6 DEF TypeInv, TypeOK
<1>8. ToSt' = ToSt
  BY <1>1 DEF ToSt
<1> QED
  BY <1>1, <1>4, <1>7, <1>8 DEF Carried

LEMMA StraightUsart3Receives ==
    ASSUME TypeInv, NEW b \in KeyBytes, Usart3Receives(b), ~hostIsUp
    PROVE  TypeInv' /\ Straight(b)
<1>1. /\ Put2(b) /\ keySent' = Append(keySent, b)
      /\ overtook' = (overtook \/ UnderWay.key \o toFranz # <<>>)
      /\ UNCHANGED <<hostIsUp, buff1, dr1, txie1, uart, half, toFranz, stGot, keyGot,
                     atSt, stSent, packets, flips>>
  BY DEF Usart3Receives, Put2, rpi
<1>2. b \in Byte
  BY Bytes
<1>3. /\ buff0' \in Seq(Byte) /\ Len(buff0') <= BufSize
      /\ dr2' \in Seq(Byte) /\ Len(dr2') <= 1 /\ txie2' \in BOOLEAN
      /\ \/ lost' = lost /\ dr2' \o buff0' = Append(dr2 \o buff0, b)
         \/ lost' = lost + 1
  BY <1>1, <1>2, Put2Step
<1>4. keySent' \in Seq(KeyBytes) /\ lost' \in Nat
  <2>1. keySent \in Seq(KeyBytes) /\ lost \in Nat
    BY TypesOf
  <2>2. keySent' \in Seq(KeyBytes)
    BY <1>1, <2>1, AppendProperties
  <2>3. lost' \in Nat
    BY <1>3, <2>1
  <2> QED
    BY <2>2, <2>3
<1>5. overtook' \in BOOLEAN
  BY <1>1, TypesOf
<1>6. TypeInv'
  BY <1>1, <1>3, <1>4, <1>5 DEF TypeInv, TypeOK
<1>7. Path' = Path
  BY <1>1 DEF Path
<1>8. ASSUME lost' = lost, dr2' \o buff0' = Append(dr2 \o buff0, b), ~overtook'
      PROVE  overtook' = overtook /\ UnderWay.key = <<>> /\ ToSt' = Append(ToSt, b)
  <2>1. overtook' = overtook /\ UnderWay.key \o toFranz = <<>>
    BY <1>1, <1>5, <1>8, TypesOf
  <2>2. UnderWay.key \in Seq(Byte)
    <3>1. Divided(half, Path) \in Rec(PathByte)
      BY TypesOf, DivType
    <3>2. UnderWay.key \in Seq(PathByte)
      BY <3>1, RecParts DEF UnderWay, Path
    <3> QED
      BY <3>2, PathSeqByte
  <2>3. UnderWay.key = <<>> /\ toFranz = <<>>
    BY <2>1, <2>2, WireTypes, ConcatEqualIffEmpty
  <2> DEFINE m == dr2 \o buff0
  <2>4. m \in Seq(Byte) /\ Append(m, b) \in Seq(Byte) /\ atSt \in Seq(Byte)
    BY <1>2, WireTypes, AppendProperties
  <2>5. ToSt' = atSt' \o (dr2' \o buff0') \o toFranz'
    BY <1>1, <1>3, WireTypes, ToStSplitNext
  <2>6. ToSt = atSt \o m \o toFranz
    BY WireTypes, ToStSplit
  <2>7. dr2' \o buff0' = Append(m, b)
    BY <1>8
  <2> HIDE DEF m
  <2>8. atSt \o Append(m, b) = Append(atSt \o m, b)
    <3>1. \A x, y \in Seq(Byte), c \in Byte : x \o Append(y, c) = Append(x \o y, c)
      BY ConcatAppend
    <3> QED
      BY <1>2, <2>4, <3>1
  <2>9. ToSt = atSt \o m
    BY <2>3, <2>4, <2>6, ConcatEmptySeq
  <2>10. ToSt' = atSt \o Append(m, b)
    <3>1. ToSt' = atSt \o Append(m, b) \o <<>>
      BY <1>1, <2>3, <2>5, <2>7
    <3>2. atSt \o Append(m, b) \in Seq(Byte)
      BY <2>4
    <3> QED
      BY <3>1, <3>2, ConcatEmptySeq
  <2> QED
    BY <2>1, <2>3, <2>8, <2>9, <2>10
<1> QED
  BY <1>1, <1>3, <1>6, <1>7, <1>8 DEF Straight

LEMMA SentRpiSends ==
    ASSUME TypeInv, RpiSends
    PROVE  /\ TypeInv' /\ Path' = Path /\ ToSt' = ToSt \o Packet
           /\ UNCHANGED <<half, stGot, keyGot, stSent, keySent, lost, overtook>>
<1>1. /\ packets < MaxPackets /\ packets' = packets + 1
      /\ toFranz' = toFranz \o Packet
      /\ UNCHANGED <<hostIsUp, buff0, buff1, dr1, dr2, txie1, txie2, uart, half, stGot,
                     keyGot, atSt, stSent, keySent, lost, overtook, flips>>
  BY DEF RpiSends, franz
<1>2. Packet \in Seq(Byte)
  BY Bytes DEF Packet
<1>3. toFranz \o Packet \in Seq(Byte)
  BY <1>2, WireTypes
<1>4. packets' \in 0 .. MaxPackets
  BY <1>1, BufAssumption DEF TypeInv, TypeOK
<1>5. TypeInv'
  BY <1>1, <1>3, <1>4 DEF TypeInv, TypeOK
<1>6. Path' = Path
  BY <1>1 DEF Path
<1>7. ToSt' = ToSt \o Packet
  <2> DEFINE p == atSt \o dr2 \o buff0
  <2>1. p \in Seq(Byte)
    BY WireTypes
  <2>2. ToSt = p \o toFranz /\ ToSt' = p \o (toFranz \o Packet)
    BY <1>1 DEF ToSt
  <2> HIDE DEF p
  <2>3. p \o toFranz \o Packet = p \o (toFranz \o Packet)
    BY <1>2, <2>1, WireTypes, ByteAssoc
  <2> QED
    BY <2>2, <2>3
<1> QED
  BY <1>1, <1>5, <1>6, <1>7

\* The RPi takes the first bytes s of those on the way.
Took(s) ==
    /\ half' = Divided(half, s).half
    /\ stGot' = stGot \o Divided(half, s).st
    /\ keyGot' = keyGot \o Divided(half, s).key
    /\ Path = s \o Path' /\ ToSt' = ToSt \o Divided(half, s).key
    /\ UNCHANGED <<stSent, keySent, lost, overtook>>

LEMMA TookRpiReads ==
    ASSUME TypeInv, NEW n \in ReadSizes, RpiReads(n)
    PROVE  TypeInv' /\ \E s \in Seq(PathByte) : Took(s)
<1> DEFINE s == SubSeq(uart, 1, n)
           d == Divided(half, s)
           t == SubSeq(uart, n + 1, Len(uart))
<1>1. /\ n <= Len(uart) /\ uart' = t
      /\ half' = d.half /\ stGot' = stGot \o d.st /\ keyGot' = keyGot \o d.key
      /\ toFranz' = toFranz \o d.key
      /\ UNCHANGED <<hostIsUp, buff0, buff1, dr1, dr2, txie1, txie2, atSt, stSent,
                     keySent, lost, overtook, packets, flips>>
  BY DEF RpiReads, franz, ghosts
<1>2. n \in Nat \ {0} /\ Len(uart) \in Nat /\ uart \in Seq(PathByte)
  BY BufAssumption, WireTypes, LenProperties
<1>3. s \in Seq(PathByte) /\ t \in Seq(PathByte) /\ s \o t = uart
  <2>1. 1 \in 1 .. Len(uart) + 1 /\ n \in 0 .. Len(uart) /\ Len(uart) \in n .. Len(uart)
    BY <1>1, <1>2
  <2>2. s \o t = SubSeq(uart, 1, Len(uart))
    <3>1. \A u \in Seq(PathByte) : \A m \in 1 .. Len(u) + 1 :
              \A k \in m - 1 .. Len(u) : \A l \in k .. Len(u) :
                  SubSeq(u, m, k) \o SubSeq(u, k + 1, l) = SubSeq(u, m, l)
      BY ConcatAdjacentSubSeq
    <3>2. \A k \in 1 - 1 .. Len(uart) : \A l \in k .. Len(uart) :
              SubSeq(uart, 1, k) \o SubSeq(uart, k + 1, l) = SubSeq(uart, 1, l)
      BY <1>2, <2>1, <3>1
    <3>3. n \in 1 - 1 .. Len(uart)
      BY <2>1
    <3>4. \A l \in n .. Len(uart) : SubSeq(uart, 1, n) \o SubSeq(uart, n + 1, l)
                                        = SubSeq(uart, 1, l)
      BY <3>2, <3>3, Zenon
    <3> QED
      BY <2>1, <3>4, Zenon
  <2>3. SubSeq(uart, 1, Len(uart)) = uart
    BY <1>2, SubSeqFull
  <2>4. s \in Seq(PathByte)
    BY <1>1, <1>2, SubSeqProperties, ElementOfSeq
  <2>5. t \in Seq(PathByte)
    BY <1>1, <1>2, SubSeqProperties, ElementOfSeq
  <2> QED
    BY <2>2, <2>3, <2>4, <2>5
<1> HIDE DEF s, d, t
<1>4. d \in Rec(PathByte)
  BY <1>3, TypesOf, DivType DEF d
<1>5. d.st \in Seq(PathByte) /\ d.key \in Seq(PathByte) /\ d.half \in Seq(PathByte)
  BY <1>4, RecParts
<1>6. d.st \in Seq(Byte) /\ d.key \in Seq(Byte) /\ d.half \in Seq(Byte)
  BY <1>5, PathSeqByte
<1>7. Len(d.half) <= 1
  BY <1>3, TypesOf, DivHalf DEF d
<1>8. /\ stGot \o d.st \in Seq(PathByte) /\ keyGot \o d.key \in Seq(PathByte)
      /\ toFranz \o d.key \in Seq(Byte)
  BY <1>5, <1>6, TypesOf
<1>9. /\ stGot \o d.st \in Seq(Byte) /\ keyGot \o d.key \in Seq(Byte) /\ t \in Seq(Byte)
  BY <1>3, <1>8, PathSeqByte
<1>10. TypeInv'
  BY <1>1, <1>3, <1>5, <1>6, <1>7, <1>8, <1>9 DEF TypeInv, TypeOK
<1>11. Path = s \o Path'
  <2> DEFINE w == dr1 \o buff1
  <2>1. w \in Seq(PathByte)
    BY WireTypes
  <2>2. Path = uart \o w
    BY WireTypes, PathSplit
  <2>3. Path' = uart' \o (dr1' \o buff1')
    BY <1>1, <1>3, WireTypes, PathSplitNext
  <2>4. Path' = t \o w
    BY <1>1, <2>3
  <2> HIDE DEF w
  <2>5. s \o t \o w = s \o (t \o w)
    BY <1>3, <2>1, PathAssoc
  <2> QED
    BY <1>3, <2>2, <2>4, <2>5
<1>12. ToSt' = ToSt \o d.key
  <2> DEFINE p == atSt \o dr2 \o buff0
  <2>1. p \in Seq(Byte)
    BY WireTypes
  <2>2. ToSt = p \o toFranz /\ ToSt' = p \o (toFranz \o d.key)
    BY <1>1 DEF ToSt
  <2> HIDE DEF p
  <2>3. toFranz \in Seq(Byte)
    BY WireTypes
  <2>4. p \o toFranz \o d.key = p \o (toFranz \o d.key)
    BY <1>6, <2>1, <2>3, ByteAssoc
  <2> QED
    BY <2>2, <2>4
<1>13. Took(s)
  BY <1>1, <1>11, <1>12 DEF Took, d
<1> QED
  BY <1>3, <1>10, <1>13

\* A USB device's packet.
Sent == /\ Path' = Path /\ ToSt' = ToSt \o Packet
        /\ UNCHANGED <<half, stGot, keyGot, stSent, keySent, lost, overtook>>

CarriedSt(b)  == Carried("AA", b) /\ stSent' = Append(stSent, b) /\ keySent' = keySent
CarriedKey(b) == Carried("BB", b) /\ keySent' = Append(keySent, b) /\ stSent' = stSent

(* Every step is of one of these kinds.                                    *)
LEMMA StepKinds ==
    ASSUME TypeInv, [Next]_vars
    PROVE  /\ TypeInv'
           /\ \/ Quiet \/ Sent
              \/ \E b \in StBytes : CarriedSt(b)
              \/ \E b \in KeyBytes : CarriedKey(b)
              \/ \E b \in KeyBytes : Straight(b)
              \/ \E s \in Seq(PathByte) : Took(s)
<1>1. CASE UNCHANGED vars
  <2>1. UNCHANGED <<hostIsUp, buff0, buff1, dr1, dr2, txie1, txie2, uart, half, toFranz,
                    stGot, keyGot, atSt, stSent, keySent, lost, overtook, packets, flips>>
    BY <1>1 DEF vars, franz, rpi, ghosts
  <2>2. TypeInv'
    BY <2>1 DEF TypeInv, TypeOK
  <2>3. Quiet
    BY <2>1 DEF Quiet, Path, ToSt
  <2> QED
    BY <2>2, <2>3
<1>2. ASSUME NEW b \in StBytes, Usart2Receives(b)
      PROVE  TypeInv' /\ CarriedSt(b)
  BY <1>2, CarriedUsart2Receives DEF CarriedSt
<1>3. ASSUME NEW b \in KeyBytes, Usart3Receives(b)
      PROVE  TypeInv' /\ (CarriedKey(b) \/ Straight(b))
  <2>1. CASE hostIsUp
    BY <1>3, <2>1, CarriedUsart3Receives DEF CarriedKey
  <2>2. CASE ~hostIsUp
    BY <1>3, <2>2, StraightUsart3Receives
  <2> QED
    BY <2>1, <2>2
<1>4. CASE RpiSends
  BY <1>4, SentRpiSends DEF Sent
<1>5. CASE HostFlips
  BY <1>5, QuietHostFlips
<1>6. CASE Usart1Receives
  BY <1>6, QuietUsart1Receives
<1>7. CASE Usart1Transmits
  BY <1>7, QuietUsart1Transmits
<1>8. CASE Usart2Transmits
  BY <1>8, QuietUsart2Transmits
<1>9. CASE Line1
  BY <1>9, QuietLine1
<1>10. CASE Line2
  BY <1>10, QuietLine2
<1>11. ASSUME NEW n \in ReadSizes, RpiReads(n)
       PROVE  TypeInv' /\ \E s \in Seq(PathByte) : Took(s)
  BY <1>11, TookRpiReads
<1> QED
  BY <1>1, <1>2, <1>3, <1>4, <1>5, <1>6, <1>7, <1>8, <1>9, <1>10, <1>11
     DEF Next, Inputs, Franz

LEMMA TypeInit ==
    ASSUME Init
    PROVE  TypeInv
<1>1. <<>> \in Seq(Byte) /\ <<>> \in Seq(PathByte) /\ <<>> \in Seq(StBytes)
      /\ <<>> \in Seq(KeyBytes) /\ Len(<<>>) = 0
  BY EmptySeq
<1>2. 0 <= BufSize /\ 0 <= 1 /\ 0 \in Nat /\ 0 \in 0 .. MaxPackets /\ 0 \in 0 .. MaxFlips
  BY BufAssumption
<1>3. TypeOK
  BY <1>1, <1>2 DEF Init, TypeOK
<1> QED
  BY <1>1, <1>3 DEF Init, TypeInv

(* The bytes keep their types, and no packet of the RPi is on the way to   *)
(* it.                                                                     *)
THEOREM UartTypeCorrect == Spec => []TypeInv
<1>1. Init => TypeInv
  BY TypeInit
<1>2. TypeInv /\ [Next]_vars => TypeInv'
  BY StepKinds
<1> QED
  BY <1>1, <1>2, PTL DEF Spec

-----------------------------------------------------------------------------
(* What the RPi has, or will have, of them *)

Final == After([st |-> stGot, key |-> keyGot, half |-> half], Path)

LEMMA UnderWayIs ==
    /\ UnderWay = Divided(half, Path)
    /\ Final = [st   |-> stGot \o UnderWay.st, key |-> keyGot \o UnderWay.key,
                half |-> UnderWay.half]
    /\ Taken = [st |-> Final.st, key |-> Final.key]
BY DEF UnderWay, Path, Final, After, Taken

LEMMA FinalType ==
    ASSUME TypeInv
    PROVE  /\ [st |-> stGot, key |-> keyGot, half |-> half] \in Rec(PathByte)
           /\ Final \in Rec(PathByte) /\ UnderWay \in Rec(PathByte)
<1>1. [st |-> stGot, key |-> keyGot, half |-> half] \in Rec(PathByte)
  BY TypesOf DEF Rec
<1>2. Final \in Rec(PathByte)
  BY <1>1, TypesOf, AfterType DEF Final
<1>3. UnderWay \in Rec(PathByte)
  BY TypesOf, DivType, UnderWayIs
<1> QED
  BY <1>1, <1>2, <1>3

LEMMA SameFinal ==
    ASSUME UNCHANGED <<half, stGot, keyGot>>, Path' = Path
    PROVE  Final' = Final /\ UnderWay' = UnderWay
<1>1. UnderWay = Divided(half, Path) /\ UnderWay' = Divided(half', Path')
  BY DEF UnderWay, Path
<1>2. Final' = After([st |-> stGot', key |-> keyGot', half |-> half'], Path')
  BY DEF Final
<1> QED
  BY <1>1, <1>2 DEF Final

(* A byte that is carried is paired with what was under way.               *)
LEMMA CarriedFinal ==
    ASSUME TypeInv, NEW mark \in Marks, NEW b \in StBytes \union KeyBytes,
           Carried(mark, b)
    PROVE  \/ /\ lost' = lost
              /\ Final' = Paired(Paired(Final, mark), b)
              /\ UnderWay' = Paired(Paired(UnderWay, mark), b)
           \/ lost' = lost + 1 /\ Final' \in {Final, Paired(Final, mark)}
<1> DEFINE g == [st |-> stGot, key |-> keyGot, half |-> half]
<1>1. UNCHANGED <<half, stGot, keyGot>>
  BY DEF Carried
<1>2. UnderWay = Divided(half, Path) /\ UnderWay' = Divided(half, Path')
  BY <1>1 DEF UnderWay, Path
<1>3. Final = After(g, Path) /\ Final' = After(g, Path')
  BY <1>1 DEF Final
<1>4. mark \in PathByte /\ b \in PathByte /\ Path \in Seq(PathByte) /\ g \in Rec(PathByte)
  BY Bytes, TypesOf, FinalType
<1> HIDE DEF g
<1> DEFINE p == Append(Path, mark)
<1>5. p \in Seq(PathByte)
  BY <1>4, AppendProperties
<1>6. Divided(half, p) = Paired(UnderWay, mark) /\ After(g, p) = Paired(Final, mark)
  BY <1>2, <1>3, <1>4, DivAppend, AfterAppend
<1>7. \/ lost' = lost /\ Path' = Append(p, b)
      \/ lost' = lost + 1 /\ Path' = p
      \/ lost' = lost + 1 /\ Path' = Path
  BY DEF Carried
<1> HIDE DEF p
<1>8. /\ Divided(half, Append(p, b)) = Paired(Divided(half, p), b)
      /\ After(g, Append(p, b)) = Paired(After(g, p), b)
  BY <1>4, <1>5, DivAppend, AfterAppend
<1> QED
  BY <1>2, <1>3, <1>6, <1>7, <1>8

LEMMA DivConcat ==
    ASSUME NEW B, NEW h \in Seq(B), NEW p \in Seq(B), NEW q \in Seq(B)
    PROVE  Divided(h, p \o q) = After(Divided(h, p), q)
<1> DEFINE r == [st |-> <<>>, key |-> <<>>, half |-> h]
<1>1. r \in Rec(B)
  <2>1. <<>> \in Seq(B)
    BY EmptySeq
  <2> QED
    BY <2>1 DEF Rec
<1>2. ASSUME NEW t \in Seq(B)
      PROVE  After(r, t) = Divided(h, t)
  <2> DEFINE d == Divided(h, t)
  <2>1. d \in Rec(B)
    BY DivType
  <2>2. After(r, t) = [st |-> <<>> \o d.st, key |-> <<>> \o d.key, half |-> d.half]
    BY DEF After
  <2> HIDE DEF d
  <2>3. d.st \in Seq(B) /\ d.key \in Seq(B)
        /\ d = [st |-> d.st, key |-> d.key, half |-> d.half]
    BY <2>1, RecParts
  <2>4. <<>> \o d.st = d.st /\ <<>> \o d.key = d.key
    BY <2>3, ConcatEmptySeq
  <2> QED
    BY <2>2, <2>3, <2>4 DEF d
<1> HIDE DEF r
<1>3. p \o q \in Seq(B)
  BY ConcatProperties
<1>4. After(r, p \o q) = After(After(r, p), q)
  BY <1>1, AfterConcat
<1> QED
  BY <1>2, <1>3, <1>4

(* What the RPi takes was under way: nothing changes.                      *)
LEMMA TookFinal ==
    ASSUME TypeInv, TypeInv', NEW s \in Seq(PathByte), Took(s)
    PROVE  /\ Final' = Final
           /\ UnderWay.key = Divided(half, s).key \o UnderWay'.key
           /\ Divided(half, s).key \in Seq(PathByte) /\ UnderWay'.key \in Seq(PathByte)
<1> DEFINE d == Divided(half, s)
           u == Divided(d.half, Path')
<1>1. half \in Seq(PathByte) /\ stGot \in Seq(PathByte) /\ keyGot \in Seq(PathByte)
  BY TypesOf
<1>2. Path' \in Seq(PathByte)
  <2>1. uart' \in Seq(PathByte) /\ dr1' \in Seq(PathByte) /\ buff1' \in Seq(PathByte)
    BY DEF TypeInv
  <2> QED
    BY <2>1 DEF Path
<1>3. d \in Rec(PathByte)
  BY <1>1, DivType
<1>4. /\ half' = d.half /\ stGot' = stGot \o d.st /\ keyGot' = keyGot \o d.key
      /\ Path = s \o Path'
  BY DEF Took
<1>5. UnderWay = Divided(half, Path) /\ UnderWay' = Divided(half', Path')
  BY DEF UnderWay, Path
<1>6. UnderWay = After(d, Path')
  BY <1>1, <1>2, <1>4, <1>5, DivConcat
<1>7. UnderWay' = u
  BY <1>4, <1>5
<1>8. UnderWay = [st |-> d.st \o u.st, key |-> d.key \o u.key, half |-> u.half]
  BY <1>6 DEF After
<1>9. /\ Final = [st |-> stGot \o UnderWay.st, key |-> keyGot \o UnderWay.key,
                  half |-> UnderWay.half]
      /\ Final' = [st |-> stGot' \o UnderWay'.st, key |-> keyGot' \o UnderWay'.key,
                   half |-> UnderWay'.half]
  BY <1>5 DEF Final, After
<1> HIDE DEF d, u
<1>10. d.st \in Seq(PathByte) /\ d.key \in Seq(PathByte) /\ d.half \in Seq(PathByte)
  BY <1>3, RecParts
<1>11. u \in Rec(PathByte)
  BY <1>2, <1>10, DivType DEF u
<1>12. u.st \in Seq(PathByte) /\ u.key \in Seq(PathByte)
  BY <1>11, RecParts
<1>13. stGot \o (d.st \o u.st) = stGot \o d.st \o u.st
  <2>1. stGot \in Seq(PathByte) /\ d.st \in Seq(PathByte) /\ u.st \in Seq(PathByte)
    BY <1>1, <1>10, <1>12
  <2> QED
    BY <2>1, PathAssoc
<1>14. keyGot \o (d.key \o u.key) = keyGot \o d.key \o u.key
  <2>1. keyGot \in Seq(PathByte) /\ d.key \in Seq(PathByte) /\ u.key \in Seq(PathByte)
    BY <1>1, <1>10, <1>12
  <2> QED
    BY <2>1, PathAssoc
<1>15. Final' = Final
  BY <1>4, <1>7, <1>8, <1>9, <1>13, <1>14
<1> QED
  BY <1>7, <1>8, <1>10, <1>12, <1>15 DEF d

-----------------------------------------------------------------------------
(* The commands, in order *)

\* Inductive: and no half of a pair is left.
CommandsInv == lost = 0 => Final.st = stSent /\ Final.half = <<>>

\* A byte after its mark, when nothing waits: a whole pair.
LEMMA WholePair ==
    ASSUME NEW r \in Rec(PathByte), r.half = <<>>, NEW b \in PathByte
    PROVE  /\ Paired(Paired(r, "AA"), b)
                = [st |-> Append(r.st, b), key |-> r.key, half |-> <<>>]
           /\ Paired(Paired(r, "BB"), b)
                = [st |-> r.st, key |-> Append(r.key, b), half |-> <<>>]
<1>1. <<>> \notin {<<"AA">>, <<"BB">>} /\ "AA" \in PathByte /\ "BB" \in PathByte
  <2>1. Len(<<>>) # Len(<<"AA">>) /\ Len(<<>>) # Len(<<"BB">>)
    OBVIOUS
  <2> QED
    BY <2>1, Bytes
<1> DEFINE a == Paired(r, "AA")
           k == Paired(r, "BB")
<1>2. a \in Rec(PathByte) /\ a = [st |-> r.st, key |-> r.key, half |-> <<"AA">>]
  BY <1>1, PairedCases
<1>3. k \in Rec(PathByte) /\ k = [st |-> r.st, key |-> r.key, half |-> <<"BB">>]
  BY <1>1, PairedCases
<1> HIDE DEF a, k
<1>4. Paired(a, b) = [st |-> Append(a.st, b), key |-> a.key, half |-> <<>>]
  <2>1. a.half = <<"AA">>
    BY <1>2
  <2> QED
    BY <1>2, <2>1, PairedCases
<1>5. Paired(k, b) = [st |-> k.st, key |-> Append(k.key, b), half |-> <<>>]
  <2>1. k.half = <<"BB">>
    BY <1>3
  <2> QED
    BY <1>3, <2>1, PairedCases
<1>6. a.st = r.st /\ a.key = r.key /\ k.st = r.st /\ k.key = r.key
  BY <1>2, <1>3
<1> QED
  BY <1>4, <1>5, <1>6 DEF a, k

LEMMA CommandsInit ==
    ASSUME Init
    PROVE  CommandsInv
<1>1. TypeInv
  BY TypeInit
<1>2. Path = <<>>
  BY DEF Init, Path
<1>3. Final = [st |-> stGot, key |-> keyGot, half |-> half]
  BY <1>1, <1>2, FinalType, AfterEmpty DEF Final
<1> QED
  BY <1>3 DEF CommandsInv, Init

LEMMA CommandsStep ==
    ASSUME TypeInv, CommandsInv, [Next]_vars
    PROVE  CommandsInv'
<1> SUFFICES ASSUME lost' = 0
             PROVE  Final'.st = stSent' /\ Final'.half = <<>>
  BY DEF CommandsInv
<1>1. lost \in Nat /\ lost + 1 # 0
  BY TypesOf
<1>2. Final \in Rec(PathByte)
  BY FinalType
<1>3. CASE Quiet \/ Sent
  <2>1. lost = 0 /\ Final' = Final /\ stSent' = stSent
    BY <1>1, <1>3, SameFinal DEF Quiet, Sent
  <2> QED
    BY <2>1 DEF CommandsInv
<1>4. ASSUME NEW b \in StBytes, CarriedSt(b)
      PROVE  Final'.st = stSent' /\ Final'.half = <<>>
  <2>1. "AA" \in Marks /\ b \in PathByte /\ b \in StBytes \union KeyBytes
    BY Bytes
  <2>2. lost = 0 /\ Final' = Paired(Paired(Final, "AA"), b)
    BY <1>1, <1>4, <2>1, CarriedFinal DEF CarriedSt
  <2>3. Final.st = stSent /\ Final.half = <<>>
    BY <2>2 DEF CommandsInv
  <2>4. Final' = [st |-> Append(Final.st, b), key |-> Final.key, half |-> <<>>]
    BY <1>2, <2>1, <2>2, <2>3, WholePair
  <2> QED
    BY <1>4, <2>3, <2>4 DEF CarriedSt
<1>5. ASSUME NEW b \in KeyBytes, CarriedKey(b)
      PROVE  Final'.st = stSent' /\ Final'.half = <<>>
  <2>1. "BB" \in Marks /\ b \in PathByte /\ b \in StBytes \union KeyBytes
    BY Bytes
  <2>2. lost = 0 /\ Final' = Paired(Paired(Final, "BB"), b)
    BY <1>1, <1>5, <2>1, CarriedFinal DEF CarriedKey
  <2>3. Final.st = stSent /\ Final.half = <<>>
    BY <2>2 DEF CommandsInv
  <2>4. Final' = [st |-> Final.st, key |-> Append(Final.key, b), half |-> <<>>]
    BY <1>2, <2>1, <2>2, <2>3, WholePair
  <2> QED
    BY <1>5, <2>3, <2>4 DEF CarriedKey
<1>6. ASSUME NEW b \in KeyBytes, Straight(b)
      PROVE  Final'.st = stSent' /\ Final'.half = <<>>
  <2>1. Final' = Final /\ stSent' = stSent
    BY <1>6, SameFinal DEF Straight
  <2>2. lost = 0
    BY <1>1, <1>6 DEF Straight
  <2> QED
    BY <2>1, <2>2 DEF CommandsInv
<1>7. ASSUME NEW s \in Seq(PathByte), Took(s)
      PROVE  Final'.st = stSent' /\ Final'.half = <<>>
  <2>1. Final' = Final
    BY <1>7, StepKinds, TookFinal
  <2>2. stSent' = stSent /\ lost' = lost
    BY <1>7 DEF Took
  <2> QED
    BY <2>1, <2>2 DEF CommandsInv
<1> QED
  BY <1>3, <1>4, <1>5, <1>6, <1>7, StepKinds

(* Whatever the data, the values of the marks included, and however the    *)
(* reads cut the pairs: as long as no buffer overflows, the RPi has, or    *)
(* will get, exactly the commands of the ST (ikbd_st.cpp,                  *)
(* processReceivedCommands(), and the three interrupts of Franz).          *)
THEOREM CommandsInOrderHolds == Spec => []CommandsInOrder
<1>1. Init => TypeInv /\ CommandsInv
  BY TypeInit, CommandsInit
<1>2. TypeInv /\ CommandsInv /\ [Next]_vars => TypeInv' /\ CommandsInv'
  BY StepKinds, CommandsStep
<1>3. CommandsInv => CommandsInOrder
  BY UnderWayIs DEF CommandsInv, CommandsInOrder
<1> QED
  BY <1>1, <1>2, <1>3, PTL DEF Spec

-----------------------------------------------------------------------------
(* The keys, in order *)

NoUsb == Byte \ {"usb1", "usb2"}

\* Inductive: the keys at the ST, on the way to it and on the way to the RPi.
KeysInv == lost = 0 /\ ~overtook => Only(ToSt, NoUsb) \o UnderWay.key = keySent

LEMMA OnlyAll ==
    ASSUME NEW B, NEW T, B \subseteq T, NEW s \in Seq(B)
    PROVE  Only(s, T) = s
<1> DEFINE S == {t \in Seq(B) : Only(t, T) = t}
<1>1. <<>> \in S
  <2>1. <<>> \in Seq(B)
    BY EmptySeq
  <2>2. Only(<<>>, T) = <<>>
    BY OnlyEmpty
  <2> QED
    BY <2>1, <2>2
<1>2. ASSUME NEW t \in Seq(B), NEW b \in B, t \in S
      PROVE  Append(t, b) \in S
  <2>1. Only(Append(t, b), T) = IF b \in T THEN Append(Only(t, T), b) ELSE Only(t, T)
    BY OnlyAppend
  <2>2. Only(t, T) = t /\ b \in T
    BY <1>2
  <2> QED
    BY <2>1, <2>2, AppendProperties
<1> HIDE DEF S
<1>3. Seq(B) \subseteq S
  BY <1>1, <1>2, SeqInduct
<1> QED
  BY <1>3 DEF S

LEMMA PathNoUsb == PathByte \subseteq NoUsb
BY Bytes DEF NoUsb

LEMMA NoUsbAppend ==
    \A s \in Seq(Byte), b \in Byte :
        Only(Append(s, b), NoUsb) = IF b \in NoUsb THEN Append(Only(s, NoUsb), b)
                                    ELSE Only(s, NoUsb)
BY OnlyAppend

LEMMA NoUsbConcat ==
    \A p, q \in Seq(Byte) : Only(p \o q, NoUsb) = Only(p, NoUsb) \o Only(q, NoUsb)
BY OnlyConcat

LEMMA NoUsbOfPacket == Only(Packet, NoUsb) = <<>> /\ Packet \in Seq(Byte)
<1>1. "usb1" \in Byte /\ "usb2" \in Byte /\ "usb1" \notin NoUsb /\ "usb2" \notin NoUsb
  BY Bytes DEF NoUsb
<1>2. <<>> \in Seq(Byte) /\ <<"usb1">> \in Seq(Byte)
      /\ <<"usb1">> = Append(<<>>, "usb1") /\ Packet = Append(<<"usb1">>, "usb2")
      /\ Packet \in Seq(Byte)
  BY <1>1 DEF Packet
<1>3. Only(<<>>, NoUsb) = <<>>
  BY OnlyEmpty
<1>4. Only(<<"usb1">>, NoUsb) = <<>>
  BY <1>1, <1>2, <1>3, NoUsbAppend
<1>5. Only(Packet, NoUsb) = <<>>
  BY <1>1, <1>2, <1>4, NoUsbAppend
<1> QED
  BY <1>2, <1>5

LEMMA KeysInit ==
    ASSUME Init
    PROVE  KeysInv
<1>1. Path = <<>> /\ ToSt = <<>>
  BY DEF Init, Path, ToSt
<1>2. UnderWay = [st |-> <<>>, key |-> <<>>, half |-> half]
  BY <1>1, UnderWayIs, DivEmpty
<1>3. Only(ToSt, NoUsb) = <<>>
  BY <1>1, OnlyEmpty
<1>4. <<>> \o <<>> = <<>>
  OBVIOUS
<1> QED
  BY <1>2, <1>3, <1>4 DEF KeysInv, Init

LEMMA KeysStep ==
    ASSUME TypeInv, CommandsInv, KeysInv, [Next]_vars
    PROVE  KeysInv'
<1> DEFINE o == Only(ToSt, NoUsb)
           k == UnderWay.key
<1> SUFFICES ASSUME lost' = 0, ~overtook'
             PROVE  Only(ToSt', NoUsb) \o UnderWay'.key = keySent'
  BY DEF KeysInv
<1>1. lost \in Nat /\ lost + 1 # 0
  BY TypesOf
<1>2. ToSt \in Seq(Byte) /\ o \in Seq(Byte) /\ k \in Seq(PathByte) /\ k \in Seq(Byte)
  <2>1. ToSt \in Seq(Byte)
    BY TypesOf
  <2>2. k \in Seq(PathByte)
    BY FinalType, RecParts
  <2> QED
    BY <2>1, <2>2, OnlyType, PathSeqByte
<1>3. lost = 0 /\ ~overtook => o \o k = keySent
  BY DEF KeysInv
<1>4. lost = 0 => UnderWay.half = <<>> /\ UnderWay \in Rec(PathByte)
  BY UnderWayIs, FinalType DEF CommandsInv
<1> HIDE DEF o
<1>5. CASE Quiet
  <2>1. lost = 0 /\ UnderWay' = UnderWay /\ ToSt' = ToSt /\ keySent' = keySent
        /\ overtook' = overtook
    BY <1>1, <1>5, SameFinal DEF Quiet
  <2> QED
    BY <1>3, <2>1 DEF o
<1>6. CASE Sent
  <2>1. lost = 0 /\ UnderWay' = UnderWay /\ ToSt' = ToSt \o Packet /\ keySent' = keySent
        /\ overtook' = overtook
    BY <1>1, <1>6, SameFinal DEF Sent
  <2>2. Only(ToSt \o Packet, NoUsb) = o \o <<>>
    BY <1>2, NoUsbOfPacket, NoUsbConcat DEF o
  <2>3. o \o <<>> = o
    BY <1>2, ConcatEmptySeq
  <2> QED
    BY <1>3, <2>1, <2>2, <2>3
<1>7. ASSUME NEW b \in StBytes, CarriedSt(b)
      PROVE  Only(ToSt', NoUsb) \o UnderWay'.key = keySent'
  <2>1. "AA" \in Marks /\ b \in PathByte /\ b \in StBytes \union KeyBytes
    BY Bytes
  <2>2. lost = 0 /\ UnderWay' = Paired(Paired(UnderWay, "AA"), b)
    BY <1>1, <1>7, <2>1, CarriedFinal DEF CarriedSt
  <2>3. UnderWay' = [st |-> Append(UnderWay.st, b), key |-> k, half |-> <<>>]
    BY <1>4, <2>1, <2>2, WholePair
  <2>4. ToSt' = ToSt /\ keySent' = keySent /\ overtook' = overtook
    BY <1>7 DEF CarriedSt, Carried
  <2>5. UnderWay'.key = k
    BY <2>3
  <2> HIDE DEF k
  <2> QED
    BY <1>3, <2>2, <2>4, <2>5 DEF o
<1>8. ASSUME NEW b \in KeyBytes, CarriedKey(b)
      PROVE  Only(ToSt', NoUsb) \o UnderWay'.key = keySent'
  <2>1. "BB" \in Marks /\ b \in PathByte /\ b \in StBytes \union KeyBytes /\ b \in Byte
    BY Bytes
  <2>2. lost = 0 /\ UnderWay' = Paired(Paired(UnderWay, "BB"), b)
    BY <1>1, <1>8, <2>1, CarriedFinal DEF CarriedKey
  <2>3. UnderWay' = [st |-> UnderWay.st, key |-> Append(k, b), half |-> <<>>]
    BY <1>4, <2>1, <2>2, WholePair
  <2>4. ToSt' = ToSt /\ keySent' = Append(keySent, b) /\ overtook' = overtook
    BY <1>8 DEF CarriedKey, Carried
  <2> HIDE DEF k
  <2>5. o \o Append(k, b) = Append(o \o k, b)
    BY <1>2, <2>1, ConcatAppend
  <2> QED
    BY <1>3, <2>2, <2>3, <2>4, <2>5 DEF o
<1>9. ASSUME NEW b \in KeyBytes, Straight(b)
      PROVE  Only(ToSt', NoUsb) \o UnderWay'.key = keySent'
  <2>1. b \in NoUsb /\ b \in Byte
    BY Bytes, PathNoUsb
  <2>2. /\ lost = 0 /\ overtook' = overtook /\ k = <<>> /\ ToSt' = Append(ToSt, b)
        /\ UnderWay' = UnderWay /\ keySent' = Append(keySent, b)
    BY <1>1, <1>9, SameFinal DEF Straight
  <2>3. Only(Append(ToSt, b), NoUsb) = Append(o, b)
    BY <1>2, <2>1, NoUsbAppend DEF o
  <2>4. Append(o, b) \in Seq(Byte)
    BY <1>2, <2>1, AppendProperties
  <2>5. o \o <<>> = o /\ Append(o, b) \o <<>> = Append(o, b)
    BY <1>2, <2>4, ConcatEmptySeq
  <2> QED
    BY <1>3, <2>2, <2>3, <2>5
<1>10. ASSUME NEW s \in Seq(PathByte), Took(s)
       PROVE  Only(ToSt', NoUsb) \o UnderWay'.key = keySent'
  <2> DEFINE d == Divided(half, s).key
             u == UnderWay'.key
  <2>1. k = d \o u /\ d \in Seq(PathByte) /\ u \in Seq(PathByte)
    BY <1>10, StepKinds, TookFinal
  <2>2. ToSt' = ToSt \o d /\ lost = 0 /\ overtook' = overtook /\ keySent' = keySent
    BY <1>10 DEF Took
  <2> HIDE DEF d, u
  <2>3. d \in Seq(Byte) /\ u \in Seq(Byte)
    BY <2>1, PathSeqByte
  <2>4. Only(d, NoUsb) = d
    BY <2>1, PathNoUsb, OnlyAll
  <2>5. Only(ToSt \o d, NoUsb) = o \o d
    <3>1. Only(ToSt \o d, NoUsb) = Only(ToSt, NoUsb) \o Only(d, NoUsb)
      BY <1>2, <2>3, NoUsbConcat
    <3> QED
      BY <2>4, <3>1 DEF o
  <2>6. o \o d \o u = o \o (d \o u)
    BY <1>2, <2>3, ByteAssoc
  <2> QED
    BY <1>3, <2>1, <2>2, <2>5, <2>6 DEF u
<1> QED
  BY <1>5, <1>6, <1>7, <1>8, <1>9, <1>10, StepKinds

\* The ST's bytes and the others.
LEMMA ToStAtSt ==
    ASSUME TypeInv
    PROVE  \E rest \in Seq(Byte) : ToSt = atSt \o rest
<1> DEFINE m == dr2 \o buff0
<1>1. ToSt = atSt \o m \o toFranz
  BY WireTypes, ToStSplit
<1>2. atSt \in Seq(Byte) /\ m \in Seq(Byte) /\ toFranz \in Seq(Byte)
  BY WireTypes
<1> HIDE DEF m
<1>3. atSt \o m \o toFranz = atSt \o (m \o toFranz)
  BY <1>2, ByteAssoc
<1>4. m \o toFranz \in Seq(Byte)
  BY <1>2
<1> QED
  BY <1>1, <1>3, <1>4

LEMMA PrefixOfConcat ==
    ASSUME NEW B, NEW s \in Seq(B), NEW t \in Seq(B)
    PROVE  IsPrefix(s, s \o t)
<1>1. Len(s) \in Nat /\ Len(t) \in Nat /\ Len(s \o t) = Len(s) + Len(t)
  BY LenProperties, ConcatProperties
<1>2. \A i \in 1 .. Len(s) : (s \o t)[i] = s[i]
  BY <1>1, ConcatProperties
<1>3. SubSeq(s, 1, Len(s)) = SubSeq(s \o t, 1, Len(s))
  BY <1>1, <1>2
<1> QED
  BY <1>1, <1>3 DEF IsPrefix

LEMMA KeysPrefix ==
    ASSUME TypeInv, KeysInv
    PROVE  KeysInOrder
<1> SUFFICES ASSUME lost = 0, ~overtook
             PROVE  IsPrefix(KeysAtSt, keySent)
  BY DEF KeysInOrder
<1>1. PICK rest \in Seq(Byte) : ToSt = atSt \o rest
  BY ToStAtSt
<1>2. atSt \in Seq(Byte)
  BY WireTypes
<1> DEFINE a == Only(atSt, NoUsb)
           r == Only(rest, NoUsb)
           k == UnderWay.key
<1>3. Only(ToSt, NoUsb) = a \o r
  BY <1>1, <1>2, NoUsbConcat
<1>4. a \in Seq(Byte) /\ r \in Seq(Byte)
  BY <1>2, OnlyType
<1>5. k \in Seq(Byte)
  BY FinalType, RecParts, PathSeqByte
<1>6. a \o r \o k = keySent
  BY <1>3 DEF KeysInv
<1> HIDE DEF a, r, k
<1>7. a \o r \o k = a \o (r \o k)
  BY <1>4, <1>5, ByteAssoc
<1>8. IsPrefix(a, a \o (r \o k))
  <2>1. r \o k \in Seq(Byte)
    BY <1>4, <1>5
  <2> QED
    BY <1>4, <2>1, PrefixOfConcat
<1> QED
  BY <1>6, <1>7, <1>8 DEF KeysAtSt, a, NoUsb

(* The keys reach the ST in their order on the two paths they may take,    *)
(* unless a buffer overflows or a key overtakes others (main.c,            *)
(* USART3_IRQHandler(); ikbd_st.cpp).                                      *)
THEOREM KeysInOrderHolds == Spec => []KeysInOrder
<1>1. Init => TypeInv /\ CommandsInv /\ KeysInv
  BY TypeInit, CommandsInit, KeysInit
<1>2. TypeInv /\ CommandsInv /\ KeysInv /\ [Next]_vars
        => TypeInv' /\ CommandsInv' /\ KeysInv'
  BY StepKinds, CommandsStep, KeysStep
<1>3. TypeInv /\ KeysInv => KeysInOrder
  BY KeysPrefix
<1> QED
  BY <1>1, <1>2, <1>3, PTL DEF Spec

-----------------------------------------------------------------------------
(* The packets of USB devices *)

\* In one piece.
Whole(s) == \A i \in 1 .. Len(s) : s[i] = "usb1" => i < Len(s) /\ s[i + 1] = "usb2"

\* Inductive: at the ST and on the way to it.
WholeInv == lost = 0 /\ ~overtook => Whole(ToSt)

LEMMA WholeConcat ==
    ASSUME NEW s \in Seq(Byte), NEW t \in Seq(Byte), Whole(s), Whole(t)
    PROVE  Whole(s \o t)
<1>1. Len(s) \in Nat /\ Len(t) \in Nat /\ Len(s \o t) = Len(s) + Len(t)
  BY LenProperties, ConcatProperties
<1>2. \A i \in 1 .. Len(s) + Len(t) :
          (s \o t)[i] = IF i <= Len(s) THEN s[i] ELSE t[i - Len(s)]
  BY ConcatProperties
<1>3. ASSUME NEW i \in 1 .. Len(s) + Len(t), (s \o t)[i] = "usb1"
      PROVE  i < Len(s) + Len(t) /\ (s \o t)[i + 1] = "usb2"
  <2>1. CASE i <= Len(s)
    <3>1. i \in 1 .. Len(s) /\ s[i] = "usb1"
      BY <1>1, <1>2, <1>3, <2>1
    <3>2. i < Len(s) /\ s[i + 1] = "usb2"
      BY <3>1 DEF Whole
    <3>3. i + 1 \in 1 .. Len(s) + Len(t) /\ i + 1 <= Len(s) /\ i < Len(s) + Len(t)
      BY <1>1, <3>1, <3>2
    <3> QED
      BY <1>2, <3>2, <3>3
  <2>2. CASE ~(i <= Len(s))
    <3> DEFINE j == i - Len(s)
    <3>1. j \in 1 .. Len(t)
      BY <1>1, <2>2
    <3>2. t[j] = "usb1"
      BY <1>1, <1>2, <1>3, <2>2
    <3>3. j < Len(t) /\ t[j + 1] = "usb2"
      BY <3>1, <3>2 DEF Whole
    <3>4. /\ i + 1 \in 1 .. Len(s) + Len(t) /\ ~(i + 1 <= Len(s))
          /\ i < Len(s) + Len(t) /\ (i + 1) - Len(s) = j + 1
      BY <1>1, <2>2, <3>3
    <3> QED
      BY <1>2, <3>3, <3>4
  <2> QED
    BY <2>1, <2>2
<1> QED
  BY <1>1, <1>3 DEF Whole

LEMMA WholeFree ==
    ASSUME NEW s \in Seq(PathByte)
    PROVE  Whole(s)
<1>1. \A i \in 1 .. Len(s) : s[i] \in PathByte
  BY ElementOfSeq
<1> QED
  BY <1>1, Bytes DEF Whole

LEMMA WholePacket == Whole(Packet)
<1>1. Len(Packet) = 2 /\ Packet[1] = "usb1" /\ Packet[2] = "usb2"
  BY DEF Packet
<1>2. \A i \in 1 .. 2 : i = 1 \/ i = 2
  OBVIOUS
<1> QED
  BY <1>1, <1>2 DEF Whole

LEMMA WholeInit ==
    ASSUME Init
    PROVE  WholeInv
<1>1. ToSt = <<>>
  BY DEF Init, ToSt
<1>2. <<>> \in Seq(PathByte)
  BY EmptySeq
<1> QED
  BY <1>1, <1>2, WholeFree DEF WholeInv

LEMMA WholeStep ==
    ASSUME TypeInv, WholeInv, [Next]_vars
    PROVE  WholeInv'
<1> SUFFICES ASSUME lost' = 0, ~overtook'
             PROVE  Whole(ToSt')
  BY DEF WholeInv
<1>1. lost \in Nat /\ lost + 1 # 0 /\ ToSt \in Seq(Byte)
  BY TypesOf
<1>2. lost = 0 /\ ~overtook => Whole(ToSt)
  BY DEF WholeInv
<1>3. CASE Quiet
  BY <1>1, <1>2, <1>3 DEF Quiet
<1>4. CASE Sent
  BY <1>1, <1>2, <1>4, NoUsbOfPacket, WholePacket, WholeConcat DEF Sent
<1>5. CASE (\E b \in StBytes : CarriedSt(b)) \/ (\E b \in KeyBytes : CarriedKey(b))
  BY <1>1, <1>2, <1>5 DEF CarriedSt, CarriedKey, Carried
<1>6. ASSUME NEW b \in KeyBytes, Straight(b)
      PROVE  Whole(ToSt')
  <2>1. lost = 0 /\ overtook' = overtook /\ ToSt' = Append(ToSt, b)
    BY <1>1, <1>6 DEF Straight
  <2>2. b \in PathByte /\ b \in Byte
    BY Bytes
  <2>3. <<b>> \in Seq(PathByte)
    BY <2>2, OneByte
  <2>4. Append(ToSt, b) = ToSt \o <<b>> /\ <<b>> \in Seq(Byte)
    BY <1>1, <2>2, AppendIsConcat, OneByte
  <2>5. Whole(<<b>>)
    BY <2>3, WholeFree
  <2> QED
    BY <1>1, <1>2, <2>1, <2>4, <2>5, WholeConcat
<1>7. ASSUME NEW s \in Seq(PathByte), Took(s)
      PROVE  Whole(ToSt')
  <2> DEFINE d == Divided(half, s).key
  <2>1. d \in Seq(PathByte)
    BY <1>7, StepKinds, TookFinal
  <2>2. ToSt' = ToSt \o d /\ lost = 0 /\ overtook' = overtook
    BY <1>7 DEF Took
  <2> HIDE DEF d
  <2>3. d \in Seq(Byte) /\ Whole(d)
    BY <2>1, PathSeqByte, WholeFree
  <2> QED
    BY <1>1, <1>2, <2>2, <2>3, WholeConcat
<1> QED
  BY <1>3, <1>4, <1>5, <1>6, <1>7, StepKinds

LEMMA WholeAtSt ==
    ASSUME TypeInv, WholeInv
    PROVE  PacketsWhole
<1> SUFFICES ASSUME lost = 0, ~overtook, NEW i \in 1 .. Len(atSt) - 1,
                    atSt[i] = "usb1"
             PROVE  atSt[i + 1] = "usb2"
  BY DEF PacketsWhole
<1>1. PICK rest \in Seq(Byte) : ToSt = atSt \o rest
  BY ToStAtSt
<1>2. atSt \in Seq(Byte) /\ Len(atSt) \in Nat /\ Len(rest) \in Nat
  BY WireTypes, LenProperties
<1>3. /\ Len(ToSt) = Len(atSt) + Len(rest)
      /\ \A j \in 1 .. Len(atSt) + Len(rest) : j <= Len(atSt) => ToSt[j] = atSt[j]
  BY <1>1, <1>2, ConcatProperties
<1>4. i \in 1 .. Len(ToSt) /\ i + 1 \in 1 .. Len(ToSt) /\ i + 1 <= Len(atSt)
      /\ i <= Len(atSt)
  BY <1>2, <1>3
<1>5. ToSt[i] = "usb1"
  BY <1>3, <1>4
<1>6. ToSt[i + 1] = "usb2"
  BY <1>4, <1>5 DEF WholeInv, Whole
<1> QED
  BY <1>3, <1>4, <1>6

(* A packet of a USB device reaches the ST in one piece: what the keyboard *)
(* sends meanwhile comes before or after it (main.c, USART1_IRQHandler()   *)
(* and USART3_IRQHandler()).                                               *)
THEOREM PacketsWholeHolds == Spec => []PacketsWhole
<1>1. Init => TypeInv /\ WholeInv
  BY TypeInit, WholeInit
<1>2. TypeInv /\ WholeInv /\ [Next]_vars => TypeInv' /\ WholeInv'
  BY StepKinds, WholeStep
<1>3. TypeInv /\ WholeInv => PacketsWhole
  BY WholeAtSt
<1> QED
  BY <1>1, <1>2, <1>3, PTL DEF Spec

-----------------------------------------------------------------------------
(* Back in step *)

HalfMark(r) == IF r.half \in {<<"AA">>, <<"BB">>} THEN 1 ELSE 0
StMarks(r)  == Len(Only(r.st, Marks))
KeyMarks(r) == Len(Only(r.key, Marks))
StCount(r)  == Len(r.st)

\* What the RPi has, n bytes of the ST sent and l lost: the marks among the
\* data, and what is missing, are paid for by what was lost.
InStep(r, n, l) ==
    /\ r.st \in Seq(StBytes \union Marks) /\ r.key \in Seq(KeyBytes \union Marks)
    /\ StMarks(r) + KeyMarks(r) + HalfMark(r) <= l
    /\ n + HalfMark(r) <= StCount(r) + 2 * l

NoMark(s) == \A i \in 1 .. Len(s) : s[i] \notin Marks

\* Inductive: a mark that waits is counted before it is taken for data.
StepInv == NoMark(stSent) /\ NoMark(keySent) => InStep(Final, Len(stSent), lost)

LEMMA HalfMarkOf ==
    ASSUME NEW r
    PROVE  /\ HalfMark(r) \in {0, 1}
           /\ r.half \in {<<"AA">>, <<"BB">>} => HalfMark(r) = 1
           /\ r.half \notin {<<"AA">>, <<"BB">>} => HalfMark(r) = 0
BY DEF HalfMark

LEMMA NotMark ==
    ASSUME NEW b, b \notin Marks
    PROVE  <<b>> \notin {<<"AA">>, <<"BB">>}
<1>1. <<b>>[1] = b /\ <<"AA">>[1] = "AA" /\ <<"BB">>[1] = "BB"
  OBVIOUS
<1>2. <<b>> # <<"AA">> /\ <<b>> # <<"BB">>
  BY <1>1 DEF Marks
<1> QED
  BY <1>2

LEMMA EmptyNotMark == <<>> \notin {<<"AA">>, <<"BB">>}
<1>1. Len(<<>>) = 0 /\ Len(<<"AA">>) = 1 /\ Len(<<"BB">>) = 1
  OBVIOUS
<1> QED
  BY <1>1

LEMMA MarksAppend ==
    ASSUME NEW B, NEW s \in Seq(B), NEW b \in B
    PROVE  /\ Len(Only(s, Marks)) \in Nat
           /\ b \in Marks => Len(Only(Append(s, b), Marks)) = Len(Only(s, Marks)) + 1
           /\ b \notin Marks => Len(Only(Append(s, b), Marks)) = Len(Only(s, Marks))
<1> DEFINE o == Only(s, Marks)
<1>1. o \in Seq(B)
  BY OnlyType
<1>2. Only(Append(s, b), Marks) = IF b \in Marks THEN Append(o, b) ELSE o
  BY OnlyAppend
<1> HIDE DEF o
<1>3. Len(o) \in Nat /\ Len(Append(o, b)) = Len(o) + 1
  BY <1>1, LenProperties, AppendProperties
<1>4. Len(o) \in Nat
  BY <1>3
<1>5. b \in Marks => Len(Only(Append(s, b), Marks)) = Len(o) + 1
  BY <1>2, <1>3
<1>6. b \notin Marks => Len(Only(Append(s, b), Marks)) = Len(o)
  BY <1>2
<1> QED
  BY <1>4, <1>5, <1>6 DEF o

LEMMA CountsAreNat ==
    ASSUME NEW r, NEW n, NEW l, InStep(r, n, l)
    PROVE  /\ StMarks(r) \in Nat /\ KeyMarks(r) \in Nat /\ StCount(r) \in Nat
           /\ HalfMark(r) \in {0, 1}
<1>1. r.st \in Seq(StBytes \union Marks) /\ r.key \in Seq(KeyBytes \union Marks)
  BY DEF InStep
<1>2. Only(r.st, Marks) \in Seq(StBytes \union Marks)
      /\ Only(r.key, Marks) \in Seq(KeyBytes \union Marks)
  BY <1>1, OnlyType
<1> QED
  BY <1>1, <1>2, LenProperties, HalfMarkOf DEF StMarks, KeyMarks, StCount

\* A byte b is taken for one of the ST, or for a key.
LEMMA StepSt ==
    ASSUME NEW r, NEW n, NEW l, InStep(r, n, l), NEW b \in StBytes \union Marks,
           NEW q, NEW h, q = [st |-> Append(r.st, b), key |-> r.key, half |-> h]
    PROVE  /\ q.st \in Seq(StBytes \union Marks) /\ q.key \in Seq(KeyBytes \union Marks)
           /\ StCount(q) = StCount(r) + 1 /\ KeyMarks(q) = KeyMarks(r)
           /\ b \in Marks => StMarks(q) = StMarks(r) + 1
           /\ b \notin Marks => StMarks(q) = StMarks(r)
<1>1. r.st \in Seq(StBytes \union Marks) /\ r.key \in Seq(KeyBytes \union Marks)
  BY DEF InStep
<1>2. /\ b \in Marks => Len(Only(Append(r.st, b), Marks)) = Len(Only(r.st, Marks)) + 1
      /\ b \notin Marks => Len(Only(Append(r.st, b), Marks)) = Len(Only(r.st, Marks))
  BY <1>1, MarksAppend
<1>3. Append(r.st, b) \in Seq(StBytes \union Marks)
      /\ Len(Append(r.st, b)) = Len(r.st) + 1
  BY <1>1, AppendProperties
<1>4. q.st = Append(r.st, b) /\ q.key = r.key
  OBVIOUS
<1> QED
  BY <1>1, <1>2, <1>3, <1>4 DEF StMarks, KeyMarks, StCount

LEMMA StepKey ==
    ASSUME NEW r, NEW n, NEW l, InStep(r, n, l), NEW b \in KeyBytes \union Marks,
           NEW q, NEW h, q = [st |-> r.st, key |-> Append(r.key, b), half |-> h]
    PROVE  /\ q.st \in Seq(StBytes \union Marks) /\ q.key \in Seq(KeyBytes \union Marks)
           /\ StCount(q) = StCount(r) /\ StMarks(q) = StMarks(r)
           /\ b \in Marks => KeyMarks(q) = KeyMarks(r) + 1
           /\ b \notin Marks => KeyMarks(q) = KeyMarks(r)
<1>1. r.st \in Seq(StBytes \union Marks) /\ r.key \in Seq(KeyBytes \union Marks)
  BY DEF InStep
<1>2. /\ b \in Marks => Len(Only(Append(r.key, b), Marks)) = Len(Only(r.key, Marks)) + 1
      /\ b \notin Marks => Len(Only(Append(r.key, b), Marks)) = Len(Only(r.key, Marks))
  BY <1>1, MarksAppend
<1>3. Append(r.key, b) \in Seq(KeyBytes \union Marks)
  BY <1>1, AppendProperties
<1>4. q.st = r.st /\ q.key = Append(r.key, b)
  OBVIOUS
<1> QED
  BY <1>1, <1>2, <1>3, <1>4 DEF StMarks, KeyMarks, StCount

\* A byte waits for the next one.
LEMMA StepHalf ==
    ASSUME NEW r, NEW n, NEW l, InStep(r, n, l),
           NEW q, NEW h, q = [st |-> r.st, key |-> r.key, half |-> h]
    PROVE  /\ q.st \in Seq(StBytes \union Marks) /\ q.key \in Seq(KeyBytes \union Marks)
           /\ StCount(q) = StCount(r) /\ StMarks(q) = StMarks(r)
           /\ KeyMarks(q) = KeyMarks(r)
<1>1. q.st = r.st /\ q.key = r.key
  OBVIOUS
<1> QED
  BY <1>1 DEF StMarks, KeyMarks, StCount, InStep

\* A byte is lost with its mark.
LEMMA StepLost ==
    ASSUME NEW r, NEW n \in Nat, NEW l \in Nat, InStep(r, n, l), NEW k \in {n, n + 1}
    PROVE  InStep(r, k, l + 1)
<1>1. /\ StMarks(r) \in Nat /\ KeyMarks(r) \in Nat /\ StCount(r) \in Nat
      /\ HalfMark(r) \in {0, 1}
  BY CountsAreNat
<1> QED
  BY <1>1 DEF InStep

\* A byte is lost, its mark is not.
LEMMA StepMark ==
    ASSUME NEW r \in Rec(PathByte), NEW n \in Nat, NEW l \in Nat, InStep(r, n, l),
           NEW k \in {n, n + 1}, NEW mark \in Marks
    PROVE  InStep(Paired(r, mark), k, l + 1)
<1> DEFINE q == Paired(r, mark)
<1>1. /\ StMarks(r) \in Nat /\ KeyMarks(r) \in Nat /\ StCount(r) \in Nat
      /\ HalfMark(r) \in {0, 1}
      /\ StMarks(r) + KeyMarks(r) + HalfMark(r) <= l
      /\ n + HalfMark(r) <= StCount(r) + 2 * l
  BY CountsAreNat DEF InStep
<1>2. mark \in PathByte /\ mark \in StBytes \union Marks /\ mark \in KeyBytes \union Marks
  BY Bytes
<1>3. HalfMark(q) \in {0, 1}
  BY HalfMarkOf
<1>4. CASE r.half = <<"AA">>
  <2>1. q = [st |-> Append(r.st, mark), key |-> r.key, half |-> <<>>]
    BY <1>2, <1>4, PairedCases
  <2>2. q.half = <<>>
    BY <2>1
  <2>3. HalfMark(q) = 0 /\ HalfMark(r) = 1
    BY <1>4, <2>2, EmptyNotMark, HalfMarkOf
  <2> HIDE DEF q
  <2>4. /\ q.st \in Seq(StBytes \union Marks) /\ q.key \in Seq(KeyBytes \union Marks)
        /\ StCount(q) = StCount(r) + 1 /\ KeyMarks(q) = KeyMarks(r)
        /\ StMarks(q) = StMarks(r) + 1
    BY <1>2, <2>1, StepSt
  <2>5. InStep(q, k, l + 1)
    <3>1. StMarks(q) + KeyMarks(q) + HalfMark(q) <= l + 1
      BY <1>1, <2>3, <2>4
    <3>2. k + HalfMark(q) <= StCount(q) + 2 * (l + 1)
      BY <1>1, <2>3, <2>4
    <3> QED
      BY <2>4, <3>1, <3>2 DEF InStep
  <2> QED
    BY <2>5 DEF q
<1>5. CASE r.half = <<"BB">>
  <2>1. q = [st |-> r.st, key |-> Append(r.key, mark), half |-> <<>>]
    BY <1>2, <1>5, PairedCases
  <2>2. q.half = <<>>
    BY <2>1
  <2>3. HalfMark(q) = 0 /\ HalfMark(r) = 1
    BY <1>5, <2>2, EmptyNotMark, HalfMarkOf
  <2> HIDE DEF q
  <2>4. /\ q.st \in Seq(StBytes \union Marks) /\ q.key \in Seq(KeyBytes \union Marks)
        /\ StCount(q) = StCount(r) /\ StMarks(q) = StMarks(r)
        /\ KeyMarks(q) = KeyMarks(r) + 1
    BY <1>2, <2>1, StepKey
  <2>5. InStep(q, k, l + 1)
    <3>1. StMarks(q) + KeyMarks(q) + HalfMark(q) <= l + 1
      BY <1>1, <2>3, <2>4
    <3>2. k + HalfMark(q) <= StCount(q) + 2 * (l + 1)
      BY <1>1, <2>3, <2>4
    <3> QED
      BY <2>4, <3>1, <3>2 DEF InStep
  <2> QED
    BY <2>5 DEF q
<1>6. CASE r.half \notin {<<"AA">>, <<"BB">>}
  <2>1. q = [st |-> r.st, key |-> r.key, half |-> <<mark>>]
    BY <1>2, <1>6, PairedCases
  <2>2. HalfMark(r) = 0
    BY <1>6, HalfMarkOf
  <2> HIDE DEF q
  <2>3. /\ q.st \in Seq(StBytes \union Marks) /\ q.key \in Seq(KeyBytes \union Marks)
        /\ StCount(q) = StCount(r) /\ StMarks(q) = StMarks(r)
        /\ KeyMarks(q) = KeyMarks(r)
    BY <2>1, StepHalf
  <2>4. InStep(q, k, l + 1)
    BY <1>1, <1>3, <2>2, <2>3 DEF InStep
  <2> QED
    BY <2>4 DEF q
<1> QED
  BY <1>4, <1>5, <1>6

\* Nothing is lost: a pair, or the mark for the byte that was, and a byte that
\* waits.
LEMMA StepPair ==
    ASSUME NEW r \in Rec(PathByte), NEW n \in Nat, NEW l \in Nat, InStep(r, n, l),
           NEW mark \in Marks, NEW b \in PathByte, b \notin Marks, NEW k,
           \/ mark = "AA" /\ b \in StBytes /\ k = n + 1
           \/ mark = "BB" /\ b \in KeyBytes /\ k = n
    PROVE  InStep(Paired(Paired(r, mark), b), k, l)
<1> DEFINE q == Paired(r, mark)
           p == Paired(q, b)
<1>1. /\ StMarks(r) \in Nat /\ KeyMarks(r) \in Nat /\ StCount(r) \in Nat
      /\ HalfMark(r) \in {0, 1}
      /\ StMarks(r) + KeyMarks(r) + HalfMark(r) <= l
      /\ n + HalfMark(r) <= StCount(r) + 2 * l
  BY CountsAreNat DEF InStep
<1>2. mark \in PathByte /\ mark \in StBytes \union Marks /\ mark \in KeyBytes \union Marks
  BY Bytes
<1>3. q \in Rec(PathByte)
  BY <1>2, PairedCases
<1>4. k \in {n, n + 1}
  OBVIOUS
<1>5. ASSUME q.half = <<>>, InStep(q, k, l), HalfMark(q) = 0
      PROVE  InStep(p, k, l)
  <2> HIDE DEF q
  <2>1. p = [st |-> q.st, key |-> q.key, half |-> <<b>>]
    BY <1>3, <1>5, EmptyNotMark, PairedCases
  <2>2. p.half = <<b>>
    BY <2>1
  <2>3. HalfMark(p) = 0
    BY <2>2, NotMark, HalfMarkOf
  <2> HIDE DEF p
  <2>4. /\ p.st \in Seq(StBytes \union Marks) /\ p.key \in Seq(KeyBytes \union Marks)
        /\ StCount(p) = StCount(q) /\ StMarks(p) = StMarks(q)
        /\ KeyMarks(p) = KeyMarks(q)
    BY <1>5, <2>1, StepHalf
  <2>5. /\ StMarks(q) + KeyMarks(q) + HalfMark(q) <= l
        /\ k + HalfMark(q) <= StCount(q) + 2 * l
    BY <1>5 DEF InStep
  <2> QED
    BY <1>5, <2>3, <2>4, <2>5 DEF InStep
<1>6. CASE r.half = <<"AA">>
  <2>1. q = [st |-> Append(r.st, mark), key |-> r.key, half |-> <<>>]
    BY <1>2, <1>6, PairedCases
  <2>2. q.half = <<>>
    BY <2>1
  <2>3. HalfMark(q) = 0 /\ HalfMark(r) = 1
    BY <1>6, <2>2, EmptyNotMark, HalfMarkOf
  <2> HIDE DEF q, p
  <2>4. /\ q.st \in Seq(StBytes \union Marks) /\ q.key \in Seq(KeyBytes \union Marks)
        /\ StCount(q) = StCount(r) + 1 /\ KeyMarks(q) = KeyMarks(r)
        /\ StMarks(q) = StMarks(r) + 1
    BY <1>2, <2>1, StepSt
  <2>5. InStep(q, k, l)
    <3>1. StMarks(q) + KeyMarks(q) + HalfMark(q) <= l
      BY <1>1, <1>4, <2>3, <2>4
    <3>2. k + HalfMark(q) <= StCount(q) + 2 * l
      BY <1>1, <1>4, <2>3, <2>4
    <3> QED
      BY <2>4, <3>1, <3>2 DEF InStep
  <2>6. InStep(p, k, l)
    BY <1>5, <2>2, <2>3, <2>5
  <2> QED
    BY <2>6 DEF p, q
<1>7. CASE r.half = <<"BB">>
  <2>1. q = [st |-> r.st, key |-> Append(r.key, mark), half |-> <<>>]
    BY <1>2, <1>7, PairedCases
  <2>2. q.half = <<>>
    BY <2>1
  <2>3. HalfMark(q) = 0 /\ HalfMark(r) = 1
    BY <1>7, <2>2, EmptyNotMark, HalfMarkOf
  <2> HIDE DEF q, p
  <2>4. /\ q.st \in Seq(StBytes \union Marks) /\ q.key \in Seq(KeyBytes \union Marks)
        /\ StCount(q) = StCount(r) /\ StMarks(q) = StMarks(r)
        /\ KeyMarks(q) = KeyMarks(r) + 1
    BY <1>2, <2>1, StepKey
  <2>5. InStep(q, k, l)
    <3>1. StMarks(q) + KeyMarks(q) + HalfMark(q) <= l
      BY <1>1, <1>4, <2>3, <2>4
    <3>2. k + HalfMark(q) <= StCount(q) + 2 * l
      BY <1>1, <1>4, <2>3, <2>4
    <3> QED
      BY <2>4, <3>1, <3>2 DEF InStep
  <2>6. InStep(p, k, l)
    BY <1>5, <2>2, <2>3, <2>5
  <2> QED
    BY <2>6 DEF p, q
<1>8. CASE r.half \notin {<<"AA">>, <<"BB">>}
  <2>1. q = [st |-> r.st, key |-> r.key, half |-> <<mark>>]
    BY <1>2, <1>8, PairedCases
  <2>2. HalfMark(r) = 0 /\ q.half = <<mark>> /\ q.st = r.st /\ q.key = r.key
    BY <1>8, <2>1, HalfMarkOf
  <2> HIDE DEF q
  <2>3. CASE mark = "AA" /\ b \in StBytes /\ k = n + 1
    <3>1. p = [st |-> Append(r.st, b), key |-> r.key, half |-> <<>>]
      BY <1>3, <2>2, <2>3, PairedCases
    <3>2. p.half = <<>>
      BY <3>1
    <3>3. HalfMark(p) = 0
      BY <3>2, EmptyNotMark, HalfMarkOf
    <3> HIDE DEF p
    <3>4. /\ p.st \in Seq(StBytes \union Marks) /\ p.key \in Seq(KeyBytes \union Marks)
          /\ StCount(p) = StCount(r) + 1 /\ KeyMarks(p) = KeyMarks(r)
          /\ StMarks(p) = StMarks(r)
      BY <2>3, <3>1, StepSt
    <3>5. InStep(p, k, l)
      BY <1>1, <2>2, <2>3, <3>3, <3>4 DEF InStep
    <3> QED
      BY <3>5 DEF p, q
  <2>4. CASE mark = "BB" /\ b \in KeyBytes /\ k = n
    <3>1. p = [st |-> r.st, key |-> Append(r.key, b), half |-> <<>>]
      BY <1>3, <2>2, <2>4, PairedCases
    <3>2. p.half = <<>>
      BY <3>1
    <3>3. HalfMark(p) = 0
      BY <3>2, EmptyNotMark, HalfMarkOf
    <3> HIDE DEF p
    <3>4. /\ p.st \in Seq(StBytes \union Marks) /\ p.key \in Seq(KeyBytes \union Marks)
          /\ StCount(p) = StCount(r) /\ StMarks(p) = StMarks(r)
          /\ KeyMarks(p) = KeyMarks(r)
      BY <2>4, <3>1, StepKey
    <3>5. InStep(p, k, l)
      BY <1>1, <2>2, <2>4, <3>3, <3>4 DEF InStep
    <3> QED
      BY <3>5 DEF p, q
  <2> QED
    BY <2>3, <2>4
<1> QED
  BY <1>6, <1>7, <1>8

LEMMA NoMarkAppend ==
    ASSUME NEW B, NEW s \in Seq(B), NEW b \in B, NoMark(Append(s, b))
    PROVE  NoMark(s) /\ b \notin Marks
<1>1. /\ Len(s) \in Nat /\ Len(Append(s, b)) = Len(s) + 1
      /\ Append(s, b)[Len(s) + 1] = b
      /\ \A i \in 1 .. Len(s) : Append(s, b)[i] = s[i]
  BY LenProperties, AppendProperties
<1> DEFINE a == Append(s, b)
<1>2. \A i \in 1 .. Len(s) + 1 : a[i] \notin Marks
  BY <1>1 DEF NoMark
<1> HIDE DEF a
<1>3. \A i \in 1 .. Len(s) : i \in 1 .. Len(s) + 1 /\ a[i] = s[i]
  BY <1>1 DEF a
<1>4. Len(s) + 1 \in 1 .. Len(s) + 1 /\ a[Len(s) + 1] = b
  BY <1>1 DEF a
<1> QED
  BY <1>2, <1>3, <1>4 DEF NoMark

LEMMA StepInit ==
    ASSUME Init
    PROVE  StepInv
<1>1. TypeInv /\ Path = <<>>
  <2>1. TypeInv
    BY TypeInit
  <2>2. Path = <<>>
    BY DEF Init, Path
  <2> QED
    BY <2>1, <2>2
<1>2. Final = [st |-> stGot, key |-> keyGot, half |-> half]
  BY <1>1, FinalType, AfterEmpty DEF Final
<1>3. Final = [st |-> <<>>, key |-> <<>>, half |-> <<>>] /\ Len(stSent) = 0 /\ lost = 0
  BY <1>2 DEF Init
<1>4. Final.st = <<>> /\ Final.key = <<>> /\ Final.half = <<>> /\ Len(<<>>) = 0
  BY <1>3
<1>5. StMarks(Final) = 0 /\ KeyMarks(Final) = 0 /\ StCount(Final) = 0
  BY <1>4, OnlyEmpty DEF StMarks, KeyMarks, StCount
<1>6. HalfMark(Final) = 0
  BY <1>4, EmptyNotMark, HalfMarkOf
<1>7. <<>> \in Seq(StBytes \union Marks) /\ <<>> \in Seq(KeyBytes \union Marks)
  BY EmptySeq
<1>8. InStep(Final, Len(stSent), lost)
  BY <1>3, <1>4, <1>5, <1>6, <1>7 DEF InStep
<1> QED
  BY <1>8 DEF StepInv

LEMMA StepStep ==
    ASSUME TypeInv, StepInv, [Next]_vars
    PROVE  StepInv'
<1> SUFFICES ASSUME NoMark(stSent'), NoMark(keySent')
             PROVE  InStep(Final', Len(stSent'), lost')
  BY DEF StepInv
<1>1. lost \in Nat /\ stSent \in Seq(StBytes) /\ keySent \in Seq(KeyBytes)
  BY TypesOf
<1>2. Len(stSent) \in Nat /\ Final \in Rec(PathByte)
  BY <1>1, LenProperties, FinalType
<1>3. NoMark(stSent) /\ NoMark(keySent) => InStep(Final, Len(stSent), lost)
  BY DEF StepInv
<1>4. ASSUME Final' = Final, stSent' = stSent, NoMark(keySent),
             lost' = lost \/ lost' = lost + 1
      PROVE  InStep(Final', Len(stSent'), lost')
  <2>1. InStep(Final, Len(stSent), lost)
    BY <1>3, <1>4
  <2>2. InStep(Final, Len(stSent), lost + 1)
    BY <1>1, <1>2, <2>1, StepLost
  <2> QED
    BY <1>4, <2>1, <2>2
<1>5. CASE Quiet \/ Sent
  <2>1. /\ Final' = Final /\ stSent' = stSent /\ keySent' = keySent
        /\ lost' = lost \/ lost' = lost + 1
    BY <1>5, SameFinal DEF Quiet, Sent
  <2> QED
    BY <1>4, <2>1
<1>6. ASSUME NEW mark \in Marks, NEW b \in StBytes \union KeyBytes, Carried(mark, b),
             NoMark(stSent), NoMark(keySent), b \notin Marks,
             \/ mark = "AA" /\ b \in StBytes /\ Len(stSent') = Len(stSent) + 1
             \/ mark = "BB" /\ b \in KeyBytes /\ Len(stSent') = Len(stSent)
      PROVE  InStep(Final', Len(stSent'), lost')
  <2> DEFINE k == Len(stSent')
             n == Len(stSent)
  <2>1. InStep(Final, n, lost) /\ k \in {n, n + 1} /\ n \in Nat /\ b \in PathByte
    BY <1>2, <1>3, <1>6, Bytes
  <2>2. \/ mark = "AA" /\ b \in StBytes /\ k = n + 1
        \/ mark = "BB" /\ b \in KeyBytes /\ k = n
    BY <1>6
  <2> HIDE DEF k, n
  <2>3. InStep(Paired(Paired(Final, mark), b), k, lost)
    BY <1>1, <1>2, <1>6, <2>1, <2>2, StepPair
  <2>4. InStep(Paired(Final, mark), k, lost + 1) /\ InStep(Final, k, lost + 1)
    BY <1>1, <1>2, <2>1, StepMark, StepLost
  <2>5. \/ lost' = lost /\ Final' = Paired(Paired(Final, mark), b)
        \/ lost' = lost + 1 /\ Final' \in {Final, Paired(Final, mark)}
    BY <1>6, CarriedFinal
  <2> QED
    BY <2>3, <2>4, <2>5 DEF k
<1>7. ASSUME NEW b \in StBytes, CarriedSt(b)
      PROVE  InStep(Final', Len(stSent'), lost')
  <2>1. Carried("AA", b) /\ stSent' = Append(stSent, b) /\ keySent' = keySent
    BY <1>7 DEF CarriedSt
  <2>2. NoMark(stSent) /\ b \notin Marks
    BY <1>1, <2>1, NoMarkAppend
  <2>3. Len(stSent') = Len(stSent) + 1
    BY <1>1, <2>1, AppendProperties
  <2> QED
    BY <1>6, <2>1, <2>2, <2>3, Bytes
<1>8. ASSUME NEW b \in KeyBytes, CarriedKey(b)
      PROVE  InStep(Final', Len(stSent'), lost')
  <2>1. Carried("BB", b) /\ keySent' = Append(keySent, b) /\ stSent' = stSent
    BY <1>8 DEF CarriedKey
  <2>2. NoMark(keySent) /\ b \notin Marks
    BY <1>1, <2>1, NoMarkAppend
  <2> QED
    BY <1>6, <2>1, <2>2, Bytes
<1>9. ASSUME NEW b \in KeyBytes, Straight(b)
      PROVE  InStep(Final', Len(stSent'), lost')
  <2>1. /\ Final' = Final /\ stSent' = stSent /\ keySent' = Append(keySent, b)
        /\ lost' = lost \/ lost' = lost + 1
    BY <1>9, SameFinal DEF Straight
  <2>2. NoMark(keySent)
    BY <1>1, <2>1, NoMarkAppend
  <2> QED
    BY <1>4, <2>1, <2>2
<1>10. ASSUME NEW s \in Seq(PathByte), Took(s)
       PROVE  InStep(Final', Len(stSent'), lost')
  <2>1. Final' = Final
    BY <1>10, StepKinds, TookFinal
  <2>2. stSent' = stSent /\ keySent' = keySent /\ lost' = lost
    BY <1>10 DEF Took
  <2> QED
    BY <1>4, <2>1, <2>2
<1> QED
  BY <1>5, <1>7, <1>8, <1>9, <1>10, StepKinds

LEMMA NoMarkOfSet ==
    ASSUME NEW B, NEW s \in Seq(B), NEW t \in Seq(B), ToSet(s \o t) \cap Marks = {}
    PROVE  NoMark(s) /\ NoMark(t)
<1> DEFINE c == s \o t
<1>1. /\ Len(s) \in Nat /\ Len(t) \in Nat /\ c \in Seq(B) /\ Len(c) = Len(s) + Len(t)
      /\ \A i \in 1 .. Len(s) + Len(t) : c[i] = IF i <= Len(s) THEN s[i] ELSE t[i - Len(s)]
  BY LenProperties, ConcatProperties
<1> HIDE DEF c
<1>2. DOMAIN c = 1 .. Len(s) + Len(t)
  BY <1>1, LenProperties
<1>3. \A i \in 1 .. Len(s) + Len(t) : c[i] \notin Marks
  BY <1>2 DEF ToSet, c
<1>4. \A i \in 1 .. Len(s) : i \in 1 .. Len(s) + Len(t) /\ c[i] = s[i]
  BY <1>1
<1>5. ASSUME NEW i \in 1 .. Len(t)
      PROVE  t[i] \notin Marks
  <2> DEFINE j == i + Len(s)
  <2>1. j \in 1 .. Len(s) + Len(t) /\ ~(j <= Len(s)) /\ j - Len(s) = i
    BY <1>1
  <2>2. c[j] = t[i]
    BY <1>1, <2>1
  <2> QED
    BY <1>3, <2>1, <2>2
<1> QED
  BY <1>3, <1>4, <1>5 DEF NoMark

LEMMA SetOfSeq ==
    ASSUME NEW B, NEW s \in Seq(B)
    PROVE  ToSet(s) \subseteq B
<1>1. DOMAIN s = 1 .. Len(s) /\ \A i \in 1 .. Len(s) : s[i] \in B
  BY LenProperties, ElementOfSeq
<1> QED
  BY <1>1 DEF ToSet

LEMMA StepBack ==
    ASSUME TypeInv, StepInv
    PROVE  BackInStep
<1> SUFFICES ASSUME ToSet(stSent \o keySent) \cap Marks = {}
             PROVE  /\ ToSet(Taken.st) \subseteq StBytes \union Marks
                    /\ ToSet(Taken.key) \subseteq KeyBytes \union Marks
                    /\ Len(TakenMarks("st")) + Len(TakenMarks("key")) <= lost
                    /\ Len(stSent) <= Len(Taken.st) + 2 * lost
  BY DEF BackInStep
<1>1. stSent \in Seq(PathByte) /\ keySent \in Seq(PathByte)
  BY TypesOf, Bytes, SeqSubset
<1>2. NoMark(stSent) /\ NoMark(keySent)
  BY <1>1, NoMarkOfSet
<1>3. InStep(Final, Len(stSent), lost)
  BY <1>2 DEF StepInv
<1>4. /\ StMarks(Final) \in Nat /\ KeyMarks(Final) \in Nat /\ StCount(Final) \in Nat
      /\ HalfMark(Final) \in {0, 1}
  BY <1>3, CountsAreNat
<1>5. Len(stSent) \in Nat /\ lost \in Nat
  BY TypesOf, LenProperties
<1>6. /\ Final.st \in Seq(StBytes \union Marks) /\ Final.key \in Seq(KeyBytes \union Marks)
      /\ StMarks(Final) + KeyMarks(Final) <= lost
      /\ Len(stSent) <= StCount(Final) + 2 * lost
  BY <1>3, <1>4, <1>5 DEF InStep
<1>7. Taken = [st |-> Final.st, key |-> Final.key]
  BY UnderWayIs
<1>8. Taken.st = Final.st /\ Taken.key = Final.key
      /\ Taken["st"] = Final.st /\ Taken["key"] = Final.key
  BY <1>7
<1>9. /\ Len(TakenMarks("st")) = StMarks(Final) /\ Len(TakenMarks("key")) = KeyMarks(Final)
      /\ Len(Taken.st) = StCount(Final)
  BY <1>8 DEF TakenMarks, StMarks, KeyMarks, StCount
<1>10. /\ ToSet(Taken.st) \subseteq StBytes \union Marks
       /\ ToSet(Taken.key) \subseteq KeyBytes \union Marks
  BY <1>6, <1>8, SetOfSeq
<1> QED
  BY <1>6, <1>9, <1>10

(* If no data looks like a mark, the RPi gets back in step after any       *)
(* number of bytes were dropped: each costs at most one mark taken for     *)
(* data and one more byte, and no byte of the ST turns up as a key, nor a  *)
(* key as a command (ikbd_st.cpp, processReceivedCommands()).              *)
THEOREM BackInStepHolds == Spec => []BackInStep
<1>1. Init => TypeInv /\ StepInv
  BY TypeInit, StepInit
<1>2. TypeInv /\ StepInv /\ [Next]_vars => TypeInv' /\ StepInv'
  BY StepKinds, StepStep
<1>3. TypeInv /\ StepInv => BackInStep
  BY StepBack
<1> QED
  BY <1>1, <1>2, <1>3, PTL DEF Spec

-----------------------------------------------------------------------------
(* The interrupts *)

\* What waits in a buffer has its interrupt enabled.
Awake == (buff1 # <<>> => txie1) /\ (buff0 # <<>> => txie2)

LEMMA AwakeStep ==
    ASSUME Awake, [Next]_vars
    PROVE  Awake'
<1>1. ASSUME Tx1
      PROVE  (buff1 # <<>> => txie1) => (buff1' # <<>> => txie1')
  <2>1. CASE dr1 # <<>>
    BY <1>1, <2>1 DEF Tx1
  <2>2. CASE dr1 = <<>> /\ buff1 # <<>>
    BY <1>1, <2>2 DEF Tx1
  <2>3. CASE dr1 = <<>> /\ buff1 = <<>>
    BY <1>1, <2>3 DEF Tx1
  <2> QED
    BY <2>1, <2>2, <2>3
<1>2. ASSUME Tx2(buff0, dr2, txie2)
      PROVE  (buff0 # <<>> => txie2) => (buff0' # <<>> => txie2')
  <2>1. CASE dr2 # <<>>
    BY <1>2, <2>1 DEF Tx2
  <2>2. CASE dr2 = <<>> /\ buff0 # <<>>
    BY <1>2, <2>2 DEF Tx2
  <2>3. CASE dr2 = <<>> /\ buff0 = <<>>
    BY <1>2, <2>3 DEF Tx2
  <2> QED
    BY <2>1, <2>2, <2>3
<1>3. CASE Usart1Receives
  <2>1. Tx1
    BY <1>3 DEF Usart1Receives
  <2>2. txie2' = TRUE \/ (buff0' = buff0 /\ txie2' = txie2)
    BY <1>3 DEF Usart1Receives
  <2> QED
    BY <1>1, <2>1, <2>2 DEF Awake
<1>4. CASE Usart1Transmits
  BY <1>1, <1>4 DEF Usart1Transmits, Awake
<1>5. CASE Usart2Transmits
  BY <1>2, <1>5 DEF Usart2Transmits, Awake
<1>6. ASSUME NEW b \in StBytes, Usart2Receives(b)
      PROVE  Awake'
  <2>1. Tx2(buff0, dr2, txie2) /\ txie1' = TRUE
    BY <1>6 DEF Usart2Receives, ForRpi
  <2> QED
    BY <1>2, <2>1 DEF Awake
<1>7. ASSUME NEW b \in KeyBytes, Usart3Receives(b)
      PROVE  Awake'
  <2>1. CASE hostIsUp
    <3>1. txie1' = TRUE /\ buff0' = buff0 /\ txie2' = txie2
      BY <1>7, <2>1 DEF Usart3Receives, ForRpi
    <3> QED
      BY <3>1 DEF Awake
  <2>2. CASE ~hostIsUp
    <3>1. /\ buff1' = buff1 /\ txie1' = txie1
          /\ txie2' = TRUE \/ (buff0' = buff0 /\ txie2' = txie2)
      BY <1>7, <2>2 DEF Usart3Receives
    <3> QED
      BY <3>1 DEF Awake
  <2> QED
    BY <2>1, <2>2
<1>8. ASSUME UNCHANGED <<buff0, buff1, txie1, txie2>>
      PROVE  Awake'
  BY <1>8 DEF Awake
<1>9. CASE RpiSends \/ HostFlips \/ Line1 \/ Line2 \/ UNCHANGED vars
  BY <1>8, <1>9 DEF RpiSends, HostFlips, Line1, Line2, vars, franz
<1>10. ASSUME NEW n \in ReadSizes, RpiReads(n)
       PROVE  Awake'
  BY <1>8, <1>10 DEF RpiReads, franz
<1> QED
  BY <1>3, <1>4, <1>5, <1>6, <1>7, <1>9, <1>10 DEF Next, Inputs, Franz

(* No byte is left in a circular buffer with its transmit interrupt off:   *)
(* the safety part of AllArrives.  The bytes reach the buffers, and the    *)
(* interrupts are enabled and disabled, in different handlers              *)
(* (ce_franz_fw/main.c, USART1_IRQHandler() to USART3_IRQHandler()).       *)
THEOREM AwakeHolds == Spec => []Awake
<1>1. Init => Awake
  BY DEF Init, Awake
<1>2. Awake /\ [Next]_vars => Awake'
  BY AwakeStep
<1> QED
  BY <1>1, <1>2, PTL DEF Spec

-----------------------------------------------------------------------------
(* The keys: the counters of the hotkeys *)

Pairs == {bk \in Boards \X Keys : bk[2] \in KeysOf[bk[1]]}
Ikbds == [cnt : [HotKeys -> Int], waiting : BOOLEAN, keybJoy : BOOLEAN,
          firstJoyIs0 : BOOLEAN, mode : {"mouse", "joy"},
          dir : {"none", "left", "right"}, btn : BOOLEAN]
Tolds == [keys : SUBSET Keys, mouse : BOOLEAN,
          dir : [Ports -> {"none", "left", "right", "pushed"}]]
KeyCalls == [ikbd : Ikbds, told : Tolds, down : SUBSET Pairs, skip : BOOLEAN,
             unsteady : BOOLEAN, skipped : BOOLEAN, carried : BOOLEAN]

Counts(i, d) == \A k \in HotKeys : i.cnt[k] = HeldBy(d, k)

LEMMA KeyTypes ==
    ASSUME NEW b \in Boards, NEW k \in KeysOf[b]
    PROVE  /\ k \in Keys /\ <<b, k>> \in Pairs
           /\ k \in HotKeys \union JoyKeys
<1>1. KeysOf \in [Boards -> SUBSET (HotKeys \union JoyKeys)]
  BY KeysAssumption
<1>2. KeysOf[b] \in Range(KeysOf) /\ KeysOf[b] \subseteq HotKeys \union JoyKeys
  BY <1>1 DEF Range
<1>3. k \in Keys
  BY <1>2 DEF Keys
<1> QED
  BY <1>2, <1>3 DEF Pairs

(* A key is held by no, one or two boards.                                 *)
LEMMA HeldByIs ==
    ASSUME NEW d, NEW k
    PROVE  HeldBy(d, k) = (IF <<"pc", k>> \in d THEN 1 ELSE 0)
                          + (IF <<"st", k>> \in d THEN 1 ELSE 0)
<1> DEFINE B == {b \in Boards : <<b, k>> \in d}
<1>1. HeldBy(d, k) = Cardinality(B)
  BY DEF HeldBy
<1>2. /\ \A b : b \in B <=> b \in {"pc", "st"} /\ <<b, k>> \in d
      /\ Cardinality({}) = 0 /\ "pc" # "st"
  BY FS_EmptySet DEF Boards
<1>3. /\ IsFiniteSet({"pc"}) /\ Cardinality({"pc"}) = 1
      /\ IsFiniteSet({"st"}) /\ Cardinality({"st"}) = 1
  BY FS_Singleton
<1>4. Cardinality({"pc"} \union {"st"}) = 2
  BY <1>3, FS_AddElement
<1> HIDE DEF B
<1>5. CASE <<"pc", k>> \in d /\ <<"st", k>> \in d
  <2>1. B = {"pc"} \union {"st"}
    BY <1>2, <1>5
  <2> QED
    BY <1>1, <1>4, <1>5, <2>1
<1>6. CASE <<"pc", k>> \in d /\ <<"st", k>> \notin d
  <2>1. B = {"pc"}
    BY <1>2, <1>6
  <2> QED
    BY <1>1, <1>3, <1>6, <2>1
<1>7. CASE <<"pc", k>> \notin d /\ <<"st", k>> \in d
  <2>1. B = {"st"}
    BY <1>2, <1>7
  <2> QED
    BY <1>1, <1>3, <1>7, <2>1
<1>8. CASE <<"pc", k>> \notin d /\ <<"st", k>> \notin d
  <2>1. B = {}
    BY <1>2, <1>8
  <2> QED
    BY <1>1, <1>2, <1>8, <2>1
<1> QED
  BY <1>5, <1>6, <1>7, <1>8

LEMMA HeldByPressed ==
    ASSUME NEW d, NEW b \in Boards, NEW k, NEW h, <<b, k>> \notin d
    PROVE  HeldBy(d \union {<<b, k>>}, h)
             = IF h = k THEN HeldBy(d, h) + 1 ELSE HeldBy(d, h)
<1> DEFINE e == d \union {<<b, k>>}
<1>1. b \in {"pc", "st"} /\ "pc" # "st"
  BY DEF Boards
<1>2. \A c : <<c, h>> \in e <=> <<c, h>> \in d \/ (c = b /\ h = k)
  OBVIOUS
<1> HIDE DEF e
<1>3. /\ HeldBy(d, h) = (IF <<"pc", h>> \in d THEN 1 ELSE 0)
                        + (IF <<"st", h>> \in d THEN 1 ELSE 0)
      /\ HeldBy(e, h) = (IF <<"pc", h>> \in e THEN 1 ELSE 0)
                        + (IF <<"st", h>> \in e THEN 1 ELSE 0)
  BY HeldByIs
<1>4. h = k => <<b, h>> \notin d
  OBVIOUS
<1>5. HeldBy(e, h) = IF h = k THEN HeldBy(d, h) + 1 ELSE HeldBy(d, h)
  BY <1>1, <1>2, <1>3, <1>4
<1> QED
  BY <1>5 DEF e

LEMMA HeldByReleased ==
    ASSUME NEW d, NEW b \in Boards, NEW k, NEW h, <<b, k>> \in d
    PROVE  HeldBy(d \ {<<b, k>>}, h)
             = IF h = k THEN HeldBy(d, h) - 1 ELSE HeldBy(d, h)
<1> DEFINE e == d \ {<<b, k>>}
<1>1. b \in {"pc", "st"} /\ "pc" # "st"
  BY DEF Boards
<1>2. \A c : <<c, h>> \in e <=> <<c, h>> \in d /\ ~(c = b /\ h = k)
  OBVIOUS
<1> HIDE DEF e
<1>3. /\ HeldBy(d, h) = (IF <<"pc", h>> \in d THEN 1 ELSE 0)
                        + (IF <<"st", h>> \in d THEN 1 ELSE 0)
      /\ HeldBy(e, h) = (IF <<"pc", h>> \in e THEN 1 ELSE 0)
                        + (IF <<"st", h>> \in e THEN 1 ELSE 0)
  BY HeldByIs
<1>4. h = k => <<b, h>> \in d
  OBVIOUS
<1>5. HeldBy(e, h) = IF h = k THEN HeldBy(d, h) - 1 ELSE HeldBy(d, h)
  BY <1>1, <1>2, <1>3, <1>4
<1> QED
  BY <1>5 DEF e

LEMMA HeldByHeld ==
    ASSUME NEW d, NEW k, HeldBy(d, k) > 0
    PROVE  Held(d, k)
BY HeldByIs DEF Held, Boards

LEMMA CountedIs ==
    ASSUME NEW i \in Ikbds, NEW k, NEW press \in BOOLEAN
    PROVE  /\ Counted(i, k, press) \in Ikbds
           /\ \A h \in HotKeys :
                 Counted(i, k, press).cnt[h] =
                    IF h # k THEN i.cnt[h]
                    ELSE IF press THEN i.cnt[h] + 1 ELSE i.cnt[h] - 1
           /\ Counted(i, k, press).waiting = i.waiting
           /\ Counted(i, k, press).keybJoy = i.keybJoy
           /\ Counted(i, k, press).firstJoyIs0 = i.firstJoyIs0
           /\ Counted(i, k, press).mode = i.mode
           /\ Counted(i, k, press).dir = i.dir
           /\ Counted(i, k, press).btn = i.btn
BY DEF Ikbds, Counted

LEMMA SwitchedIs ==
    ASSUME NEW i \in Ikbds, NEW press \in BOOLEAN
    PROVE  /\ Switched(i, press) \in Ikbds
           /\ Switched(i, press).cnt = i.cnt
           /\ Switched(i, press).mode = i.mode
           /\ Switched(i, press).dir = i.dir
           /\ Switched(i, press).btn = i.btn
           /\ ~press => Switched(i, press) = i
           /\ i.waiting => Switched(i, press).waiting
           /\ Switched(i, press).waiting /\ ~i.waiting => i.cnt["ctrl"] > 0
BY DEF Ikbds, Switched, Combined, HotKeys

Waits(i) == i.waiting => \E k \in HotKeys : i.cnt[k] > 0

\* The result h of a call of handleHotkeys() with the object i: what a hotkey
\* may change, and what it skips.
HotkeyDoes(i, k, press, skip, h) ==
    /\ h.ikbd \in Ikbds /\ h.skip \in BOOLEAN
    /\ \A g \in HotKeys :
          h.ikbd.cnt[g] = IF g # k THEN i.cnt[g]
                          ELSE IF press THEN i.cnt[g] + 1 ELSE i.cnt[g] - 1
    /\ h.ikbd.mode = i.mode /\ h.ikbd.dir = i.dir /\ h.ikbd.btn = i.btn
    /\ skip => /\ h.skip /\ h.ikbd.waiting = i.waiting
               /\ h.ikbd.keybJoy = i.keybJoy
               /\ h.ikbd.firstJoyIs0 = i.firstJoyIs0
    /\ ~press => /\ h.skip = (skip \/ i.waiting)
                 /\ h.ikbd.keybJoy = i.keybJoy
                 /\ h.ikbd.firstJoyIs0 = i.firstJoyIs0
    /\ ~skip => Waits(h.ikbd)
    /\ ~h.skip => ~h.ikbd.waiting

LEMMA HotkeysIs ==
    ASSUME NEW i \in Ikbds, NEW k, NEW press \in BOOLEAN, NEW skip \in BOOLEAN
    PROVE  HotkeyDoes(i, k, press, skip, Hotkeys(i, k, press, skip))
<1> DEFINE h == Hotkeys(i, k, press, skip)
<1> SUFFICES HotkeyDoes(i, k, press, skip, h)
  OBVIOUS
<1> DEFINE c == Counted(i, k, press)
           w == Switched(c, press)
           r == \A g \in HotKeys : w.cnt[g] <= 0
<1>1. /\ c \in Ikbds
      /\ \A g \in HotKeys : c.cnt[g] = IF g # k THEN i.cnt[g]
                                       ELSE IF press THEN i.cnt[g] + 1 ELSE i.cnt[g] - 1
      /\ c.waiting = i.waiting /\ c.keybJoy = i.keybJoy /\ c.firstJoyIs0 = i.firstJoyIs0
      /\ c.mode = i.mode /\ c.dir = i.dir /\ c.btn = i.btn
  BY CountedIs
<1> HIDE DEF c
<1>2. /\ w \in Ikbds /\ w.cnt = c.cnt /\ w.mode = c.mode /\ w.dir = c.dir /\ w.btn = c.btn
      /\ ~press => w = c
      /\ c.waiting => w.waiting
      /\ w.waiting /\ ~c.waiting => c.cnt["ctrl"] > 0
  BY <1>1, SwitchedIs
<1>3. h = IF skip THEN [ikbd |-> c, skip |-> TRUE]
          ELSE [ikbd |-> [w EXCEPT !.waiting = @ /\ ~r], skip |-> w.waiting]
  BY DEF Hotkeys, c
<1> HIDE DEF w, h
<1>4. CASE skip
  <2>1. h.ikbd = c /\ h.skip = TRUE
    BY <1>3, <1>4
  <2> QED
    BY <1>1, <1>4, <2>1 DEF HotkeyDoes
<1>5. CASE ~skip
  <2>1. /\ h.skip = w.waiting
        /\ h.ikbd = [w EXCEPT !.waiting = @ /\ ~r]
    BY <1>3, <1>5
  <2>2. \A g \in HotKeys : w.cnt[g] \in Int
    BY <1>2 DEF Ikbds
  <2>3. ~r => \E g \in HotKeys : w.cnt[g] > 0
    BY <2>2
  <2>4. r => ~\E g \in HotKeys : w.cnt[g] > 0
    BY <2>2
  <2> HIDE DEF r
  <2>5. /\ h.ikbd.cnt = w.cnt /\ h.ikbd.mode = w.mode
        /\ h.ikbd.dir = w.dir /\ h.ikbd.btn = w.btn
        /\ h.ikbd.keybJoy = w.keybJoy /\ h.ikbd.firstJoyIs0 = w.firstJoyIs0
        /\ h.ikbd.waiting = (w.waiting /\ ~r)
    BY <1>2, <2>1 DEF Ikbds
  <2>6. h.ikbd \in Ikbds
    BY <1>2, <2>1 DEF Ikbds
  <2>7. w.waiting \in BOOLEAN
    BY <1>2 DEF Ikbds
  <2>8. /\ h.ikbd.waiting => w.waiting /\ ~r
        /\ w.waiting /\ ~r => h.ikbd.waiting
        /\ h.ikbd.waiting \in BOOLEAN
    BY <2>5, <2>7
  <2>9. Waits(h.ikbd)
    BY <2>3, <2>5, <2>8 DEF Waits
  <2>10. ~h.skip => ~h.ikbd.waiting
    BY <2>1, <2>8
  <2>11. ~press => /\ h.skip = i.waiting
                   /\ h.ikbd.keybJoy = i.keybJoy
                   /\ h.ikbd.firstJoyIs0 = i.firstJoyIs0
    BY <1>1, <1>2, <2>1, <2>5
  <2>12. ~press => h.skip = (skip \/ i.waiting)
    <3>1. i.waiting \in BOOLEAN
      BY DEF Ikbds
    <3> QED
      BY <1>5, <2>11, <3>1
  <2>13. \A g \in HotKeys : h.ikbd.cnt[g] = IF g # k THEN i.cnt[g]
                             ELSE IF press THEN i.cnt[g] + 1 ELSE i.cnt[g] - 1
    BY <1>1, <1>2, <2>5
  <2>14. h.ikbd.mode = i.mode /\ h.ikbd.dir = i.dir /\ h.ikbd.btn = i.btn
    BY <1>1, <1>2, <2>5
  <2> QED
    BY <1>5, <2>1, <2>6, <2>7, <2>9, <2>10, <2>11, <2>12, <2>13, <2>14
       DEF HotkeyDoes
<1> QED
  BY <1>4, <1>5

-----------------------------------------------------------------------------
(* The keys: what the ST believes *)

MovedDoes(i, k, press, j) ==
    /\ j \in Ikbds /\ j.cnt = i.cnt /\ j.waiting = i.waiting
    /\ j.keybJoy = i.keybJoy /\ j.firstJoyIs0 = i.firstJoyIs0
    /\ j.mode = i.mode
    /\ k = "lshift" => j.dir = i.dir /\ j.btn = press
    /\ k # "lshift" => j.dir = (IF press THEN k ELSE "none") /\ j.btn = i.btn

LEMMA MovedIs ==
    ASSUME NEW i \in Ikbds, NEW k \in JoyKeys, NEW press \in BOOLEAN
    PROVE  MovedDoes(i, k, press, Moved(i, k, press))
BY DEF Ikbds, Moved, JoyKeys, MovedDoes

\* What the ST believes of the joystick, and of the pushed sticks, with the
\* object i: it follows the object.
Follows(i, t) ==
    /\ t.mouse => i.btn /\ i.mode = "mouse"
    /\ t.dir[0] \in {"left", "right"} => t.dir[0] = i.dir
    /\ t.dir[1] \in {"none", "pushed"}

Pushed(i, t, st) ==
    \A p \in Ports : t.dir[p] = "pushed" => \E q \in st : Port(i, q) = p

ToldJoyDoes(i, j, t, u) ==
    /\ u \in Tolds /\ u.keys = t.keys
    /\ Follows(i, t) => Follows(j, u)
    /\ \A p \in Ports : u.dir[p] = "pushed" => t.dir[p] = "pushed"

LEMMA ToldJoyIs ==
    ASSUME NEW i \in Ikbds, NEW j \in Ikbds, NEW t \in Tolds,
           i.mode = j.mode, i.dir = j.dir \/ i.btn = j.btn
    PROVE  ToldJoyDoes(i, j, t, ToldJoy(i, j, t))
<1> DEFINE u == ToldJoy(i, j, t)
<1> SUFFICES ToldJoyDoes(i, j, t, u)
  OBVIOUS
<1>1. /\ i.dir \in {"none", "left", "right"} /\ j.dir \in {"none", "left", "right"}
      /\ i.btn \in BOOLEAN /\ j.btn \in BOOLEAN
      /\ j.mode \in {"mouse", "joy"}
  BY DEF Ikbds
<1>2. /\ t.keys \in SUBSET Keys /\ t.mouse \in BOOLEAN
      /\ t.dir \in [Ports -> {"none", "left", "right", "pushed"}]
      /\ t = [keys |-> t.keys, mouse |-> t.mouse, dir |-> t.dir]
  BY DEF Tolds
<1>3. 0 \in Ports /\ 1 \in Ports /\ \A p \in Ports : p = 0 \/ p = 1
  BY DEF Ports
<1>4. CASE i.dir = j.dir /\ i.btn = j.btn
  <2>1. u = t
    BY <1>4 DEF ToldJoy
  <2> HIDE DEF u
  <2> QED
    BY <1>4, <2>1 DEF Follows, ToldJoyDoes
<1>5. CASE ~(i.dir = j.dir /\ i.btn = j.btn) /\ j.mode = "mouse" /\ i.btn # j.btn
  <2>1. u = [t EXCEPT !.mouse = j.btn]
    BY <1>5 DEF ToldJoy
  <2> HIDE DEF u
  <2>2. u \in Tolds /\ u.keys = t.keys /\ u.dir = t.dir /\ u.mouse = j.btn
    BY <1>1, <2>1 DEF Tolds
  <2> QED
    BY <1>1, <1>5, <2>2 DEF Follows, ToldJoyDoes
<1>6. CASE ~(i.dir = j.dir /\ i.btn = j.btn) /\ ~(j.mode = "mouse" /\ i.btn # j.btn)
  <2>1. u = [t EXCEPT !.dir[0] = j.dir]
    BY <1>6 DEF ToldJoy
  <2> HIDE DEF u
  <2>2. /\ u.keys = t.keys /\ u.mouse = t.mouse
        /\ u.dir = [t.dir EXCEPT ![0] = j.dir]
    BY <1>2, <2>1
  <2>3. u.dir \in [Ports -> {"none", "left", "right", "pushed"}]
    BY <1>1, <1>2, <1>3, <2>2
  <2>4. u.dir[0] = j.dir /\ u.dir[1] = t.dir[1]
    BY <1>2, <1>3, <2>2
  <2>5. u \in Tolds
    BY <1>2, <2>1, <2>2, <2>3 DEF Tolds
  <2>6. Follows(i, t) => Follows(j, u)
    BY <1>1, <1>6, <2>2, <2>4 DEF Follows
  <2>7. \A p \in Ports : u.dir[p] = "pushed" => t.dir[p] = "pushed"
    BY <1>1, <1>3, <2>4
  <2> QED
    BY <2>2, <2>5, <2>6, <2>7 DEF ToldJoyDoes
<1> QED
  BY <1>4, <1>5, <1>6

ToldKeyDoes(t, k, press, u) ==
    /\ u \in Tolds /\ u.mouse = t.mouse /\ u.dir = t.dir
    /\ u.keys = IF press THEN t.keys \union {k} ELSE t.keys \ {k}

LEMMA ToldKeyIs ==
    ASSUME NEW t \in Tolds, NEW k \in Keys, NEW press \in BOOLEAN
    PROVE  ToldKeyDoes(t, k, press, ToldKey(t, k, press))
BY DEF Tolds, ToldKey, ToldKeyDoes

\* The keys that the ST believes to be held, and those that push the joystick,
\* are held, and mean what they meant when they were pressed.
Means(i, t, d, c) ==
    /\ \A k \in t.keys : Held(d, k) /\ ~AsJoy(i, c, k)
    /\ i.dir # "none" => Held(d, i.dir) /\ AsJoy(i, c, i.dir)
    /\ i.btn => Held(d, "lshift") /\ AsJoy(i, c, "lshift")

\* The change from i to h leaves the keys of d their meaning.
SameHeld(i, h, d, c) ==
    \A a \in Boards : \A g : <<a, g>> \in d => (AsJoy(i, c, g) <=> AsJoy(h, c, g))

\* The key k is told as what it means with the object m.
ToldAs(m, h, j, t, u, k, press, c) ==
    /\ AsJoy(m, c, k) => /\ k \in JoyKeys /\ j = Moved(h, k, press)
                         /\ u.keys = t.keys
    /\ ~AsJoy(m, c, k) => /\ j = h
                          /\ u.keys = IF press THEN t.keys \union {k}
                                              ELSE t.keys \ {k}

InCall(s) ==
    /\ s \in KeyCalls
    /\ client => s.skip
    /\ ~forgot => Counts(s.ikbd, s.down)
    /\ ~s.skipped => Waits(s.ikbd)
    /\ ~s.unsteady /\ ~s.carried => /\ Means(s.ikbd, s.told, s.down, client)
                                    /\ Follows(s.ikbd, s.told)
                                    /\ Pushed(s.ikbd, s.told, stick)

(* What AsJoy depends on.                                                  *)
LEMMA SameAsJoy ==
    ASSUME NEW i, NEW j, i.waiting = j.waiting, i.keybJoy = j.keybJoy, NEW c, NEW k
    PROVE  AsJoy(i, c, k) <=> AsJoy(j, c, k)
BY DEF AsJoy

LEMMA SamePort ==
    ASSUME NEW i, NEW j, i.mode = j.mode, i.firstJoyIs0 = j.firstJoyIs0, NEW p
    PROVE  Port(i, p) = Port(j, p)
BY DEF Port

(* What it means that a change is not Unsteady.                            *)
LEMMA Steady ==
    ASSUME NEW i, NEW j, NEW c1, NEW c2, NEW d, ~Unsteady(i, j, c1, c2, d)
    PROVE  /\ \A a \in Boards : \A g :
                 <<a, g>> \in d => (AsJoy(i, c1, g) <=> AsJoy(j, c2, g))
           /\ d # {} => i.mode = j.mode
           /\ \A p \in stick : Port(i, p) = Port(j, p)
<1>1. \A a \in Boards : \A g :
         <<a, g>> \in d => (AsJoy(i, c1, g) <=> AsJoy(j, c2, g))
  <2> TAKE a \in Boards
  <2> TAKE g
  <2>1. HAVE <<a, g>> \in d
  <2>2. AsJoy(i, c1, g) = AsJoy(j, c2, g)
    BY <2>1 DEF Unsteady
  <2> QED
    BY <2>2
<1> QED
  BY <1>1 DEF Unsteady

(* The parts of what a key does.                                           *)
KeyDoes(s, b, k, press, h, r) ==
    LET joy == ~h.skip /\ k \in JoyKeys /\ h.ikbd.keybJoy
    IN /\ r = [ikbd |-> r.ikbd, told |-> r.told, down |-> r.down,
               skip |-> r.skip, unsteady |-> r.unsteady,
               skipped |-> r.skipped, carried |-> r.carried]
       /\ joy => /\ r.ikbd = Moved(h.ikbd, k, press)
                 /\ r.told = ToldJoy(h.ikbd, r.ikbd, s.told)
       /\ ~joy => /\ r.ikbd = h.ikbd /\ r.told = ToldKey(s.told, k, press)
       /\ r.skip = h.skip
       /\ press => r.down = s.down \union {<<b, k>>}
       /\ ~press => r.down = s.down \ {<<b, k>>}
       /\ r.unsteady = (\/ s.unsteady
                        \/ Unsteady(s.ikbd, h.ikbd, client, client, s.down \cap r.down))
       /\ r.skipped = s.skip
       /\ r.carried = (\/ s.carried
                       \/ ~joy /\ AsJoy(h.ikbd, client, k) /\ (press \/ s.skip))

LEMMA OneKeyIs ==
    ASSUME NEW s, NEW b, NEW k, NEW press
    PROVE  KeyDoes(s, b, k, press, Hotkeys(s.ikbd, k, press, s.skip),
                   OneKey(s, b, k, press))
BY DEF OneKey, KeyDoes

(* A press and a release keep what the ST believes true.                   *)
LEMMA MeansPressed ==
    ASSUME NEW i \in Ikbds, NEW h \in Ikbds, NEW j \in Ikbds,
           NEW t \in Tolds, NEW u \in Tolds, NEW d, NEW c,
           NEW b \in Boards, NEW k,
           Means(i, t, d, c),
           SameHeld(i, h, d, c), h.dir = i.dir, h.btn = i.btn,
           ToldAs(h, h, j, t, u, k, TRUE, c)
    PROVE  Means(j, u, d \union {<<b, k>>}, c)
<1> DEFINE e == d \union {<<b, k>>}
<1>1. /\ \A g : Held(d, g) => Held(e, g)
      /\ Held(e, k)
  BY DEF Held
<1>2. \A g : Held(d, g) => (AsJoy(i, c, g) <=> AsJoy(h, c, g))
  BY DEF Held, SameHeld
<1> HIDE DEF e
<1>3. CASE AsJoy(h, c, k)
  <2>1. /\ k \in JoyKeys /\ j = Moved(h, k, TRUE) /\ u.keys = t.keys
    BY <1>3 DEF ToldAs
  <2>2. /\ j.waiting = h.waiting /\ j.keybJoy = h.keybJoy
        /\ k = "lshift" => j.dir = h.dir /\ j.btn = TRUE
        /\ k # "lshift" => j.dir = k /\ j.btn = h.btn
    BY <2>1 DEF Moved, Ikbds, JoyKeys
  <2>3. \A g : AsJoy(j, c, g) <=> AsJoy(h, c, g)
    BY <2>2, SameAsJoy
  <2>4. \A g \in u.keys : Held(e, g) /\ ~AsJoy(j, c, g)
    BY <1>1, <1>2, <2>1, <2>3 DEF Means
  <2>5. j.dir # "none" => Held(e, j.dir) /\ AsJoy(j, c, j.dir)
    BY <1>1, <1>2, <1>3, <2>2, <2>3 DEF Means
  <2>6. j.btn => Held(e, "lshift") /\ AsJoy(j, c, "lshift")
    BY <1>1, <1>2, <1>3, <2>2, <2>3 DEF Means
  <2> QED
    BY <2>4, <2>5, <2>6 DEF Means, e
<1>4. CASE ~AsJoy(h, c, k)
  <2>1. j = h /\ u.keys = t.keys \union {k}
    BY <1>4 DEF ToldAs
  <2>2. \A g \in u.keys : Held(e, g) /\ ~AsJoy(j, c, g)
    BY <1>1, <1>2, <1>4, <2>1 DEF Means
  <2>3. j.dir # "none" => Held(e, j.dir) /\ AsJoy(j, c, j.dir)
    BY <1>1, <1>2, <2>1 DEF Means
  <2>4. j.btn => Held(e, "lshift") /\ AsJoy(j, c, "lshift")
    BY <1>1, <1>2, <2>1 DEF Means
  <2> QED
    BY <2>2, <2>3, <2>4 DEF Means, e
<1> QED
  BY <1>3, <1>4

LEMMA MeansReleased ==
    ASSUME NEW i \in Ikbds, NEW h \in Ikbds, NEW j \in Ikbds,
           NEW t \in Tolds, NEW u \in Tolds, NEW d, NEW c,
           NEW b \in Boards, NEW k,
           Means(i, t, d, c),
           SameHeld(i, h, d \ {<<b, k>>}, c), h.dir = i.dir, h.btn = i.btn,
           ToldAs(i, h, j, t, u, k, FALSE, c)
    PROVE  Means(j, u, d \ {<<b, k>>}, c)
<1> DEFINE e == d \ {<<b, k>>}
<1>1. \A g : g # k /\ Held(d, g) => Held(e, g)
  BY DEF Held
<1>2. \A g : Held(e, g) => (AsJoy(i, c, g) <=> AsJoy(h, c, g))
  BY DEF Held, SameHeld
<1> HIDE DEF e
<1>3. CASE AsJoy(i, c, k)
  <2>1. /\ k \in JoyKeys /\ j = Moved(h, k, FALSE) /\ u.keys = t.keys
    BY <1>3 DEF ToldAs
  <2>2. /\ j.waiting = h.waiting /\ j.keybJoy = h.keybJoy
        /\ k = "lshift" => j.dir = h.dir /\ j.btn = FALSE
        /\ k # "lshift" => j.dir = "none" /\ j.btn = h.btn
    BY <2>1 DEF Moved, Ikbds, JoyKeys
  <2>3. \A g : AsJoy(j, c, g) <=> AsJoy(h, c, g)
    BY <2>2, SameAsJoy
  <2>4. \A g \in u.keys : Held(e, g) /\ ~AsJoy(j, c, g)
    BY <1>1, <1>2, <1>3, <2>1, <2>3 DEF Means
  <2>5. j.dir # "none" => Held(e, j.dir) /\ AsJoy(j, c, j.dir)
    <3>1. i.dir \in {"none", "left", "right"}
      BY DEF Ikbds
    <3> QED
      BY <1>1, <1>2, <1>3, <2>2, <2>3, <3>1 DEF Means
  <2>6. j.btn => Held(e, "lshift") /\ AsJoy(j, c, "lshift")
    BY <1>1, <1>2, <1>3, <2>2, <2>3 DEF Means
  <2> QED
    BY <2>4, <2>5, <2>6 DEF Means, e
<1>4. CASE ~AsJoy(i, c, k)
  <2>1. j = h /\ u.keys = t.keys \ {k}
    BY <1>4 DEF ToldAs
  <2>2. \A g \in u.keys : Held(e, g) /\ ~AsJoy(j, c, g)
    BY <1>1, <1>2, <1>4, <2>1 DEF Means
  <2>3. j.dir # "none" => Held(e, j.dir) /\ AsJoy(j, c, j.dir)
    BY <1>1, <1>2, <1>4, <2>1 DEF Means
  <2>4. j.btn => Held(e, "lshift") /\ AsJoy(j, c, "lshift")
    BY <1>1, <1>2, <1>4, <2>1 DEF Means
  <2> QED
    BY <2>2, <2>3, <2>4 DEF Means, e
<1> QED
  BY <1>3, <1>4

LEMMA OneKeyKeeps ==
    ASSUME client \in BOOLEAN, forgot \in BOOLEAN, stick \subseteq Ports,
           NEW s, InCall(s), NEW b \in Boards, NEW k \in KeysOf[b],
           NEW press \in BOOLEAN, press <=> <<b, k>> \notin s.down,
           NEW r, r = OneKey(s, b, k, press)
    PROVE  InCall(r)
<1> DEFINE h == Hotkeys(s.ikbd, k, press, s.skip)
           joy == ~h.skip /\ k \in JoyKeys /\ h.ikbd.keybJoy
<1>1. /\ press \in BOOLEAN /\ press => <<b, k>> \notin s.down
      /\ ~press => <<b, k>> \in s.down
  OBVIOUS
<1>2. /\ s.ikbd \in Ikbds /\ s.told \in Tolds /\ s.down \in SUBSET Pairs
      /\ s.skip \in BOOLEAN /\ s.unsteady \in BOOLEAN /\ s.carried \in BOOLEAN
  BY DEF InCall, KeyCalls
<1>3. k \in Keys /\ <<b, k>> \in Pairs
  BY KeyTypes
<1>4. /\ r = [ikbd |-> r.ikbd, told |-> r.told, down |-> r.down,
              skip |-> r.skip, unsteady |-> r.unsteady,
              skipped |-> r.skipped, carried |-> r.carried]
      /\ joy => /\ r.ikbd = Moved(h.ikbd, k, press)
                /\ r.told = ToldJoy(h.ikbd, r.ikbd, s.told)
      /\ ~joy => r.ikbd = h.ikbd /\ r.told = ToldKey(s.told, k, press)
      /\ r.skip = h.skip
      /\ press => r.down = s.down \union {<<b, k>>}
      /\ ~press => r.down = s.down \ {<<b, k>>}
      /\ r.unsteady = (\/ s.unsteady
                       \/ Unsteady(s.ikbd, h.ikbd, client, client, s.down \cap r.down))
      /\ r.skipped = s.skip
      /\ r.carried = (\/ s.carried
                      \/ ~joy /\ AsJoy(h.ikbd, client, k) /\ (press \/ s.skip))
  <2>1. KeyDoes(s, b, k, press, h, r)
    BY OneKeyIs
  <2> HIDE DEF h
  <2> QED
    BY <2>1 DEF KeyDoes
<1>h. HotkeyDoes(s.ikbd, k, press, s.skip, h)
  BY <1>2, HotkeysIs
<1> HIDE DEF h
<1>5. /\ h.ikbd \in Ikbds /\ h.skip \in BOOLEAN
      /\ \A g \in HotKeys :
            h.ikbd.cnt[g] = IF g # k THEN s.ikbd.cnt[g]
                            ELSE IF press THEN s.ikbd.cnt[g] + 1 ELSE s.ikbd.cnt[g] - 1
      /\ h.ikbd.mode = s.ikbd.mode /\ h.ikbd.dir = s.ikbd.dir
      /\ h.ikbd.btn = s.ikbd.btn
  BY <1>h DEF HotkeyDoes
<1>6. s.skip => /\ h.skip /\ h.ikbd.waiting = s.ikbd.waiting
                /\ h.ikbd.keybJoy = s.ikbd.keybJoy
                /\ h.ikbd.firstJoyIs0 = s.ikbd.firstJoyIs0
  BY <1>h DEF HotkeyDoes
<1>7. ~press => /\ h.skip = (s.skip \/ s.ikbd.waiting)
                /\ h.ikbd.keybJoy = s.ikbd.keybJoy
                /\ h.ikbd.firstJoyIs0 = s.ikbd.firstJoyIs0
  BY <1>h DEF HotkeyDoes
<1>8. /\ ~s.skip => Waits(h.ikbd)
      /\ ~h.skip => ~h.ikbd.waiting
  BY <1>h DEF HotkeyDoes
<1>9. /\ h.ikbd.waiting \in BOOLEAN /\ s.ikbd.waiting \in BOOLEAN
      /\ h.ikbd.keybJoy \in BOOLEAN
  BY <1>2, <1>5 DEF Ikbds
<1>10. /\ r.ikbd \in Ikbds /\ r.ikbd.cnt = h.ikbd.cnt
       /\ r.ikbd.waiting = h.ikbd.waiting /\ r.ikbd.keybJoy = h.ikbd.keybJoy
       /\ r.ikbd.firstJoyIs0 = h.ikbd.firstJoyIs0 /\ r.ikbd.mode = h.ikbd.mode
       /\ r.ikbd.dir = h.ikbd.dir \/ r.ikbd.btn = h.ikbd.btn
  <2>1. CASE joy
    <3>1. MovedDoes(h.ikbd, k, press, Moved(h.ikbd, k, press))
      BY <1>5, <2>1, MovedIs
    <3>2. r.ikbd = Moved(h.ikbd, k, press)
      BY <1>4, <2>1
    <3> QED
      BY <3>1, <3>2 DEF MovedDoes
  <2>2. CASE ~joy
    BY <1>4, <1>5, <2>2
  <2> QED
    BY <2>1, <2>2
<1>11. /\ r.told \in Tolds
       /\ joy => r.told.keys = s.told.keys
       /\ ~joy => r.told.keys = IF press THEN s.told.keys \union {k} ELSE s.told.keys \ {k}
       /\ Follows(h.ikbd, s.told) => Follows(r.ikbd, r.told)
       /\ \A p \in Ports : r.told.dir[p] = "pushed" => s.told.dir[p] = "pushed"
  <2>1. CASE joy
    <3>1. r.told = ToldJoy(h.ikbd, r.ikbd, s.told)
      BY <1>4, <2>1
    <3> HIDE DEF joy
    <3> QED
      <4>1. ToldJoyDoes(h.ikbd, r.ikbd, s.told, r.told)
        <5>1. h.ikbd.mode = r.ikbd.mode
              /\ (h.ikbd.dir = r.ikbd.dir \/ h.ikbd.btn = r.ikbd.btn)
          BY <1>10
        <5> QED
          BY <1>2, <1>5, <1>10, <3>1, <5>1, ToldJoyIs
      <4> QED
        BY <2>1, <4>1 DEF ToldJoyDoes
  <2>2. CASE ~joy
    <3>1. r.ikbd = h.ikbd /\ r.told = ToldKey(s.told, k, press)
      BY <1>4, <2>2
    <3> HIDE DEF joy
    <3>2. /\ r.told \in Tolds /\ r.told.mouse = s.told.mouse /\ r.told.dir = s.told.dir
          /\ r.told.keys = IF press THEN s.told.keys \union {k} ELSE s.told.keys \ {k}
      <4>1. ToldKeyDoes(s.told, k, press, r.told)
        BY <1>2, <1>3, <3>1, ToldKeyIs
      <4> QED
        BY <4>1 DEF ToldKeyDoes
    <3> QED
      BY <2>2, <3>1, <3>2 DEF Follows
  <2> QED
    BY <2>1, <2>2
<1>12. r \in KeyCalls /\ (client => r.skip)
  <2>1. r.down \in SUBSET Pairs
    BY <1>1, <1>2, <1>3, <1>4
  <2>2. r.skip \in BOOLEAN
    BY <1>4, <1>5
  <2>3. r.unsteady \in BOOLEAN /\ r.skipped \in BOOLEAN /\ r.carried \in BOOLEAN
    BY <1>2, <1>4, Zenon
  <2>4. client => r.skip
    BY <1>4, <1>6 DEF InCall
  <2> QED
    BY <1>4, <1>10, <1>11, <2>1, <2>2, <2>3, <2>4 DEF KeyCalls
<1>13. ~forgot => Counts(r.ikbd, r.down)
  <2> SUFFICES ASSUME ~forgot, NEW g \in HotKeys
               PROVE  r.ikbd.cnt[g] = HeldBy(r.down, g)
    BY DEF Counts
  <2>1. s.ikbd.cnt[g] = HeldBy(s.down, g)
    BY DEF InCall, Counts
  <2>2. CASE press
    <3>0. <<b, k>> \notin s.down
      BY <1>1, <2>2
    <3>1. HeldBy(s.down \union {<<b, k>>}, g)
            = IF g = k THEN HeldBy(s.down, g) + 1 ELSE HeldBy(s.down, g)
      BY <3>0, HeldByPressed
    <3>2. HeldBy(r.down, g) = IF g = k THEN HeldBy(s.down, g) + 1 ELSE HeldBy(s.down, g)
      BY <1>4, <2>2, <3>1
    <3> QED
      BY <1>5, <1>10, <2>1, <2>2, <3>2
  <2>3. CASE ~press
    <3>1. HeldBy(r.down, g) = IF g = k THEN HeldBy(s.down, g) - 1 ELSE HeldBy(s.down, g)
      BY <1>1, <1>4, <2>3, HeldByReleased
    <3> QED
      BY <1>5, <1>10, <2>1, <2>3, <3>1
  <2> QED
    BY <1>1, <2>2, <2>3
<1>14. ASSUME ~r.skipped
       PROVE  Waits(r.ikbd)
  BY <1>4, <1>8, <1>10, <1>14 DEF Waits
<1>15. ASSUME ~r.unsteady, ~r.carried
       PROVE  /\ Means(r.ikbd, r.told, r.down, client)
              /\ Follows(r.ikbd, r.told) /\ Pushed(r.ikbd, r.told, stick)
  <2>1. /\ ~s.unsteady /\ ~s.carried
        /\ ~Unsteady(s.ikbd, h.ikbd, client, client, s.down \cap r.down)
    BY <1>4, <1>15
  <2>2. /\ Means(s.ikbd, s.told, s.down, client)
        /\ Follows(s.ikbd, s.told) /\ Pushed(s.ikbd, s.told, stick)
    BY <2>1 DEF InCall
  <2>3. /\ \A a \in Boards : \A g : <<a, g>> \in s.down \cap r.down =>
                (AsJoy(s.ikbd, client, g) <=> AsJoy(h.ikbd, client, g))
        /\ \A p \in stick : Port(s.ikbd, p) = Port(h.ikbd, p)
    BY <2>1, Steady
  <2>4. ~joy /\ AsJoy(h.ikbd, client, k) => ~press /\ ~s.skip
    BY <1>4, <1>15
  <2>5. Follows(r.ikbd, r.told)
    BY <1>5, <1>11, <2>2 DEF Follows
  <2>6. Pushed(r.ikbd, r.told, stick)
    <3>1. \A p : Port(r.ikbd, p) = Port(h.ikbd, p)
      BY <1>10, SamePort
    <3> QED
      BY <1>11, <2>2, <2>3, <3>1 DEF Pushed
  <2>7. client => s.skip
    BY DEF InCall
  <2>8. Means(r.ikbd, r.told, r.down, client)
    <3>1. CASE press
      <4>1. r.down = s.down \union {<<b, k>>}
        BY <1>4, <3>1
      <4>2. AsJoy(h.ikbd, client, k) <=> joy
        BY <1>6, <1>8, <1>9, <2>4, <2>7, <3>1 DEF AsJoy
      <4>3. ToldAs(h.ikbd, h.ikbd, r.ikbd, s.told, r.told, k, TRUE, client)
        BY <1>4, <1>11, <3>1, <4>2 DEF ToldAs
      <4>4. SameHeld(s.ikbd, h.ikbd, s.down, client)
        BY <2>3, <4>1 DEF SameHeld
      <4> HIDE DEF joy
      <4>5. Means(r.ikbd, r.told, s.down \union {<<b, k>>}, client)
        BY <1>2, <1>5, <1>10, <1>11, <2>2, <4>3, <4>4, MeansPressed
      <4> QED
        BY <4>1, <4>5
    <3>2. CASE ~press
      <4>1. r.down = s.down \ {<<b, k>>}
        BY <1>4, <3>2
      <4>2. AsJoy(s.ikbd, client, k) <=> joy
        BY <1>6, <1>7, <1>9, <2>4, <2>7, <3>2 DEF AsJoy
      <4>3. ToldAs(s.ikbd, h.ikbd, r.ikbd, s.told, r.told, k, FALSE, client)
        BY <1>4, <1>11, <3>2, <4>2 DEF ToldAs
      <4>4. SameHeld(s.ikbd, h.ikbd, s.down \ {<<b, k>>}, client)
        BY <2>3, <4>1 DEF SameHeld
      <4> HIDE DEF joy
      <4>5. Means(r.ikbd, r.told, s.down \ {<<b, k>>}, client)
        BY <1>2, <1>5, <1>10, <1>11, <2>2, <4>3, <4>4, MeansReleased
      <4> QED
        BY <4>1, <4>5
    <3> QED
      BY <1>1, <3>1, <3>2
  <2> QED
    BY <2>5, <2>6, <2>8
<1> QED
  BY <1>12, <1>13, <1>14, <1>15 DEF InCall


-----------------------------------------------------------------------------
(* The keys: the steps *)

\* The inductive invariant: that of a call, between calls.
KeyInv ==
    /\ ~forgot => Counts(ikbd, down)
    /\ ~skipped => Waits(ikbd)
    /\ ~unsteady /\ ~carried => /\ Means(ikbd, told, down, client)
                                /\ Follows(ikbd, told)
                                /\ Pushed(ikbd, told, stick)

LEMMA IkbdTypesOf ==
    IkbdTypeOK <=> /\ down \subseteq Pairs /\ stick \subseteq Ports
                   /\ client \in BOOLEAN /\ unsteady \in BOOLEAN
                   /\ skipped \in BOOLEAN /\ carried \in BOOLEAN
                   /\ forgot \in BOOLEAN /\ changes \in 0 .. MaxChanges
                   /\ ikbd \in Ikbds /\ told \in Tolds
BY DEF IkbdTypeOK, Pairs, Ikbds, Tolds

LEMMA CallIs ==
    ASSUME IkbdTypeOK, KeyInv
    PROVE  InCall(Call)
<1>1. /\ Call.ikbd = ikbd /\ Call.told = told /\ Call.down = down
      /\ Call.skip = client /\ Call.unsteady = unsteady
      /\ Call.skipped = skipped /\ Call.carried = carried
  BY DEF Call
<1>2. Call \in KeyCalls
  BY IkbdTypesOf DEF Call, KeyCalls
<1> QED
  BY <1>1, <1>2 DEF InCall, KeyInv

LEMMA TakesKeeps ==
    ASSUME IkbdTypeOK, NEW s, InCall(s), Takes(s)
    PROVE  IkbdTypeOK' /\ KeyInv'
<1>1. /\ down' = s.down /\ ikbd' = s.ikbd /\ told' = s.told
      /\ unsteady' = s.unsteady /\ skipped' = s.skipped /\ carried' = s.carried
      /\ stick' = stick /\ client' = client /\ forgot' = forgot /\ changes' = changes
  BY DEF Takes
<1>2. /\ s.ikbd \in Ikbds /\ s.told \in Tolds /\ s.down \subseteq Pairs
      /\ s.unsteady \in BOOLEAN /\ s.skipped \in BOOLEAN /\ s.carried \in BOOLEAN
  BY DEF InCall, KeyCalls
<1>3. IkbdTypeOK'
  BY <1>1, <1>2, IkbdTypesOf DEF IkbdTypeOK, Pairs, Ikbds, Tolds
<1>4. KeyInv'
  BY <1>1 DEF InCall, KeyInv
<1> QED
  BY <1>3, <1>4

\* c is the function of AfterKeys, up to the n-th key.
KeySteps(batch, n, c) ==
    c = [i \in 0 .. n |-> IF i = 0 THEN Call
                          ELSE OneKey(c[i - 1], "st", batch[i],
                                      <<"st", batch[i]>> \notin c[i - 1].down)]

LEMMA KeyStepsExist ==
    ASSUME NEW batch
    PROVE  \A n \in Nat : \E c : KeySteps(batch, n, c)
<1> DEFINE N == {n \in Nat : \E c : KeySteps(batch, n, c)}
<1>1. 0 \in N
  <2> DEFINE c == [i \in 0 .. 0 |-> Call]
  <2>1. KeySteps(batch, 0, c)
    BY DEF KeySteps
  <2> QED
    BY <2>1
<1>2. ASSUME NEW n \in Nat, n \in N
      PROVE  n + 1 \in N
  <2>1. PICK c : KeySteps(batch, n, c)
    BY <1>2
  <2> DEFINE e == [i \in 0 .. n + 1 |->
                      IF i = n + 1
                      THEN OneKey(c[n], "st", batch[n + 1],
                                  <<"st", batch[n + 1]>> \notin c[n].down)
                      ELSE c[i]]
  <2>2. ASSUME NEW i \in 0 .. n + 1
        PROVE  e[i] = IF i = 0 THEN Call
                      ELSE OneKey(e[i - 1], "st", batch[i],
                                  <<"st", batch[i]>> \notin e[i - 1].down)
    BY <2>1 DEF KeySteps
  <2>3. KeySteps(batch, n + 1, e)
    BY <2>2, Zenon DEF KeySteps
  <2> QED
    BY <2>3
<1> HIDE DEF N
<1>3. Nat \subseteq N
  BY <1>1, <1>2, NatInduct
<1> QED
  BY <1>3 DEF N

LEMMA AfterKeysIs ==
    ASSUME NEW batch, Len(batch) \in Nat
    PROVE  \E c : KeySteps(batch, Len(batch), c) /\ AfterKeys(batch) = c[Len(batch)]
<1> DEFINE c == CHOOSE e : KeySteps(batch, Len(batch), e)
<1>1. KeySteps(batch, Len(batch), c)
  BY KeyStepsExist
<1>2. AfterKeys(batch) = c[Len(batch)]
  BY DEF AfterKeys, KeySteps
<1> QED
  BY <1>1, <1>2

LEMMA BatchKeeps ==
    ASSUME IkbdTypeOK, KeyInv, NEW batch, Len(batch) \in Nat,
           \A i \in 1 .. Len(batch) : batch[i] \in KeysOf["st"]
    PROVE  InCall(AfterKeys(batch))
<1>1. PICK c : KeySteps(batch, Len(batch), c) /\ AfterKeys(batch) = c[Len(batch)]
  BY AfterKeysIs
<1>2. /\ client \in BOOLEAN /\ forgot \in BOOLEAN /\ stick \subseteq Ports
      /\ "st" \in Boards
  BY IkbdTypesOf DEF Boards
<1> DEFINE N == {i \in Nat : i <= Len(batch) => InCall(c[i])}
<1>3. 0 \in N
  BY <1>1, CallIs DEF KeySteps
<1>4. ASSUME NEW i \in Nat, i \in N
      PROVE  i + 1 \in N
  <2> SUFFICES ASSUME i + 1 <= Len(batch)
               PROVE  InCall(c[i + 1])
    OBVIOUS
  <2>1. InCall(c[i])
    BY <1>4
  <2>2. batch[i + 1] \in KeysOf["st"]
    OBVIOUS
  <2>3. c[i + 1] = OneKey(c[i], "st", batch[i + 1],
                          <<"st", batch[i + 1]>> \notin c[i].down)
    BY <1>1 DEF KeySteps
  <2> HIDE DEF N
  <2> QED
    BY <1>2, <2>1, <2>2, <2>3, OneKeyKeeps
<1> HIDE DEF N
<1>5. Nat \subseteq N
  BY <1>3, <1>4, NatInduct
<1> QED
  BY <1>1, <1>5 DEF N

(* A stick of the ST that is pushed or released.                           *)
LEMMA StickKeeps ==
    ASSUME IkbdTypeOK, KeyInv, NEW p \in Ports, StStick(p)
    PROVE  IkbdTypeOK' /\ KeyInv'
<1> DEFINE q == Port(ikbd, p)
           v == IF p \in stick THEN "none" ELSE "pushed"
<1>1. /\ stick' = IF p \in stick THEN stick \ {p} ELSE stick \union {p}
      /\ told' = [told EXCEPT !.dir[q] = v]
      /\ down' = down /\ client' = client /\ ikbd' = ikbd /\ unsteady' = unsteady
      /\ skipped' = skipped /\ carried' = carried
      /\ forgot' = forgot /\ changes' = changes
  BY DEF StStick
<1>2. /\ told \in Tolds /\ stick \subseteq Ports
      /\ told.dir \in [Ports -> {"none", "left", "right", "pushed"}]
  BY IkbdTypesOf DEF Tolds
<1>3. /\ q \in Ports /\ v \in {"none", "pushed"}
      /\ \A r \in Ports : r # p => Port(ikbd, r) # q
      /\ 0 \in Ports /\ 1 \in Ports
  BY DEF Port, Ports
<1>4. v = "pushed" => p \in stick'
  BY <1>1
<1>5. \A r \in stick : r # p => r \in stick'
  BY <1>1
<1>6. q = Port(ikbd, p)
  OBVIOUS
<1> HIDE DEF q, v
<1>7. /\ told' \in Tolds /\ told'.keys = told.keys /\ told'.mouse = told.mouse
      /\ told'.dir = [told.dir EXCEPT ![q] = v]
  BY <1>1, <1>2, <1>3 DEF Tolds
<1>8. IkbdTypeOK'
  <2>1. stick' \subseteq Ports
    BY <1>1, <1>2
  <2> QED
    BY <1>1, <1>7, <2>1, IkbdTypesOf DEF IkbdTypeOK, Pairs, Ikbds, Tolds
<1>9. \A r \in Ports : told'.dir[r] = IF r = q THEN v ELSE told.dir[r]
  BY <1>2, <1>3, <1>7
<1>10. ASSUME ~unsteady, ~carried
       PROVE  /\ Means(ikbd, told', down, client) /\ Follows(ikbd, told')
              /\ Pushed(ikbd, told', stick')
  <2>1. /\ Means(ikbd, told, down, client) /\ Follows(ikbd, told)
        /\ Pushed(ikbd, told, stick)
    BY <1>10 DEF KeyInv
  <2>2. Means(ikbd, told', down, client)
    BY <1>7, <2>1 DEF Means
  <2>3. Follows(ikbd, told')
    BY <1>3, <1>7, <1>9, <2>1 DEF Follows
  <2>4. ASSUME NEW r \in Ports, told'.dir[r] = "pushed"
        PROVE  \E x \in stick' : Port(ikbd, x) = r
    <3>1. CASE r = q
      BY <1>4, <1>6, <1>9, <2>4, <3>1
    <3>2. CASE r # q
      <4>1. PICK x \in stick : Port(ikbd, x) = r
        BY <1>9, <2>1, <2>4, <3>2 DEF Pushed
      <4> QED
        BY <1>5, <1>6, <3>2, <4>1
    <3> QED
      BY <3>1, <3>2
  <2> QED
    BY <2>2, <2>3, <2>4 DEF Pushed
<1>11. KeyInv'
  BY <1>1, <1>10 DEF KeyInv
<1> QED
  BY <1>8, <1>11

(* Another object, or client: what is held means the same, or unsteady is  *)
(* set.                                                                    *)
LEMMA BecomesKeeps ==
    ASSUME IkbdTypeOK, KeyInv, NEW i \in Ikbds, NEW c \in BOOLEAN,
           NEW lose \in BOOLEAN, Becomes(i, c, lose),
           i.dir = ikbd.dir, i.btn = ikbd.btn, Waits(ikbd) => Waits(i),
           ~lose => i.cnt = ikbd.cnt, lose => \A k \in HotKeys : i.cnt[k] = 0
    PROVE  IkbdTypeOK' /\ KeyInv'
<1>1. /\ ikbd' = i /\ client' = c /\ down' = down /\ stick' = stick /\ told' = told
      /\ skipped' = skipped /\ carried' = carried
      /\ changes < MaxChanges /\ changes' = changes + 1
  BY DEF Becomes, Changes
<1>2. unsteady' = (unsteady \/ Unsteady(ikbd, i, client, c, down))
  BY DEF Becomes
<1>3. forgot' = (forgot \/ (lose /\ \E bk \in down : bk[2] \in HotKeys))
  BY DEF Becomes
<1>4. unsteady' \in BOOLEAN /\ forgot' \in BOOLEAN
  BY <1>2, <1>3, IkbdTypesOf, Zenon
<1>5. IkbdTypeOK'
  <2>1. changes' \in 0 .. MaxChanges
    BY <1>1, IkbdTypesOf, KeysAssumption
  <2> QED
    BY <1>1, <1>4, <2>1, IkbdTypesOf DEF IkbdTypeOK, Pairs, Ikbds, Tolds
<1>6. ASSUME ~forgot'
      PROVE  Counts(i, down)
  <2>1. ~forgot /\ ~(lose /\ \E bk \in down : bk[2] \in HotKeys)
    BY <1>3, <1>6
  <2>2. Counts(ikbd, down)
    BY <2>1 DEF KeyInv
  <2>3. CASE ~lose
    BY <2>2, <2>3 DEF Counts
  <2>4. CASE lose
    <3> SUFFICES ASSUME NEW k \in HotKeys
                 PROVE  i.cnt[k] = HeldBy(down, k)
      BY DEF Counts
    <3>1. ~(\E bk \in down : bk[2] \in HotKeys)
      BY <2>1, <2>4
    <3>2. <<"pc", k>> \notin down /\ <<"st", k>> \notin down
      BY <3>1
    <3>3. HeldBy(down, k) = 0
      BY <3>2, HeldByIs
    <3> QED
      BY <2>4, <3>3
  <2> QED
    BY <2>3, <2>4
<1>7. ASSUME ~unsteady', ~carried
      PROVE  /\ Means(i, told, down, c) /\ Follows(i, told)
             /\ Pushed(i, told, stick)
  <2>1. ~unsteady /\ ~Unsteady(ikbd, i, client, c, down)
    BY <1>2, <1>7
  <2>2. /\ Means(ikbd, told, down, client)
        /\ Follows(ikbd, told) /\ Pushed(ikbd, told, stick)
    BY <1>7, <2>1 DEF KeyInv
  <2>3. /\ \A a \in Boards : \A g :
              <<a, g>> \in down => (AsJoy(ikbd, client, g) <=> AsJoy(i, c, g))
        /\ down # {} => ikbd.mode = i.mode
        /\ \A p \in stick : Port(ikbd, p) = Port(i, p)
    BY <2>1, Steady
  <2>4. /\ \A g : Held(down, g) => (AsJoy(ikbd, client, g) <=> AsJoy(i, c, g))
        /\ \A g : Held(down, g) => down # {}
    BY <2>3 DEF Held
  <2>5. Means(i, told, down, c)
    BY <2>2, <2>4 DEF Means
  <2>6. Follows(i, told)
    BY <2>2, <2>3, <2>4 DEF Follows, Means
  <2>7. Pushed(i, told, stick)
    BY <2>2, <2>3 DEF Pushed
  <2> QED
    BY <2>5, <2>6, <2>7
<1>8. KeyInv'
  BY <1>1, <1>6, <1>7 DEF KeyInv
<1> QED
  BY <1>5, <1>8

LEMMA UnplugKeeps ==
    ASSUME IkbdTypeOK, KeyInv, Unplug
    PROVE  IkbdTypeOK' /\ KeyInv'
<1>1. /\ changes < MaxChanges /\ changes' = changes + 1
      /\ down' = {bk \in down : bk[1] # "pc"} /\ unsteady' = TRUE
      /\ forgot' = (forgot \/ \E k \in HotKeys : <<"pc", k>> \in down)
      /\ stick' = stick /\ client' = client /\ ikbd' = ikbd /\ told' = told
      /\ skipped' = skipped /\ carried' = carried
  BY DEF Unplug, Changes
<1>2. forgot' \in BOOLEAN
  BY <1>1, IkbdTypesOf, Zenon
<1>3. IkbdTypeOK'
  <2>1. changes' \in 0 .. MaxChanges
    BY <1>1, IkbdTypesOf, KeysAssumption
  <2>2. down' \subseteq Pairs
    BY <1>1, IkbdTypesOf
  <2> QED
    BY <1>1, <1>2, <2>1, <2>2, IkbdTypesOf DEF IkbdTypeOK, Pairs, Ikbds, Tolds
<1>4. ASSUME ~forgot', NEW k \in HotKeys
      PROVE  ikbd.cnt[k] = HeldBy(down', k)
  <2>1. ~forgot /\ <<"pc", k>> \notin down
    BY <1>1, <1>4
  <2>2. ikbd.cnt[k] = HeldBy(down, k)
    BY <2>1 DEF KeyInv, Counts
  <2>3. /\ <<"pc", k>> \notin down'
        /\ <<"st", k>> \in down' <=> <<"st", k>> \in down
    BY <1>1, <2>1
  <2>4. HeldBy(down', k) = HeldBy(down, k)
    BY <2>1, <2>3, HeldByIs
  <2> QED
    BY <2>2, <2>4
<1>5. KeyInv'
  BY <1>1, <1>4 DEF KeyInv, Counts
<1> QED
  BY <1>3, <1>5

LEMMA KeyInvInit ==
    ASSUME IkbdInit
    PROVE  IkbdTypeOK /\ KeyInv
<1>1. PICK on \in BOOLEAN, first \in BOOLEAN :
         ikbd = [cnt |-> [k \in HotKeys |-> 0], waiting |-> FALSE,
                 keybJoy |-> on, firstJoyIs0 |-> first, mode |-> "mouse",
                 dir |-> "none", btn |-> FALSE]
  BY DEF IkbdInit
<1>2. /\ down = {} /\ stick = {} /\ client \in BOOLEAN /\ changes = 0
      /\ told = [keys |-> {}, dir |-> [p \in Ports |-> "none"], mouse |-> FALSE]
      /\ unsteady = FALSE /\ skipped = FALSE /\ carried = FALSE /\ forgot = FALSE
  BY DEF IkbdInit
<1>3. /\ ikbd \in Ikbds /\ ~ikbd.waiting /\ ikbd.dir = "none" /\ ~ikbd.btn
      /\ \A k \in HotKeys : ikbd.cnt[k] = 0
  BY <1>1 DEF Ikbds
<1>4. /\ told \in Tolds /\ told.keys = {} /\ ~told.mouse
      /\ \A p \in Ports : told.dir[p] = "none"
      /\ 0 \in Ports /\ 1 \in Ports
  BY <1>2 DEF Tolds, Ports
<1>5. 0 \in 0 .. MaxChanges
  BY KeysAssumption
<1>6. IkbdTypeOK
  BY <1>2, <1>3, <1>4, <1>5, IkbdTypesOf
<1>7. ASSUME NEW k
      PROVE  HeldBy(down, k) = 0
  <2>1. <<"pc", k>> \notin down /\ <<"st", k>> \notin down
    BY <1>2
  <2> QED
    BY <2>1, HeldByIs
<1>8. KeyInv
  BY <1>3, <1>4, <1>7 DEF KeyInv, Counts, Waits, Means, Follows, Pushed
<1> QED
  BY <1>6, <1>8

LEMMA KeyInvStep ==
    ASSUME IkbdTypeOK, KeyInv, [IkbdNext]_ikbdVars
    PROVE  IkbdTypeOK' /\ KeyInv'
<1>1. /\ client \in BOOLEAN /\ forgot \in BOOLEAN /\ stick \subseteq Ports
      /\ ikbd \in Ikbds /\ "pc" \in Boards
  BY IkbdTypesOf DEF Boards
<1>2. ASSUME NEW k \in KeysOf["pc"], PcKey(k)
      PROVE  IkbdTypeOK' /\ KeyInv'
  <2>1. InCall(Call) /\ Call.down = down
    BY CallIs DEF Call
  <2>2. InCall(OneKey(Call, "pc", k, <<"pc", k>> \notin down))
    BY <1>1, <2>1, OneKeyKeeps
  <2> QED
    BY <1>2, <2>2, TakesKeeps DEF PcKey
<1>3. ASSUME NEW batch \in Batches, StKeys(batch)
      PROVE  IkbdTypeOK' /\ KeyInv'
  <2>1. PICK n \in 1 .. MaxBatch : batch \in [1 .. n -> KeysOf["st"]]
    BY DEF Batches
  <2>2. n \in Nat /\ MaxBatch \in Nat
    BY KeysAssumption
  <2>3. batch \in Seq(KeysOf["st"]) /\ Len(batch) = n
    BY <2>1, <2>2
  <2>4. Len(batch) \in Nat /\ \A i \in 1 .. Len(batch) : batch[i] \in KeysOf["st"]
    BY <2>1, <2>2, <2>3
  <2> QED
    BY <1>3, <2>4, BatchKeeps, TakesKeeps DEF StKeys
<1>4. ASSUME NEW p \in Ports, StStick(p)
      PROVE  IkbdTypeOK' /\ KeyInv'
  BY <1>4, StickKeeps
<1>5. ASSUME NEW m \in {"mouse", "joy"}, StMode(m)
      PROVE  IkbdTypeOK' /\ KeyInv'
  <2> DEFINE i == [ikbd EXCEPT !.mode = m]
  <2>1. Becomes(i, client, FALSE)
    BY <1>5 DEF StMode
  <2>2. /\ i \in Ikbds /\ i.dir = ikbd.dir /\ i.btn = ikbd.btn /\ i.cnt = ikbd.cnt
        /\ i.waiting = ikbd.waiting
    BY <1>1 DEF Ikbds
  <2> HIDE DEF i
  <2>3. Waits(ikbd) => Waits(i)
    BY <2>2 DEF Waits
  <2> QED
    BY <1>1, <2>1, <2>2, <2>3, BecomesKeeps
<1>6. ASSUME NEW on \in BOOLEAN, NEW first \in BOOLEAN, LoadSettings(on, first)
      PROVE  IkbdTypeOK' /\ KeyInv'
  <2> DEFINE i == [ikbd EXCEPT !.keybJoy = on, !.firstJoyIs0 = first]
  <2>1. Becomes(i, client, FALSE)
    BY <1>6 DEF LoadSettings
  <2>2. /\ i \in Ikbds /\ i.dir = ikbd.dir /\ i.btn = ikbd.btn /\ i.cnt = ikbd.cnt
        /\ i.waiting = ikbd.waiting
    BY <1>1 DEF Ikbds
  <2> HIDE DEF i
  <2>3. Waits(ikbd) => Waits(i)
    BY <2>2 DEF Waits
  <2> QED
    BY <1>1, <2>1, <2>2, <2>3, BecomesKeeps
<1>7. ASSUME StReset
      PROVE  IkbdTypeOK' /\ KeyInv'
  <2> DEFINE zero == [k \in HotKeys |-> 0]
             i == [ikbd EXCEPT !.mode = "mouse", !.waiting = FALSE, !.cnt = zero]
  <2>1. Becomes(i, client, TRUE)
    BY <1>7 DEF StReset
  <2>4. zero \in [HotKeys -> Int] /\ \A k \in HotKeys : zero[k] = 0
    OBVIOUS
  <2> HIDE DEF zero
  <2>2. /\ i \in Ikbds /\ i.dir = ikbd.dir /\ i.btn = ikbd.btn
        /\ i.cnt = zero /\ i.waiting = FALSE
    BY <1>1, <2>4 DEF Ikbds
  <2> HIDE DEF i
  <2>3. Waits(ikbd) => Waits(i)
    BY <2>2 DEF Waits
  <2>5. \A k \in HotKeys : i.cnt[k] = 0
    BY <2>2, <2>4
  <2> QED
    BY <1>1, <2>1, <2>2, <2>3, <2>5, BecomesKeeps
<1>8. ASSUME ClientChanges
      PROVE  IkbdTypeOK' /\ KeyInv'
  <2>1. Becomes(ikbd, ~client, FALSE)
    BY <1>8 DEF ClientChanges
  <2>2. (~client) \in BOOLEAN
    OBVIOUS
  <2> QED
    BY <1>1, <2>1, <2>2, BecomesKeeps
<1>9. ASSUME Unplug
      PROVE  IkbdTypeOK' /\ KeyInv'
  BY <1>9, UnplugKeeps
<1>10. ASSUME UNCHANGED ikbdVars
       PROVE  IkbdTypeOK' /\ KeyInv'
  <2>1. /\ down' = down /\ stick' = stick /\ client' = client /\ ikbd' = ikbd
        /\ told' = told /\ unsteady' = unsteady /\ skipped' = skipped
        /\ carried' = carried /\ forgot' = forgot /\ changes' = changes
    BY <1>10 DEF ikbdVars
  <2>2. IkbdTypeOK'
    BY <2>1 DEF IkbdTypeOK
  <2>3. KeyInv'
    BY <2>1 DEF KeyInv
  <2> QED
    BY <2>2, <2>3
<1> QED
  BY <1>2, <1>3, <1>4, <1>5, <1>6, <1>7, <1>8, <1>9, <1>10 DEF IkbdNext

(* The object of the keys, what the ST was told and the held keys keep     *)
(* their types.                                                            *)
THEOREM KeysTypeCorrect == IkbdSpec => []IkbdTypeOK
<1>1. IkbdInit => IkbdTypeOK /\ KeyInv
  BY KeyInvInit
<1>2. IkbdTypeOK /\ KeyInv /\ [IkbdNext]_ikbdVars => IkbdTypeOK' /\ KeyInv'
  BY KeyInvStep
<1> QED
  BY <1>1, <1>2, PTL DEF IkbdSpec

(* The counters of the hotkeys are the keys that are held, for keyboards,  *)
(* batches and sequences of events of any size, unless a reset or a        *)
(* removed keyboard makes a release go amiss (ikbd_usb.cpp,                *)
(* handleHotkeys()).                                                       *)
THEOREM CountsAreKeysHolds == IkbdSpec => []CountsAreKeys
<1>1. IkbdInit => IkbdTypeOK /\ KeyInv
  BY KeyInvInit
<1>2. IkbdTypeOK /\ KeyInv /\ [IkbdNext]_ikbdVars => IkbdTypeOK' /\ KeyInv'
  BY KeyInvStep
<1>3. KeyInv => CountsAreKeys
  BY DEF KeyInv, Counts, CountsAreKeys
<1> QED
  BY <1>1, <1>2, <1>3, PTL DEF IkbdSpec

LEMMA BelievedIsHeld ==
    ASSUME IkbdTypeOK, KeyInv
    PROVE  NothingStuck
<1> SUFFICES ASSUME ~unsteady, ~carried
             PROVE  /\ \A k \in told.keys : Held(down, k)
                    /\ \A p \in Ports :
                          CASE told.dir[p] = "none" -> TRUE
                            [] told.dir[p] = "pushed" ->
                                  \E q \in stick : Port(ikbd, q) = p
                            [] OTHER -> p = 0 /\ Held(down, told.dir[p])
                    /\ told.mouse => Held(down, "lshift")
  BY DEF NothingStuck
<1>1. /\ Means(ikbd, told, down, client) /\ Follows(ikbd, told)
      /\ Pushed(ikbd, told, stick)
  BY DEF KeyInv
<1>2. \A p \in Ports : told.dir[p] \in {"none", "left", "right", "pushed"}
  BY IkbdTypesOf DEF Tolds
<1>3. \A k \in told.keys : Held(down, k)
  BY <1>1 DEF Means
<1>4. told.mouse => Held(down, "lshift")
  BY <1>1 DEF Means, Follows
<1>5. ASSUME NEW p \in Ports
      PROVE  CASE told.dir[p] = "none" -> TRUE
               [] told.dir[p] = "pushed" -> \E q \in stick : Port(ikbd, q) = p
               [] OTHER -> p = 0 /\ Held(down, told.dir[p])
  <2>1. p = 0 \/ p = 1
    BY DEF Ports
  <2>2. told.dir[p] = "pushed" => \E q \in stick : Port(ikbd, q) = p
    BY <1>1 DEF Pushed
  <2>3. told.dir[p] \in {"left", "right"} => p = 0 /\ Held(down, told.dir[p])
    BY <1>1, <2>1 DEF Means, Follows
  <2>4. told.dir[p] \in {"none", "left", "right", "pushed"}
    BY <1>2
  <2> QED
    BY <2>2, <2>3, <2>4
<1> QED
  BY <1>3, <1>4, <1>5

(* What the ST believes to be held is held, unless the meaning of a held   *)
(* key changes or the keys of a batch send a joystick's key as a key       *)
(* (ikbd_st.cpp, processKeyboardData(); ikbd_usb.cpp, processKeyboard()).  *)
THEOREM NothingStuckHolds == IkbdSpec => []NothingStuck
<1>1. IkbdInit => IkbdTypeOK /\ KeyInv
  BY KeyInvInit
<1>2. IkbdTypeOK /\ KeyInv /\ [IkbdNext]_ikbdVars => IkbdTypeOK' /\ KeyInv'
  BY KeyInvStep
<1>3. IkbdTypeOK /\ KeyInv => NothingStuck
  BY BelievedIsHeld
<1> QED
  BY <1>1, <1>2, <1>3, PTL DEF IkbdSpec

LEMMA WaitIsHeld ==
    ASSUME KeyInv
    PROVE  WaitsForRelease
<1> SUFFICES ASSUME ~forgot, ~skipped, ikbd.waiting
             PROVE  \E k \in HotKeys : Held(down, k)
  BY DEF WaitsForRelease
<1>1. PICK k \in HotKeys : ikbd.cnt[k] > 0
  BY DEF KeyInv, Waits
<1>2. HeldBy(down, k) > 0
  BY <1>1 DEF KeyInv, Counts
<1> QED
  BY <1>2, HeldByHeld

(* After a key that was handled in full, a wait has a hotkey that is held, *)
(* also when releases before it were skipped (ikbd_usb.cpp,                *)
(* handleHotkeys()).                                                       *)
THEOREM WaitsForReleaseHolds == IkbdSpec => []WaitsForRelease
<1>1. IkbdInit => IkbdTypeOK /\ KeyInv
  BY KeyInvInit
<1>2. IkbdTypeOK /\ KeyInv /\ [IkbdNext]_ikbdVars => IkbdTypeOK' /\ KeyInv'
  BY KeyInvStep
<1>3. KeyInv => WaitsForRelease
  BY WaitIsHeld
<1> QED
  BY <1>1, <1>2, <1>3, PTL DEF IkbdSpec

=============================================================================
