------------------------------ MODULE PlainFile ------------------------------
(***************************************************************************)
(* What a program expects of a file (the file tests in                     *)
(* test_filesystem/test05.c): one sequence of bytes and one position, from *)
(* which Fread() and Fwrite() go on and which Fseek() sets.  The promise   *)
(* is kept while plain holds; the specification that implements this one   *)
(* says when it is given up.                                               *)
(***************************************************************************)
EXTENDS Integers, Sequences

CONSTANT Byte

VARIABLES
    content,    \* the bytes of the file
    pos,        \* where the next Fread() or Fwrite() starts
    isOpen,     \* the program has it open
    call,       \* the last call: its name, byte count and bytes to write
    got,        \* the bytes the last Fread() returned
    plain       \* the promise still holds

fileVars == <<content, pos, isOpen, call, got, plain>>

Less(a, b) == IF a < b THEN a ELSE b
More(a, b) == IF a < b THEN b ELSE a

\* At most n bytes of f from position p on.
Slice(f, p, n) == SubSeq(f, p + 1, Less(p + n, Len(f)))

\* f with the bytes b written at position p; a gap is filled with zeros.
Overlay(f, p, b) ==
    IF b = <<>> THEN f
    ELSE [i \in 1 .. More(Len(f), p + Len(b)) |->
             IF i \in p + 1 .. p + Len(b) THEN b[i - p]
             ELSE IF i <= Len(f) THEN f[i] ELSE 0]

FileInit ==
    /\ content \in Seq(Byte) /\ pos = 0 /\ got = <<>>
    /\ isOpen = FALSE /\ plain = TRUE

Fopen ==
    /\ call'.op \in {"open", "create"} /\ ~isOpen
    /\ isOpen' /\ pos' = 0 /\ UNCHANGED got
    /\ content' = IF call'.op = "create" THEN <<>> ELSE content

Fclose == /\ call'.op = "close" /\ isOpen
          /\ ~isOpen' /\ pos' = 0 /\ UNCHANGED <<content, got>>

Fread == /\ call'.op = "read" /\ isOpen
         /\ got' = Slice(content, pos, call'.n)
         /\ pos' = pos + Len(got') /\ UNCHANGED <<content, isOpen>>

Fwrite == /\ call'.op = "write" /\ isOpen
          /\ content' = Overlay(content, pos, call'.bytes)
          /\ pos' = pos + call'.n /\ UNCHANGED <<isOpen, got>>

Fseek == /\ call'.op = "seek" /\ isOpen
         /\ pos' \in Nat /\ UNCHANGED <<content, isOpen, got>>

\* From here on nothing is promised.
GivenUp == ~plain'

FileNext ==
    \/ plain' /\ plain /\ (Fopen \/ Fclose \/ Fread \/ Fwrite \/ Fseek)
    \/ GivenUp

FileSpec == FileInit /\ [][FileNext]_fileVars
=============================================================================
