----------------------------- MODULE GemdosFind ------------------------------
(***************************************************************************)
(* Directory searches of the programs on the Atari, Fsfirst() and          *)
(* Fsnext(), over the translated disk.  The driver                         *)
(* (src/ce_dd_prg/gemdos.c) fetches the entries in blocks into the one     *)
(* pDtaBuffer and keeps the place of a search in the reserved area of the  *)
(* program's DTA; the Raspberry Pi                                         *)
(* (src/ce_main_app/translated/translateddisk_gemdos.cpp) keeps a list for *)
(* each search, found again by the address of the DTA of its Fsfirst().    *)
(* Programs nest searches, each with a DTA of its own, copy a DTA and go   *)
(* on with the copy, begin a new search in the original one, leave a       *)
(* search before its end, and search the drives of TOS.                    *)
(***************************************************************************)
EXTENDS Integers, Sequences, FiniteSets

CONSTANTS Dtas,         \* addresses of DTAs
          NoDta,        \* no address: dtaBufferValidForPDta at the start
          Dirs,         \* directories, each named by the number of its entries
          PerBlock,     \* DTAs in one transfer: 22 in a sector
          MaxStorages,  \* MAX_FIND_STORAGES: 32
          MaxCalls,     \* bound: calls of the programs
          MaxFaults     \* bound: commands that fail, restarts of the RPi

ASSUME FindAssumption ==
    /\ NoDta \notin Dtas /\ Dirs \subseteq Nat
    /\ {PerBlock, MaxStorages} \subseteq Nat \ {0} /\ {MaxCalls, MaxFaults} \subseteq Nat

VARIABLES
    pDta,       \* the DTA that is set
    area,       \* the reserved area of each DTA
    buffer,     \* pDtaBuffer: the last block
    validFor,   \* dtaBufferValidForPDta
    forUs,      \* fsnextIsForUs
    storage,    \* RPi, findStorages: the list kept for an address, or nothing
    search,     \* the search of each DTA as its program sees it
    calls,      \* counter of the bound
    faults      \* counter of the bound

driver == <<area, buffer, validFor, forUs>>
vars   == <<pDta, driver, storage, search, calls, faults>>

Entry == [dir : Dirs \cup {0}, nr : Nat]

\* What lies in the buffer behind a block, or after a transfer that failed.
Junk  == [dir |-> 0, nr |-> 0]
Empty == [k \in 1 .. PerBlock |-> Junk]

\* The reserved area: the address of the DTA of Fsfirst(), the entries given so
\* far, the next one in the buffer, how many it holds, and whether to fetch more.
Area(id, item, cur, total, more) ==
    [id |-> id, item |-> item, cur |-> cur, total |-> total, more |-> more]

\* Not written by this driver: unused, or used by TOS.
Unknown == Area(NoDta, 0, 0, 0, FALSE)

\* What a program sees of a search.  Two more fields only serve the properties:
\* own is lost by a copy whose next entries are those of another search, alone by
\* every search that shares its list on the RPi with another one.
Search(state, dir, seen) ==
    [state |-> state, dir |-> dir, seen |-> seen, own |-> TRUE, alone |-> TRUE]
Idle == Search("idle", 0, <<>>)

Init ==
    /\ pDta \in Dtas /\ area = [d \in Dtas |-> Unknown]
    /\ buffer = Empty /\ validFor = NoDta /\ forUs = FALSE
    /\ storage = <<>>
    /\ search = [d \in Dtas |-> Idle]
    /\ calls = 0 /\ faults = 0

-----------------------------------------------------------------------------
(* The Raspberry Pi; lists is what findStorages holds *)

\* TFindStorage::clear().
Cleared(id, lists) == [i \in DOMAIN lists \ {id} |-> lists[i]]

\* onFsfirst(): the entries replace the list of the same DTA, or take a free
\* storage.
HasRoom(id, lists) == id \in DOMAIN lists \/ Cardinality(DOMAIN lists) < MaxStorages
Found(id, dir, lists) == [i \in DOMAIN lists \cup {id} |-> IF i = id THEN dir ELSE lists[i]]

\* onFsnext(): the entries after the first item ones, as many as fit.
Fits(left) == IF left < PerBlock THEN left ELSE PerBlock
Block(id, item, lists) ==
    [k \in 1 .. Fits(lists[id] - item) |-> [dir |-> lists[id], nr |-> item + k]]

\* Mutant: the last entry is not sent.
HasMoreThanOne(id, item, lists) == id \in DOMAIN lists /\ lists[id] > item + 1

\* onFsnext() with none left releases the list at once.
HasMore(id, item, lists) == id \in DOMAIN lists /\ lists[id] > item
AfterFsnext(id, item, lists) == IF HasMore(id, item, lists) THEN lists ELSE Cleared(id, lists)

-----------------------------------------------------------------------------
(* The driver *)

\* How a command ends after all its retries: carried out and answered, never
\* carried out, or carried out and the answer lost.
Outcomes == {"answered", "lost", "unanswered"}

Fault(outcome) == IF outcome = "answered" THEN 0 ELSE 1
Faults(first, second) ==
    /\ faults' = faults + Fault(first) + Fault(second)
    /\ faults' <= MaxFaults
NoFault == UNCHANGED faults

Call == calls < MaxCalls /\ calls' = calls + 1

\* copyNextDtaToAtari() steps on in the buffer and in the list.
Given(a) == [a EXCEPT !.cur = @ + 1, !.item = @ + 1]

\* Mutant: the end of a search is not told to the RPi.
DoneUntold(a, outcome, lists) == lists

\* onFsnext_last(): the RPi may release the list.
Done(a, outcome, lists) == IF outcome = "lost" THEN lists ELSE Cleared(a.id, lists)

\* An entry for the search s of the DTA that is set, whose area becomes a; all:
\* the searches of all DTAs.
Gives(a, s, all, entry) ==
    /\ area' = [area EXCEPT ![pDta] = Given(a)]
    /\ search' = [all EXCEPT ![pDta] =
                      [s EXCEPT !.state = "live", !.seen = Append(s.seen, entry)]]

\* ENMFIL; over: what the program then has.
Ends(a, over, all, outcome, lists) ==
    /\ area' = [area EXCEPT ![pDta] = [a EXCEPT !.more = FALSE]]
    /\ search' = [all EXCEPT ![pDta] = over]
    /\ storage' = Done(a, outcome, lists)

\* getNextDTAsFromHost(), and the first entry of the block or the end.
Fetch(a, s, over, all, lists) ==
    LET empty == [a EXCEPT !.cur = 0, !.total = 0]
        block == Block(a.id, a.item, lists)
    IN  /\ validFor' = pDta
        /\ \/ /\ HasMore(a.id, a.item, lists)
              /\ buffer' = [k \in 1 .. PerBlock |-> IF k <= Len(block) THEN block[k] ELSE Junk]
              /\ storage' = lists
              /\ Gives([empty EXCEPT !.total = Len(block)], s, all, block[1])
              /\ NoFault
           \/ \E got \in Outcomes, last \in Outcomes :
                  /\ got = "answered" => ~HasMore(a.id, a.item, lists)
                  /\ buffer' = IF got = "answered" THEN buffer ELSE Empty
                  /\ Ends(empty, over, all, last,
                          IF got = "lost" THEN lists ELSE AfterFsnext(a.id, a.item, lists))
                  /\ Faults(got, last)

-----------------------------------------------------------------------------
(* The calls of the programs *)

\* Fsetdta().
Fsetdta(d) == d # pDta /\ pDta' = d /\ UNCHANGED <<driver, storage, search, calls, faults>>

\* The block in the buffer goes on where a search is.
GoesOn(s, a) ==
    \A k \in 1 .. PerBlock : a.cur < k /\ k <= a.total =>
        buffer[k] = [dir |-> s.dir, nr |-> (a.item + k) - a.cur]

\* A program copies its DTA and goes on with the copy only.  At the very address
\* the buffer is valid for, the driver takes the buffer to be that of the copy.
Move(d, e) ==
    /\ d # e /\ search[d].state = "live" /\ Call
    /\ area' = [area EXCEPT ![e] = area[d]]
    /\ search' = [search EXCEPT
                     ![e] = [search[d] EXCEPT
                                !.own = @ /\ (e = validFor => GoesOn(search[d], area[d]))],
                     ![d] = Idle]
    /\ UNCHANGED <<pDta, buffer, validFor, forUs, storage, faults>>

\* The copies of the searches of the DTA that is set: the RPi knows them by its
\* address.  A new list for it is theirs from now on, whatever its directory.
Copies == {d \in Dtas \ {pDta} : search[d].state \in {"live", "ended"} /\ area[d].id = pDta}
Shares(s, dir) == [s EXCEPT !.own = @ /\ s.dir = dir, !.alone = FALSE]
Replaced(dir)  == [d \in Dtas |-> IF d \in Copies THEN Shares(search[d], dir) ELSE search[d]]
Begun(dir)     == [Search("live", dir, <<>>) EXCEPT !.alone = Copies = {}]
Fresh          == Area(pDta, 0, 0, 0, TRUE)

\* custom_fsfirst() when the command fails: the search is left to TOS.
FsfirstFails(dir) ==
    /\ Call /\ forUs' = FALSE
    /\ area' = [area EXCEPT ![pDta] = Unknown]
    /\ \E got \in Outcomes \ {"answered"} :
        /\ Faults(got, "answered")
        /\ \/ /\ got = "unanswered" /\ dir > 0 /\ HasRoom(pDta, storage)
              /\ storage' = Found(pDta, dir, storage)
              /\ search' = [Replaced(dir) EXCEPT ![pDta] = Idle]
           \/ /\ got = "lost" \/ dir = 0 \/ ~HasRoom(pDta, storage)
              /\ storage' = storage
              /\ search' = [search EXCEPT ![pDta] = Idle]
    /\ UNCHANGED <<pDta, buffer, validFor>>

\* Nothing found, or no storage is free: EFILNF.
FsfirstNone(dir) ==
    /\ Call /\ forUs' = TRUE
    /\ dir = 0 \/ ~HasRoom(pDta, storage)
    /\ area' = [area EXCEPT ![pDta] = Fresh]
    /\ search' = [search EXCEPT ![pDta] = Idle]
    /\ UNCHANGED <<pDta, buffer, validFor, storage, faults>>

Fsfirst(dir) ==
    /\ Call /\ forUs' = TRUE
    /\ dir > 0 /\ HasRoom(pDta, storage)
    /\ Fetch(Fresh, Begun(dir), Idle, Replaced(dir), Found(pDta, dir, storage))
    /\ UNCHANGED pDta

\* Mutant: the buffer is taken to be that of the DTA that is set.
InBufferAlways(a) == a.cur < a.total

\* The next entry is in the buffer, and the buffer is that of this search.
InBuffer(a) == validFor = pDta /\ a.cur < a.total

\* A copy may be further than a new list of its address is long.  What the RPi
\* then does, with less than no entries to send, is not modelled.
Beyond(a) == a.id \in DOMAIN storage /\ storage[a.id] < a.item

\* custom_fsnext() for a search of this driver.
Fsnext ==
    LET s    == search[pDta]
        a    == area[pDta]
        over == [s EXCEPT !.state = "ended"]
    IN  /\ Call /\ forUs /\ s.state \in {"live", "ended"}
        /\ \/ /\ InBuffer(a)
              /\ Gives(a, s, search, buffer[a.cur + 1])
              /\ UNCHANGED <<buffer, validFor, storage, faults>>
           \/ /\ ~InBuffer(a) /\ validFor = pDta /\ ~a.more
              /\ \E last \in Outcomes : Ends(a, over, search, last, storage) /\ Faults(last, "answered")
              /\ UNCHANGED <<buffer, validFor>>
           \/ /\ ~InBuffer(a) /\ (validFor # pDta \/ a.more) /\ ~Beyond(a)
              /\ Fetch(a, s, over, search, storage)
        /\ UNCHANGED <<pDta, forUs>>

\* A search on a drive of TOS, which writes the area of the DTA.
FsfirstElsewhere ==
    /\ Call /\ forUs' = FALSE
    /\ area' = [area EXCEPT ![pDta] = Unknown]
    /\ search' = [search EXCEPT ![pDta] = Search("elsewhere", 0, <<>>)]
    /\ UNCHANGED <<pDta, buffer, validFor, storage, faults>>

\* custom_fsnext() leaves a search to TOS, its own or one of this driver, of
\* which TOS makes what it likes.
FsnextElsewhere ==
    /\ Call /\ ~forUs /\ search[pDta].state # "idle"
    /\ area' = [area EXCEPT ![pDta] = Unknown]
    /\ search' = [search EXCEPT ![pDta] = Idle]
    /\ UNCHANGED <<pDta, buffer, validFor, forUs, storage, faults>>

\* custom_fsnext() takes a search of TOS for one of this driver.  The bytes TOS
\* keeps in the reserved area are taken to be no address of a list.
FsnextNotOurs ==
    /\ Call /\ forUs /\ search[pDta].state = "elsewhere"
    /\ Fetch(area[pDta], search[pDta], Idle, search, storage)
    /\ UNCHANGED <<pDta, forUs>>

\* The program on the RPi is started again: initFindStorages().
RpiRestarts ==
    /\ Faults("lost", "answered") /\ storage' = <<>>
    /\ UNCHANGED <<pDta, driver, search, calls>>

Next ==
    \/ \E d, e \in Dtas : Move(d, e)
    \/ \E d \in Dtas : Fsetdta(d)
    \/ \E dir \in Dirs : Fsfirst(dir) \/ FsfirstNone(dir) \/ FsfirstFails(dir)
    \/ Fsnext \/ FsfirstElsewhere \/ FsnextElsewhere \/ FsnextNotOurs
    \/ RpiRestarts

Spec == Init /\ [][Next]_vars

-----------------------------------------------------------------------------
(* Properties *)

\* Types: the RPi keeps no more lists than there are storages, and an area never
\* points behind its block.
TypeOK ==
    /\ pDta \in Dtas /\ validFor \in Dtas \cup {NoDta} /\ forUs \in BOOLEAN
    /\ area \in [Dtas -> [id : Dtas \cup {NoDta}, item : Nat, cur : Nat,
                          total : 0 .. PerBlock, more : BOOLEAN]]
    /\ \A d \in Dtas : area[d].cur <= area[d].total
    /\ buffer \in [1 .. PerBlock -> Entry]
    /\ DOMAIN storage \subseteq Dtas /\ Cardinality(DOMAIN storage) <= MaxStorages
    /\ \A id \in DOMAIN storage : storage[id] \in Dirs
    /\ search \in [Dtas -> [state : {"idle", "live", "ended", "elsewhere"},
                            dir : Dirs \cup {0}, seen : Seq(Entry),
                            own : BOOLEAN, alone : BOOLEAN]]
    /\ calls \in 0 .. MaxCalls /\ faults \in 0 .. MaxFaults

\* However searches are nested, left or failed, a program gets the entries of
\* its own directory, in their order, none twice and none passed over: the area,
\* the buffer and the RPi's list agree.  So does a copied DTA (gemdos.c:378),
\* but for two kinds of copies, which follow the code to entries of another
\* search: one made at the address of the search the buffer is still valid for,
\* and one whose original DTA begins a search of another directory, which
\* replaces the list of both.
InOrder ==
    \A d \in Dtas : LET s == search[d] IN
        s.own => s.seen = [k \in 1 .. Len(s.seen) |-> [dir |-> s.dir, nr |-> k]]

\* A search only ends after its last entry, if no command failed, the RPi was
\* not restarted and no other search goes on in its list: a copy and the search
\* begun after it in the original DTA release the list of each other.
EndsAtEnd ==
    faults = 0 => \A d \in Dtas :
        search[d].state = "ended" /\ search[d].alone => Len(search[d].seen) = search[d].dir

\* One command that fails does not leave the list of a finished search on the
\* RPi, which has 32 of them until the Atari is reset (onFsnext_last()).  The
\* list of a search that is left before its end stays, as it does in the code.
Released ==
    faults <= 1 => \A d \in Dtas :
        search[d].state = "ended" /\ search[d].alone => area[d].id \notin DOMAIN storage
=============================================================================
