-------------------------- MODULE GemdosFindProofs --------------------------
(***************************************************************************)
(* Proofs about GemdosFind, for any DTAs, directories, block sizes and     *)
(* numbers of storages and faults.                                         *)
(***************************************************************************)
EXTENDS GemdosFind, FiniteSetTheorems, SequenceTheorems, TLAPS

States == {"idle", "live", "ended", "elsewhere"}
Areas  == {a \in [id : Dtas \cup {NoDta}, item : Nat, cur : Nat,
                  total : 0 .. PerBlock, more : BOOLEAN] : a.cur <= a.total}
Kept   == [state : States, dir : Dirs \cup {0}, seen : Seq(Entry),
           own : BOOLEAN, alone : BOOLEAN]

\* A search after one more entry, and after its end.
More(s, entry) == [s EXCEPT !.state = "live", !.seen = Append(s.seen, entry)]
Over(s)        == [s EXCEPT !.state = "ended"]

\* What TypeOK says of the lists on the RPi, and that they are finitely many.
ListsOK(lists) ==
    /\ DOMAIN lists \subseteq Dtas /\ IsFiniteSet(DOMAIN lists)
    /\ Cardinality(DOMAIN lists) <= MaxStorages
    /\ \A id \in DOMAIN lists : lists[id] \in Dirs

FindTypes == TypeOK /\ IsFiniteSet(DOMAIN storage)

(***************************************************************************)
(* Types                                                                   *)
(***************************************************************************)

LEMMA Sizes == /\ PerBlock \in Nat /\ PerBlock > 0
               /\ MaxStorages \in Nat /\ MaxStorages > 0
               /\ MaxCalls \in Nat /\ MaxFaults \in Nat
               /\ Dirs \subseteq Nat /\ NoDta \notin Dtas
BY FindAssumption

LEMMA FaultsTypes ==
    ASSUME faults \in 0 .. MaxFaults, NEW a, NEW b, Faults(a, b)
    PROVE  /\ faults' \in 0 .. MaxFaults /\ faults <= faults'
           /\ a # "answered" => faults + 1 <= faults'
           /\ b # "answered" => faults + 1 <= faults'
           /\ a # "answered" /\ b # "answered" => faults + 2 <= faults'
<1>1. Fault(a) \in {0, 1} /\ (a # "answered" => Fault(a) = 1)
  BY DEF Fault
<1>2. Fault(b) \in {0, 1} /\ (b # "answered" => Fault(b) = 1)
  BY DEF Fault
<1> QED
  BY <1>1, <1>2, Sizes DEF Faults

LEMMA CallTypes ==
    ASSUME calls \in 0 .. MaxCalls, Call PROVE calls' \in 0 .. MaxCalls
BY Sizes DEF Call

LEMMA ClearedTypes ==
    ASSUME NEW id, NEW lists, ListsOK(lists)
    PROVE  ListsOK(Cleared(id, lists))
<1>1. DOMAIN Cleared(id, lists) = DOMAIN lists \ {id}
  BY DEF Cleared
<1>2. \A i \in DOMAIN Cleared(id, lists) : Cleared(id, lists)[i] = lists[i]
  BY DEF Cleared
<1>3. IsFiniteSet(DOMAIN lists) /\ DOMAIN lists \ {id} \subseteq DOMAIN lists
  BY DEF ListsOK
<1>4. /\ IsFiniteSet(DOMAIN lists \ {id})
      /\ Cardinality(DOMAIN lists \ {id}) <= Cardinality(DOMAIN lists)
  BY <1>3, FS_Subset
<1>5. Cardinality(DOMAIN lists \ {id}) \in Nat /\ Cardinality(DOMAIN lists) \in Nat
  BY <1>3, <1>4, FS_CardinalityType
<1> QED
  BY <1>1, <1>2, <1>4, <1>5, Sizes DEF ListsOK

LEMMA FoundTypes ==
    ASSUME NEW id \in Dtas, NEW dir \in Dirs, NEW lists, ListsOK(lists), HasRoom(id, lists)
    PROVE  ListsOK(Found(id, dir, lists))
<1>1. DOMAIN Found(id, dir, lists) = DOMAIN lists \cup {id}
  BY DEF Found
<1>2. \A i \in DOMAIN lists \cup {id} : Found(id, dir, lists)[i] \in Dirs
  BY DEF Found, ListsOK
<1>3. IsFiniteSet(DOMAIN lists) /\ Cardinality(DOMAIN lists) \in Nat
  BY FS_CardinalityType DEF ListsOK
<1>4. /\ IsFiniteSet(DOMAIN lists \cup {id})
      /\ Cardinality(DOMAIN lists \cup {id}) =
            IF id \in DOMAIN lists THEN Cardinality(DOMAIN lists)
            ELSE Cardinality(DOMAIN lists) + 1
  BY <1>3, FS_AddElement
<1>5. Cardinality(DOMAIN lists \cup {id}) <= MaxStorages
  BY <1>3, <1>4, Sizes DEF ListsOK, HasRoom
<1> QED
  BY <1>1, <1>2, <1>4, <1>5 DEF ListsOK

LEMMA AfterTypes ==
    ASSUME NEW id, NEW item, NEW lists, ListsOK(lists)
    PROVE  ListsOK(AfterFsnext(id, item, lists))
BY ClearedTypes DEF AfterFsnext

LEMMA DoneTypes ==
    ASSUME NEW a, NEW outcome, NEW lists, ListsOK(lists)
    PROVE  ListsOK(Done(a, outcome, lists))
BY ClearedTypes DEF Done

\* The block of one transfer.
LEMMA BlockTypes ==
    ASSUME NEW id, NEW item \in Nat, NEW lists, ListsOK(lists), HasMore(id, item, lists)
    PROVE  /\ Block(id, item, lists) \in Seq(Entry)
           /\ Len(Block(id, item, lists)) \in 1 .. PerBlock
           /\ item + Len(Block(id, item, lists)) <= lists[id]
           /\ \A k \in 1 .. Len(Block(id, item, lists)) :
                 /\ Block(id, item, lists)[k] = [dir |-> lists[id], nr |-> item + k]
                 /\ Block(id, item, lists)[k] \in Entry
<1> DEFINE n == Fits(lists[id] - item)
<1>1. lists[id] \in Dirs /\ lists[id] \in Nat /\ lists[id] > item
  BY Sizes DEF HasMore, ListsOK
<1>2. n \in Nat /\ n \in 1 .. PerBlock /\ item + n <= lists[id]
  BY <1>1, Sizes DEF Fits
<1> HIDE DEF n
<1>3. \A k \in 1 .. n : [dir |-> lists[id], nr |-> item + k] \in Entry
  BY <1>1, <1>2 DEF Entry
<1>4. Block(id, item, lists) = [k \in 1 .. n |-> [dir |-> lists[id], nr |-> item + k]]
  BY DEF Block, n
<1>5. Block(id, item, lists) \in Seq(Entry) /\ Len(Block(id, item, lists)) = n
  <2>1. Block(id, item, lists) \in [1 .. n -> Entry]
    BY <1>3, <1>4
  <2>2. Block(id, item, lists) \in Seq(Entry)
    BY <1>2, <2>1, SeqDef
  <2>3. DOMAIN Block(id, item, lists) = 1 .. n
    BY <2>1
  <2> QED
    BY <1>2, <2>2, <2>3, LenProperties
<1> QED
  BY <1>2, <1>3, <1>4, <1>5

LEMMA GivenTypes ==
    ASSUME NEW a \in Areas, a.cur < a.total
    PROVE  /\ Given(a) \in Areas /\ Given(a).cur = a.cur + 1 /\ Given(a).item = a.item + 1
           /\ Given(a).id = a.id /\ Given(a).total = a.total /\ Given(a).more = a.more
<1>1. a.cur + 1 \in Nat /\ a.item + 1 \in Nat /\ a.cur + 1 <= a.total
  BY Sizes DEF Areas
<1> DEFINE i == a.item + 1
           c == a.cur + 1
<1>2. Given(a) = [a EXCEPT !.cur = c, !.item = i]
  BY DEF Given
<1>3. c \in Nat /\ i \in Nat /\ c <= a.total
  BY <1>1
<1> HIDE DEF i, c
<1>4. /\ Given(a) \in Areas /\ Given(a).cur = c /\ Given(a).item = i
      /\ Given(a).id = a.id /\ Given(a).total = a.total /\ Given(a).more = a.more
  BY <1>2, <1>3 DEF Areas
<1> QED
  BY <1>4 DEF i, c

LEMMA SearchKept ==
    ASSUME NEW s \in Kept
    PROVE  /\ Over(s) \in Kept /\ Over(s).state = "ended" /\ Over(s).dir = s.dir
           /\ Over(s).seen = s.seen /\ Over(s).own = s.own /\ Over(s).alone = s.alone
           /\ \A entry \in Entry :
                 /\ More(s, entry) \in Kept /\ More(s, entry).state = "live"
                 /\ More(s, entry).seen = Append(s.seen, entry)
                 /\ More(s, entry).dir = s.dir /\ More(s, entry).own = s.own
                 /\ More(s, entry).alone = s.alone
<1>1. /\ s.seen \in Seq(Entry) /\ s.dir \in Dirs \cup {0}
      /\ s.own \in BOOLEAN /\ s.alone \in BOOLEAN
      /\ s = [state |-> s.state, dir |-> s.dir, seen |-> s.seen, own |-> s.own, alone |-> s.alone]
  BY DEF Kept
<1>2. \A x : [s EXCEPT !.state = x] =
          [state |-> x, dir |-> s.dir, seen |-> s.seen, own |-> s.own, alone |-> s.alone]
  BY <1>1
<1>3. "live" \in States /\ "ended" \in States
  BY DEF States
<1>5. /\ Over(s) \in Kept /\ Over(s).state = "ended" /\ Over(s).dir = s.dir
      /\ Over(s).seen = s.seen /\ Over(s).own = s.own /\ Over(s).alone = s.alone
  BY <1>1, <1>2, <1>3 DEF Kept, Over
<1>6. ASSUME NEW entry \in Entry
      PROVE  /\ More(s, entry) \in Kept /\ More(s, entry).state = "live"
             /\ More(s, entry).seen = Append(s.seen, entry)
             /\ More(s, entry).dir = s.dir /\ More(s, entry).own = s.own
             /\ More(s, entry).alone = s.alone
  <2> DEFINE y == Append(s.seen, entry)
  <2>1. y \in Seq(Entry)
    BY <1>1
  <2>2. More(s, entry) = [[s EXCEPT !.state = "live"] EXCEPT !.seen = y]
    BY DEF More
  <2> HIDE DEF y
  <2>3. More(s, entry) = [state |-> "live", dir |-> s.dir, seen |-> y, own |-> s.own,
                          alone |-> s.alone]
    BY <1>1, <2>2
  <2>4. More(s, entry) \in Kept /\ More(s, entry).seen = y
    BY <1>1, <1>3, <2>1, <2>3 DEF Kept
  <2> QED
    BY <2>3, <2>4 DEF y
<1> QED
  BY <1>5, <1>6

LEMMA GivesTypes ==
    ASSUME pDta \in Dtas, area \in [Dtas -> Areas], NEW all \in [Dtas -> Kept],
           NEW a \in Areas, a.cur < a.total, NEW s \in Kept, NEW entry \in Entry, Gives(a, s, all, entry)
    PROVE  area' \in [Dtas -> Areas] /\ search' \in [Dtas -> Kept]
<1>1. Given(a) \in Areas
  BY GivenTypes
<1>2. More(s, entry) \in Kept
  BY SearchKept
<1> QED
  BY <1>1, <1>2 DEF Gives, More

LEMMA EndsTypes ==
    ASSUME pDta \in Dtas, area \in [Dtas -> Areas], NEW all \in [Dtas -> Kept],
           NEW a \in Areas, NEW over \in Kept, NEW outcome, NEW lists, ListsOK(lists),
           Ends(a, over, all, outcome, lists)
    PROVE  area' \in [Dtas -> Areas] /\ search' \in [Dtas -> Kept] /\ ListsOK(storage')
<1>1. [a EXCEPT !.more = FALSE] \in Areas
  BY DEF Areas
<1> QED
  BY <1>1, DoneTypes DEF Ends

\* The area before a block is fetched.
Unfetched(a)  == [a EXCEPT !.cur = 0, !.total = 0]
Fetched(a, n) == [Unfetched(a) EXCEPT !.total = n]

LEMMA UnfetchedTypes ==
    ASSUME NEW a \in Areas, NEW n \in 0 .. PerBlock
    PROVE  /\ Unfetched(a) \in Areas /\ Unfetched(a).cur = 0 /\ Unfetched(a).total = 0
           /\ Unfetched(a).item = a.item /\ Unfetched(a).id = a.id
           /\ Unfetched(a).more = a.more
           /\ Fetched(a, n) \in Areas /\ Fetched(a, n).cur = 0 /\ Fetched(a, n).total = n
           /\ Fetched(a, n).item = a.item /\ Fetched(a, n).id = a.id
           /\ Fetched(a, n).more = a.more
<1>1. 0 \in 0 .. PerBlock /\ 0 \in Nat /\ 0 <= n /\ 0 <= 0
  BY Sizes
<1> QED
  BY <1>1 DEF Areas, Unfetched, Fetched

\* The part of the state that a transfer changes.
SearchTypes ==
    /\ pDta \in Dtas /\ validFor \in Dtas \cup {NoDta}
    /\ area \in [Dtas -> Areas] /\ buffer \in [1 .. PerBlock -> Entry]
    /\ search \in [Dtas -> Kept] /\ ListsOK(storage) /\ faults \in 0 .. MaxFaults

LEMMA JunkTypes == Junk \in Entry /\ Empty \in [1 .. PerBlock -> Entry]
BY DEF Junk, Empty, Entry

\* The two ways a fetch may go: an entry, or the end of the search.
GetsBlock(a, s, all, lists) ==
    LET block == Block(a.id, a.item, lists)
    IN  /\ HasMore(a.id, a.item, lists)
        /\ buffer' = [k \in 1 .. PerBlock |-> IF k <= Len(block) THEN block[k] ELSE Junk]
        /\ storage' = lists
        /\ Gives(Fetched(a, Len(block)), s, all, block[1])
        /\ faults' = faults

GetsEnd(a, over, all, lists, got, last) ==
    /\ got = "answered" => ~HasMore(a.id, a.item, lists)
    /\ buffer' = IF got = "answered" THEN buffer ELSE Empty
    /\ Ends(Unfetched(a), over, all, last,
            IF got = "lost" THEN lists ELSE AfterFsnext(a.id, a.item, lists))
    /\ Faults(got, last)

LEMMA FetchCases ==
    ASSUME NEW a, NEW s, NEW over, NEW all, NEW lists, Fetch(a, s, over, all, lists)
    PROVE  /\ validFor' = pDta
           /\ \/ GetsBlock(a, s, all, lists)
              \/ \E got \in Outcomes, last \in Outcomes :
                    GetsEnd(a, over, all, lists, got, last)
BY DEF Fetch, GetsBlock, GetsEnd, NoFault, Unfetched, Fetched

LEMMA FetchTypes ==
    ASSUME SearchTypes, NEW a \in Areas, NEW s \in Kept, NEW over \in Kept,
           NEW all \in [Dtas -> Kept], NEW lists, ListsOK(lists),
           Fetch(a, s, over, all, lists), pDta' = pDta
    PROVE  SearchTypes'
<1> DEFINE block == Block(a.id, a.item, lists)
<1>0. a.item \in Nat
  BY DEF Areas
<1>1. CASE GetsBlock(a, s, all, lists)
  <2>1. /\ block \in Seq(Entry) /\ Len(block) \in 1 .. PerBlock
        /\ \A k \in 1 .. Len(block) : block[k] \in Entry
    <3>1. HasMore(a.id, a.item, lists)
      BY <1>1 DEF GetsBlock
    <3> QED
      BY <1>0, <3>1, BlockTypes
  <2>2. block[1] \in Entry /\ Len(block) \in 0 .. PerBlock /\ 0 < Len(block)
    BY <2>1, Sizes
  <2>3. buffer' \in [1 .. PerBlock -> Entry]
    BY <1>1, <2>1, JunkTypes DEF GetsBlock
  <2> HIDE DEF block
  <2>4. /\ Fetched(a, Len(block)) \in Areas
        /\ Fetched(a, Len(block)).cur < Fetched(a, Len(block)).total
    BY <2>2, UnfetchedTypes
  <2>5. Gives(Fetched(a, Len(block)), s, all, block[1])
    BY <1>1 DEF GetsBlock, block
  <2>6. area' \in [Dtas -> Areas] /\ search' \in [Dtas -> Kept]
    BY <2>2, <2>4, <2>5, GivesTypes DEF SearchTypes
  <2>7. storage' = lists /\ faults' = faults
    BY <1>1 DEF GetsBlock
  <2> QED
    BY <2>3, <2>6, <2>7, FetchCases DEF SearchTypes
<1>2. ASSUME NEW got \in Outcomes, NEW last \in Outcomes,
             GetsEnd(a, over, all, lists, got, last)
      PROVE  SearchTypes'
  <2> DEFINE kept == IF got = "lost" THEN lists ELSE AfterFsnext(a.id, a.item, lists)
  <2>1. ListsOK(kept)
    BY AfterTypes
  <2> HIDE DEF kept
  <2>2. Unfetched(a) \in Areas
    BY UnfetchedTypes, Sizes
  <2>3. Ends(Unfetched(a), over, all, last, kept)
    BY <1>2 DEF GetsEnd, kept
  <2>4. area' \in [Dtas -> Areas] /\ search' \in [Dtas -> Kept] /\ ListsOK(storage')
    BY <2>1, <2>2, <2>3, EndsTypes DEF SearchTypes
  <2>5. buffer' \in [1 .. PerBlock -> Entry] /\ faults' \in 0 .. MaxFaults
    BY <1>2, JunkTypes, FaultsTypes DEF GetsEnd, SearchTypes
  <2> QED
    BY <2>4, <2>5, FetchCases DEF SearchTypes
<1> QED
  BY <1>1, <1>2, FetchCases

LEMMA Constants0 ==
    /\ Unknown \in Areas /\ Idle \in Kept
    /\ Search("elsewhere", 0, <<>>) \in Kept
    /\ ListsOK(<<>>)
<1>1. Unknown \in Areas
  BY Sizes DEF Unknown, Area, Areas
<1>2. Idle \in Kept /\ Search("elsewhere", 0, <<>>) \in Kept
  BY DEF Idle, Search, Kept, States
<1>3. DOMAIN <<>> = {} /\ IsFiniteSet({}) /\ Cardinality({}) = 0
  BY FS_EmptySet
<1>4. ListsOK(<<>>)
  BY <1>3, Sizes DEF ListsOK
<1> QED
  BY <1>1, <1>2, <1>4

LEMMA FreshTypes ==
    ASSUME pDta \in Dtas
    PROVE  /\ Fresh \in Areas /\ Fresh.cur = 0 /\ Fresh.total = 0 /\ Fresh.item = 0
           /\ Fresh.id = pDta /\ Fresh.more = TRUE
BY Sizes DEF Fresh, Area, Areas

LEMMA SharesKept ==
    ASSUME NEW s \in Kept, NEW dir
    PROVE  /\ Shares(s, dir) \in Kept /\ Shares(s, dir).state = s.state
           /\ Shares(s, dir).dir = s.dir /\ Shares(s, dir).seen = s.seen
           /\ Shares(s, dir).own = (s.own /\ s.dir = dir) /\ Shares(s, dir).alone = FALSE
<1> DEFINE o == s.own /\ s.dir = dir
<1>1. /\ s.seen \in Seq(Entry) /\ s.dir \in Dirs \cup {0} /\ s.state \in States
      /\ s = [state |-> s.state, dir |-> s.dir, seen |-> s.seen, own |-> s.own, alone |-> s.alone]
  BY DEF Kept
<1>2. Shares(s, dir) = [[s EXCEPT !.own = o] EXCEPT !.alone = FALSE]
  BY DEF Shares
<1>3. o \in BOOLEAN /\ FALSE \in BOOLEAN
  OBVIOUS
<1> HIDE DEF o
<1>4. Shares(s, dir) = [state |-> s.state, dir |-> s.dir, seen |-> s.seen, own |-> o,
                        alone |-> FALSE]
  BY <1>1, <1>2
<1>5. Shares(s, dir) \in Kept /\ Shares(s, dir).own = o
  BY <1>1, <1>3, <1>4 DEF Kept
<1> QED
  BY <1>4, <1>5 DEF o

LEMMA BegunTypes ==
    ASSUME SearchTypes, NEW dir \in Dirs
    PROVE  /\ Replaced(dir) \in [Dtas -> Kept]
           /\ Begun(dir) \in Kept /\ Begun(dir).state = "live" /\ Begun(dir).dir = dir
           /\ Begun(dir).seen = <<>> /\ Begun(dir).own /\ Begun(dir).alone = (Copies = {})
<1>1. \A d \in Dtas : search[d] \in Kept
  BY DEF SearchTypes
<1>2. \A d \in Dtas : Shares(search[d], dir) \in Kept
  BY <1>1, SharesKept
<1>3. Replaced(dir) \in [Dtas -> Kept]
  BY <1>1, <1>2 DEF Replaced
<1>4. Search("live", dir, <<>>) \in Kept
  BY DEF Search, Kept, States
<1>5. (Copies = {}) \in BOOLEAN
  OBVIOUS
<1> QED
  BY <1>3, <1>4, <1>5 DEF Begun, Search, Kept

\* The types, in the form the lemmas use.
LEMMA TypesAre ==
    ASSUME FindTypes
    PROVE  SearchTypes /\ forUs \in BOOLEAN /\ calls \in 0 .. MaxCalls
<1>1. area \in [Dtas -> Areas] /\ search \in [Dtas -> Kept]
  BY DEF Areas, Kept, States, FindTypes, TypeOK
<1> QED
  BY <1>1 DEF FindTypes, TypeOK, SearchTypes, ListsOK

LEMMA TypesFollow ==
    ASSUME SearchTypes', forUs' \in BOOLEAN, calls' \in 0 .. MaxCalls
    PROVE  FindTypes'
<1>1. /\ area' \in [Dtas -> [id : Dtas \cup {NoDta}, item : Nat, cur : Nat,
                             total : 0 .. PerBlock, more : BOOLEAN]]
      /\ \A d \in Dtas : area'[d].cur <= area'[d].total
  BY DEF SearchTypes, Areas
<1>2. search' \in [Dtas -> [state : {"idle", "live", "ended", "elsewhere"},
                            dir : Dirs \cup {0}, seen : Seq(Entry),
                            own : BOOLEAN, alone : BOOLEAN]]
  BY DEF SearchTypes, Kept, States
<1> QED
  BY <1>1, <1>2 DEF FindTypes, TypeOK, SearchTypes, ListsOK

LEMMA FsfirstTypes ==
    ASSUME FindTypes, NEW dir \in Dirs, Fsfirst(dir) PROVE FindTypes'
<1>1. SearchTypes /\ forUs' \in BOOLEAN /\ calls' \in 0 .. MaxCalls
  BY TypesAre, CallTypes DEF Fsfirst
<1>2. ListsOK(Found(pDta, dir, storage))
  BY <1>1, FoundTypes DEF Fsfirst, SearchTypes
<1>3. Begun(dir) \in Kept
  BY <1>1, BegunTypes
<1>4. Replaced(dir) \in [Dtas -> Kept] /\ Idle \in Kept /\ Fresh \in Areas
  BY <1>1, BegunTypes, Constants0, FreshTypes DEF SearchTypes
<1>5. /\ Fetch(Fresh, Begun(dir), Idle, Replaced(dir), Found(pDta, dir, storage))
      /\ pDta' = pDta
  BY DEF Fsfirst
<1>6. SearchTypes'
  BY <1>1, <1>2, <1>3, <1>4, <1>5, FetchTypes
<1> QED
  BY <1>1, <1>6, TypesFollow

LEMMA FsfirstFailsTypes ==
    ASSUME FindTypes, NEW dir \in Dirs, FsfirstFails(dir) PROVE FindTypes'
<1>1. SearchTypes /\ forUs' \in BOOLEAN /\ calls' \in 0 .. MaxCalls
  BY TypesAre, CallTypes DEF FsfirstFails
<1>2. area' \in [Dtas -> Areas]
  BY <1>1, Constants0 DEF FsfirstFails, SearchTypes
<1>3. search' \in [Dtas -> Kept] /\ ListsOK(storage') /\ faults' \in 0 .. MaxFaults
  <2>1. PICK got \in Outcomes \ {"answered"} :
          /\ Faults(got, "answered")
          /\ \/ /\ dir > 0 /\ HasRoom(pDta, storage)
                /\ storage' = Found(pDta, dir, storage)
                /\ search' = [Replaced(dir) EXCEPT ![pDta] = Idle]
             \/ storage' = storage /\ search' = [search EXCEPT ![pDta] = Idle]
    BY DEF FsfirstFails
  <2>2. faults' \in 0 .. MaxFaults
    BY <1>1, <2>1, FaultsTypes DEF SearchTypes
  <2>3. search' \in [Dtas -> Kept]
    BY <1>1, <2>1, Constants0, BegunTypes DEF SearchTypes
  <2>4. ListsOK(storage')
    BY <1>1, <2>1, FoundTypes DEF SearchTypes
  <2> QED
    BY <2>2, <2>3, <2>4
<1>4. SearchTypes'
  BY <1>1, <1>2, <1>3 DEF FsfirstFails, SearchTypes
<1> QED
  BY <1>1, <1>4, TypesFollow

LEMMA FsfirstNoneTypes ==
    ASSUME FindTypes, NEW dir \in Dirs, FsfirstNone(dir) PROVE FindTypes'
<1>1. SearchTypes /\ forUs' \in BOOLEAN /\ calls' \in 0 .. MaxCalls
  BY TypesAre, CallTypes DEF FsfirstNone
<1>2. area' \in [Dtas -> Areas] /\ search' \in [Dtas -> Kept]
  BY <1>1, Constants0, FreshTypes DEF FsfirstNone, SearchTypes
<1>3. SearchTypes'
  BY <1>1, <1>2 DEF FsfirstNone, SearchTypes
<1> QED
  BY <1>1, <1>3, TypesFollow

LEMMA FsnextTypes == ASSUME FindTypes, Fsnext PROVE FindTypes'
<1> DEFINE s    == search[pDta]
           a    == area[pDta]
           over == Over(s)
<1>1. SearchTypes /\ forUs' \in BOOLEAN /\ calls' \in 0 .. MaxCalls
  BY TypesAre, CallTypes DEF Fsnext
<1>2. s \in Kept /\ a \in Areas
  BY <1>1 DEF SearchTypes
<1>3. over \in Kept
  BY <1>2, SearchKept
<1>4. pDta' = pDta /\ pDta \in Dtas
  BY <1>1 DEF Fsnext, SearchTypes
<1>5. \/ /\ InBuffer(a) /\ Gives(a, s, search, buffer[a.cur + 1])
         /\ UNCHANGED <<buffer, validFor, storage, faults>>
      \/ /\ \E last \in Outcomes : /\ Ends(a, over, search, last, storage)
                                   /\ Faults(last, "answered")
         /\ UNCHANGED <<buffer, validFor>>
      \/ Fetch(a, s, over, search, storage)
  BY DEF Fsnext, Over
<1> HIDE DEF s, a, over
<1>6. CASE InBuffer(a) /\ Gives(a, s, search, buffer[a.cur + 1])
           /\ UNCHANGED <<buffer, validFor, storage, faults>>
  <2>1. a.cur < a.total
    BY <1>6 DEF InBuffer
  <2>2. a.cur + 1 \in 1 .. PerBlock
    BY <1>2, <2>1, Sizes DEF Areas
  <2>3. buffer[a.cur + 1] \in Entry
    BY <1>1, <2>2 DEF SearchTypes
  <2>4. area' \in [Dtas -> Areas] /\ search' \in [Dtas -> Kept]
    BY <1>1, <1>2, <1>6, <2>1, <2>3, GivesTypes DEF SearchTypes
  <2> QED
    BY <1>1, <1>4, <1>6, <2>4, TypesFollow DEF SearchTypes
<1>7. ASSUME NEW last \in Outcomes, Ends(a, over, search, last, storage),
             Faults(last, "answered"), UNCHANGED <<buffer, validFor>>
      PROVE  FindTypes'
  <2>1. area' \in [Dtas -> Areas] /\ search' \in [Dtas -> Kept] /\ ListsOK(storage')
    BY <1>1, <1>2, <1>3, <1>7, EndsTypes DEF SearchTypes
  <2>2. faults' \in 0 .. MaxFaults
    BY <1>1, <1>7, FaultsTypes DEF SearchTypes
  <2> QED
    BY <1>1, <1>4, <1>7, <2>1, <2>2, TypesFollow DEF SearchTypes
<1>8. CASE Fetch(a, s, over, search, storage)
  <2>1. SearchTypes'
    BY <1>1, <1>2, <1>3, <1>4, <1>8, FetchTypes DEF SearchTypes
  <2> QED
    BY <1>1, <2>1, TypesFollow
<1> QED
  BY <1>5, <1>6, <1>7, <1>8

LEMMA FsnextNotOursTypes == ASSUME FindTypes, FsnextNotOurs PROVE FindTypes'
<1>1. SearchTypes /\ forUs' \in BOOLEAN /\ calls' \in 0 .. MaxCalls
  BY TypesAre, CallTypes DEF FsnextNotOurs
<1>2. /\ area[pDta] \in Areas /\ search[pDta] \in Kept /\ Idle \in Kept
      /\ search \in [Dtas -> Kept] /\ ListsOK(storage)
  BY <1>1, Constants0 DEF SearchTypes
<1>3. Fetch(area[pDta], search[pDta], Idle, search, storage) /\ pDta' = pDta
  BY DEF FsnextNotOurs
<1>4. SearchTypes'
  BY <1>1, <1>2, <1>3, FetchTypes
<1> QED
  BY <1>1, <1>4, TypesFollow

\* The search of a copy.
Moved(d, e) ==
    [search[d] EXCEPT !.own = search[d].own /\ (e = validFor => GoesOn(search[d], area[d]))]

LEMMA MovedKept ==
    ASSUME SearchTypes, NEW d \in Dtas, NEW e \in Dtas
    PROVE  /\ Moved(d, e) \in Kept /\ Moved(d, e).state = search[d].state
           /\ Moved(d, e).dir = search[d].dir /\ Moved(d, e).seen = search[d].seen
           /\ Moved(d, e).alone = search[d].alone
           /\ Moved(d, e).own => /\ search[d].own
                                 /\ (e = validFor => GoesOn(search[d], area[d]))
<1> DEFINE o == search[d].own /\ (e = validFor => GoesOn(search[d], area[d]))
<1>1. search[d] \in Kept /\ o \in BOOLEAN
  BY DEF SearchTypes
<1>2. Moved(d, e) = [search[d] EXCEPT !.own = o]
  BY DEF Moved
<1> HIDE DEF o
<1>3. /\ Moved(d, e) \in Kept /\ Moved(d, e).state = search[d].state
      /\ Moved(d, e).dir = search[d].dir /\ Moved(d, e).seen = search[d].seen
      /\ Moved(d, e).alone = search[d].alone /\ Moved(d, e).own = o
  BY <1>1, <1>2 DEF Kept
<1> QED
  BY <1>3 DEF o

LEMMA OtherTypes ==
    ASSUME FindTypes,
           \/ \E d, e \in Dtas : Move(d, e)
           \/ \E d \in Dtas : Fsetdta(d)
           \/ FsfirstElsewhere \/ FsnextElsewhere \/ RpiRestarts
    PROVE  FindTypes'
<1>1. SearchTypes /\ forUs \in BOOLEAN /\ calls \in 0 .. MaxCalls
  BY TypesAre
<1>2. ASSUME NEW d \in Dtas, NEW e \in Dtas, Move(d, e) PROVE FindTypes'
  <2>1. area' \in [Dtas -> Areas] /\ search' \in [Dtas -> Kept]
    <3>1. Moved(d, e) \in Kept
      BY <1>1, MovedKept
    <3>2. area' \in [Dtas -> Areas]
      BY <1>1, <1>2 DEF Move, SearchTypes
    <3> QED
      BY <1>1, <1>2, <3>1, <3>2, Constants0 DEF Move, Moved, SearchTypes
  <2>2. SearchTypes'
    BY <1>1, <1>2, <2>1 DEF Move, SearchTypes
  <2> QED
    BY <1>1, <1>2, <2>2, TypesFollow, CallTypes DEF Move
<1>3. ASSUME NEW d \in Dtas, Fsetdta(d) PROVE FindTypes'
  <2>1. SearchTypes'
    BY <1>1, <1>3 DEF Fsetdta, driver, SearchTypes
  <2> QED
    BY <1>1, <1>3, <2>1, TypesFollow DEF Fsetdta, driver
<1>4. CASE FsfirstElsewhere
  <2>1. area' \in [Dtas -> Areas] /\ search' \in [Dtas -> Kept]
    BY <1>1, <1>4, Constants0 DEF FsfirstElsewhere, SearchTypes
  <2>2. SearchTypes'
    BY <1>1, <1>4, <2>1 DEF FsfirstElsewhere, SearchTypes
  <2> QED
    BY <1>1, <1>4, <2>2, TypesFollow, CallTypes DEF FsfirstElsewhere
<1>5. CASE FsnextElsewhere
  <2>1. area' \in [Dtas -> Areas] /\ search' \in [Dtas -> Kept]
    BY <1>1, <1>5, Constants0 DEF FsnextElsewhere, SearchTypes
  <2>2. SearchTypes'
    BY <1>1, <1>5, <2>1 DEF FsnextElsewhere, SearchTypes
  <2> QED
    BY <1>1, <1>5, <2>2, TypesFollow, CallTypes DEF FsnextElsewhere
<1>6. CASE RpiRestarts
  <2>1. faults' \in 0 .. MaxFaults
    BY <1>1, <1>6, FaultsTypes DEF RpiRestarts, SearchTypes
  <2>2. SearchTypes'
    BY <1>1, <1>6, <2>1, Constants0 DEF RpiRestarts, driver, SearchTypes
  <2> QED
    BY <1>1, <1>6, <2>2, TypesFollow DEF RpiRestarts, driver
<1> QED
  BY <1>2, <1>3, <1>4, <1>5, <1>6

LEMMA NextFindTypes == ASSUME FindTypes, [Next]_vars PROVE FindTypes'
<1>1. CASE UNCHANGED vars
  BY <1>1 DEF vars, driver, FindTypes, TypeOK
<1> QED
  BY <1>1, FsfirstTypes, FsfirstNoneTypes, FsfirstFailsTypes, FsnextTypes,
     FsnextNotOursTypes, OtherTypes DEF Next

LEMMA InitFindTypes == ASSUME Init PROVE FindTypes
<1>1. SearchTypes
  BY Constants0, JunkTypes, Sizes DEF Init, SearchTypes
<1>2. area \in [Dtas -> [id : Dtas \cup {NoDta}, item : Nat, cur : Nat,
                         total : 0 .. PerBlock, more : BOOLEAN]]
      /\ \A d \in Dtas : area[d].cur <= area[d].total
  BY <1>1 DEF SearchTypes, Areas
<1>3. search \in [Dtas -> [state : {"idle", "live", "ended", "elsewhere"},
                           dir : Dirs \cup {0}, seen : Seq(Entry),
                           own : BOOLEAN, alone : BOOLEAN]]
  BY <1>1 DEF SearchTypes, Kept, States
<1>4. forUs \in BOOLEAN /\ calls \in 0 .. MaxCalls
  <2>1. calls \in 0 .. MaxCalls
    BY Sizes DEF Init
  <2>2. forUs \in BOOLEAN
    BY DEF Init
  <2> QED
    BY <2>1, <2>2
<1> QED
  BY <1>1, <1>2, <1>3, <1>4 DEF FindTypes, TypeOK, SearchTypes, ListsOK

LEMMA FindTypesHold == Spec => []FindTypes
<1>1. Init => FindTypes
  BY InitFindTypes
<1>2. FindTypes /\ [Next]_vars => FindTypes'
  BY NextFindTypes
<1> QED
  BY <1>1, <1>2, PTL DEF Spec

(* The types: the RPi keeps no more lists than it has storages, whatever   *)
(* is nested, left and lost, and an area never points behind its block.    *)
THEOREM FindTypeCorrect == Spec => []TypeOK
<1>1. FindTypes => TypeOK
  BY DEF FindTypes
<1> QED
  BY <1>1, FindTypesHold, PTL

(***************************************************************************)
(* The order of the entries                                                *)
(***************************************************************************)

Ours == {"live", "ended"}

Entries(dir, n) == [k \in 1 .. n |-> [dir |-> dir, nr |-> k]]

(* The place of a search: its area counts the entries given; if it goes on *)
(* in its own or shares its list with none, the list of its address, if    *)
(* the RPi still has it, is the one of its directory.                      *)
Place(s, a, lists) ==
    /\ a.item = Len(s.seen) /\ a.id \in Dtas
    /\ s.own => s.seen = Entries(s.dir, Len(s.seen))
    /\ s.own \/ s.alone => (a.id \in DOMAIN lists => lists[a.id] = s.dir)

(* The buffer goes on where the search is.                                 *)
Buffered(s, a, buf) ==
    \A k \in 1 .. PerBlock : a.cur < k /\ k <= a.total =>
        buf[k] = [dir |-> s.dir, nr |-> (a.item + k) - a.cur]

Good(s, a, valid, buf, lists) ==
    /\ s.state \in Ours => Place(s, a, lists) /\ (valid /\ s.own => Buffered(s, a, buf))
    /\ s.state = "elsewhere" => a.id = NoDta
    /\ s.state \notin Ours => s.seen = <<>>

FindInv == \A d \in Dtas : Good(search[d], area[d], validFor = d, buffer, storage)

Within(fewer, lists) ==
    DOMAIN fewer \subseteq DOMAIN lists /\ \A id \in DOMAIN fewer : fewer[id] = lists[id]

LEMMA ListsWithin ==
    ASSUME NEW a, NEW item, NEW lists
    PROVE  /\ Within(lists, lists) /\ Within(<<>>, lists)
           /\ Within(Cleared(a, lists), lists)
           /\ Within(AfterFsnext(a, item, lists), lists)
<1>1. Within(lists, lists) /\ Within(Cleared(a, lists), lists)
  BY DEF Within, Cleared
<1>2. Within(<<>>, lists)
  BY DEF Within
<1> QED
  BY <1>1, <1>2 DEF AfterFsnext

LEMMA DoneWithin ==
    ASSUME NEW a, NEW outcome, NEW kept, NEW lists, Within(kept, lists)
    PROVE  Within(Done(a, outcome, kept), lists)
<1>1. Within(Done(a, outcome, kept), kept)
  BY ListsWithin DEF Done
<1>2. ASSUME NEW f, Within(f, kept) PROVE Within(f, lists)
  BY <1>2 DEF Within
<1> QED
  BY <1>1, <1>2

LEMMA GoodWithin ==
    ASSUME NEW s, NEW a, NEW v \in BOOLEAN, NEW w \in BOOLEAN, NEW buf, NEW lists,
           NEW fewer, Within(fewer, lists), w => v, Good(s, a, v, buf, lists)
    PROVE  Good(s, a, w, buf, fewer)
BY DEF Good, Place, Within

LEMMA Shift ==
    ASSUME NEW i \in Nat, NEW k \in Nat, NEW c \in Nat
    PROVE  ((i + 1) + k) - (c + 1) = (i + k) - c
OBVIOUS

\* The next entry, for a search whose place is known.
LEMMA NextEntry ==
    ASSUME NEW s \in Kept, NEW a \in Areas, a.cur < a.total, NEW lists, NEW buf,
           NEW entry \in Entry, Place(s, a, lists),
           s.own => Buffered(s, a, buf) /\ entry = [dir |-> s.dir, nr |-> a.item + 1],
           NEW t, t = More(s, entry)
    PROVE  Good(t, Given(a), TRUE, buf, lists)
<1>1. /\ t.state = "live" /\ t.dir = s.dir /\ t.seen = Append(s.seen, entry)
      /\ t.own = s.own /\ t.alone = s.alone
  BY SearchKept
<1>2. /\ Given(a).cur = a.cur + 1 /\ Given(a).item = a.item + 1
      /\ Given(a).id = a.id /\ Given(a).total = a.total
  BY GivenTypes
<1>3. s.seen \in Seq(Entry) /\ a.item \in Nat /\ a.cur \in Nat /\ Len(s.seen) \in Nat
  BY DEF Kept, Areas
<1>4. Len(t.seen) = Len(s.seen) + 1
  BY <1>1, <1>3
<1>5. ASSUME s.own PROVE t.seen = Entries(s.dir, Len(s.seen) + 1)
  <2>1. s.seen = Entries(s.dir, Len(s.seen)) /\ a.item = Len(s.seen)
    BY <1>5 DEF Place
  <2>2. \A k \in 1 .. Len(s.seen) : s.seen[k] = [dir |-> s.dir, nr |-> k]
    BY <1>3, <2>1 DEF Entries
  <2>3. \A k \in 1 .. Len(s.seen) + 1 : t.seen[k] = [dir |-> s.dir, nr |-> k]
    BY <1>1, <1>3, <1>5, <2>1, <2>2
  <2>4. t.seen = [k \in 1 .. Len(s.seen) + 1 |-> t.seen[k]]
    BY <1>1, <1>3
  <2> QED
    BY <2>3, <2>4 DEF Entries
<1>6. Place(t, Given(a), lists)
  BY <1>1, <1>2, <1>4, <1>5 DEF Place
<1>7. ASSUME s.own PROVE Buffered(t, Given(a), buf)
  <2> SUFFICES ASSUME NEW k \in 1 .. PerBlock, a.cur + 1 < k, k <= a.total
               PROVE  buf[k] = [dir |-> s.dir, nr |-> ((a.item + 1) + k) - (a.cur + 1)]
    BY <1>1, <1>2 DEF Buffered
  <2>1. k \in Nat /\ a.cur < k
    BY <1>3, Sizes
  <2>2. buf[k] = [dir |-> s.dir, nr |-> (a.item + k) - a.cur]
    BY <1>7, <2>1 DEF Buffered
  <2>3. ((a.item + 1) + k) - (a.cur + 1) = (a.item + k) - a.cur
    BY <1>3, <2>1, Shift
  <2> QED
    BY <2>2, <2>3
<1> QED
  BY <1>1, <1>6, <1>7 DEF Good, Ours

LEMMA FetchGood ==
    ASSUME SearchTypes, NEW a \in Areas, NEW s \in Kept, NEW over \in Kept,
           NEW all \in [Dtas -> Kept], NEW lists, ListsOK(lists),
           Fetch(a, s, over, all, lists),
           \A d \in Dtas \ {pDta} : Good(all[d], area[d], FALSE, buffer, lists),
           HasMore(a.id, a.item, lists) => Place(s, a, lists),
           over = Idle \/ (over = Over(s) /\ Place(s, a, lists))
    PROVE  FindInv'
<1> DEFINE block == Block(a.id, a.item, lists)
<1>1. validFor' = pDta /\ pDta \in Dtas
  BY FetchCases DEF SearchTypes
<1>2. CASE GetsBlock(a, s, all, lists)
  <2>1. HasMore(a.id, a.item, lists) /\ a.item \in Nat
    BY <1>2 DEF GetsBlock, Areas
  <2>2. /\ Len(block) \in 1 .. PerBlock
        /\ \A k \in 1 .. Len(block) : block[k] = [dir |-> lists[a.id], nr |-> a.item + k]
    BY <2>1, BlockTypes
  <2>3. Place(s, a, lists) /\ (s.own => lists[a.id] = s.dir)
    BY <2>1 DEF HasMore, Place
  <2>4. ASSUME s.own
        PROVE  \A k \in 1 .. PerBlock : k <= Len(block) =>
                   buffer'[k] = [dir |-> s.dir, nr |-> a.item + k]
    <3>1. \A k \in 1 .. PerBlock : k <= Len(block) => buffer'[k] = block[k]
      BY <1>2 DEF GetsBlock
    <3>2. \A k \in 1 .. PerBlock : k <= Len(block) => k \in 1 .. Len(block)
      BY <2>2, Sizes
    <3> QED
      BY <2>2, <2>3, <2>4, <3>1, <3>2
  <2>5. Len(block) \in 0 .. PerBlock /\ 0 < Len(block) /\ 1 \in 1 .. Len(block)
    BY <2>2, Sizes
  <2>6. /\ s.own => block[1] = [dir |-> s.dir, nr |-> a.item + 1]
        /\ block[1] \in Entry
    <3>1. block[1] \in Entry
      BY <2>1, <2>5, BlockTypes
    <3> QED
      BY <2>2, <2>3, <2>5, <3>1
  <2>7. Gives(Fetched(a, Len(block)), s, all, block[1]) /\ storage' = lists
    BY <1>2 DEF GetsBlock
  <2> DEFINE f == Fetched(a, Len(block))
  <2> HIDE DEF block
  <2>8. /\ f \in Areas /\ f.cur = 0 /\ f.total = Len(block) /\ f.item = a.item
        /\ f.id = a.id
    BY <2>5, UnfetchedTypes
  <2>9. Place(s, f, lists)
    BY <2>3, <2>8 DEF Place
  <2>10. ASSUME s.own PROVE Buffered(s, f, buffer')
    <3> SUFFICES ASSUME NEW k \in 1 .. PerBlock, k <= Len(block)
                 PROVE  buffer'[k] = [dir |-> s.dir, nr |-> (a.item + k) - 0]
      BY <2>8 DEF Buffered
    <3>1. (a.item + k) - 0 = a.item + k
      BY <2>1, Sizes
    <3> QED
      BY <2>4, <2>10, <3>1
  <2> DEFINE t == More(s, block[1])
  <2>11. Good(t, Given(f), TRUE, buffer', lists)
    <3>1. /\ f.cur < f.total /\ block[1] \in Entry
          /\ s.own => block[1] = [dir |-> s.dir, nr |-> f.item + 1]
      BY <2>5, <2>6, <2>8
    <3> QED
      BY <2>8, <2>9, <2>10, <3>1, NextEntry
  <2>12. /\ area' = [area EXCEPT ![pDta] = Given(f)]
         /\ search' = [all EXCEPT ![pDta] = t]
    BY <2>7 DEF Gives, More
  <2> HIDE DEF f, t
  <2>13. /\ area'[pDta] = Given(f) /\ search'[pDta] = t
         /\ \A d \in Dtas \ {pDta} : area'[d] = area[d] /\ search'[d] = all[d]
    BY <1>1, <2>12 DEF SearchTypes
  <2>14. ASSUME NEW d \in Dtas
         PROVE  Good(search'[d], area'[d], validFor' = d, buffer', storage')
    <3>1. CASE d = pDta
      BY <1>1, <2>7, <2>11, <2>13, <3>1
    <3>2. CASE d # pDta
      <4>1. Good(all[d], area[d], FALSE, buffer', lists)
        BY <3>2 DEF Good
      <4> QED
        BY <1>1, <2>7, <2>13, <3>2, <4>1
    <3> QED
      BY <3>1, <3>2
  <2> QED
    BY <2>14 DEF FindInv
<1>3. ASSUME NEW got \in Outcomes, NEW last \in Outcomes,
             GetsEnd(a, over, all, lists, got, last)
      PROVE  FindInv'
  <2> DEFINE kept == IF got = "lost" THEN lists ELSE AfterFsnext(a.id, a.item, lists)
             u    == Unfetched(a)
             e    == [u EXCEPT !.more = FALSE]
  <2>1. /\ area' = [area EXCEPT ![pDta] = e]
        /\ search' = [all EXCEPT ![pDta] = over]
        /\ storage' = Done(u, last, kept)
    BY <1>3 DEF GetsEnd, Ends
  <2>2. Within(storage', lists)
    BY <2>1, ListsWithin, DoneWithin
  <2>3. u \in Areas /\ u.cur = 0 /\ u.total = 0 /\ u.item = a.item /\ u.id = a.id
    BY UnfetchedTypes, Sizes
  <2> HIDE DEF u
  <2>4. e.cur = 0 /\ e.total = 0 /\ e.item = a.item /\ e.id = a.id
    BY <2>3 DEF Areas
  <2> HIDE DEF e, kept
  <2>5. /\ area'[pDta] = e /\ search'[pDta] = over
        /\ \A d \in Dtas \ {pDta} : area'[d] = area[d] /\ search'[d] = all[d]
    BY <1>1, <2>1 DEF SearchTypes
  <2>6. Good(over, e, TRUE, buffer', storage')
    <3>1. CASE over = Idle
      BY <3>1 DEF Idle, Search, Good, Ours
    <3>2. CASE over = Over(s) /\ Place(s, a, lists)
      <4>1. /\ over.state = "ended" /\ over.dir = s.dir /\ over.seen = s.seen
            /\ over.own = s.own /\ over.alone = s.alone
        BY <3>2, SearchKept
      <4>2. Place(over, e, storage')
        BY <2>2, <2>4, <3>2, <4>1 DEF Place, Within
      <4>3. Buffered(over, e, buffer')
        BY <2>4, Sizes DEF Buffered
      <4> QED
        BY <4>1, <4>2, <4>3 DEF Good, Ours
    <3> QED
      BY <3>1, <3>2
  <2>7. ASSUME NEW d \in Dtas
        PROVE  Good(search'[d], area'[d], validFor' = d, buffer', storage')
    <3>1. CASE d = pDta
      BY <1>1, <2>5, <2>6, <3>1
    <3>2. CASE d # pDta
      <4>1. Good(all[d], area[d], FALSE, buffer', lists)
        BY <3>2 DEF Good
      <4>2. Good(all[d], area[d], FALSE, buffer', storage')
        BY <2>2, <4>1, GoodWithin
      <4> QED
        BY <1>1, <2>5, <3>2, <4>2
    <3> QED
      BY <3>1, <3>2
  <2> QED
    BY <2>7 DEF FindInv
<1> QED
  BY <1>2, <1>3, FetchCases

\* Another search, or none, in the place of the one of a DTA.
LEMMA IdleGood ==
    ASSUME NEW a, NEW v, NEW buf, NEW lists
    PROVE  Good(Idle, a, v, buf, lists)
BY DEF Idle, Search, Good, Ours

\* The list of a new search: of its copies, those of the same directory go on.
LEMMA FoundGood ==
    ASSUME SearchTypes, FindInv, NEW dir \in Dirs, NEW d \in Dtas \ {pDta}
    PROVE  Good(Replaced(dir)[d], area[d], validFor = d, buffer, Found(pDta, dir, storage))
<1>1. Good(search[d], area[d], validFor = d, buffer, storage) /\ search[d] \in Kept
  BY DEF FindInv, SearchTypes
<1>2. CASE d \in Copies
  <2> DEFINE t == Shares(search[d], dir)
  <2>1. Replaced(dir)[d] = t
    BY <1>2 DEF Replaced
  <2>2. /\ t.state = search[d].state /\ t.dir = search[d].dir /\ t.seen = search[d].seen
        /\ t.own = (search[d].own /\ search[d].dir = dir) /\ t.alone = FALSE
    BY <1>1, SharesKept
  <2> HIDE DEF t
  <2>3. search[d].state \in Ours /\ area[d].id = pDta
    BY <1>2 DEF Copies, Ours
  <2>4. Found(pDta, dir, storage)[pDta] = dir
    BY DEF Found
  <2>5. Place(t, area[d], Found(pDta, dir, storage))
    BY <1>1, <2>2, <2>3, <2>4 DEF Good, Place
  <2>6. validFor = d /\ t.own => Buffered(t, area[d], buffer)
    BY <1>1, <2>2, <2>3 DEF Good, Buffered
  <2> QED
    BY <2>1, <2>2, <2>3, <2>5, <2>6 DEF Good, Ours
<1>3. CASE d \notin Copies
  <2>1. Replaced(dir)[d] = search[d]
    BY <1>3 DEF Replaced
  <2>2. search[d].state \in Ours => area[d].id # pDta
    BY <1>3 DEF Copies, Ours
  <2>3. area[d].id # pDta =>
            (area[d].id \in DOMAIN Found(pDta, dir, storage) =>
                /\ area[d].id \in DOMAIN storage
                /\ Found(pDta, dir, storage)[area[d].id] = storage[area[d].id])
    BY DEF Found
  <2> QED
    BY <1>1, <2>1, <2>2, <2>3 DEF Good, Place
<1> QED
  BY <1>2, <1>3

LEMMA FsfirstGood ==
    ASSUME FindTypes, FindInv, NEW dir \in Dirs, Fsfirst(dir) PROVE FindInv'
<1> DEFINE s     == Begun(dir)
           lists == Found(pDta, dir, storage)
<1>1. SearchTypes
  BY TypesAre
<1>2. ListsOK(lists) /\ Replaced(dir) \in [Dtas -> Kept] /\ Idle \in Kept /\ s \in Kept
  BY <1>1, FoundTypes, BegunTypes, Constants0 DEF Fsfirst, SearchTypes
<1>3. Fresh \in Areas /\ Fresh.item = 0 /\ Fresh.id = pDta /\ pDta \in Dtas
  BY <1>1, FreshTypes DEF SearchTypes
<1>4. Place(s, Fresh, lists)
  <2>1. s.seen = <<>> /\ s.dir = dir
    BY <1>1, BegunTypes
  <2>2. <<>> = Entries(dir, 0) /\ Len(<<>>) = 0
    BY DEF Entries
  <2>3. lists[pDta] = dir
    BY DEF Found
  <2> QED
    BY <1>3, <2>1, <2>2, <2>3 DEF Place
<1>5. \A d \in Dtas \ {pDta} : Good(Replaced(dir)[d], area[d], FALSE, buffer, lists)
  BY <1>1, FoundGood DEF Good
<1>6. Fetch(Fresh, s, Idle, Replaced(dir), lists)
  BY DEF Fsfirst
<1> HIDE DEF s, lists
<1> QED
  BY <1>1, <1>2, <1>3, <1>4, <1>5, <1>6, FetchGood

LEMMA FsfirstFailsGood ==
    ASSUME FindTypes, FindInv, NEW dir \in Dirs, FsfirstFails(dir) PROVE FindInv'
<1>1. SearchTypes /\ pDta \in Dtas /\ Replaced(dir) \in [Dtas -> Kept]
  BY TypesAre, BegunTypes DEF SearchTypes
<1>2. /\ area' = [area EXCEPT ![pDta] = Unknown] /\ validFor' = validFor
      /\ buffer' = buffer
      /\ \/ /\ storage' = Found(pDta, dir, storage)
            /\ search' = [Replaced(dir) EXCEPT ![pDta] = Idle]
         \/ storage' = storage /\ search' = [search EXCEPT ![pDta] = Idle]
  BY DEF FsfirstFails
<1> SUFFICES ASSUME NEW d \in Dtas
             PROVE  Good(search'[d], area'[d], validFor' = d, buffer', storage')
  BY DEF FindInv
<1>3. CASE d = pDta
  <2>1. search'[d] = Idle
    BY <1>1, <1>2, <1>3 DEF SearchTypes
  <2> QED
    BY <2>1, IdleGood
<1>4. CASE d # pDta
  <2>1. /\ area'[d] = area[d]
        /\ \/ storage' = Found(pDta, dir, storage) /\ search'[d] = Replaced(dir)[d]
           \/ storage' = storage /\ search'[d] = search[d]
    BY <1>1, <1>2, <1>4 DEF SearchTypes
  <2>2. /\ Good(Replaced(dir)[d], area[d], validFor = d, buffer, Found(pDta, dir, storage))
        /\ Good(search[d], area[d], validFor = d, buffer, storage)
    BY <1>1, <1>4, FoundGood DEF FindInv
  <2> QED
    BY <1>2, <2>1, <2>2
<1> QED
  BY <1>3, <1>4

LEMMA FsfirstNoneGood ==
    ASSUME FindTypes, FindInv, NEW dir \in Dirs, FsfirstNone(dir) PROVE FindInv'
<1>1. SearchTypes /\ pDta \in Dtas
  BY TypesAre DEF SearchTypes
<1>2. /\ area' = [area EXCEPT ![pDta] = Fresh] /\ validFor' = validFor
      /\ search' = [search EXCEPT ![pDta] = Idle] /\ buffer' = buffer /\ storage' = storage
  BY DEF FsfirstNone
<1> SUFFICES ASSUME NEW d \in Dtas
             PROVE  Good(search'[d], area'[d], validFor' = d, buffer', storage')
  BY DEF FindInv
<1>3. CASE d = pDta
  BY <1>1, <1>2, <1>3, IdleGood DEF SearchTypes
<1>4. CASE d # pDta
  BY <1>1, <1>2, <1>4 DEF SearchTypes, FindInv
<1> QED
  BY <1>3, <1>4

LEMMA FsnextGood == ASSUME FindTypes, FindInv, Fsnext PROVE FindInv'
<1> DEFINE s    == search[pDta]
           a    == area[pDta]
           over == Over(s)
<1>1. SearchTypes /\ pDta \in Dtas
  BY TypesAre DEF SearchTypes
<1>2. s \in Kept /\ a \in Areas /\ s.state \in Ours
  BY <1>1 DEF Fsnext, SearchTypes, Ours
<1>3. over \in Kept
  BY <1>2, SearchKept
<1>4. Place(s, a, storage) /\ (validFor = pDta /\ s.own => Buffered(s, a, buffer))
  BY <1>1, <1>2 DEF FindInv, Good
<1>5. \/ /\ InBuffer(a) /\ Gives(a, s, search, buffer[a.cur + 1])
         /\ UNCHANGED <<buffer, validFor, storage, faults>>
      \/ /\ \E last \in Outcomes : Ends(a, over, search, last, storage)
         /\ ~InBuffer(a) /\ validFor = pDta
         /\ UNCHANGED <<buffer, validFor>>
      \/ Fetch(a, s, over, search, storage)
  BY DEF Fsnext, Over
<1> DEFINE t == More(s, buffer[a.cur + 1])
           e == [a EXCEPT !.more = FALSE]
<1>6. /\ Gives(a, s, search, buffer[a.cur + 1]) =>
            area' = [area EXCEPT ![pDta] = Given(a)] /\ search' = [search EXCEPT ![pDta] = t]
      /\ \A last : Ends(a, over, search, last, storage) =>
            /\ area' = [area EXCEPT ![pDta] = e]
            /\ search' = [search EXCEPT ![pDta] = over]
            /\ storage' = Done(a, last, storage)
  BY DEF Gives, Ends, More
<1>7. /\ e.cur = a.cur /\ e.total = a.total /\ e.item = a.item /\ e.id = a.id
      /\ over.state = "ended" /\ over.dir = s.dir /\ over.seen = s.seen
      /\ over.own = s.own /\ over.alone = s.alone
  BY <1>2, SearchKept DEF Areas
<1>8. t = More(s, buffer[a.cur + 1])
  OBVIOUS
<1>9. over = Over(s)
  OBVIOUS
<1> HIDE DEF over, t, e
<1>10. CASE InBuffer(a) /\ Gives(a, s, search, buffer[a.cur + 1])
            /\ UNCHANGED <<buffer, validFor, storage, faults>>
  <2>1. validFor = pDta /\ a.cur < a.total
    BY <1>10 DEF InBuffer
  <2>2. /\ a.cur + 1 \in 1 .. PerBlock /\ a.cur < a.cur + 1 /\ a.cur + 1 <= a.total
        /\ (a.item + (a.cur + 1)) - a.cur = a.item + 1
    BY <1>2, <2>1, Sizes DEF Areas
  <2>3. s.own => Buffered(s, a, buffer) /\ buffer[a.cur + 1] = [dir |-> s.dir, nr |-> a.item + 1]
    BY <1>4, <2>1, <2>2 DEF Buffered
  <2>4. buffer[a.cur + 1] \in Entry
    BY <1>1, <2>2 DEF SearchTypes
  <2>5. Good(t, Given(a), TRUE, buffer, storage)
    BY <1>2, <1>4, <1>8, <2>1, <2>3, <2>4, NextEntry
  <2> SUFFICES ASSUME NEW d \in Dtas
               PROVE  Good(search'[d], area'[d], validFor' = d, buffer', storage')
    BY DEF FindInv
  <2>6. CASE d = pDta
    <3>1. search'[d] = t /\ area'[d] = Given(a)
      BY <1>1, <1>6, <1>10, <2>6 DEF SearchTypes
    <3> QED
      BY <1>10, <2>1, <2>5, <2>6, <3>1
  <2>7. CASE d # pDta
    BY <1>1, <1>6, <1>10, <2>7 DEF SearchTypes, FindInv
  <2> QED
    BY <2>6, <2>7
<1>11. ASSUME NEW last \in Outcomes, Ends(a, over, search, last, storage),
              ~InBuffer(a), validFor = pDta, UNCHANGED <<buffer, validFor>>
       PROVE  FindInv'
  <2>1. Within(storage', storage)
    BY <1>6, <1>11, ListsWithin, DoneWithin
  <2> SUFFICES ASSUME NEW d \in Dtas
               PROVE  Good(search'[d], area'[d], validFor' = d, buffer', storage')
    BY DEF FindInv
  <2>2. Good(search[d], area[d], validFor = d, buffer, storage')
    BY <2>1, GoodWithin DEF FindInv
  <2>3. CASE d = pDta
    <3>1. search'[d] = over /\ area'[d] = e
      BY <1>1, <1>6, <1>11, <2>3 DEF SearchTypes
    <3>2. Place(s, a, storage') /\ (s.own => Buffered(s, a, buffer))
      BY <1>2, <1>11, <2>2, <2>3 DEF Good
    <3>3. Place(over, e, storage') /\ (over.own => Buffered(over, e, buffer))
      BY <1>7, <3>2 DEF Place, Buffered
    <3> QED
      BY <1>7, <1>11, <3>1, <3>3 DEF Good, Ours
  <2>4. CASE d # pDta
    BY <1>1, <1>6, <1>11, <2>2, <2>4 DEF SearchTypes
  <2> QED
    BY <2>3, <2>4
<1>12. CASE Fetch(a, s, over, search, storage)
  <2>1. \A d \in Dtas \ {pDta} : Good(search[d], area[d], FALSE, buffer, storage)
    BY DEF FindInv, Good
  <2>2. search \in [Dtas -> Kept] /\ ListsOK(storage)
    BY <1>1 DEF SearchTypes
  <2> QED
    BY <1>1, <1>2, <1>3, <1>4, <1>9, <1>12, <2>1, <2>2, FetchGood
<1> QED
  BY <1>5, <1>10, <1>11, <1>12

LEMMA FsnextNotOursGood == ASSUME FindTypes, FindInv, FsnextNotOurs PROVE FindInv'
<1>1. SearchTypes /\ pDta \in Dtas
  BY TypesAre DEF SearchTypes
<1>2. /\ area[pDta] \in Areas /\ search[pDta] \in Kept /\ Idle \in Kept
      /\ search \in [Dtas -> Kept] /\ ListsOK(storage)
  BY <1>1, Constants0 DEF SearchTypes
<1>3. ~HasMore(area[pDta].id, area[pDta].item, storage)
  <2>1. area[pDta].id = NoDta
    BY <1>1 DEF FsnextNotOurs, FindInv, Good
  <2> QED
    BY <1>2, <2>1, Sizes DEF HasMore, ListsOK
<1>4. \A d \in Dtas \ {pDta} : Good(search[d], area[d], FALSE, buffer, storage)
  BY DEF FindInv, Good
<1>5. Fetch(area[pDta], search[pDta], Idle, search, storage)
  BY DEF FsnextNotOurs
<1> QED
  BY <1>1, <1>2, <1>3, <1>4, <1>5, FetchGood

LEMMA OtherGood ==
    ASSUME FindTypes, FindInv,
           \/ \E d, e \in Dtas : Move(d, e)
           \/ \E d \in Dtas : Fsetdta(d)
           \/ FsfirstElsewhere \/ FsnextElsewhere \/ RpiRestarts
    PROVE  FindInv'
<1>1. SearchTypes /\ pDta \in Dtas
  BY TypesAre DEF SearchTypes
<1>2. ASSUME NEW d \in Dtas, NEW e \in Dtas, Move(d, e) PROVE FindInv'
  <2> SUFFICES ASSUME NEW f \in Dtas
               PROVE  Good(search'[f], area'[f], validFor = f, buffer, storage)
    BY <1>2 DEF Move, FindInv
  <2>1. /\ area'[f] = IF f = e THEN area[d] ELSE area[f]
        /\ search'[f] = IF f = d THEN Idle
                        ELSE IF f = e THEN Moved(d, e) ELSE search[f]
    BY <1>1, <1>2 DEF Move, Moved, SearchTypes
  <2>2. Good(search[f], area[f], validFor = f, buffer, storage)
    BY DEF FindInv
  <2>3. Good(Moved(d, e), area[d], validFor = e, buffer, storage)
    <3>1. /\ Moved(d, e).state = search[d].state /\ Moved(d, e).dir = search[d].dir
          /\ Moved(d, e).seen = search[d].seen /\ Moved(d, e).alone = search[d].alone
          /\ Moved(d, e).own => /\ search[d].own
                                /\ (e = validFor => GoesOn(search[d], area[d]))
      BY <1>1, MovedKept
    <3>2. Good(search[d], area[d], validFor = d, buffer, storage)
      BY DEF FindInv
    <3>3. e = validFor /\ Moved(d, e).own => Buffered(Moved(d, e), area[d], buffer)
      BY <3>1 DEF GoesOn, Buffered
    <3> QED
      BY <3>1, <3>2, <3>3 DEF Good, Place
  <2>4. CASE search'[f] = Idle
    BY <2>4, IdleGood
  <2>5. CASE f # d /\ f = e
    BY <2>1, <2>3, <2>5
  <2>6. CASE f # d /\ f # e
    BY <2>1, <2>2, <2>6
  <2> QED
    BY <2>1, <2>4, <2>5, <2>6
<1>3. ASSUME NEW d \in Dtas, Fsetdta(d) PROVE FindInv'
  BY <1>3 DEF Fsetdta, driver, FindInv
<1>4. CASE FsfirstElsewhere \/ FsnextElsewhere
  <2>1. Good(Search("elsewhere", 0, <<>>), Unknown, validFor = pDta, buffer, storage)
    BY DEF Search, Unknown, Area, Good, Ours
  <2>2. /\ area' = [area EXCEPT ![pDta] = Unknown]
        /\ \/ search' = [search EXCEPT ![pDta] = Idle]
           \/ search' = [search EXCEPT ![pDta] = Search("elsewhere", 0, <<>>)]
        /\ UNCHANGED <<buffer, validFor, storage>>
    BY <1>4 DEF FsfirstElsewhere, FsnextElsewhere
  <2> SUFFICES ASSUME NEW f \in Dtas
               PROVE  Good(search'[f], area'[f], validFor = f, buffer, storage)
    BY <2>2 DEF FindInv
  <2>3. CASE f = pDta
    BY <1>1, <2>1, <2>2, <2>3, IdleGood DEF SearchTypes
  <2>4. CASE f # pDta
    BY <1>1, <2>2, <2>4 DEF SearchTypes, FindInv
  <2> QED
    BY <2>3, <2>4
<1>5. CASE RpiRestarts
  <2> SUFFICES ASSUME NEW f \in Dtas
               PROVE  Good(search[f], area[f], validFor = f, buffer, <<>>)
    BY <1>5 DEF RpiRestarts, driver, FindInv
  <2> QED
    BY ListsWithin, GoodWithin DEF FindInv
<1> QED
  BY <1>2, <1>3, <1>4, <1>5

LEMMA NextFindInv == ASSUME FindTypes, FindInv, [Next]_vars PROVE FindInv'
<1>1. CASE UNCHANGED vars
  BY <1>1 DEF vars, driver, FindInv
<1> QED
  BY <1>1, FsfirstGood, FsfirstNoneGood, FsfirstFailsGood, FsnextGood,
     FsnextNotOursGood, OtherGood DEF Next

LEMMA InitFindInv == ASSUME Init PROVE FindInv
BY IdleGood DEF Init, FindInv

LEMMA FindInvHolds == Spec => [](FindTypes /\ FindInv)
<1>1. Init => FindTypes /\ FindInv
  BY InitFindTypes, InitFindInv
<1>2. FindTypes /\ FindInv /\ [Next]_vars => (FindTypes /\ FindInv)'
  BY NextFindTypes, NextFindInv
<1> QED
  BY <1>1, <1>2, PTL DEF Spec

(* A program gets the entries of its own directory, in their order, none   *)
(* twice and none passed over, however searches are nested and left and    *)
(* whatever commands fail: the one buffer, the area of its DTA and the     *)
(* list on the RPi agree.  Copies are among them, but for those which the  *)
(* buffer of another search or a new list of their address has caught.     *)
THEOREM InOrderHolds == Spec => []InOrder
<1>1. FindInv => InOrder
  <2> SUFFICES ASSUME FindInv, NEW d \in Dtas, search[d].own
               PROVE  search[d].seen = Entries(search[d].dir, Len(search[d].seen))
    BY DEF InOrder, Entries
  <2>1. CASE search[d].state \in Ours
    BY <2>1 DEF FindInv, Good, Place
  <2>2. CASE search[d].state \notin Ours
    <3>1. search[d].seen = <<>>
      BY <2>2 DEF FindInv, Good
    <3> QED
      BY <3>1 DEF Entries
  <2> QED
    BY <2>1, <2>2
<1> QED
  BY <1>1, FindInvHolds, PTL

(***************************************************************************)
(* The end of a search                                                     *)
(***************************************************************************)

(* For a search that shares its list with none: up to one fault, the list  *)
(* of an ended one is gone and a live one fetches more; without a fault,   *)
(* the list of a live one is there, and neither the entries given nor      *)
(* those of the block go beyond it.                                        *)
Closing(s, a, lists, f) ==
    /\ s.state = "ended" => a.cur = a.total
    /\ s.alone /\ f <= 1 => /\ s.state = "ended" => a.id \notin DOMAIN lists
                            /\ s.state = "live" => a.more
    /\ s.alone /\ f = 0 =>
          /\ s.state = "ended" => Len(s.seen) = s.dir
          /\ s.state = "live" => /\ a.id \in DOMAIN lists /\ a.item <= s.dir
                                 /\ a.item + (a.total - a.cur) <= s.dir

(* A search that shares its list with none has an address of its own.      *)
Apart(all, areas) ==
    \A d, e \in Dtas :
        d # e /\ all[d].state \in Ours /\ all[e].state \in Ours /\ all[d].alone =>
            areas[d].id # areas[e].id

(* The searches all beside the DTA that is set: they are apart from each   *)
(* other and from one with the address id, and closing with the lists.     *)
Aside(all) ==
    \A d, e \in Dtas \ {pDta} :
        d # e /\ all[d].state \in Ours /\ all[e].state \in Ours /\ all[d].alone =>
            area[d].id # area[e].id
ApartFrom(all, id, alone) ==
    /\ \A d \in Dtas \ {pDta} :
          all[d].state \in Ours /\ (all[d].alone \/ alone) => area[d].id # id
    /\ Aside(all)
OthersClosing(all, lists) ==
    \A d \in Dtas \ {pDta} : Closing(all[d], area[d], lists, faults)

AllClosing == \A d \in Dtas : Closing(search[d], area[d], storage, faults)
EndInv     == AllClosing /\ Apart(search, area)

LEMMA IdleClosing ==
    ASSUME NEW a, NEW lists, NEW f
    PROVE  /\ Closing(Idle, a, lists, f) /\ Idle.state \notin Ours
           /\ Closing(Search("elsewhere", 0, <<>>), a, lists, f)
           /\ Search("elsewhere", 0, <<>>).state \notin Ours
BY DEF Closing, Idle, Search, Ours

LEMMA ClosingKept ==
    ASSUME NEW s, NEW a, NEW lists, NEW changed, NEW f \in Nat, NEW g \in Nat, f <= g,
           Closing(s, a, lists, f),
           s.state \in Ours /\ s.alone => (a.id \in DOMAIN changed <=> a.id \in DOMAIN lists)
    PROVE  Closing(s, a, changed, g)
<1>1. (g <= 1 => f <= 1) /\ (g = 0 => f = 0)
  OBVIOUS
<1> QED
  BY <1>1 DEF Closing, Ours

\* Ends() and onFsnext() release no other list than the one of the search.
LEMMA OnlyItsList ==
    ASSUME NEW a, NEW b, b.id = a.id, NEW got, NEW last, NEW lists, NEW kept,
           kept = lists \/ kept = AfterFsnext(a.id, a.item, lists),
           NEW i, i # a.id
    PROVE  i \in DOMAIN Done(b, last, kept) <=> i \in DOMAIN lists
<1>1. ASSUME NEW l PROVE i \in DOMAIN Cleared(a.id, l) <=> i \in DOMAIN l
  BY DEF Cleared
<1>2. i \in DOMAIN kept <=> i \in DOMAIN lists
  BY <1>1 DEF AfterFsnext
<1> QED
  BY <1>1, <1>2 DEF Done

LEMMA ApartAgain ==
    ASSUME NEW all, NEW id, NEW alone, ApartFrom(all, id, alone), area'[pDta].id = id,
           search'[pDta].state \in Ours => search'[pDta].alone = alone,
           \A d \in Dtas \ {pDta} : area'[d] = area[d] /\ search'[d] = all[d]
    PROVE  Apart(search', area')
<1> SUFFICES ASSUME NEW d \in Dtas, NEW e \in Dtas, d # e,
                    search'[d].state \in Ours, search'[e].state \in Ours, search'[d].alone
             PROVE  area'[d].id # area'[e].id
  BY DEF Apart
<1>1. CASE d = pDta
  BY <1>1 DEF ApartFrom
<1>2. CASE e = pDta
  BY <1>2 DEF ApartFrom
<1>3. CASE d # pDta /\ e # pDta
  BY <1>3 DEF ApartFrom, Aside
<1> QED
  BY <1>1, <1>2, <1>3

LEMMA FetchEnds ==
    ASSUME SearchTypes, NEW a \in Areas, NEW s \in Kept, NEW over \in Kept,
           NEW all \in [Dtas -> Kept], NEW lists, ListsOK(lists),
           Fetch(a, s, over, all, lists),
           OthersClosing(all, lists), ApartFrom(all, a.id, s.alone),
           HasMore(a.id, a.item, lists) =>
               Place(s, a, lists) /\ (s.alone /\ faults <= 1 => a.more),
           \/ over = Idle
           \/ /\ over = Over(s) /\ s.state \in Ours
              /\ Place(s, a, lists) /\ Closing(s, a, lists, faults)
    PROVE  EndInv'
<1> DEFINE block == Block(a.id, a.item, lists)
<1>1. validFor' = pDta /\ pDta \in Dtas /\ faults \in Nat /\ a.item \in Nat
  BY FetchCases, Sizes DEF SearchTypes, Areas
<1>2. CASE GetsBlock(a, s, all, lists)
  <2>1. HasMore(a.id, a.item, lists) /\ storage' = lists /\ faults' = faults
    BY <1>2 DEF GetsBlock
  <2>2. /\ Len(block) \in 1 .. PerBlock /\ a.item + Len(block) <= lists[a.id]
    BY <1>1, <2>1, BlockTypes
  <2>3. Place(s, a, lists) /\ (s.alone => lists[a.id] = s.dir) /\ a.id \in DOMAIN lists
    BY <2>1 DEF HasMore, Place
  <2>4. /\ Len(block) \in 0 .. PerBlock /\ 0 < Len(block)
        /\ block[1] \in Entry
    <3>1. 1 \in 1 .. Len(block)
      BY <2>2, Sizes
    <3> QED
      BY <1>1, <2>1, <2>2, <3>1, BlockTypes, Sizes
  <2>5. Gives(Fetched(a, Len(block)), s, all, block[1])
    BY <1>2 DEF GetsBlock
  <2> DEFINE f == Fetched(a, Len(block))
             t == More(s, block[1])
  <2> HIDE DEF block
  <2>6. /\ f \in Areas /\ f.cur = 0 /\ f.total = Len(block) /\ f.item = a.item
        /\ f.id = a.id /\ f.more = a.more
    BY <2>4, UnfetchedTypes
  <2>7. t.state = "live" /\ t.dir = s.dir /\ t.alone = s.alone
    BY <2>4, SearchKept
  <2>8. area' = [area EXCEPT ![pDta] = Given(f)] /\ search' = [all EXCEPT ![pDta] = t]
    BY <2>5 DEF Gives, More
  <2> HIDE DEF f, t
  <2>9. /\ Given(f).cur = 1 /\ Given(f).total = Len(block) /\ Given(f).more = a.more
        /\ Given(f).item = a.item + 1 /\ Given(f).id = a.id
    <3>1. f.cur < f.total
      BY <2>4, <2>6
    <3> QED
      BY <2>6, <3>1, GivenTypes
  <2>10. Closing(t, Given(f), lists, faults)
    <3>1. ASSUME s.alone
          PROVE  a.item + 1 <= s.dir /\ (a.item + 1) + (Len(block) - 1) <= s.dir
      <4>1. s.dir \in Nat
        BY <2>3, <3>1, Sizes DEF ListsOK
      <4>2. Len(block) \in Nat
        BY <2>2, Sizes
      <4> QED
        BY <1>1, <2>2, <2>3, <2>4, <3>1, <4>1, <4>2
    <3> QED
      BY <2>1, <2>3, <2>7, <2>9, <3>1 DEF Closing
  <2>11. /\ area'[pDta] = Given(f) /\ search'[pDta] = t
         /\ \A d \in Dtas \ {pDta} : area'[d] = area[d] /\ search'[d] = all[d]
    BY <1>1, <2>8 DEF SearchTypes
  <2>12. ASSUME NEW d \in Dtas
         PROVE  Closing(search'[d], area'[d], storage', faults')
    BY <1>1, <2>1, <2>10, <2>11 DEF OthersClosing
  <2>13. Apart(search', area')
    BY <2>7, <2>9, <2>11, ApartAgain
  <2> QED
    BY <2>12, <2>13 DEF EndInv, AllClosing
<1>3. ASSUME NEW got \in Outcomes, NEW last \in Outcomes,
             GetsEnd(a, over, all, lists, got, last)
      PROVE  EndInv'
  <2> DEFINE kept == IF got = "lost" THEN lists ELSE AfterFsnext(a.id, a.item, lists)
             u    == Unfetched(a)
             e    == [u EXCEPT !.more = FALSE]
  <2>1. /\ area' = [area EXCEPT ![pDta] = e]
        /\ search' = [all EXCEPT ![pDta] = over]
        /\ storage' = Done(u, last, kept) /\ Faults(got, last)
        /\ got = "answered" => ~HasMore(a.id, a.item, lists)
    BY <1>3 DEF GetsEnd, Ends
  <2>2. u \in Areas /\ u.cur = 0 /\ u.total = 0 /\ u.item = a.item /\ u.id = a.id
    BY UnfetchedTypes, Sizes
  <2>3. kept = lists \/ kept = AfterFsnext(a.id, a.item, lists)
    OBVIOUS
  <2>4. got = "answered" => kept = Cleared(a.id, lists)
    BY <2>1 DEF AfterFsnext
  <2> HIDE DEF u, kept
  <2>5. e.cur = 0 /\ e.total = 0 /\ e.item = a.item /\ e.id = a.id
    BY <2>2 DEF Areas
  <2> HIDE DEF e
  <2>6. /\ faults' \in Nat /\ faults <= faults'
        /\ got # "answered" => faults + 1 <= faults'
        /\ last # "answered" => faults + 1 <= faults'
        /\ got # "answered" /\ last # "answered" => faults + 2 <= faults'
    BY <2>1, FaultsTypes, Sizes DEF SearchTypes
  <2>7. /\ area'[pDta] = e /\ search'[pDta] = over
        /\ \A d \in Dtas \ {pDta} : area'[d] = area[d] /\ search'[d] = all[d]
    BY <1>1, <2>1 DEF SearchTypes
  <2>8. \A i : i # a.id => (i \in DOMAIN storage' <=> i \in DOMAIN lists)
    BY <2>1, <2>2, <2>3, OnlyItsList
  <2>9. Closing(over, e, storage', faults')
    <3>1. CASE over = Idle
      BY <3>1, IdleClosing
    <3>2. CASE /\ over = Over(s) /\ s.state \in Ours
               /\ Place(s, a, lists) /\ Closing(s, a, lists, faults)
      <4>1. /\ over.state = "ended" /\ over.dir = s.dir /\ over.seen = s.seen
            /\ over.alone = s.alone
        BY <3>2, SearchKept
      <4>2. ASSUME faults' <= 1 PROVE a.id \notin DOMAIN storage'
        <5>1. got = "answered" \/ last = "answered"
          BY <1>1, <2>6, <4>2
        <5>2. ASSUME NEW l PROVE a.id \notin DOMAIN Cleared(a.id, l)
          BY DEF Cleared
        <5>3. CASE last # "lost"
          BY <2>1, <2>2, <5>2, <5>3 DEF Done
        <5>4. CASE last = "lost"
          BY <2>1, <2>4, <5>1, <5>2, <5>4 DEF Done
        <5> QED
          BY <5>3, <5>4
      <4>3. ASSUME s.alone, faults' = 0 PROVE Len(s.seen) = s.dir
        <5>1. faults = 0 /\ got = "answered"
          BY <1>1, <2>6, <4>3
        <5>2. CASE s.state = "ended"
          BY <3>2, <4>3, <5>1, <5>2 DEF Closing
        <5>3. CASE s.state = "live"
          <6>1. /\ a.id \in DOMAIN lists /\ lists[a.id] = s.dir /\ a.item <= s.dir
                /\ a.item = Len(s.seen)
            BY <3>2, <4>3, <5>1, <5>3 DEF Closing, Place
          <6>2. s.dir \in Nat /\ ~(s.dir > a.item)
            BY <2>1, <5>1, <6>1, Sizes DEF HasMore, ListsOK
          <6> QED
            BY <1>1, <6>1, <6>2
        <5> QED
          BY <3>2, <5>2, <5>3 DEF Ours
      <4> QED
        BY <2>5, <4>1, <4>2, <4>3 DEF Closing
    <3> QED
      BY <3>1, <3>2
  <2>10. ASSUME NEW d \in Dtas \ {pDta}
         PROVE  Closing(all[d], area[d], storage', faults')
    <3>1. Closing(all[d], area[d], lists, faults)
      BY DEF OthersClosing
    <3>2. all[d].state \in Ours /\ all[d].alone => area[d].id # a.id
      BY DEF ApartFrom
    <3> QED
      BY <1>1, <2>6, <2>8, <3>1, <3>2, ClosingKept
  <2>11. ASSUME NEW d \in Dtas
         PROVE  Closing(search'[d], area'[d], storage', faults')
    BY <1>1, <2>7, <2>9, <2>10
  <2>12. Apart(search', area')
    <3>1. over.state \in Ours => over.alone = s.alone
      BY IdleClosing, SearchKept
    <3> QED
      BY <2>5, <2>7, <3>1, ApartAgain
  <2> QED
    BY <2>11, <2>12 DEF EndInv, AllClosing
<1> QED
  BY <1>2, <1>3, FetchCases

\* What is begun: its copies share the list, and no other search has the address.
LEMMA ReplacedEnds ==
    ASSUME SearchTypes, EndInv, NEW dir \in Dirs, NEW lists,
           \A i : i # pDta => (i \in DOMAIN lists <=> i \in DOMAIN storage),
           NEW f \in Nat, faults <= f, NEW d \in Dtas \ {pDta}
    PROVE  /\ Closing(Replaced(dir)[d], area[d], lists, f)
           /\ Replaced(dir)[d].state = search[d].state
           /\ Replaced(dir)[d].alone = (search[d].alone /\ d \notin Copies)
           /\ search[d].state \in Ours /\ area[d].id = pDta => d \in Copies
<1>1. search[d] \in Kept /\ Closing(search[d], area[d], storage, faults) /\ faults \in Nat
  BY Sizes DEF EndInv, AllClosing, SearchTypes
<1>2. d \in Copies <=> search[d].state \in Ours /\ area[d].id = pDta
  BY DEF Copies, Ours
<1>3. search[d].alone \in BOOLEAN
  BY <1>1 DEF Kept
<1>4. CASE d \in Copies
  <2> DEFINE t == Shares(search[d], dir)
  <2>1. Replaced(dir)[d] = t
    BY <1>4 DEF Replaced
  <2>2. t.state = search[d].state /\ t.alone = FALSE
    BY <1>1, SharesKept
  <2> HIDE DEF t
  <2>3. Closing(t, area[d], lists, f)
    BY <1>1, <2>2 DEF Closing
  <2> QED
    BY <1>2, <1>4, <2>1, <2>2, <2>3
<1>5. CASE d \notin Copies
  <2>1. Replaced(dir)[d] = search[d]
    BY <1>5 DEF Replaced
  <2>2. Closing(search[d], area[d], lists, f)
    BY <1>1, <1>2, <1>5, ClosingKept
  <2> QED
    BY <1>2, <1>3, <1>5, <2>1, <2>2
<1> QED
  BY <1>4, <1>5

LEMMA ReplacedAside ==
    ASSUME SearchTypes, EndInv, NEW dir \in Dirs
    PROVE  ApartFrom(Replaced(dir), pDta, Begun(dir).alone)
<1>1. ASSUME NEW d \in Dtas \ {pDta}
      PROVE  /\ Replaced(dir)[d].state = search[d].state
             /\ Replaced(dir)[d].alone = (search[d].alone /\ d \notin Copies)
             /\ search[d].state \in Ours /\ area[d].id = pDta => d \in Copies
  <2>1. /\ faults \in Nat /\ faults <= faults
        /\ \A i : i # pDta => (i \in DOMAIN storage <=> i \in DOMAIN storage)
    BY Sizes DEF SearchTypes
  <2> QED
    BY <2>1, ReplacedEnds
<1>2. Begun(dir).alone = (Copies = {})
  BY BegunTypes
<1>3. Aside(Replaced(dir))
  BY <1>1 DEF EndInv, Apart, Aside
<1>4. \A d \in Dtas \ {pDta} :
          Replaced(dir)[d].state \in Ours /\ (Replaced(dir)[d].alone \/ Begun(dir).alone)
              => area[d].id # pDta
  BY <1>1, <1>2
<1> QED
  BY <1>3, <1>4 DEF ApartFrom

LEMMA FsfirstEnds ==
    ASSUME FindTypes, EndInv, NEW dir \in Dirs, Fsfirst(dir) PROVE EndInv'
<1> DEFINE s     == Begun(dir)
           lists == Found(pDta, dir, storage)
<1>1. SearchTypes /\ faults \in Nat
  BY TypesAre, Sizes DEF SearchTypes
<1>2. ListsOK(lists) /\ Replaced(dir) \in [Dtas -> Kept] /\ Idle \in Kept /\ s \in Kept
  BY <1>1, FoundTypes, BegunTypes, Constants0 DEF Fsfirst, SearchTypes
<1>3. /\ Fresh \in Areas /\ Fresh.item = 0 /\ Fresh.id = pDta /\ pDta \in Dtas
      /\ Fresh.more = TRUE
  BY <1>1, FreshTypes DEF SearchTypes
<1>4. Place(s, Fresh, lists)
  <2>1. s.seen = <<>> /\ s.dir = dir
    BY <1>1, BegunTypes
  <2>2. <<>> = Entries(dir, 0) /\ Len(<<>>) = 0
    BY DEF Entries
  <2>3. lists[pDta] = dir
    BY DEF Found
  <2> QED
    BY <1>3, <2>1, <2>2, <2>3 DEF Place
<1>5. \A i : i # pDta => (i \in DOMAIN lists <=> i \in DOMAIN storage)
  BY DEF Found
<1>6. Fetch(Fresh, s, Idle, Replaced(dir), lists)
  BY DEF Fsfirst
<1>7. ApartFrom(Replaced(dir), Fresh.id, s.alone)
  BY <1>1, <1>3, ReplacedAside
<1> HIDE DEF s, lists
<1>8. OthersClosing(Replaced(dir), lists)
  <2>1. faults <= faults
    BY <1>1
  <2> QED
    BY <1>1, <1>5, <2>1, ReplacedEnds DEF OthersClosing
<1> QED
  BY <1>1, <1>2, <1>3, <1>4, <1>6, <1>7, <1>8, FetchEnds

\* No search of this driver in the DTA that is set.
LEMMA NoneEnds ==
    ASSUME SearchTypes, NEW all \in [Dtas -> Kept], NEW fresh \in Areas, NEW none,
           none.state \notin Ours, \A lists, f : Closing(none, fresh, lists, f),
           area' = [area EXCEPT ![pDta] = fresh], search' = [all EXCEPT ![pDta] = none],
           Aside(all),
           \A d \in Dtas \ {pDta} : Closing(all[d], area[d], storage', faults')
    PROVE  EndInv'
<1>1. pDta \in Dtas
  BY DEF SearchTypes
<1>2. /\ search'[pDta] = none /\ area'[pDta] = fresh
      /\ \A d \in Dtas \ {pDta} : search'[d] = all[d] /\ area'[d] = area[d]
  BY <1>1 DEF SearchTypes
<1>3. ASSUME NEW d \in Dtas
      PROVE  Closing(search'[d], area'[d], storage', faults')
  BY <1>2
<1>4. Apart(search', area')
  <2> SUFFICES ASSUME NEW d \in Dtas, NEW e \in Dtas, d # e, search'[d].alone,
                      search'[d].state \in Ours, search'[e].state \in Ours
               PROVE  area'[d].id # area'[e].id
    BY DEF Apart
  <2>1. d # pDta /\ e # pDta
    BY <1>2
  <2> QED
    BY <1>2, <2>1 DEF Aside
<1> QED
  BY <1>3, <1>4 DEF EndInv, AllClosing

LEMMA FsfirstFailsEnds ==
    ASSUME FindTypes, EndInv, NEW dir \in Dirs, FsfirstFails(dir) PROVE EndInv'
<1>1. SearchTypes /\ faults \in Nat /\ search \in [Dtas -> Kept]
  BY TypesAre, Sizes DEF SearchTypes
<1>2. faults' \in Nat /\ faults <= faults'
  <2>1. faults \in 0 .. MaxFaults
    BY <1>1 DEF SearchTypes
  <2> QED
    BY <2>1, FaultsTypes, Sizes DEF FsfirstFails
<1>3. /\ area' = [area EXCEPT ![pDta] = Unknown]
      /\ \/ /\ storage' = Found(pDta, dir, storage)
            /\ search' = [Replaced(dir) EXCEPT ![pDta] = Idle]
         \/ storage' = storage /\ search' = [search EXCEPT ![pDta] = Idle]
  BY DEF FsfirstFails
<1>4. CASE /\ storage' = Found(pDta, dir, storage)
           /\ search' = [Replaced(dir) EXCEPT ![pDta] = Idle]
  <2>1. \A i : i # pDta => (i \in DOMAIN storage' <=> i \in DOMAIN storage)
    BY <1>4 DEF Found
  <2>2. \A d \in Dtas \ {pDta} : Closing(Replaced(dir)[d], area[d], storage', faults')
    BY <1>1, <1>2, <2>1, ReplacedEnds
  <2>3. Aside(Replaced(dir)) /\ Replaced(dir) \in [Dtas -> Kept]
    BY <1>1, ReplacedAside, BegunTypes DEF ApartFrom
  <2> QED
    BY <1>1, <1>3, <1>4, <2>2, <2>3, IdleClosing, Constants0, NoneEnds
<1>5. CASE storage' = storage /\ search' = [search EXCEPT ![pDta] = Idle]
  <2>1. \A d \in Dtas \ {pDta} : Closing(search[d], area[d], storage', faults')
    BY <1>1, <1>2, <1>5, ClosingKept DEF EndInv, AllClosing
  <2>2. Aside(search)
    BY DEF EndInv, Apart, Aside
  <2> QED
    BY <1>1, <1>3, <1>5, <2>1, <2>2, IdleClosing, Constants0, NoneEnds
<1> QED
  BY <1>3, <1>4, <1>5

LEMMA FsfirstNoneEnds ==
    ASSUME FindTypes, EndInv, NEW dir \in Dirs, FsfirstNone(dir) PROVE EndInv'
<1>1. SearchTypes /\ search \in [Dtas -> Kept] /\ Fresh \in Areas
  BY TypesAre, FreshTypes DEF SearchTypes
<1>2. /\ area' = [area EXCEPT ![pDta] = Fresh]
      /\ search' = [search EXCEPT ![pDta] = Idle]
      /\ storage' = storage /\ faults' = faults
  BY DEF FsfirstNone
<1>3. \A d \in Dtas \ {pDta} : Closing(search[d], area[d], storage', faults')
  BY <1>2 DEF EndInv, AllClosing
<1>4. Aside(search)
  BY DEF EndInv, Apart, Aside
<1> QED
  BY <1>1, <1>2, <1>3, <1>4, IdleClosing, NoneEnds

LEMMA FsnextEnds == ASSUME FindTypes, FindInv, EndInv, Fsnext PROVE EndInv'
<1> DEFINE s    == search[pDta]
           a    == area[pDta]
           over == Over(s)
           t    == More(s, buffer[a.cur + 1])
           e    == [a EXCEPT !.more = FALSE]
<1>1. SearchTypes /\ pDta \in Dtas /\ faults \in Nat
  BY TypesAre, Sizes DEF SearchTypes
<1>2. s \in Kept /\ a \in Areas /\ s.state \in Ours
  BY <1>1 DEF Fsnext, SearchTypes, Ours
<1>3. over \in Kept
  BY <1>2, SearchKept
<1>4. Place(s, a, storage) /\ Closing(s, a, storage, faults)
  BY <1>1, <1>2 DEF FindInv, Good, EndInv, AllClosing
<1>5. ApartFrom(search, a.id, s.alone)
  BY <1>1, <1>2 DEF EndInv, Apart, ApartFrom, Aside
<1>6. \/ /\ InBuffer(a) /\ Gives(a, s, search, buffer[a.cur + 1])
         /\ UNCHANGED <<buffer, validFor, storage, faults>>
      \/ /\ \E last \in Outcomes : Ends(a, over, search, last, storage)
                                   /\ Faults(last, "answered")
         /\ ~InBuffer(a) /\ validFor = pDta /\ ~a.more
         /\ UNCHANGED <<buffer, validFor>>
      \/ Fetch(a, s, over, search, storage)
  BY DEF Fsnext, Over
<1>7. /\ Gives(a, s, search, buffer[a.cur + 1]) =>
            area' = [area EXCEPT ![pDta] = Given(a)] /\ search' = [search EXCEPT ![pDta] = t]
      /\ \A last : Ends(a, over, search, last, storage) =>
            /\ area' = [area EXCEPT ![pDta] = e]
            /\ search' = [search EXCEPT ![pDta] = over]
            /\ storage' = Done(a, last, storage)
  BY DEF Gives, Ends, More
<1>8. /\ e.cur = a.cur /\ e.total = a.total /\ e.item = a.item /\ e.id = a.id
      /\ over.state = "ended" /\ over.dir = s.dir /\ over.seen = s.seen
      /\ over.alone = s.alone
  BY <1>2, SearchKept DEF Areas
<1>9. over = Over(s)
  OBVIOUS
<1>10. a.item \in Nat /\ a.cur \in Nat /\ a.total \in Nat /\ a.cur <= a.total
  BY <1>2, Sizes DEF Areas
<1> HIDE DEF over, t, e
<1>11. CASE InBuffer(a) /\ Gives(a, s, search, buffer[a.cur + 1])
            /\ UNCHANGED <<buffer, validFor, storage, faults>>
  <2>1. validFor = pDta /\ a.cur < a.total
    BY <1>11 DEF InBuffer
  <2>2. /\ Given(a).cur = a.cur + 1 /\ Given(a).item = a.item + 1
        /\ Given(a).id = a.id /\ Given(a).total = a.total /\ Given(a).more = a.more
    BY <1>2, <2>1, GivenTypes
  <2>3. s.state = "live"
    <3>1. s.state # "ended"
      BY <1>4, <1>10, <2>1 DEF Closing
    <3> QED
      BY <1>2, <3>1 DEF Ours
  <2>4. Closing(t, Given(a), storage, faults) /\ t.alone = s.alone
    <3>1. s.alone /\ faults <= 1 => a.more
      BY <1>4, <2>3 DEF Closing
    <3>2. ASSUME s.alone, faults = 0
          PROVE  /\ a.id \in DOMAIN storage /\ a.item + 1 <= s.dir
                 /\ (a.item + 1) + (a.total - (a.cur + 1)) <= s.dir
      <4>1. /\ a.id \in DOMAIN storage /\ storage[a.id] = s.dir
            /\ a.item + (a.total - a.cur) <= s.dir
        BY <1>4, <2>1, <2>3, <3>2 DEF Closing, Place
      <4>2. s.dir \in Nat
        BY <1>1, <4>1, Sizes DEF SearchTypes, ListsOK
      <4> QED
        BY <1>10, <2>1, <4>1, <4>2
    <3>3. t.state = "live" /\ t.dir = s.dir /\ t.alone = s.alone
      <4>1. a.cur + 1 \in 1 .. PerBlock
        BY <1>2, <2>1, Sizes DEF Areas
      <4>2. buffer[a.cur + 1] \in Entry
        BY <1>1, <4>1 DEF SearchTypes
      <4> QED
        BY <1>2, <4>2, SearchKept DEF t
    <3> QED
      BY <2>2, <3>1, <3>2, <3>3 DEF Closing
  <2>5. /\ area'[pDta] = Given(a) /\ search'[pDta] = t
        /\ \A d \in Dtas \ {pDta} : area'[d] = area[d] /\ search'[d] = search[d]
    BY <1>1, <1>7, <1>11 DEF SearchTypes
  <2>6. ASSUME NEW d \in Dtas
        PROVE  Closing(search'[d], area'[d], storage', faults')
    <3>1. CASE d = pDta
      BY <1>11, <2>1, <2>4, <2>5, <3>1
    <3>2. CASE d # pDta
      BY <1>11, <2>5, <3>2 DEF EndInv, AllClosing
    <3> QED
      BY <3>1, <3>2
  <2>7. Apart(search', area')
    BY <1>5, <2>2, <2>4, <2>5, ApartAgain
  <2> QED
    BY <2>6, <2>7 DEF EndInv, AllClosing
<1>12. ASSUME NEW last \in Outcomes, Ends(a, over, search, last, storage),
              Faults(last, "answered"), ~InBuffer(a), validFor = pDta, ~a.more,
              UNCHANGED <<buffer, validFor>>
       PROVE  EndInv'
  <2>1. faults' \in Nat /\ faults <= faults'
    BY <1>1, <1>12, FaultsTypes, Sizes DEF SearchTypes
  <2>2. /\ area'[pDta] = e /\ search'[pDta] = over
        /\ \A d \in Dtas \ {pDta} : area'[d] = area[d] /\ search'[d] = search[d]
        /\ storage' = Done(a, last, storage)
    BY <1>1, <1>7, <1>12 DEF SearchTypes
  <2>3. \A i : i # a.id => (i \in DOMAIN storage' <=> i \in DOMAIN storage)
    BY <2>2, OnlyItsList
  <2>4. Closing(over, e, storage', faults')
    <3>1. a.cur = a.total
      BY <1>10, <1>12 DEF InBuffer
    <3>2. ASSUME s.alone, faults' <= 1
          PROVE  s.state = "ended" /\ a.id \notin DOMAIN storage'
      <4>1. faults <= 1
        BY <1>1, <2>1, <3>2
      <4>2. s.state # "live"
        BY <1>4, <1>12, <3>2, <4>1 DEF Closing
      <4>3. s.state = "ended" /\ a.id \notin DOMAIN storage
        BY <1>2, <1>4, <3>2, <4>1, <4>2 DEF Ours, Closing
      <4>4. Within(storage', storage)
        BY <2>2, ListsWithin, DoneWithin
      <4> QED
        BY <4>3, <4>4 DEF Within
    <3>3. faults' = 0 => faults = 0 /\ faults' <= 1
      BY <1>1, <2>1
    <3> QED
      BY <1>4, <1>8, <3>1, <3>2, <3>3 DEF Closing
  <2>5. ASSUME NEW d \in Dtas
        PROVE  Closing(search'[d], area'[d], storage', faults')
    <3>1. CASE d = pDta
      BY <1>12, <2>2, <2>4, <3>1
    <3>2. CASE d # pDta
      <4>1. Closing(search[d], area[d], storage, faults)
        BY DEF EndInv, AllClosing
      <4>2. Closing(search[d], area[d], storage', faults')
        BY <1>1, <1>5, <2>1, <2>3, <3>2, <4>1, ClosingKept DEF ApartFrom
      <4> QED
        BY <1>12, <2>2, <3>2, <4>2
    <3> QED
      BY <3>1, <3>2
  <2>6. Apart(search', area')
    BY <1>5, <1>8, <2>2, ApartAgain
  <2> QED
    BY <2>5, <2>6 DEF EndInv, AllClosing
<1>13. CASE Fetch(a, s, over, search, storage)
  <2>1. OthersClosing(search, storage)
    BY DEF EndInv, AllClosing, OthersClosing
  <2>2. HasMore(a.id, a.item, storage) => (s.alone /\ faults <= 1 => a.more)
    BY <1>2, <1>4 DEF HasMore, Closing, Ours
  <2>3. search \in [Dtas -> Kept] /\ ListsOK(storage)
    BY <1>1 DEF SearchTypes
  <2> QED
    BY <1>1, <1>2, <1>3, <1>4, <1>5, <1>9, <1>13, <2>1, <2>2, <2>3, FetchEnds
<1> QED
  BY <1>6, <1>11, <1>12, <1>13

LEMMA FsnextNotOursEnds ==
    ASSUME FindTypes, FindInv, EndInv, FsnextNotOurs PROVE EndInv'
<1>1. SearchTypes /\ pDta \in Dtas /\ faults \in Nat
  BY TypesAre, Sizes DEF SearchTypes
<1>2. /\ area[pDta] \in Areas /\ search[pDta] \in Kept /\ Idle \in Kept
      /\ search \in [Dtas -> Kept] /\ ListsOK(storage)
  BY <1>1, Constants0 DEF SearchTypes
<1>3. area[pDta].id = NoDta /\ ~HasMore(area[pDta].id, area[pDta].item, storage)
  <2>1. area[pDta].id = NoDta
    BY <1>1 DEF FsnextNotOurs, FindInv, Good
  <2> QED
    BY <1>2, <2>1, Sizes DEF HasMore, ListsOK
<1>4. OthersClosing(search, storage)
  BY DEF EndInv, AllClosing, OthersClosing
<1>5. ApartFrom(search, area[pDta].id, search[pDta].alone)
  <2>1. \A d \in Dtas : search[d].state \in Ours => area[d].id \in Dtas
    BY DEF FindInv, Good, Place
  <2> QED
    BY <1>3, <2>1, Sizes DEF EndInv, Apart, ApartFrom, Aside
<1>6. Fetch(area[pDta], search[pDta], Idle, search, storage)
  BY DEF FsnextNotOurs
<1> QED
  BY <1>1, <1>2, <1>3, <1>4, <1>5, <1>6, FetchEnds

LEMMA OtherEnds ==
    ASSUME FindTypes, EndInv,
           \/ \E d, e \in Dtas : Move(d, e)
           \/ \E d \in Dtas : Fsetdta(d)
           \/ FsfirstElsewhere \/ FsnextElsewhere \/ RpiRestarts
    PROVE  EndInv'
<1>1. SearchTypes /\ pDta \in Dtas /\ faults \in Nat
  BY TypesAre, Sizes DEF SearchTypes
<1>2. ASSUME NEW d \in Dtas, NEW e \in Dtas, Move(d, e) PROVE EndInv'
  <2>1. ASSUME NEW f \in Dtas
        PROVE  /\ area'[f] = IF f = e THEN area[d] ELSE area[f]
               /\ search'[f] = IF f = d THEN Idle
                               ELSE IF f = e THEN Moved(d, e) ELSE search[f]
    BY <1>1, <1>2 DEF Move, Moved, SearchTypes
  <2>2. search[d].state \in Ours /\ d # e
    BY <1>2 DEF Move, Ours
  <2>3. /\ Moved(d, e).state = search[d].state /\ Moved(d, e).dir = search[d].dir
        /\ Moved(d, e).seen = search[d].seen /\ Moved(d, e).alone = search[d].alone
    BY <1>1, MovedKept
  <2>4. ASSUME NEW f \in Dtas
        PROVE  Closing(search'[f], area'[f], storage, faults)
    <3>1. Closing(search[f], area[f], storage, faults)
      BY DEF EndInv, AllClosing
    <3>2. Closing(Moved(d, e), area[d], storage, faults)
      BY <2>3 DEF EndInv, AllClosing, Closing
    <3> QED
      BY <2>1, <3>1, <3>2, IdleClosing
  <2>5. Apart(search', area')
    <3> SUFFICES ASSUME NEW f \in Dtas, NEW g \in Dtas, f # g, search'[f].alone,
                        search'[f].state \in Ours, search'[g].state \in Ours
                 PROVE  area'[f].id # area'[g].id
      BY DEF Apart
    <3>1. f # d /\ g # d
      BY <2>1, IdleClosing
    <3>2. CASE f = e
      BY <2>1, <2>2, <2>3, <3>1, <3>2 DEF EndInv, Apart
    <3>3. CASE g = e
      BY <2>1, <2>2, <2>3, <3>1, <3>3 DEF EndInv, Apart
    <3>4. CASE f # e /\ g # e
      BY <2>1, <3>1, <3>4 DEF EndInv, Apart
    <3> QED
      BY <3>2, <3>3, <3>4
  <2> QED
    BY <1>2, <2>4, <2>5 DEF Move, EndInv, AllClosing
<1>3. ASSUME NEW d \in Dtas, Fsetdta(d) PROVE EndInv'
  BY <1>3 DEF Fsetdta, driver, EndInv, AllClosing, Apart
<1>4. CASE FsfirstElsewhere \/ FsnextElsewhere
  <2> DEFINE none == {Idle, Search("elsewhere", 0, <<>>)}
  <2>1. PICK n \in none : /\ area' = [area EXCEPT ![pDta] = Unknown]
                          /\ search' = [search EXCEPT ![pDta] = n]
                          /\ UNCHANGED <<buffer, validFor, storage, faults>>
    BY <1>4 DEF FsfirstElsewhere, FsnextElsewhere
  <2>2. n.state \notin Ours /\ \A lists, f : Closing(n, Unknown, lists, f)
    BY IdleClosing
  <2>3. \A d \in Dtas \ {pDta} : Closing(search[d], area[d], storage', faults')
    BY <2>1 DEF EndInv, AllClosing
  <2>4. Aside(search) /\ search \in [Dtas -> Kept] /\ Unknown \in Areas
    BY <1>1, Constants0 DEF EndInv, Apart, Aside, SearchTypes
  <2> HIDE DEF none
  <2> QED
    BY <1>1, <2>1, <2>2, <2>3, <2>4, NoneEnds
<1>5. CASE RpiRestarts
  <2>1. faults' \in Nat /\ faults + 1 <= faults' /\ storage' = <<>>
    BY <1>1, <1>5, FaultsTypes, Sizes DEF RpiRestarts, SearchTypes
  <2>2. ASSUME NEW d \in Dtas
        PROVE  Closing(search[d], area[d], <<>>, faults')
    <3>1. Closing(search[d], area[d], storage, faults)
      BY DEF EndInv, AllClosing
    <3>2. (faults' <= 1 => faults <= 1) /\ faults' # 0
      BY <1>1, <2>1
    <3>3. DOMAIN <<>> = {}
      OBVIOUS
    <3> QED
      BY <3>1, <3>2, <3>3 DEF Closing
  <2>3. Apart(search', area')
    BY <1>5 DEF RpiRestarts, driver, EndInv, Apart
  <2> QED
    BY <1>5, <2>1, <2>2, <2>3 DEF RpiRestarts, driver, EndInv, AllClosing
<1> QED
  BY <1>2, <1>3, <1>4, <1>5

LEMMA NextEndInv == ASSUME FindTypes, FindInv, EndInv, [Next]_vars PROVE EndInv'
<1>1. CASE UNCHANGED vars
  BY <1>1 DEF vars, driver, EndInv, AllClosing, Apart
<1> QED
  BY <1>1, FsfirstEnds, FsfirstNoneEnds, FsfirstFailsEnds, FsnextEnds,
     FsnextNotOursEnds, OtherEnds DEF Next

LEMMA InitEndInv == ASSUME Init PROVE EndInv
<1>1. \A d \in Dtas : search[d] = Idle
  BY DEF Init
<1>2. Apart(search, area)
  BY <1>1, IdleClosing DEF Apart
<1> QED
  BY <1>1, <1>2, IdleClosing DEF EndInv, AllClosing

LEMMA EndInvHolds == Spec => [](FindTypes /\ FindInv /\ EndInv)
<1>1. Init => FindTypes /\ FindInv /\ EndInv
  BY InitFindTypes, InitFindInv, InitEndInv
<1>2. FindTypes /\ FindInv /\ EndInv /\ [Next]_vars => (FindTypes /\ FindInv /\ EndInv)'
  BY NextFindTypes, NextFindInv, NextEndInv
<1> QED
  BY <1>1, <1>2, PTL DEF Spec

(* Without a fault no search ends before its last entry, unless it shares  *)
(* its list with a copy: the count of the area and the list on the RPi run *)
(* out together.                                                           *)
THEOREM EndsAtEndHolds == Spec => []EndsAtEnd
<1>1. FindTypes /\ FindInv /\ EndInv => EndsAtEnd
  BY DEF EndInv, AllClosing, Closing, EndsAtEnd
<1> QED
  BY <1>1, EndInvHolds, PTL

(* One command that fails does not leave the list of a finished search on  *)
(* the RPi, unless another one goes on in it: it is released by onFsnext() *)
(* or by onFsnext_last().                                                  *)
THEOREM ReleasedHolds == Spec => []Released
<1>1. FindTypes /\ FindInv /\ EndInv => Released
  BY DEF EndInv, AllClosing, Closing, Released
<1> QED
  BY <1>1, EndInvHolds, PTL
=============================================================================
