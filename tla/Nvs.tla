-------------------------------- MODULE Nvs ---------------------------------
(***************************************************************************)
(* Non-volatile storage: Page, PageManager and Storage of nvs_flash.       *)
(*                                                                         *)
(* A page is a flash sector: a header with the state of the page and its   *)
(* sequence number, a table with two bits per entry, and the entries.  An  *)
(* item is one entry, or, for strings and blobs, one entry and the entries *)
(* of its data.  Items are appended; the item that a new one replaces is   *)
(* marked as erased afterwards.  One page is always kept free; when there  *)
(* is no other, the items that are left of a page are moved to it.         *)
(*                                                                         *)
(* Each step is one write or erase of the flash.  Power may fail between   *)
(* two of them and inside one.  A word of the table, which holds Word      *)
(* entries, is written as a whole.  What a Page object keeps in RAM        *)
(* (mFirstUsedEntry, mNextFreeEntry, the counts) is computed from the      *)
(* table.  What is left in erased entries, which is never read again, does *)
(* not distinguish states: it is Torn.                                     *)
(***************************************************************************)
EXTENDS Integers, FiniteSets, Sequences

CONSTANTS
    NPages,      \* sectors of the partition
    N,           \* entries of a page (ENTRY_COUNT)
    Word,        \* entries in a word of the table
    Keys, Values, NoValue,
    Span,        \* the entries of an item with a given key
    Hash,        \* the 24-bit hash of a key in HashList
    Pale,        \* values whose data begins with 0xffffffff
    MaxCuts,     \* power failures
    MaxSeq       \* pages that are ever activated

ASSUME NvsAssumption ==
    /\ NPages \in Nat \ {0, 1} /\ N \in Nat \ {0} /\ Word \in Nat \ {0}
    /\ Span \in [Keys -> 1 .. N]
    /\ \A k \in Keys : Hash[k] \in Nat
    /\ Pale \subseteq Values
    /\ NoValue \notin Keys \cup Values
    /\ MaxCuts \in Nat /\ MaxSeq \in Nat

Pages == 0 .. NPages-1
Idx == 0 .. N-1
NoPage == NPages

VARIABLES
    page,    \* the flash: state, sequence number, table and entries of each sector
    list,    \* mPageList, in the order of sequence numbers
    free,    \* mFreePageList
    nextSeq, \* mSeqNumber
    pc,      \* the flash operation that comes next
    job,     \* the call in progress
    at,      \* the place in the loops of load() and of moveItem()
    cuts     \* power failures so far

vars == <<page, list, free, nextSeq, pc, job, at, cuts>>

PageStates == {"UNINITIALIZED", "ACTIVE", "FULL", "FREEING", "CORRUPT"}
Blank == [t |-> "blank", k |-> NoValue, v |-> NoValue]
Torn == [t |-> "torn", k |-> NoValue, v |-> NoValue]
Item(k, v) == [t |-> "item", k |-> k, v |-> v]
Data(k, v) == [t |-> "data", k |-> k, v |-> v]

ErasedPage == [state |-> "UNINITIALIZED", seq |-> 0,
               tab |-> [i \in Idx |-> "EMPTY"], ent |-> [i \in Idx |-> Blank]]

NoJob == [k |-> NoValue, v |-> NoValue, old |-> NoValue, was |-> NoPage, from |-> NoPage, used |-> 0]
NoPlace == [p |-> NoPage, i |-> 0, end |-> 0]

Pcs == {"off", "idle", "abort", "no_space", "no_free_page",
        "w_init", "w_item", "w_item_state", "w_data", "w_data_state", "w_erase", "w_full",
        "request", "mark", "mv_init", "mv_entry", "mv_state", "mv_erase", "mv_free",
        "ld_half", "ld_scan", "ld_dup", "ld_lists", "ld_first", "ld_old", "ld_freeing",
        "ld_activate"}

TypeOK ==
    /\ page \in [Pages -> [state : PageStates, seq : 0 .. MaxSeq,
                           tab : [Idx -> {"EMPTY", "WRITTEN", "ERASED"}],
                           ent : [Idx -> [t : {"blank", "torn", "item", "data"},
                                          k : Keys \cup {NoValue}, v : Values \cup {NoValue}]]]]
    /\ list \in Seq(Pages) /\ free \in Seq(Pages)
    /\ nextSeq \in 0 .. MaxSeq+1
    /\ pc \in Pcs
    /\ job.k \in Keys \cup {NoValue}
    /\ {job.was, job.from} \subseteq Pages \cup {NoPage}
    /\ at.p \in Pages \cup {NoPage}
    /\ cuts \in 0 .. MaxCuts

Init ==
    /\ page = [p \in Pages |-> ErasedPage]
    /\ list = <<>> /\ free = <<>>
    /\ nextSeq = 0
    /\ pc = "off"
    /\ job = NoJob
    /\ at = NoPlace
    /\ cuts = 0

-----------------------------------------------------------------------------
(* Pages.                                                                  *)

Lowest(S) == CHOOSE x \in S : \A y \in S : x <= y
Highest(S) == CHOOSE x \in S : \A y \in S : x >= y
MaxOf(a, b) == IF a >= b THEN a ELSE b

HasSeq(p) == page[p].state \in {"ACTIVE", "FULL", "FREEING"}
With(p, s) == {i \in Idx : page[p].tab[i] = s}
Used(p) == Cardinality(With(p, "WRITTEN"))
Erased(p) == Cardinality(With(p, "ERASED"))
NextFree(p) == IF With(p, "EMPTY") = Idx THEN 0 ELSE 1 + Highest(Idx \ With(p, "EMPTY"))
FirstUsed(p) == Lowest(With(p, "WRITTEN"))
SpanAt(p, i) == IF page[p].ent[i].t = "item" THEN Span[page[p].ent[i].k] ELSE 1
Entries(p, i) == i .. i + SpanAt(p, i) - 1

\* Whether the first word of an entry is not 0xffffffff.
Shows(e) == e.t \in {"item", "torn"} \/ (e.t = "data" /\ e.v \notin Pale)

\* The items that findItem() comes across.
Items(p) == {i \in With(p, "WRITTEN") : HasSeq(p) /\ page[p].ent[i].t = "item"}
ItemsOf(p, k) == {i \in Items(p) : page[p].ent[i].k = k}

\* Page::findItem() and Storage::findItem(): the first item with the key.
findItem(p, k) == Lowest(ItemsOf(p, k))
Holding(k) == {n \in 1 .. Len(list) : ItemsOf(list[n], k) # {}}
FindPage(k) ==
    LET H == Holding(k)
    IN  IF H = {} THEN NoPage ELSE list[Lowest(H)]
readItem(k) ==
    LET p == FindPage(k)
    IN  IF p = NoPage THEN NoValue ELSE page[p].ent[findItem(p, k)].v

Current == list[Len(list)]
\* A mistake to be caught: the number of the page after this one.
Initialized_NextSeq(p) == [page[p] EXCEPT !.state = "ACTIVE", !.seq = nextSeq]
Initialized(p) == [page[p] EXCEPT !.state = "ACTIVE", !.seq = nextSeq - 1]

\* alterEntryState().
Alter(p, i, s) == page' = [page EXCEPT ![p].tab[i] = s]

\* One write of alterEntryRangeState(), which begins with the last word that
\* has entries of S; what is left of S is the caller's next step.
AlterRange(p, S, s, from, to) ==
    LET todo == {i \in S \cap Idx : page[p].tab[i] # s}
        last == {i \in todo : i \div Word = Highest(todo) \div Word}
    IN  /\ page' = [page EXCEPT ![p].tab = [i \in Idx |-> IF i \in last THEN s ELSE @[i]],
                               ![p].ent = IF s = "ERASED" /\ last = todo
                                          THEN [i \in Idx |-> IF i \in S THEN Torn ELSE @[i]]
                                          ELSE @]
        /\ pc' = IF last = todo THEN to ELSE from

Write(p, i, e) == page' = [page EXCEPT ![p].ent[i] = e]

-----------------------------------------------------------------------------
(* Storage::writeItem() and Storage::eraseItem().                          *)

Fits(p, k) ==
    /\ page[p].state # "FULL"
    /\ NextFree(p) + Span[k] <= N

\* Page::writeItem() on the current page.
ToWrite(p) == IF page[p].state = "UNINITIALIZED" THEN "w_init" ELSE "w_item"

Set(k, v) ==
    /\ pc = "idle"
    /\ job' = [NoJob EXCEPT !.k = k, !.v = v, !.old = readItem(k), !.was = FindPage(k)]
    /\ pc' = CASE Fits(Current, k) -> ToWrite(Current)
               [] ~Fits(Current, k) /\ page[Current].state = "FULL" -> "request"
               [] OTHER -> "w_full"
    /\ UNCHANGED <<page, list, free, nextSeq, at, cuts>>

Erase(k) ==
    /\ pc = "idle"
    /\ Holding(k) # {}
    /\ job' = [NoJob EXCEPT !.k = k, !.old = readItem(k), !.was = FindPage(k)]
    /\ pc' = "w_erase"
    /\ UNCHANGED <<page, list, free, nextSeq, at, cuts>>

InitPage ==
    /\ pc = "w_init"
    /\ page' = [page EXCEPT ![Current] = Initialized(Current)]
    /\ pc' = "w_item"
    /\ UNCHANGED <<list, free, nextSeq, job, at, cuts>>

WriteEntry ==
    /\ pc = "w_item"
    /\ at' = [NoPlace EXCEPT !.p = Current, !.i = NextFree(Current)]
    /\ Write(Current, NextFree(Current), Item(job.k, job.v))
    /\ pc' = "w_item_state"
    /\ UNCHANGED <<list, free, nextSeq, job, cuts>>

\* What follows when the new item is complete.
AfterWrite == IF job.was = NoPage THEN "idle" ELSE "w_erase"
Returned == IF pc' = "idle" THEN job' = NoJob /\ at' = NoPlace ELSE UNCHANGED <<job, at>>

WriteEntryState ==
    /\ pc = "w_item_state"
    /\ Alter(at.p, at.i, "WRITTEN")
    /\ pc' = IF Span[job.k] > 1 THEN "w_data" ELSE AfterWrite
    /\ Returned
    /\ UNCHANGED <<list, free, nextSeq, cuts>>

\* The data of a string or blob: its whole entries, or the tail that is
\* shorter than one, which are written and marked in the same way.  Data that
\* has both takes two such pairs of writes, which are one here: exact for
\* spans up to 2.
WriteData ==
    /\ pc = "w_data"
    /\ page' = [page EXCEPT ![at.p].ent =
                   [i \in Idx |-> IF i \in at.i+1 .. at.i+Span[job.k]-1 THEN Data(job.k, job.v) ELSE @[i]]]
    /\ pc' = "w_data_state"
    /\ UNCHANGED <<list, free, nextSeq, job, at, cuts>>

WriteDataState ==
    /\ pc = "w_data_state"
    /\ AlterRange(at.p, at.i+1 .. at.i+Span[job.k]-1, "WRITTEN", pc, AfterWrite)
    /\ Returned
    /\ UNCHANGED <<list, free, nextSeq, cuts>>

\* The old item is looked up again when its page has been freed meanwhile.
OldPage == IF page[job.was].state = "UNINITIALIZED" THEN FindPage(job.k) ELSE job.was

\* Page::eraseItem().
EraseOld ==
    /\ pc = "w_erase"
    /\ LET i == findItem(OldPage, job.k)
       IN  AlterRange(OldPage, Entries(OldPage, i), "ERASED", pc, "idle")
    /\ Returned
    /\ UNCHANGED <<list, free, nextSeq, cuts>>

-----------------------------------------------------------------------------
(* PageManager::activatePage() and requestNewPage().                       *)

Victims == {n \in 1 .. Len(list) : /\ Erased(list[n]) > 0
                                   /\ \A m \in 1 .. Len(list) : Erased(list[m]) <= Erased(list[n])}
Victim == list[Lowest(Victims)]

\* To the first item of page p, or to its erasure.
ToMove(p) ==
    IF With(p, "WRITTEN") = {}
    THEN pc' = "mv_free" /\ UNCHANGED at
    ELSE /\ pc' = IF page[Current].state = "UNINITIALIZED" THEN "mv_init" ELSE "mv_entry"
         /\ at' = [p |-> p, i |-> FirstUsed(p), end |-> 0]

\* The first free page becomes the last of the list; its header is not written
\* yet.
Activate ==
    /\ nextSeq <= MaxSeq
    /\ list' = Append(list, Head(free))
    /\ free' = Tail(free)
    /\ nextSeq' = nextSeq + 1

\* A corrupt page is erased before it is used.
EraseCorrupt ==
    /\ pc \in {"request", "ld_first", "ld_activate"}
    /\ pc = "request" => Len(free) >= 2 \/ Victims # {}
    /\ free # <<>> /\ page[Head(free)].state = "CORRUPT"
    /\ page' = [page EXCEPT ![Head(free)] = ErasedPage]
    /\ UNCHANGED <<list, free, nextSeq, pc, job, at, cuts>>

\* The page is marked as full, if it is not yet.
MarkFull ==
    /\ pc = "w_full"
    /\ page' = [page EXCEPT ![Current].state = "FULL"]
    /\ pc' = "request"
    /\ UNCHANGED <<list, free, nextSeq, job, at, cuts>>

\* A mistake to be caught: the last free page is taken as well.
RequestNewPage_Last ==
    /\ pc = "request"
    /\ page[Head(free)].state # "CORRUPT"
    /\ Activate
    /\ pc' = "w_init"
    /\ UNCHANGED <<job, page, at, cuts>>

\* With two free pages one is taken; with one, it takes the items of the page
\* that has most erased entries.
RequestNewPage ==
    /\ pc = "request"
    /\ IF Len(free) < 2 /\ Victims = {}
       THEN /\ pc' = "no_space"
            /\ UNCHANGED <<list, free, nextSeq, job>>
       ELSE /\ page[Head(free)].state # "CORRUPT"
            /\ Activate
            /\ IF Len(free) >= 2
               THEN /\ pc' = "w_init"
                    /\ UNCHANGED job
               ELSE /\ pc' = "mark"
                    /\ job' = [job EXCEPT !.from = Victim, !.used = Used(Victim)]
    /\ UNCHANGED <<page, at, cuts>>

MarkFreeing ==
    /\ pc = "mark"
    /\ page' = [page EXCEPT ![job.from].state = "FREEING"]
    /\ ToMove(job.from)
    /\ UNCHANGED <<list, free, nextSeq, job, cuts>>

\* ESP_ERR_NVS_NOT_ENOUGH_SPACE.
NoSpace ==
    /\ pc = "no_space"
    /\ pc' = "idle"
    /\ Returned
    /\ UNCHANGED <<page, list, free, nextSeq, cuts>>

-----------------------------------------------------------------------------
(* Page::moveItem(), until job.from has no item left.                      *)

MoveInit ==
    /\ pc = "mv_init"
    /\ page' = [page EXCEPT ![Current] = Initialized(Current)]
    /\ pc' = "mv_entry"
    /\ UNCHANGED <<list, free, nextSeq, job, at, cuts>>

\* There is no check that the entry fits: for an entry past the last one the
\* assertion of getEntryAddress() fails, before anything is written.
MoveEntry ==
    /\ pc = "mv_entry"
    /\ IF NextFree(Current) < N
       THEN /\ Write(Current, NextFree(Current), page[job.from].ent[at.i + at.end])
            /\ pc' = "mv_state"
       ELSE /\ pc' = "abort"
            /\ UNCHANGED page
    /\ UNCHANGED <<list, free, nextSeq, job, at, cuts>>

MoveState ==
    /\ pc = "mv_state"
    /\ Alter(Current, NextFree(Current), "WRITTEN")
    /\ at' = [at EXCEPT !.end = @ + 1]
    /\ pc' = IF at.end + 1 = SpanAt(job.from, at.i) THEN "mv_erase" ELSE "mv_entry"
    /\ UNCHANGED <<list, free, nextSeq, job, cuts>>

MoveErase ==
    /\ pc = "mv_erase"
    /\ LET S == Entries(job.from, at.i)
           rest == With(job.from, "WRITTEN") \ S
       IN  /\ AlterRange(job.from, S, "ERASED", pc, IF rest = {} THEN "mv_free" ELSE "mv_entry")
           /\ at' = IF pc' = "mv_entry" THEN [at EXCEPT !.i = Lowest(rest), !.end = 0] ELSE at
    /\ UNCHANGED <<list, free, nextSeq, job, cuts>>

PlaceOf(p) == CHOOSE n \in 1 .. Len(list) : list[n] = p
Without(s, n) == SubSeq(s, 1, n-1) \o SubSeq(s, n+1, Len(s))

\* The page is erased and is free again.  Called from writeItem(), there is an
\* assertion on the number of entries that were moved.
MoveFree ==
    /\ pc = "mv_free"
    /\ page' = [page EXCEPT ![job.from] = ErasedPage]
    /\ list' = Without(list, PlaceOf(job.from))
    /\ free' = Append(free, job.from)
    /\ pc' = CASE job.k = NoValue -> "idle"
               [] job.k # NoValue /\ Used(Current) # job.used -> "abort"
               [] OTHER -> IF Fits(Current, job.k) THEN ToWrite(Current) ELSE "no_space"
    /\ IF pc' = "idle" THEN job' = NoJob /\ at' = NoPlace
                       ELSE job' = [job EXCEPT !.from = NoPage] /\ at' = NoPlace
    /\ UNCHANGED <<nextSeq, cuts>>

-----------------------------------------------------------------------------
(* Page::load() and Page::mLoadEntryTable(), page after page.              *)

\* The next active page from p on; the tables of other pages are only read.
NextActive(p) == LET S == {q \in Pages : q >= p /\ page[q].state = "ACTIVE"}
                 IN  IF S = {} THEN NoPage ELSE Lowest(S)

\* To mNextFreeEntry of the next active page, as its table has it.
LoadPage(p) ==
    LET q == NextActive(p)
    IN  IF q = NoPage
        THEN pc' = "ld_lists" /\ at' = NoPlace
        ELSE /\ pc' = "ld_half"
             /\ at' = [p |-> q, end |-> 0,
                       i |-> IF With(q, "EMPTY") = {} THEN N ELSE Lowest(With(q, "EMPTY"))]

PowerOn ==
    /\ pc = "off"
    /\ LoadPage(0)
    /\ UNCHANGED <<page, list, free, nextSeq, job, cuts>>

\* A mistake to be caught: the table is taken at its word.
LoadHalf_Not ==
    /\ pc = "ld_half"
    /\ pc' = "ld_scan"
    /\ at' = [at EXCEPT !.i = 0, !.end = at.i]
    /\ UNCHANGED <<page, list, free, nextSeq, job, cuts>>

\* Entries that were written before the table said so are erased, as far as
\* their first word shows it.
LoadHalf ==
    /\ pc = "ld_half"
    /\ IF at.i < N /\ Shows(page[at.p].ent[at.i])
       THEN /\ page' = [page EXCEPT ![at.p].tab[at.i] = "ERASED", ![at.p].ent[at.i] = Torn]
            /\ at' = [at EXCEPT !.i = @ + 1]
            /\ UNCHANGED pc
       ELSE /\ pc' = "ld_scan"
            /\ at' = [at EXCEPT !.i = 0, !.end = at.i]
            /\ UNCHANGED page
    /\ UNCHANGED <<list, free, nextSeq, job, cuts>>

Incomplete(p, i) == ~(Entries(p, i) \subseteq With(p, "WRITTEN"))
Duplicates(p, i) == {d \in Items(p) : d < i /\ Hash[page[p].ent[d].k] = Hash[page[p].ent[i].k]}

\* Items are scanned in order.  One whose entries are not all written is
\* erased; so is an earlier one with the same hash.
LoadScan ==
    /\ pc = "ld_scan" /\ at.i < at.end
    /\ LET p == at.p
           i == at.i
           after == [at EXCEPT !.i = @ + SpanAt(p, i)]
       IN  CASE page[p].tab[i] = "ERASED" ->
                   at' = [at EXCEPT !.i = @ + 1] /\ UNCHANGED <<page, pc>>
             [] page[p].tab[i] # "ERASED" /\ Incomplete(p, i) ->
                   AlterRange(p, Entries(p, i), "ERASED", pc, pc) /\ UNCHANGED at
             [] OTHER ->
                   IF Duplicates(p, i) = {}
                   THEN at' = after /\ UNCHANGED <<page, pc>>
                   ELSE pc' = "ld_dup" /\ UNCHANGED <<page, at>>
    /\ UNCHANGED <<list, free, nextSeq, job, cuts>>

\* A mistake to be caught: the later one of two is erased.
LoadDuplicate_Later ==
    /\ pc = "ld_dup"
    /\ AlterRange(at.p, Entries(at.p, at.i), "ERASED", pc, "ld_scan")
    /\ UNCHANGED <<at, list, free, nextSeq, job, cuts>>

LoadDuplicate ==
    /\ pc = "ld_dup"
    /\ LET d == Lowest(Duplicates(at.p, at.i))
       IN  AlterRange(at.p, Entries(at.p, d), "ERASED", pc, "ld_scan")
    /\ at' = IF pc' = pc THEN at ELSE [at EXCEPT !.i = @ + SpanAt(at.p, at.i)]
    /\ UNCHANGED <<list, free, nextSeq, job, cuts>>

LoadNextPage ==
    /\ pc = "ld_scan" /\ at.i >= at.end
    /\ LoadPage(at.p + 1)
    /\ UNCHANGED <<page, list, free, nextSeq, job, cuts>>

-----------------------------------------------------------------------------
(* PageManager::load().                                                    *)

Loaded == {p \in Pages : HasSeq(p)}

\* The pages of S as they are inserted: by their keys, then by their numbers.
Before(p, q, key) == key[p] < key[q] \/ (key[p] = key[q] /\ p < q)
Ordered(S, key) ==
    CHOOSE s \in [1 .. Cardinality(S) -> S] :
        \A m, n \in DOMAIN s : m < n => Before(s[m], s[n], key)

BuildLists ==
    /\ pc = "ld_lists"
    /\ list' = Ordered(Loaded, [p \in Pages |-> page[p].seq])
    /\ free' = Ordered(Pages \ Loaded, [p \in Pages |-> p])
    /\ nextSeq' = IF Loaded = {} THEN 0 ELSE 1 + Highest({page[p].seq : p \in Loaded})
    /\ pc' = IF Loaded = {} THEN "ld_first" ELSE "ld_old"
    /\ UNCHANGED <<page, job, at, cuts>>

ActivateFirst ==
    /\ pc = "ld_first"
    /\ page[Head(free)].state # "CORRUPT"
    /\ Activate
    /\ pc' = "idle"
    /\ UNCHANGED <<page, job, at, cuts>>

\* The pages that hold the key of the last item of the last page as well.
LastItem == page[Current].ent[Highest(Items(Current))]
Older == {n \in 1 .. Len(list)-1 : Items(Current) # {} /\ ItemsOf(list[n], LastItem.k) # {}}

\* A mistake to be caught: the older item is kept.
EraseOlder_Not ==
    /\ pc = "ld_old"
    /\ pc' = "ld_freeing"
    /\ UNCHANGED <<page, list, free, nextSeq, job, at, cuts>>

\* An older item with the key of the very last one is erased: power went out
\* before writeItem() or moveItem() could do it.
EraseOlder ==
    /\ pc = "ld_old"
    /\ IF Older = {}
       THEN pc' = "ld_freeing" /\ UNCHANGED page
       ELSE LET p == list[Lowest(Older)]
            IN  AlterRange(p, Entries(p, findItem(p, LastItem.k)), "ERASED", pc, "ld_freeing")
    /\ UNCHANGED <<list, free, nextSeq, job, at, cuts>>

Freeing == {n \in 1 .. Len(list) : page[list[n]].state = "FREEING"}

\* A page that was being freed is freed now.
ResumeFreeing ==
    /\ pc = "ld_freeing"
    /\ IF Freeing = {}
       THEN /\ pc' = IF free = <<>> THEN "no_free_page" ELSE "idle"
            /\ UNCHANGED <<job, at>>
       ELSE /\ job' = [NoJob EXCEPT !.from = list[Lowest(Freeing)]]
            /\ IF page[Current].state = "ACTIVE" THEN ToMove(list[Lowest(Freeing)])
               ELSE /\ pc' = IF free = <<>> THEN "no_free_page" ELSE "ld_activate"
                    /\ UNCHANGED at
    /\ UNCHANGED <<page, list, free, nextSeq, cuts>>

ActivateForMove ==
    /\ pc = "ld_activate"
    /\ page[Head(free)].state # "CORRUPT"
    /\ Activate
    /\ IF With(job.from, "WRITTEN") = {}
       THEN pc' = "mv_free" /\ UNCHANGED at
       ELSE pc' = "mv_init" /\ at' = [p |-> job.from, i |-> FirstUsed(job.from), end |-> 0]
    /\ UNCHANGED <<page, job, cuts>>

-----------------------------------------------------------------------------
(* Power failures.                                                         *)

\* What the flash operation in progress may leave behind when it is neither
\* done nor not begun.
Broken ==
    CASE pc \in {"w_init", "mv_init"} -> {[page EXCEPT ![Current].state = "CORRUPT"]}
      [] pc = "w_item" -> {[page EXCEPT ![Current].ent[NextFree(Current)] = Torn]}
      [] pc = "w_data" ->
            {[page EXCEPT ![at.p].ent =
                [i \in Idx |-> CASE i \in at.i+1 .. m-1 -> Data(job.k, job.v)
                                 [] i = m -> Torn
                                 [] OTHER -> @[i]]] : m \in at.i+1 .. at.i+Span[job.k]-1}
      [] pc = "mv_entry" /\ NextFree(Current) < N ->
            {[page EXCEPT ![Current].ent[NextFree(Current)] = Torn]}
      [] pc = "mv_free" -> {[page EXCEPT ![job.from].state = "CORRUPT"]}
      [] OTHER -> {}

PowerCut ==
    /\ pc \notin {"off", "abort"} /\ cuts < MaxCuts
    /\ cuts' = cuts + 1
    /\ page' \in {page} \cup Broken
    /\ list' = <<>> /\ free' = <<>> /\ nextSeq' = 0
    /\ pc' = "off" /\ job' = NoJob /\ at' = NoPlace

-----------------------------------------------------------------------------
Call == \E k \in Keys : Erase(k) \/ \E v \in Values : Set(k, v)
WriteItem ==
    \/ InitPage \/ WriteEntry \/ WriteEntryState \/ WriteData \/ WriteDataState \/ EraseOld
    \/ MarkFull \/ RequestNewPage \/ MarkFreeing \/ NoSpace
Move == MoveInit \/ MoveEntry \/ MoveState \/ MoveErase \/ MoveFree \/ EraseCorrupt
Load ==
    \/ PowerOn \/ LoadHalf \/ LoadScan \/ LoadDuplicate \/ LoadNextPage
    \/ BuildLists \/ ActivateFirst \/ EraseOlder \/ ResumeFreeing \/ ActivateForMove

Next == Call \/ WriteItem \/ Move \/ Load \/ PowerCut

Spec == Init /\ [][Next]_vars

-----------------------------------------------------------------------------
\* The items that survive a restart: a page that still accepts writes is
\* searched for incomplete ones.
Survivors(p, k) ==
    {i \in ItemsOf(p, k) : page[p].state = "ACTIVE" => ~Incomplete(p, i)}

\* The value of the newest of them, if its data is whole.
ValueAt(p, i) ==
    LET e == page[p].ent[i]
    IN  IF \A j \in Entries(p, i) \ {i} : j \in Idx /\ page[p].ent[j] = Data(e.k, e.v) THEN e.v ELSE NoValue
Newest(C) == CHOOSE x \in C : \A y \in C : y[1] <= x[1]
Stored(k) ==
    LET C == UNION {{<<page[p].seq * N + i, ValueAt(p, i)>> : i \in Survivors(p, k)} : p \in Pages}
    IN  IF C = {} THEN NoValue ELSE Newest(C)[2]

KV == INSTANCE KVStore WITH
        on <- pc # "off",
        store <- [k \in Keys |-> Stored(k)],
        req <- [k |-> job.k, old |-> job.old, new |-> job.v, ok |-> pc # "no_space"]

\* Storage is a map that survives power failures: a call that returns ESP_OK
\* has changed the value of its key, at one instant, one that returns an error
\* has not, a power failure leaves the one or the other, and no value is lost or
\* comes back later (Storage::writeItem(), PageManager::load()).
ImplementsKVStore == KV!Spec

\* No key is stored twice when no call is in progress, and what is read is the
\* newest item (the assertions of Storage::debugCheck()).
NoDuplicates ==
    pc = "idle" => \A k \in Keys : /\ Cardinality(UNION {{<<p, i>> : i \in ItemsOf(p, k)} : p \in Pages}) <= 1
                                    /\ readItem(k) = Stored(k)

\* There is always a free page, and no other page waits to be freed, when no
\* call is in progress: PageManager::load() does not have to give up
\* (ESP_ERR_NVS_NO_FREE_PAGES).
PageInReserve ==
    /\ pc # "no_free_page"
    /\ pc = "idle" => free # <<>> /\ Freeing = {}

\* A programmed entry is not programmed again before its page is erased
\* (writeEntry() and writeEntryData() append).
AppendsOnly ==
    /\ pc \in {"w_item", "mv_entry"} /\ NextFree(Current) < N =>
          page[Current].ent[NextFree(Current)] = Blank
    /\ pc = "w_data" => \A i \in at.i+1 .. at.i+Span[job.k]-1 : page[at.p].ent[i] = Blank

\* No assertion fails: in particular the items of a page that is being freed
\* always fit into the page they are moved to (PageManager::requestNewPage()
\* and load(), Page::getEntryAddress()).
NeverAborts == pc # "abort"
=============================================================================
