------------------------------ MODULE NvsProofs -----------------------------
(***************************************************************************)
(* Theorems about Nvs: for any number of pages, entries and keys, any      *)
(* spans, any hash and any number of power failures.                       *)
(***************************************************************************)
EXTENDS Nvs, FiniteSetTheorems, WellFoundedInduction, TLAPS

-----------------------------------------------------------------------------
(* The least and the greatest number of a set.                             *)

LEMMA LeastExists ==
    ASSUME NEW S, S \subseteq Nat, S # {}
    PROVE  \E x \in S : \A y \in S : x <= y
<1> DEFINE R == OpToRel(<, Nat)
<1>1. PICK x \in S : \A y \in S : ~(<<y, x>> \in R)
    BY WFMin, NatLessThanWellFounded
<1>2. \A y \in Nat : y < x => <<y, x>> \in R
    BY <1>1, Zenon DEF OpToRel
<1> HIDE DEF R
<1>3. \A y \in S : ~(y < x)
    BY <1>1, <1>2
<1> QED BY <1>1, <1>3

LEMMA LowestIs ==
    ASSUME NEW S, S \subseteq Nat, S # {}
    PROVE  Lowest(S) \in S /\ \A y \in S : Lowest(S) <= y
BY LeastExists DEF Lowest

LEMMA GreatestExists ==
    ASSUME NEW S, NEW b \in Nat, S \subseteq 0 .. b, S # {}
    PROVE  \E x \in S : \A y \in S : x >= y
<1> DEFINE T == {b - x : x \in S}
<1>1. T \subseteq Nat /\ T # {}
    <2>1. \A x \in S : b - x \in Nat
        OBVIOUS
    <2> QED BY <2>1
<1>2. PICK t \in T : \A u \in T : t <= u
    <2> HIDE DEF T
    <2> QED BY <1>1, LeastExists
<1>3. PICK x \in S : t = b - x
    OBVIOUS
<1>4. \A y \in S : b - x <= b - y
    BY <1>2, <1>3
<1>5. \A y \in S : x >= y
    <2> HIDE DEF T
    <2> QED BY <1>4
<1> QED BY <1>5

LEMMA HighestIs ==
    ASSUME NEW S, NEW b \in Nat, S \subseteq 0 .. b, S # {}
    PROVE  Highest(S) \in S /\ \A y \in S : Highest(S) >= y
BY GreatestExists DEF Highest

-----------------------------------------------------------------------------
(* The lists that PageManager::load() makes.                               *)

On(s) == {s[n] : n \in 1 .. Len(s)}
Distinct(s) == \A m, n \in 1 .. Len(s) : m # n => s[m] # s[n]

Sorted(s, key) == \A m, n \in DOMAIN s : m < n => Before(s[m], s[n], key)

LEMMA LastExists ==
    ASSUME NEW S, S \subseteq Pages, S # {},
           NEW b \in Nat, NEW key \in [Pages -> 0 .. b]
    PROVE  \E x \in S : \A y \in S \ {x} : Before(y, x, key)
<1>1. NPages - 1 \in Nat
    BY NvsAssumption
<1> DEFINE K == {key[x] : x \in S}
<1>2. PICK m \in K : \A k \in K : m >= k
    <2>1. K \subseteq 0 .. b /\ K # {}
        OBVIOUS
    <2> HIDE DEF K
    <2> QED BY <2>1, GreatestExists
<1> DEFINE T == {x \in S : key[x] = m}
<1>3. T # {} /\ T \subseteq 0 .. NPages-1
    BY <1>2 DEF Pages
<1>4. PICK x \in T : \A y \in T : x >= y
    <2> HIDE DEF T
    <2> QED BY <1>1, <1>3, GreatestExists
<1>5. \A y \in S \ {x} : Before(y, x, key)
    <2> TAKE y \in S \ {x}
    <2>1. y \in Nat /\ x \in Nat /\ key[y] \in Nat /\ key[x] \in Nat /\ y # x
        BY DEF Pages
    <2>2. key[y] <= key[x]
        BY <1>2
    <2>3. key[y] = key[x] => y <= x
        BY <1>4
    <2> QED BY <2>1, <2>2, <2>3 DEF Before
<1> QED BY <1>5

LEMMA PagesFinite ==
    ASSUME NEW S, S \subseteq Pages
    PROVE  IsFiniteSet(S) /\ Cardinality(S) \in Nat
<1>1. IsFiniteSet(Pages)
    BY FS_Interval, NvsAssumption DEF Pages
<1> QED BY <1>1, FS_Subset, FS_CardinalityType

\* One page after another, the last of the rest is put in front.
LEMMA OrderedExists ==
    ASSUME NEW S, S \subseteq Pages, NEW b \in Nat, NEW key \in [Pages -> 0 .. b]
    PROVE  \E s \in [1 .. Cardinality(S) -> S] : Sorted(s, key)
<1> DEFINE Good(T) == \E s \in [1 .. Cardinality(T) -> T] : Sorted(s, key)
           Bad == {n \in Nat : \E T \in SUBSET Pages : Cardinality(T) = n /\ ~Good(T)}
<1>1. SUFFICES Bad = {}
    BY PagesFinite
<1>2. SUFFICES ASSUME Bad # {} PROVE FALSE
    OBVIOUS
<1>3. PICK n \in Bad : \A m \in Bad : n <= m
    <2>1. Bad \subseteq Nat
        OBVIOUS
    <2> HIDE DEF Bad
    <2> QED BY <1>2, <2>1, LeastExists
<1>4. PICK T \in SUBSET Pages : Cardinality(T) = n /\ ~Good(T)
    BY <1>3
<1> HIDE DEF Bad
<1>5. T # {}
    <2> SUFFICES ASSUME T = {} PROVE FALSE
        OBVIOUS
    <2>1. Cardinality(T) = 0
        BY FS_EmptySet
    <2>2. [i \in 1 .. 0 |-> 0] \in [1 .. Cardinality(T) -> T]
        BY <2>1
    <2>3. Sorted([i \in 1 .. 0 |-> 0], key)
        BY DEF Sorted
    <2> QED BY <1>4, <2>2, <2>3
<1>6. PICK x \in T : \A y \in T \ {x} : Before(y, x, key)
    BY <1>5, LastExists
<1> DEFINE U == T \ {x}
<1>7. n \in Nat /\ n > 0 /\ Cardinality(U) = n - 1
    <2>1. IsFiniteSet(T) /\ n \in Nat
        BY <1>4, PagesFinite
    <2>2. Cardinality(T) # 0
        BY <1>5, <2>1, FS_EmptySet
    <2>3. Cardinality(U) = Cardinality(T) - 1
        BY <2>1, FS_RemoveElement
    <2> QED BY <1>4, <2>1, <2>2, <2>3
<1>8. Good(U)
    <2>1. n - 1 \notin Bad
        BY <1>3, <1>7
    <2>2. n - 1 \in Nat /\ U \in SUBSET Pages
        BY <1>7
    <2> HIDE DEF U, Good
    <2> QED BY <1>7, <2>1, <2>2 DEF Bad
<1>9. PICK s \in [1 .. n-1 -> U] : Sorted(s, key)
    BY <1>7, <1>8
<1> DEFINE r == [i \in 1 .. n |-> IF i = n THEN x ELSE s[i]]
<1>10. r \in [1 .. Cardinality(T) -> T]
    BY <1>4, <1>7, <1>9
<1>11. Sorted(r, key)
    <2> SUFFICES ASSUME NEW i \in 1 .. n, NEW j \in 1 .. n, i < j
                 PROVE  Before(r[i], r[j], key)
        BY DEF Sorted
    <2>1. i \in 1 .. n-1 /\ r[i] = s[i]
        BY <1>7
    <2>2. CASE j = n
        BY <2>1, <2>2, <1>6, <1>9
    <2>3. CASE j # n
        BY <2>1, <2>3, <1>7, <1>9 DEF Sorted
    <2> QED BY <2>2, <2>3
<1> QED BY <1>4, <1>10, <1>11

LEMMA OrderedIs ==
    ASSUME NEW S, S \subseteq Pages, NEW b \in Nat, NEW key \in [Pages -> 0 .. b]
    PROVE  /\ Ordered(S, key) \in Seq(S)
           /\ Len(Ordered(S, key)) = Cardinality(S)
           /\ Distinct(Ordered(S, key)) /\ On(Ordered(S, key)) = S
           /\ \A m, n \in 1 .. Len(Ordered(S, key)) :
                 m < n => Before(Ordered(S, key)[m], Ordered(S, key)[n], key)
<1> DEFINE s == Ordered(S, key)
           c == Cardinality(S)
<1>1. c \in Nat /\ IsFiniteSet(S)
    BY PagesFinite
<1>2. s \in [1 .. c -> S] /\ Sorted(s, key)
    BY OrderedExists DEF Ordered, Sorted
<1> HIDE DEF s, c
<1>3. s \in Seq(S) /\ Len(s) = c
    BY <1>1, <1>2
<1>4. \A m, n \in 1 .. c : m < n => Before(s[m], s[n], key)
    BY <1>2 DEF Sorted
<1>5. \A m, n \in 1 .. c : m < n => s[m] # s[n]
    <2> SUFFICES ASSUME NEW m \in 1 .. c, NEW n \in 1 .. c, m < n, s[m] = s[n] PROVE FALSE
        OBVIOUS
    <2>1. s[m] \in Pages /\ Before(s[m], s[m], key)
        BY <1>2, <1>4
    <2>2. s[m] \in Nat /\ key[s[m]] \in Nat
        BY <2>1 DEF Pages
    <2> QED BY <2>1, <2>2 DEF Before
<1>6. Distinct(s)
    BY <1>1, <1>3, <1>5 DEF Distinct
<1>7. s \in Injection(1 .. c, S)
    BY <1>1, <1>2, <1>5 DEF Injection, IsInjective
<1>8. Cardinality(1 .. c) = c
    BY <1>1, FS_Interval
<1>9. s \in Surjection(1 .. c, S)
    BY <1>1, <1>7, <1>8, FS_Injection DEF c
<1>10. On(s) = S
    BY <1>2, <1>3, <1>9 DEF Surjection, On
<1> QED BY <1>3, <1>4, <1>6, <1>10 DEF s, c
-----------------------------------------------------------------------------
(* The states of the pages and the two lists.                              *)

IsPage(g) ==
    /\ g = [state |-> g.state, seq |-> g.seq, tab |-> g.tab, ent |-> g.ent]
    /\ g.state \in PageStates /\ g.seq \in 0 .. MaxSeq

IsJob(j) ==
    /\ j = [k |-> j.k, v |-> j.v, old |-> j.old, was |-> j.was, from |-> j.from, used |-> j.used]
    /\ j.was \in Pages \cup {NoPage} /\ j.from \in Pages \cup {NoPage}

IsPlace(a) == a = [p |-> a.p, i |-> a.i, end |-> a.end]

PagesOK == page = [p \in Pages |-> page[p]] /\ \A p \in Pages : IsPage(page[p])

Shape ==
    /\ PagesOK
    /\ list \in Seq(Pages) /\ free \in Seq(Pages)
    /\ nextSeq \in 0 .. MaxSeq+1
    /\ pc \in Pcs
    /\ IsJob(job) /\ IsPlace(at)
    /\ cuts \in 0 .. MaxCuts

Is(p, s) == page[p].state = s

\* Sequence numbers tell pages apart, an active page is the newest one, at
\* most one page is being freed, and the last page that is not in use is taken
\* only to free another one.
FlashInv ==
    /\ \A p \in Pages : Is(p, "UNINITIALIZED") => page[p] = ErasedPage
    /\ \A p, q \in Pages : p # q /\ HasSeq(p) /\ HasSeq(q) => page[p].seq # page[q].seq
    /\ \A p, q \in Pages : p # q /\ Is(p, "ACTIVE") /\ HasSeq(q) => page[q].seq < page[p].seq
    /\ \A p, q \in Pages : Is(p, "FREEING") /\ Is(q, "FREEING") => p = q
    /\ (\A p \in Pages : HasSeq(p)) => /\ \E p \in Pages : Is(p, "FREEING")
                                       /\ \E p \in Pages : Is(p, "ACTIVE")

LoadPcs == {"off", "ld_half", "ld_scan", "ld_dup", "ld_lists"}
WritePcs == {"w_init", "w_item", "w_item_state", "w_data", "w_data_state", "w_full"}
MovePcs == {"mv_init", "mv_entry", "mv_state", "mv_erase", "mv_free"}

\* Every page is in one of the lists; those in use are in the order of their
\* numbers, and only the last one may have no number yet.
ListOK ==
    /\ Distinct(list) /\ Distinct(free)
    /\ On(list) \cup On(free) = Pages /\ On(list) \cap On(free) = {}
    /\ \A p \in On(free) : ~HasSeq(p)
    /\ \A n \in 1 .. Len(list) : n < Len(list) => HasSeq(list[n])
    /\ list # <<>> => HasSeq(Current) \/ Is(Current, "UNINITIALIZED")
    /\ \A m, n \in 1 .. Len(list) : m < n /\ HasSeq(list[n]) => page[list[m]].seq < page[list[n]].seq
    /\ \A p \in On(list) : HasSeq(p) => page[p].seq < nextSeq
    /\ list # <<>> /\ Is(Current, "UNINITIALIZED") =>
          /\ nextSeq > 0
          /\ \A p \in On(list) : HasSeq(p) => page[p].seq < nextSeq - 1
          /\ \A p \in Pages : ~Is(p, "ACTIVE")

ListInv ==
    IF pc \in LoadPcs THEN list = <<>> /\ free = <<>> /\ nextSeq = 0
    ELSE ListOK /\ (list = <<>> <=> pc = "ld_first")

\* Steps at which a page may be waiting to be freed.
FreeingPcs == {"ld_old", "ld_freeing", "ld_activate", "abort"} \cup MovePcs \cup LoadPcs

\* What the pages in use are, by the step that is due.
StageInv ==
    /\ pc \notin FreeingPcs => \A p \in Pages : ~Is(p, "FREEING")
    /\ pc \in {"idle", "no_space", "request", "w_erase", "ld_activate"} \cup WritePcs => free # <<>>
    /\ pc = "ld_first" => Len(free) = NPages
    /\ pc \in {"w_init", "mark", "mv_init"} => Is(Current, "UNINITIALIZED")
    /\ pc \in WritePcs \ {"w_init"} => Is(Current, "ACTIVE")
    /\ pc \in {"mv_entry", "mv_state", "mv_erase"} => Is(Current, "ACTIVE")
    /\ pc = "mv_free" => Is(Current, "ACTIVE") \/ Is(Current, "UNINITIALIZED")
    /\ pc \in {"request", "mark", "ld_activate"} => \A p \in Pages : ~Is(p, "ACTIVE")
    /\ pc \in {"request", "ld_old", "ld_freeing", "ld_activate"} => HasSeq(Current)
    /\ pc \in {"mark", "ld_activate"} \cup MovePcs => job.from \in On(list)
    /\ pc = "mark" => Is(job.from, "FULL")
    /\ pc \in {"ld_activate"} \cup MovePcs => Is(job.from, "FREEING")
    /\ pc \in {"w_item_state", "w_data", "w_data_state"} => at.p = Current
    /\ pc \in {"ld_half", "ld_scan", "ld_dup"} => at.p \in Pages /\ Is(at.p, "ACTIVE")
    /\ pc # "no_free_page"

PageInvs == Shape /\ FlashInv /\ ListInv /\ StageInv

-----------------------------------------------------------------------------
(* Updates of one page.                                                    *)

LEMMA PageUpdate ==
    ASSUME NEW g, IsPage(g), NEW x, NEW i
    PROVE  /\ IsPage([g EXCEPT !.tab = x])
           /\ [g EXCEPT !.tab = x].state = g.state /\ [g EXCEPT !.tab = x].seq = g.seq
           /\ IsPage([g EXCEPT !.ent = x])
           /\ [g EXCEPT !.ent = x].state = g.state /\ [g EXCEPT !.ent = x].seq = g.seq
           /\ IsPage([g EXCEPT !.tab[i] = x])
           /\ [g EXCEPT !.tab[i] = x].state = g.state /\ [g EXCEPT !.tab[i] = x].seq = g.seq
           /\ IsPage([g EXCEPT !.ent[i] = x])
           /\ [g EXCEPT !.ent[i] = x].state = g.state /\ [g EXCEPT !.ent[i] = x].seq = g.seq
<1> DEFINE T(y) == [state |-> g.state, seq |-> g.seq, tab |-> y, ent |-> g.ent]
           E(y) == [state |-> g.state, seq |-> g.seq, tab |-> g.tab, ent |-> y]
<1>1. g = T(g.tab)
    BY DEF IsPage
<1>2. \A y : [T(g.tab) EXCEPT !.tab = y] = T(y) /\ [T(g.tab) EXCEPT !.ent = y] = E(y)
    OBVIOUS
<1>3. \A y : /\ IsPage(T(y)) /\ T(y).state = g.state /\ T(y).seq = g.seq
             /\ IsPage(E(y)) /\ E(y).state = g.state /\ E(y).seq = g.seq
    BY DEF IsPage
<1> HIDE DEF T, E
<1>4. \A y : [g EXCEPT !.tab = y] = T(y) /\ [g EXCEPT !.ent = y] = E(y)
    BY <1>1, <1>2, Zenon
<1> QED BY <1>3, <1>4

Restated(g, s) == [g EXCEPT !.state = s]
Headed(g, s, n) == [g EXCEPT !.state = s, !.seq = n]

LEMMA StateUpdate ==
    ASSUME NEW g, IsPage(g), NEW s \in PageStates, NEW n \in 0 .. MaxSeq
    PROVE  /\ LET h == Restated(g, s)
              IN  IsPage(h) /\ h.state = s /\ h.seq = g.seq /\ h.tab = g.tab /\ h.ent = g.ent
           /\ LET h == Headed(g, s, n)
              IN  IsPage(h) /\ h.state = s /\ h.seq = n /\ h.tab = g.tab /\ h.ent = g.ent
<1> DEFINE R(t, m) == [state |-> t, seq |-> m, tab |-> g.tab, ent |-> g.ent]
<1>1. g = R(g.state, g.seq) /\ g.seq \in 0 .. MaxSeq
    BY DEF IsPage
<1>2. [R(g.state, g.seq) EXCEPT !.state = s] = R(s, g.seq)
    OBVIOUS
<1>3. [R(s, g.seq) EXCEPT !.seq = n] = R(s, n)
    OBVIOUS
<1>4. \A m \in 0 .. MaxSeq : /\ IsPage(R(s, m)) /\ R(s, m).state = s /\ R(s, m).seq = m
                              /\ R(s, m).tab = g.tab /\ R(s, m).ent = g.ent
    BY DEF IsPage
<1> HIDE DEF R
<1>5. [g EXCEPT !.state = s, !.seq = n] = [[g EXCEPT !.state = s] EXCEPT !.seq = n]
    OBVIOUS
<1>6. [g EXCEPT !.state = s] = R(s, g.seq) /\ [g EXCEPT !.state = s, !.seq = n] = R(s, n)
    BY <1>1, <1>2, <1>3, <1>5, Zenon
<1>7. Restated(g, s) = R(s, g.seq) /\ Headed(g, s, n) = R(s, n)
    BY <1>6 DEF Restated, Headed
<1> QED BY <1>1, <1>4, <1>7

LEMMA ErasedIs == IsPage(ErasedPage) /\ ErasedPage.state = "UNINITIALIZED" /\ ErasedPage.seq = 0
BY NvsAssumption DEF IsPage, ErasedPage, PageStates

\* Page p becomes h.
LEMMA OnePage ==
    ASSUME PagesOK, NEW p, NEW h, p \in Pages => IsPage(h), page' = [page EXCEPT ![p] = h]
    PROVE  /\ PagesOK'
           /\ \A q \in Pages : q # p => page'[q] = page[q]
           /\ p \in Pages => page'[p] = h
<1>1. page' = [q \in Pages |-> IF q = p THEN h ELSE page[q]]
    BY DEF PagesOK
<1>2. \A q \in Pages : page'[q] = IF q = p THEN h ELSE page[q]
    BY <1>1
<1>3. page' = [q \in Pages |-> page'[q]]
    BY <1>1
<1>4. \A q \in Pages : IsPage(page'[q])
    BY <1>2 DEF PagesOK
<1> QED BY <1>2, <1>3, <1>4 DEF PagesOK

-----------------------------------------------------------------------------
(* Steps that leave the states of the pages alone.                         *)

Same ==
    /\ PagesOK'
    /\ \A q \in Pages : /\ page'[q].state = page[q].state
                        /\ page'[q].seq = page[q].seq
                        /\ Is(q, "UNINITIALIZED") => page'[q] = page[q]

LEMMA SameUnchanged ==
    ASSUME PagesOK, UNCHANGED page
    PROVE  Same
BY DEF Same, PagesOK

\* Another table and other entries of a page that is in use.
LEMMA SamePage ==
    ASSUME PagesOK, NEW p, p \in Pages => ~Is(p, "UNINITIALIZED"),
           NEW h, p \in Pages => IsPage(h) /\ h.state = page[p].state /\ h.seq = page[p].seq,
           page' = [page EXCEPT ![p] = h]
    PROVE  Same
<1>1. /\ PagesOK'
      /\ \A q \in Pages : q # p => page'[q] = page[q]
      /\ p \in Pages => page'[p] = h
    BY OnePage
<1> QED BY <1>1 DEF Same

LEMMA SameAlter ==
    ASSUME PagesOK, NEW p, p \in Pages => ~Is(p, "UNINITIALIZED"), NEW i, NEW s, Alter(p, i, s)
    PROVE  Same
<1>1. page' = [page EXCEPT ![p] = [page[p] EXCEPT !.tab[i] = s]]
    BY DEF Alter, PagesOK
<1>2. p \in Pages => IsPage(page[p])
    BY DEF PagesOK
<1> QED BY <1>1, <1>2, PageUpdate, SamePage

LEMMA SameWrite ==
    ASSUME PagesOK, NEW p, p \in Pages => ~Is(p, "UNINITIALIZED"), NEW i, NEW e, Write(p, i, e)
    PROVE  Same
<1>1. page' = [page EXCEPT ![p] = [page[p] EXCEPT !.ent[i] = e]]
    BY DEF Write, PagesOK
<1>2. p \in Pages => IsPage(page[p])
    BY DEF PagesOK
<1> QED BY <1>1, <1>2, PageUpdate, SamePage

LEMMA SameEntries ==
    ASSUME PagesOK, NEW p, p \in Pages => ~Is(p, "UNINITIALIZED"), NEW f,
           page' = [page EXCEPT ![p].ent = f]
    PROVE  Same
<1>1. page' = [page EXCEPT ![p] = [page[p] EXCEPT !.ent = f]]
    BY DEF PagesOK
<1>2. p \in Pages => IsPage(page[p])
    BY DEF PagesOK
<1> QED BY <1>1, <1>2, PageUpdate, SamePage

LEMMA SameBoth ==
    ASSUME PagesOK, NEW p, p \in Pages => ~Is(p, "UNINITIALIZED"), NEW f, NEW e,
           page' = [page EXCEPT ![p].tab = f, ![p].ent = e]
    PROVE  Same
<1> DEFINE h == [[page[p] EXCEPT !.tab = f] EXCEPT !.ent = e]
<1>1. page' = [page EXCEPT ![p] = h]
    BY DEF PagesOK
<1>2. p \in Pages => IsPage(page[p])
    BY DEF PagesOK
<1>3. p \in Pages => IsPage(h) /\ h.state = page[p].state /\ h.seq = page[p].seq
    <2> DEFINE g == [page[p] EXCEPT !.tab = f]
    <2>1. p \in Pages => IsPage(g) /\ g.state = page[p].state /\ g.seq = page[p].seq
        BY <1>2, PageUpdate
    <2>2. IsPage(g) => LET k == [g EXCEPT !.ent = e]
                       IN  IsPage(k) /\ k.state = g.state /\ k.seq = g.seq
        <3> HIDE DEF g
        <3> QED BY PageUpdate
    <2> HIDE DEF g
    <2>3. h = [g EXCEPT !.ent = e]
        BY DEF g
    <2> HIDE DEF h
    <2> QED BY <2>1, <2>2, <2>3
<1> HIDE DEF h
<1> QED BY <1>1, <1>3, SamePage

LEMMA SameAlterRange ==
    ASSUME PagesOK, NEW p, p \in Pages => ~Is(p, "UNINITIALIZED"),
           NEW S, NEW s, NEW from, NEW to, AlterRange(p, S, s, from, to)
    PROVE  Same
<1>1. \E f, e : page' = [page EXCEPT ![p].tab = f, ![p].ent = e]
    BY Zenon DEF AlterRange
<1> QED BY <1>1, SameBoth

-----------------------------------------------------------------------------
(* Sequences of pages.                                                     *)

LEMMA OnIs ==
    ASSUME NEW s \in Seq(Pages)
    PROVE  /\ Len(s) \in Nat /\ On(s) \subseteq Pages
           /\ \A n \in 1 .. Len(s) : s[n] \in On(s) /\ s[n] \in Pages
           /\ \A p \in On(s) : \E n \in 1 .. Len(s) : s[n] = p
           /\ s # <<>> => Len(s) > 0 /\ s[Len(s)] \in On(s) /\ Head(s) \in On(s)
<1>1. Len(s) \in Nat /\ \A n \in 1 .. Len(s) : s[n] \in Pages
    OBVIOUS
<1>2. s # <<>> => Len(s) > 0 /\ Head(s) = s[1]
    OBVIOUS
<1> QED BY <1>1, <1>2 DEF On

LEMMA AppendIs ==
    ASSUME NEW s \in Seq(Pages), NEW p \in Pages
    PROVE  /\ Append(s, p) \in Seq(Pages) /\ Len(Append(s, p)) = Len(s) + 1
           /\ Append(s, p)[Len(s) + 1] = p
           /\ \A n \in 1 .. Len(s) : Append(s, p)[n] = s[n]
           /\ On(Append(s, p)) = On(s) \cup {p}
           /\ Distinct(s) /\ p \notin On(s) => Distinct(Append(s, p))
<1> DEFINE t == Append(s, p)
<1>1. /\ t \in Seq(Pages) /\ Len(t) = Len(s) + 1 /\ Len(s) \in Nat
      /\ t[Len(s) + 1] = p
      /\ \A n \in 1 .. Len(s) : t[n] = s[n]
    OBVIOUS
<1> HIDE DEF t
<1>2. \A n \in 1 .. Len(t) : n = Len(s) + 1 \/ n \in 1 .. Len(s)
    BY <1>1
<1>3. On(t) = On(s) \cup {p}
    BY <1>1, <1>2 DEF On
<1>4. Distinct(s) /\ p \notin On(s) => Distinct(t)
    BY <1>1, <1>2 DEF On, Distinct
<1> QED BY <1>1, <1>3, <1>4 DEF t

LEMMA TailIs ==
    ASSUME NEW s \in Seq(Pages), s # <<>>
    PROVE  /\ Tail(s) \in Seq(Pages) /\ Len(Tail(s)) = Len(s) - 1
           /\ Head(s) \in Pages
           /\ On(s) = On(Tail(s)) \cup {Head(s)}
           /\ Distinct(s) => Distinct(Tail(s)) /\ Head(s) \notin On(Tail(s))
<1> DEFINE t == Tail(s)
<1>1. /\ t \in Seq(Pages) /\ Len(t) = Len(s) - 1 /\ Len(s) \in Nat \ {0}
      /\ Head(s) = s[1] /\ s[1] \in Pages
      /\ \A n \in 1 .. Len(t) : t[n] = s[n+1]
    OBVIOUS
<1> HIDE DEF t
<1>2. On(s) = On(t) \cup {s[1]}
    <2>1. \A n \in 1 .. Len(s) : n = 1 \/ (n-1 \in 1 .. Len(t) /\ t[n-1] = s[n])
        BY <1>1
    <2>2. \A n \in 1 .. Len(t) : n+1 \in 1 .. Len(s)
        BY <1>1
    <2>3. ASSUME NEW p \in On(s) PROVE p \in On(t) \cup {s[1]}
        BY <2>1 DEF On
    <2>4. On(t) \subseteq On(s) /\ s[1] \in On(s)
        BY <1>1, <2>2 DEF On
    <2> QED BY <2>3, <2>4
<1>3. ASSUME Distinct(s) PROVE Distinct(t) /\ s[1] \notin On(t)
    <2>1. \A n \in 1 .. Len(t) : n+1 \in 1 .. Len(s) /\ n+1 # 1 /\ 1 \in 1 .. Len(s)
        BY <1>1
    <2>2. \A m, n \in 1 .. Len(t) : m # n => m+1 # n+1
        BY <1>1
    <2> QED BY <1>1, <1>3, <2>1, <2>2 DEF Distinct, On
<1> QED BY <1>1, <1>2, <1>3 DEF t

LEMMA WithoutIs ==
    ASSUME NEW s \in Seq(Pages), NEW k \in 1 .. Len(s)
    PROVE  /\ Without(s, k) \in Seq(Pages) /\ Len(Without(s, k)) = Len(s) - 1
           /\ \A n \in 1 .. Len(s)-1 : Without(s, k)[n] = IF n < k THEN s[n] ELSE s[n+1]
           /\ Distinct(s) => /\ Distinct(Without(s, k))
                             /\ On(Without(s, k)) = On(s) \ {s[k]}
<1> DEFINE a == SubSeq(s, 1, k-1)
           b == SubSeq(s, k+1, Len(s))
           t == Without(s, k)
           len == Len(s)
<1>1. len \in Nat /\ k \in 1 .. len /\ \A n \in 1 .. len : s[n] \in Pages
    OBVIOUS
<1>2. a \in Seq(Pages) /\ Len(a) = k - 1 /\ \A n \in 1 .. k-1 : a[n] = s[n]
    OBVIOUS
<1>3. b \in Seq(Pages) /\ Len(b) = len - k /\ \A n \in 1 .. len - k : b[n] = s[k + n]
    OBVIOUS
<1>4. t = a \o b
    BY DEF Without
<1> HIDE DEF a, b, t, len
<1>5. t \in Seq(Pages) /\ Len(t) = len - 1
    BY <1>1, <1>2, <1>3, <1>4
<1>6. \A n \in 1 .. len-1 : t[n] = IF n < k THEN s[n] ELSE s[n+1]
    <2> TAKE n \in 1 .. len-1
    <2>1. CASE n < k
        BY <1>1, <1>2, <1>3, <1>4, <2>1
    <2>2. CASE ~(n < k)
        <3>1. t[n] = b[n - Len(a)]
            BY <1>1, <1>2, <1>3, <1>4, <2>2
        <3>2. n - Len(a) \in 1 .. len - k /\ k + (n - Len(a)) = n + 1
            BY <1>1, <1>2, <2>2
        <3> QED BY <1>3, <2>2, <3>1, <3>2
    <2> QED BY <2>1, <2>2
<1>7. ASSUME Distinct(s) PROVE Distinct(t) /\ On(t) = On(s) \ {s[k]}
    <2> DEFINE f(n) == IF n < k THEN n ELSE n + 1
    <2>1. \A n \in 1 .. len-1 : f(n) \in 1 .. len /\ f(n) # k /\ t[n] = s[f(n)]
        BY <1>1, <1>6
    <2>2. \A m, n \in 1 .. len-1 : m # n => f(m) # f(n)
        BY <1>1
    <2>3. \A n \in 1 .. len : n # k => \E m \in 1 .. len-1 : n = f(m)
        <3> TAKE n \in 1 .. len
        <3> HAVE n # k
        <3>1. CASE n < k
            <4>1. n \in 1 .. len-1 /\ n = f(n)
                BY <1>1, <3>1
            <4> QED BY <4>1
        <3>2. CASE n > k
            <4>1. n-1 \in 1 .. len-1 /\ n = f(n-1)
                BY <1>1, <3>2
            <4> QED BY <4>1
        <3> QED BY <1>1, <3>1, <3>2
    <2> HIDE DEF f
    <2>4. \A m, n \in 1 .. len : m # n => s[m] # s[n]
        BY <1>7 DEF Distinct, len
    <2>5. Distinct(t)
        BY <1>5, <2>1, <2>2, <2>4 DEF Distinct
    <2>6. On(t) = {t[n] : n \in 1 .. len-1} /\ On(s) = {s[n] : n \in 1 .. len}
        BY <1>5 DEF On, len
    <2>7. On(t) \subseteq On(s) \ {s[k]}
        BY <1>1, <2>1, <2>4, <2>6
    <2>8. ASSUME NEW p \in On(s), p # s[k] PROVE p \in On(t)
        <3>1. PICK n \in 1 .. len : p = s[n] /\ n # k
            BY <2>6, <2>8
        <3>2. PICK m \in 1 .. len-1 : n = f(m)
            BY <2>3, <3>1
        <3> QED BY <2>1, <2>6, <3>1, <3>2
    <2> QED BY <2>5, <2>7, <2>8
<1> QED BY <1>5, <1>6, <1>7 DEF t, len

-----------------------------------------------------------------------------
(* What steps do to the lists.                                             *)

LEMMA FlashKept ==
    ASSUME FlashInv, Same
    PROVE  FlashInv'
<1>1. \A p \in Pages : HasSeq(p)' <=> HasSeq(p)
    BY DEF Same, HasSeq
<1>2. \A p \in Pages, s \in PageStates : Is(p, s)' <=> Is(p, s)
    BY DEF Same, Is
<1> QED BY <1>1, <1>2 DEF FlashInv, Same, PageStates

LEMMA ListKept ==
    ASSUME Shape, ListOK, Same, UNCHANGED <<list, free, nextSeq>>
    PROVE  ListOK'
<1>1. \A p \in Pages : HasSeq(p)' <=> HasSeq(p)
    BY DEF Same, HasSeq
<1>2. \A p \in Pages : Is(p, "UNINITIALIZED")' <=> Is(p, "UNINITIALIZED")
    BY DEF Same, Is
<1>3. \A p \in Pages : Is(p, "ACTIVE")' <=> Is(p, "ACTIVE")
    BY DEF Same, Is
<1>4. /\ On(list) \subseteq Pages /\ On(free) \subseteq Pages
      /\ \A n \in 1 .. Len(list) : list[n] \in Pages
      /\ list # <<>> => Current \in Pages
    BY OnIs DEF Shape, Current
<1>5. Current' = Current
    BY DEF Current
<1>6. \A p \in Pages : page'[p].seq = page[p].seq
    BY DEF Same
<1> QED BY <1>1, <1>2, <1>3, <1>4, <1>5, <1>6 DEF ListOK

\* When the last page has a number, no other page is active.
LEMMA ActiveIsLast ==
    ASSUME Shape, FlashInv, ListOK, list # <<>>, HasSeq(Current),
           NEW p \in Pages, Is(p, "ACTIVE")
    PROVE  p = Current
<1>1. p \in On(list)
    BY DEF ListOK, Is, HasSeq
<1>2. PICK m \in 1 .. Len(list) : p = list[m]
    BY <1>1 DEF On
<1>3. Len(list) \in Nat /\ Current = list[Len(list)] /\ Current \in Pages
    BY OnIs DEF Shape, Current
<1>4. SUFFICES ASSUME m < Len(list), p # Current PROVE FALSE
    BY <1>2, <1>3
<1>5. Len(list) \in 1 .. Len(list)
    BY <1>2, <1>3
<1>6. page[p].seq < page[Current].seq
    BY <1>2, <1>3, <1>4, <1>5 DEF ListOK
<1>7. page[Current].seq < page[p].seq
    BY <1>3, <1>4 DEF FlashInv
<1>8. page[p].seq \in Int /\ page[Current].seq \in Int
    BY <1>3 DEF Shape, PagesOK, IsPage
<1> QED BY <1>6, <1>7, <1>8

\* PageManager::activatePage().
LEMMA ActivateIs ==
    ASSUME Shape, FlashInv, ListOK, free # <<>>, ~Is(Head(free), "CORRUPT"),
           list # <<>> => HasSeq(Current), \A p \in Pages : ~Is(p, "ACTIVE"),
           Activate, UNCHANGED page
    PROVE  /\ ListOK' /\ list' \in Seq(Pages) /\ free' \in Seq(Pages)
           /\ nextSeq' \in 0 .. MaxSeq+1
           /\ list' # <<>> /\ Is(Current, "UNINITIALIZED")' /\ Current' \in Pages
           /\ On(list) \subseteq On(list')
           /\ Len(free') = Len(free) - 1
<1>0. PICK h : h = Head(free)
    OBVIOUS
<1>1. /\ list' = Append(list, h) /\ free' = Tail(free) /\ nextSeq' = nextSeq + 1
      /\ nextSeq \in 0 .. MaxSeq /\ page' = page
    BY <1>0 DEF Activate, Shape
<1>2. /\ list \in Seq(Pages) /\ free \in Seq(Pages) /\ h \in On(free) /\ h \in Pages
      /\ Len(list) \in Nat /\ Len(free) \in Nat
    BY <1>0, OnIs, TailIs DEF Shape
<1>3. h \notin On(list) /\ ~HasSeq(h) /\ Is(h, "UNINITIALIZED")
    <2>1. h \notin On(list) /\ ~HasSeq(h)
        BY <1>2 DEF ListOK
    <2>2. page[h].state \in PageStates /\ page[h].state # "CORRUPT"
        BY <1>0, <1>2 DEF Shape, PagesOK, IsPage, Is
    <2> QED BY <2>1, <2>2 DEF HasSeq, Is, PageStates
<1>4. /\ list' \in Seq(Pages) /\ Len(list') = Len(list) + 1
      /\ list'[Len(list) + 1] = h
      /\ \A n \in 1 .. Len(list) : list'[n] = list[n]
      /\ On(list') = On(list) \cup {h}
      /\ Distinct(list')
    BY <1>1, <1>2, <1>3, AppendIs DEF ListOK
<1>5. /\ free' \in Seq(Pages) /\ Len(free') = Len(free) - 1
      /\ On(free) = On(free') \cup {h}
      /\ Distinct(free') /\ h \notin On(free')
    BY <1>1, <1>2, <1>0, TailIs DEF ListOK
<1>6. Current' = h /\ list' # <<>>
    BY <1>1, <1>2, <1>4 DEF Current
<1>7. \A p \in Pages : (HasSeq(p)' <=> HasSeq(p)) /\ (Is(p, "ACTIVE")' <=> Is(p, "ACTIVE"))
    BY <1>1 DEF HasSeq, Is
<1>8. Is(h, "UNINITIALIZED")' /\ ~HasSeq(h)'
    BY <1>1, <1>3 DEF HasSeq, Is
<1>9. /\ On(list') \cup On(free') = Pages /\ On(list') \cap On(free') = {}
      /\ \A p \in On(free') : ~HasSeq(p)'
    <2>1. On(free') \subseteq Pages
        BY <1>5, OnIs
    <2> QED BY <1>3, <1>4, <1>5, <1>7, <2>1 DEF ListOK
<1>10. \A n \in 1 .. Len(list) : list[n] \in Pages /\ HasSeq(list[n])
    BY <1>2, OnIs DEF ListOK, Current
<1>11. \A n \in 1 .. Len(list') : n < Len(list') => HasSeq(list[n])'
    BY <1>2, <1>4, <1>7, <1>10
<1>12. \A m, n \in 1 .. Len(list') : m < n /\ HasSeq(list[n])' => page'[list'[m]].seq < page'[list'[n]].seq
    <2> SUFFICES ASSUME NEW m \in 1 .. Len(list'), NEW n \in 1 .. Len(list'), m < n, HasSeq(list[n])'
                 PROVE  page'[list'[m]].seq < page'[list'[n]].seq
        OBVIOUS
    <2>1. n # Len(list) + 1
        BY <1>4, <1>8
    <2>2. n \in 1 .. Len(list) /\ m \in 1 .. Len(list)
        BY <1>2, <1>4, <2>1
    <2> QED BY <1>1, <1>4, <1>10, <2>2 DEF ListOK
<1>13. \A p \in On(list') : HasSeq(p)' => page'[p].seq < nextSeq
    <2> SUFFICES ASSUME NEW p \in On(list'), HasSeq(p)' PROVE page'[p].seq < nextSeq
        OBVIOUS
    <2>1. p \in On(list) /\ p \in Pages
        BY <1>2, <1>4, <1>8, OnIs
    <2> QED BY <1>1, <1>7, <2>1 DEF ListOK
<1>14. \A p \in On(list') : page'[p].seq \in Nat
    <2>1. On(list') \subseteq Pages
        BY <1>4, OnIs
    <2> QED BY <1>1, <2>1 DEF Shape, PagesOK, IsPage
<1>15. /\ nextSeq' > 0 /\ nextSeq' - 1 = nextSeq
       /\ \A p \in On(list') : HasSeq(p)' => page'[p].seq < nextSeq'
    BY <1>1, <1>13, <1>14
<1>16. ListOK'
    BY <1>4, <1>5, <1>6, <1>7, <1>8, <1>9, <1>11, <1>12, <1>13, <1>15 DEF ListOK
<1>17. nextSeq' \in 0 .. MaxSeq+1
    BY <1>1, NvsAssumption
<1> QED BY <1>2, <1>4, <1>5, <1>6, <1>8, <1>16, <1>17

-----------------------------------------------------------------------------
(* The steps of a call and of load() that do not touch the headers.        *)

JobFor(j, k, v, w, f) == j.k = k /\ j.v = v /\ j.was = w /\ j.from = f
PlaceFor(a, p, i, e) == a.p = p /\ a.i = i /\ a.end = e

LEMMA JobIs ==
    /\ IsJob(NoJob) /\ NoJob.from = NoPage /\ NoJob.k = NoValue
    /\ JobFor(NoJob, NoValue, NoValue, NoPage, NoPage)
    /\ IsPlace(NoPlace) /\ PlaceFor(NoPlace, NoPage, 0, 0)
    /\ NoPage \notin Pages
    /\ \A k, v, o, w : w \in Pages \cup {NoPage} =>
          /\ IsJob([NoJob EXCEPT !.k = k, !.v = v, !.old = o, !.was = w])
          /\ JobFor([NoJob EXCEPT !.k = k, !.v = v, !.old = o, !.was = w], k, v, w, NoPage)
          /\ IsJob([NoJob EXCEPT !.k = k, !.old = o, !.was = w])
          /\ JobFor([NoJob EXCEPT !.k = k, !.old = o, !.was = w], k, NoValue, w, NoPage)
    /\ \A p \in Pages : /\ IsJob([NoJob EXCEPT !.from = p]) /\ [NoJob EXCEPT !.from = p].from = p
                       /\ JobFor([NoJob EXCEPT !.from = p], NoValue, NoValue, NoPage, p)
    /\ \A p, i, e : IsPlace([p |-> p, i |-> i, end |-> e]) /\ PlaceFor([p |-> p, i |-> i, end |-> e], p, i, e)
    /\ \A p, i : LET a == [NoPlace EXCEPT !.p = p, !.i = i] IN IsPlace(a) /\ a.p = p /\ PlaceFor(a, p, i, 0)
<1>1. NoPage \notin Pages
    BY NvsAssumption DEF NoPage, Pages
<1>2. IsJob(NoJob) /\ NoJob.from = NoPage /\ NoJob.k = NoValue
    BY DEF IsJob, NoJob
<1>11. JobFor(NoJob, NoValue, NoValue, NoPage, NoPage)
    BY DEF JobFor, NoJob
<1>3. \A p, i, e : IsPlace([p |-> p, i |-> i, end |-> e]) /\ PlaceFor([p |-> p, i |-> i, end |-> e], p, i, e)
    BY DEF IsPlace, PlaceFor
<1>4. IsPlace(NoPlace) /\ PlaceFor(NoPlace, NoPage, 0, 0)
    BY DEF IsPlace, NoPlace, PlaceFor
<1>5. \A p, i : [NoPlace EXCEPT !.p = p, !.i = i] = [p |-> p, i |-> i, end |-> 0]
    <2> TAKE p, i
    <2>1. [NoPlace EXCEPT !.p = p] = [p |-> p, i |-> 0, end |-> 0]
        BY DEF NoPlace
    <2>2. [[p |-> p, i |-> 0, end |-> 0] EXCEPT !.i = i] = [p |-> p, i |-> i, end |-> 0]
        OBVIOUS
    <2>3. [NoPlace EXCEPT !.p = p, !.i = i] = [[NoPlace EXCEPT !.p = p] EXCEPT !.i = i]
        OBVIOUS
    <2> QED BY <2>1, <2>2, <2>3, Zenon
<1> DEFINE J(k, v, o, w, f) == [k |-> k, v |-> v, old |-> o, was |-> w, from |-> f, used |-> 0]
<1>6. \A k, v, o : \A w, f \in Pages \cup {NoPage} : IsJob(J(k, v, o, w, f)) /\ J(k, v, o, w, f).from = f /\ JobFor(J(k, v, o, w, f), k, v, w, f)
    BY DEF IsJob, JobFor
<1>7. NoJob = J(NoValue, NoValue, NoValue, NoPage, NoPage)
    BY DEF NoJob
<1> HIDE DEF J
<1>8. ASSUME NEW p, NEW i
      PROVE  LET a == [NoPlace EXCEPT !.p = p, !.i = i] IN IsPlace(a) /\ a.p = p /\ PlaceFor(a, p, i, 0)
    <2> DEFINE b == [p |-> p, i |-> i, end |-> 0]
    <2>1. IsPlace(b) /\ b.p = p /\ PlaceFor(b, p, i, 0)
        BY <1>3
    <2> HIDE DEF b
    <2>2. [NoPlace EXCEPT !.p = p, !.i = i] = b
        BY <1>5 DEF b
    <2> QED BY <2>1, <2>2
<1>9. \A k, v, o, w : w \in Pages \cup {NoPage} =>
          /\ IsJob([NoJob EXCEPT !.k = k, !.v = v, !.old = o, !.was = w])
          /\ JobFor([NoJob EXCEPT !.k = k, !.v = v, !.old = o, !.was = w], k, v, w, NoPage)
          /\ IsJob([NoJob EXCEPT !.k = k, !.old = o, !.was = w])
          /\ JobFor([NoJob EXCEPT !.k = k, !.old = o, !.was = w], k, NoValue, w, NoPage)
    <2> TAKE k, v, o, w
    <2> HAVE w \in Pages \cup {NoPage}
    <2>1. /\ IsJob(J(k, v, o, w, NoPage)) /\ IsJob(J(k, NoValue, o, w, NoPage))
          /\ JobFor(J(k, v, o, w, NoPage), k, v, w, NoPage) /\ JobFor(J(k, NoValue, o, w, NoPage), k, NoValue, w, NoPage)
        BY <1>6
    <2>2. J(k, v, o, w, NoPage) = [NoJob EXCEPT !.k = k, !.v = v, !.old = o, !.was = w]
        <3>1. [J(NoValue, NoValue, NoValue, NoPage, NoPage) EXCEPT !.k = k] = J(k, NoValue, NoValue, NoPage, NoPage)
            BY DEF J
        <3>2. [J(k, NoValue, NoValue, NoPage, NoPage) EXCEPT !.v = v] = J(k, v, NoValue, NoPage, NoPage)
            BY DEF J
        <3>3. [J(k, v, NoValue, NoPage, NoPage) EXCEPT !.old = o] = J(k, v, o, NoPage, NoPage)
            BY DEF J
        <3>4. [J(k, v, o, NoPage, NoPage) EXCEPT !.was = w] = J(k, v, o, w, NoPage)
            BY DEF J
        <3>5. [NoJob EXCEPT !.k = k, !.v = v, !.old = o, !.was = w]
                = [[[[NoJob EXCEPT !.k = k] EXCEPT !.v = v] EXCEPT !.old = o] EXCEPT !.was = w]
            OBVIOUS
        <3> QED BY <1>7, <3>1, <3>2, <3>3, <3>4, <3>5, Zenon
    <2>3. J(k, NoValue, o, w, NoPage) = [NoJob EXCEPT !.k = k, !.old = o, !.was = w]
        <3>1. [J(NoValue, NoValue, NoValue, NoPage, NoPage) EXCEPT !.k = k] = J(k, NoValue, NoValue, NoPage, NoPage)
            BY DEF J
        <3>2. [J(k, NoValue, NoValue, NoPage, NoPage) EXCEPT !.old = o] = J(k, NoValue, o, NoPage, NoPage)
            BY DEF J
        <3>3. [J(k, NoValue, o, NoPage, NoPage) EXCEPT !.was = w] = J(k, NoValue, o, w, NoPage)
            BY DEF J
        <3>4. [NoJob EXCEPT !.k = k, !.old = o, !.was = w]
                = [[[NoJob EXCEPT !.k = k] EXCEPT !.old = o] EXCEPT !.was = w]
            OBVIOUS
        <3> QED BY <1>7, <3>1, <3>2, <3>3, <3>4, Zenon
    <2> QED BY <2>1, <2>2, <2>3, Zenon
<1>10. \A p \in Pages : /\ IsJob([NoJob EXCEPT !.from = p]) /\ [NoJob EXCEPT !.from = p].from = p
                       /\ JobFor([NoJob EXCEPT !.from = p], NoValue, NoValue, NoPage, p)
    <2> TAKE p \in Pages
    <2> DEFINE j == J(NoValue, NoValue, NoValue, NoPage, p)
    <2>1. IsJob(j) /\ j.from = p /\ JobFor(j, NoValue, NoValue, NoPage, p)
        BY <1>6
    <2>2. [NoJob EXCEPT !.from = p] = j
        BY <1>7 DEF J
    <2> HIDE DEF j
    <2> QED BY <2>1, <2>2
<1> QED BY <1>1, <1>2, <1>11, <1>3, <1>4, <1>8, <1>9, <1>10

LEMMA PlaceUpdate ==
    ASSUME NEW a, IsPlace(a), NEW i, NEW e
    PROVE  /\ IsPlace([a EXCEPT !.i = i]) /\ [a EXCEPT !.i = i].p = a.p
           /\ PlaceFor([a EXCEPT !.i = i], a.p, i, a.end)
           /\ IsPlace([a EXCEPT !.end = e]) /\ [a EXCEPT !.end = e].p = a.p
           /\ PlaceFor([a EXCEPT !.end = e], a.p, a.i, e)
<1> DEFINE A(x, y) == [p |-> a.p, i |-> x, end |-> y]
<1>1. a = A(a.i, a.end)
    BY DEF IsPlace
<1>2. \A x, y : IsPlace(A(x, y)) /\ A(x, y).p = a.p /\ PlaceFor(A(x, y), a.p, x, y)
    BY DEF IsPlace, PlaceFor
<1>3. /\ [A(a.i, a.end) EXCEPT !.i = i] = A(i, a.end)
      /\ [A(a.i, a.end) EXCEPT !.end = e] = A(a.i, e)
    OBVIOUS
<1> HIDE DEF A
<1>4. [a EXCEPT !.i = i] = A(i, a.end) /\ [a EXCEPT !.end = e] = A(a.i, e)
    BY <1>1, <1>3, Zenon
<1> QED BY <1>2, <1>4

Moved(a, i, e) == [a EXCEPT !.i = i, !.end = e]

LEMMA MovedIs ==
    ASSUME NEW a, IsPlace(a), NEW i, NEW e
    PROVE  IsPlace(Moved(a, i, e)) /\ Moved(a, i, e).p = a.p /\ PlaceFor(Moved(a, i, e), a.p, i, e)
<1> DEFINE b == [a EXCEPT !.i = i]
<1>0. IsPlace(b) /\ b.p = a.p /\ PlaceFor(b, a.p, i, a.end)
    BY PlaceUpdate, Zenon
<1> HIDE DEF b
<1>1. IsPlace(b) /\ b.p = a.p /\ b.i = i
    BY <1>0 DEF PlaceFor
<1>2. IsPlace([b EXCEPT !.end = e]) /\ [b EXCEPT !.end = e].p = b.p /\ PlaceFor([b EXCEPT !.end = e], b.p, b.i, e)
    BY <1>1, PlaceUpdate
<1>3. Moved(a, i, e) = [b EXCEPT !.end = e]
    BY DEF Moved, b
<1> QED BY <1>1, <1>2, <1>3

Assigned(j, p, u) == [j EXCEPT !.from = p, !.used = u]

LEMMA JobUpdate ==
    ASSUME NEW j, IsJob(j), NEW p \in Pages \cup {NoPage}, NEW u
    PROVE  /\ IsJob([j EXCEPT !.from = p]) /\ [j EXCEPT !.from = p].from = p
           /\ JobFor([j EXCEPT !.from = p], j.k, j.v, j.was, p)
           /\ IsJob(Assigned(j, p, u)) /\ Assigned(j, p, u).from = p
           /\ JobFor(Assigned(j, p, u), j.k, j.v, j.was, p)
<1> DEFINE J(x, y) == [k |-> j.k, v |-> j.v, old |-> j.old, was |-> j.was, from |-> x, used |-> y]
<1>1. j = J(j.from, j.used)
    BY DEF IsJob
<1>2. \A y : IsJob(J(p, y)) /\ J(p, y).from = p /\ JobFor(J(p, y), j.k, j.v, j.was, p)
    BY DEF IsJob, JobFor
<1>3. /\ [J(j.from, j.used) EXCEPT !.from = p] = J(p, j.used)
      /\ [J(p, j.used) EXCEPT !.used = u] = J(p, u)
    OBVIOUS
<1> HIDE DEF J
<1>4. [j EXCEPT !.from = p, !.used = u] = [[j EXCEPT !.from = p] EXCEPT !.used = u]
    OBVIOUS
<1>5. [j EXCEPT !.from = p] = J(p, j.used) /\ [j EXCEPT !.from = p, !.used = u] = J(p, u)
    BY <1>1, <1>3, <1>4, Zenon
<1> QED BY <1>2, <1>5 DEF Assigned

LEMMA FindPageIs ==
    ASSUME Shape, NEW k
    PROVE  /\ FindPage(k) \in Pages \cup {NoPage}
           /\ FindPage(k) \in Pages => HasSeq(FindPage(k))
<1>1. CASE Holding(k) = {}
    BY <1>1, JobIs DEF FindPage
<1>2. CASE Holding(k) # {}
    <2>1. Holding(k) \subseteq 1 .. Len(list) /\ Len(list) \in Nat
        BY OnIs DEF Holding, Shape
    <2>2. Lowest(Holding(k)) \in Holding(k)
        BY <1>2, <2>1, LowestIs
    <2>3. FindPage(k) = list[Lowest(Holding(k))]
        BY <1>2 DEF FindPage
    <2>4. list[Lowest(Holding(k))] \in Pages
        BY <2>1, <2>2, OnIs DEF Shape
    <2>5. ItemsOf(list[Lowest(Holding(k))], k) # {}
        BY <2>2 DEF Holding
    <2>6. HasSeq(list[Lowest(Holding(k))])
        BY <2>5 DEF ItemsOf, Items
    <2> QED BY <2>3, <2>4, <2>6
<1> QED BY <1>1, <1>2

LEMMA SameStep ==
    ASSUME PageInvs, Same, UNCHANGED <<list, free, nextSeq>>,
           pc' \in Pcs, IsJob(job'), IsPlace(at'), cuts' \in 0 .. MaxCuts,
           pc \in LoadPcs <=> pc' \in LoadPcs, pc = "ld_first" <=> pc' = "ld_first"
    PROVE  /\ Shape' /\ FlashInv' /\ ListInv'
           /\ Current' = Current
           /\ pc \notin LoadPcs \cup {"ld_first"} => Current \in Pages
           /\ \A p \in Pages : (HasSeq(p)' <=> HasSeq(p)) /\ page'[p].state = page[p].state
<1>1. FlashInv'
    BY FlashKept DEF PageInvs
<1>2. Shape'
    BY DEF PageInvs, Shape, Same
<1>3. CASE pc \in LoadPcs
    <2>1. ListInv'
        BY <1>3 DEF PageInvs, ListInv
    <2> QED BY <1>1, <1>2, <1>3, <2>1 DEF Current, Same, HasSeq
<1>4. CASE pc \notin LoadPcs
    <2>1. ListOK'
        BY <1>4, ListKept DEF PageInvs, ListInv
    <2>2. ListInv'
        BY <1>4, <2>1 DEF PageInvs, ListInv
    <2>3. pc # "ld_first" => Current \in Pages
        BY <1>4, OnIs DEF PageInvs, ListInv, Shape, Current
    <2> QED BY <1>1, <1>2, <2>2, <2>3 DEF Current, Same, HasSeq
<1> QED BY <1>3, <1>4

LEMMA SetStep ==
    ASSUME PageInvs, NEW k \in Keys, NEW v, Set(k, v)
    PROVE  PageInvs'
<1>1. Same
    BY SameUnchanged DEF PageInvs, Shape, Set
<1>2. IsJob(job')
    BY JobIs, FindPageIs DEF PageInvs, Set
<1>3. pc = "idle" /\ pc' \in {"w_init", "w_item", "request", "w_full"}
    BY DEF Set, ToWrite
<1>4. /\ Shape' /\ FlashInv' /\ ListInv'
      /\ Current' = Current
      /\ Current \in Pages
      /\ \A p \in Pages : (HasSeq(p)' <=> HasSeq(p)) /\ page'[p].state = page[p].state
    BY <1>1, <1>2, <1>3, SameStep DEF Set, PageInvs, Shape, Pcs, LoadPcs
<1>5. Is(Current, "UNINITIALIZED") => Fits(Current, k)
    <2> SUFFICES ASSUME Is(Current, "UNINITIALIZED") PROVE Fits(Current, k)
        OBVIOUS
    <2>1. page[Current] = ErasedPage
        BY <1>4 DEF PageInvs, FlashInv
    <2>2. With(Current, "EMPTY") = Idx /\ page[Current].state # "FULL"
        BY <2>1 DEF With, ErasedPage
    <2>3. Span[k] \in 1 .. N /\ N \in Nat
        BY NvsAssumption
    <2> QED BY <2>2, <2>3 DEF Fits, NextFree
<1>6. page[Current].state \in {"ACTIVE", "FULL", "UNINITIALIZED"}
    BY <1>3, <1>4 DEF PageInvs, ListInv, ListOK, StageInv, FreeingPcs, LoadPcs, MovePcs, HasSeq, Is
<1>7. CASE pc' = "w_init"
    BY <1>3, <1>4, <1>7 DEF Set, ToWrite, PageInvs, StageInv, FreeingPcs, LoadPcs, MovePcs, WritePcs, Is
<1>8. CASE pc' = "w_item"
    BY <1>3, <1>4, <1>6, <1>8 DEF Set, ToWrite, Fits, PageInvs, StageInv, FreeingPcs, LoadPcs, MovePcs, WritePcs, Is
<1>9. CASE pc' = "w_full"
    <2>1. Is(Current, "ACTIVE")
        BY <1>5, <1>6, <1>9 DEF Set, ToWrite, Is
    <2> QED BY <1>3, <1>4, <1>9, <2>1 DEF Set, PageInvs, StageInv, FreeingPcs, LoadPcs, MovePcs, WritePcs, Is
<1>10. CASE pc' = "request"
    <2>1. Is(Current, "FULL")
        BY <1>10 DEF Set, ToWrite, Is
    <2>2. \A p \in Pages : ~Is(p, "ACTIVE")
        BY <1>3, <2>1, ActiveIsLast DEF PageInvs, ListInv, LoadPcs, HasSeq, Is
    <2> QED BY <1>3, <1>4, <1>10, <2>1, <2>2
            DEF Set, PageInvs, StageInv, FreeingPcs, LoadPcs, MovePcs, WritePcs, Is, HasSeq
<1> QED BY <1>3, <1>7, <1>8, <1>9, <1>10

LEMMA EraseStep ==
    ASSUME PageInvs, NEW k, Erase(k)
    PROVE  PageInvs'
<1>1. Same
    BY SameUnchanged DEF PageInvs, Shape, Erase
<1>2. IsJob(job')
    BY JobIs, FindPageIs DEF PageInvs, Erase
<1>3. pc = "idle" /\ pc' = "w_erase"
    BY DEF Erase
<1>4. /\ Shape' /\ FlashInv' /\ ListInv'
      /\ \A p \in Pages : (HasSeq(p)' <=> HasSeq(p)) /\ page'[p].state = page[p].state
    BY <1>1, <1>2, <1>3, SameStep DEF Erase, PageInvs, Shape, Pcs, LoadPcs
<1> QED BY <1>3, <1>4 DEF Erase, PageInvs, StageInv, FreeingPcs, LoadPcs, MovePcs, WritePcs, Is

\* Entries and table of the page that is written.
LEMMA WriteSteps ==
    ASSUME PageInvs, WriteEntry \/ WriteEntryState \/ WriteData \/ WriteDataState
    PROVE  PageInvs'
<1>1. pc \in {"w_item", "w_item_state", "w_data", "w_data_state"}
    BY DEF WriteEntry, WriteEntryState, WriteData, WriteDataState
<1>2. Is(Current, "ACTIVE") /\ (pc # "w_item" => at.p = Current)
    BY <1>1 DEF PageInvs, StageInv, WritePcs
<1>3. PagesOK
    BY DEF PageInvs, Shape
<1>4. Same
    <2>1. CASE WriteEntry
        BY <1>2, <1>3, <2>1, SameWrite DEF WriteEntry, Is
    <2>2. CASE WriteEntryState
        BY <1>2, <1>3, <2>2, SameAlter DEF WriteEntryState, Is
    <2>3. CASE WriteData
        BY <1>2, <1>3, <2>3, SameEntries DEF WriteData, Is
    <2>4. CASE WriteDataState
        BY <1>2, <1>3, <2>4, SameAlterRange DEF WriteDataState, Is
    <2> QED BY <2>1, <2>2, <2>3, <2>4
<1>5. pc' \in {"idle", "w_item_state", "w_data", "w_data_state", "w_erase"}
    BY <1>1 DEF WriteEntry, WriteEntryState, WriteData, WriteDataState, AfterWrite, AlterRange
<1>6. IsJob(job') /\ IsPlace(at')
    <2>1. CASE WriteEntry
        <3>1. at' = [NoPlace EXCEPT !.p = Current, !.i = NextFree(Current)] /\ job' = job
            BY <2>1 DEF WriteEntry
        <3> QED BY <3>1, JobIs DEF PageInvs, Shape
    <2>2. CASE WriteEntryState \/ WriteData \/ WriteDataState
        <3>1. UNCHANGED <<job, at>> \/ (job' = NoJob /\ at' = NoPlace)
            BY <2>2 DEF WriteEntryState, WriteData, WriteDataState, Returned
        <3> QED BY <3>1, JobIs DEF PageInvs, Shape
    <2> QED BY <2>1, <2>2
<1>7. pc' \in {"w_item_state", "w_data", "w_data_state"} => at'.p = Current
    BY <1>1, <1>2, <1>5, JobIs DEF WriteEntry, WriteEntryState, WriteData, WriteDataState, Returned
<1>8. UNCHANGED <<list, free, nextSeq, cuts>>
    BY DEF WriteEntry, WriteEntryState, WriteData, WriteDataState
<1>9. /\ Shape' /\ FlashInv' /\ ListInv'
      /\ Current' = Current
      /\ Current \in Pages
      /\ \A p \in Pages : (HasSeq(p)' <=> HasSeq(p)) /\ page'[p].state = page[p].state
    BY <1>1, <1>4, <1>5, <1>6, <1>8, SameStep DEF PageInvs, Shape, Pcs, LoadPcs
<1> QED BY <1>1, <1>2, <1>5, <1>7, <1>8, <1>9
        DEF PageInvs, StageInv, FreeingPcs, LoadPcs, MovePcs, WritePcs, Is

LEMMA EraseOldStep ==
    ASSUME PageInvs, EraseOld
    PROVE  PageInvs'
<1>1. pc = "w_erase" /\ pc' \in {"w_erase", "idle"}
    BY DEF EraseOld, AlterRange
<1>2. OldPage \in Pages => ~Is(OldPage, "UNINITIALIZED")
    BY FindPageIs DEF PageInvs, OldPage, Is, HasSeq
<1>3. Same
    BY <1>2, SameAlterRange DEF PageInvs, Shape, EraseOld
<1>4. IsJob(job') /\ IsPlace(at')
    BY JobIs DEF EraseOld, Returned, PageInvs, Shape
<1>5. /\ Shape' /\ FlashInv' /\ ListInv'
      /\ \A p \in Pages : (HasSeq(p)' <=> HasSeq(p)) /\ page'[p].state = page[p].state
    BY <1>1, <1>3, <1>4, SameStep DEF EraseOld, PageInvs, Shape, Pcs, LoadPcs
<1> QED BY <1>1, <1>5 DEF EraseOld, PageInvs, StageInv, FreeingPcs, LoadPcs, MovePcs, WritePcs, Is

LEMMA NoSpaceStep ==
    ASSUME PageInvs, NoSpace
    PROVE  PageInvs'
<1>1. Same
    BY SameUnchanged DEF PageInvs, Shape, NoSpace
<1>2. IsJob(job') /\ IsPlace(at') /\ pc = "no_space" /\ pc' = "idle"
    BY JobIs DEF NoSpace, Returned, PageInvs, Shape
<1>3. /\ Shape' /\ FlashInv' /\ ListInv'
      /\ \A p \in Pages : (HasSeq(p)' <=> HasSeq(p)) /\ page'[p].state = page[p].state
    BY <1>1, <1>2, SameStep DEF NoSpace, PageInvs, Shape, Pcs, LoadPcs
<1> QED BY <1>2, <1>3 DEF NoSpace, PageInvs, StageInv, FreeingPcs, LoadPcs, MovePcs, WritePcs, Is

\* Entries and tables of the two pages of moveItem().
LEMMA MoveSteps ==
    ASSUME PageInvs, MoveEntry \/ MoveState \/ MoveErase
    PROVE  PageInvs'
<1>1. pc \in {"mv_entry", "mv_state", "mv_erase"}
    BY DEF MoveEntry, MoveState, MoveErase
<1>2. Is(Current, "ACTIVE") /\ Is(job.from, "FREEING")
    BY <1>1 DEF PageInvs, StageInv, MovePcs
<1>3. PagesOK
    BY DEF PageInvs, Shape
<1>4. Same
    <2>1. CASE MoveEntry
        BY <1>2, <1>3, <2>1, SameWrite, SameUnchanged DEF MoveEntry, Is
    <2>2. CASE MoveState
        BY <1>2, <1>3, <2>2, SameAlter DEF MoveState, Is
    <2>3. CASE MoveErase
        BY <1>2, <1>3, <2>3, SameAlterRange DEF MoveErase, Is
    <2> QED BY <2>1, <2>2, <2>3
<1>5. pc' \in {"mv_entry", "mv_state", "mv_erase", "mv_free", "abort"}
    BY <1>1 DEF MoveEntry, MoveState, MoveErase, AlterRange
<1>6. job' = job /\ IsPlace(at')
    <2>1. IsPlace(at)
        BY DEF PageInvs, Shape
    <2>2. job' = job
        BY DEF MoveEntry, MoveState, MoveErase
    <2>3. \/ at' = at
          \/ \E e : at' = [at EXCEPT !.end = e]
          \/ \E i, e : at' = Moved(at, i, e)
        BY DEF MoveEntry, MoveState, MoveErase, Moved
    <2>4. ASSUME NEW e, at' = [at EXCEPT !.end = e] PROVE IsPlace(at')
        BY <2>1, <2>4, PlaceUpdate
    <2>5. ASSUME NEW i, NEW e, at' = Moved(at, i, e) PROVE IsPlace(at')
        BY <2>1, <2>5, MovedIs
    <2> QED BY <2>1, <2>2, <2>3, <2>4, <2>5
<1>7. UNCHANGED <<list, free, nextSeq, cuts>>
    BY DEF MoveEntry, MoveState, MoveErase
<1>8. /\ Shape' /\ FlashInv' /\ ListInv'
      /\ Current' = Current
      /\ Current \in Pages
      /\ \A p \in Pages : (HasSeq(p)' <=> HasSeq(p)) /\ page'[p].state = page[p].state
    BY <1>1, <1>4, <1>5, <1>6, <1>7, SameStep DEF PageInvs, Shape, Pcs, LoadPcs
<1>9. job.from \in On(list) /\ job.from \in Pages
    BY <1>1, OnIs DEF PageInvs, StageInv, MovePcs, Shape
<1> QED BY <1>1, <1>2, <1>5, <1>6, <1>7, <1>8, <1>9
        DEF PageInvs, StageInv, FreeingPcs, LoadPcs, MovePcs, WritePcs, Is

-----------------------------------------------------------------------------
(* The steps that write a header or erase a page.                          *)

\* The header of the last page of the list is written.
LEMMA InitializedIs ==
    ASSUME Shape, FlashInv, ListOK, list # <<>>, Is(Current, "UNINITIALIZED"),
           free # <<>> \/ \E p \in Pages : Is(p, "FREEING"),
           page' = [page EXCEPT ![Current] = Initialized(Current)],
           UNCHANGED <<list, free, nextSeq>>
    PROVE  /\ PagesOK' /\ FlashInv' /\ ListOK'
           /\ Current' = Current /\ Current \in Pages
           /\ page'[Current].state = "ACTIVE"
           /\ \A q \in Pages : q # Current => page'[q] = page[q]
<1>1. PICK c : c = Current
    OBVIOUS
<1>2. /\ c \in Pages /\ c \in On(list) /\ Len(list) \in Nat \ {0} /\ list[Len(list)] = c
      /\ Current' = c /\ list' = list /\ free' = free /\ nextSeq' = nextSeq
    BY <1>1, OnIs DEF Shape, Current
<1>3. /\ nextSeq > 0 /\ nextSeq - 1 \in 0 .. MaxSeq
      /\ \A p \in On(list) : HasSeq(p) => page[p].seq < nextSeq - 1
      /\ \A p \in Pages : ~Is(p, "ACTIVE")
    BY NvsAssumption DEF ListOK, Shape
<1>h. PICK h : h = Initialized(c)
    OBVIOUS
<1>4. IsPage(h) /\ h.state = "ACTIVE" /\ h.seq = nextSeq - 1
    <2>1. PICK g, n, s : g = page[c] /\ n = nextSeq - 1 /\ s = "ACTIVE"
        OBVIOUS
    <2>2. IsPage(g) /\ s \in PageStates /\ n \in 0 .. MaxSeq
        BY <1>2, <1>3, <2>1 DEF Shape, PagesOK, PageStates
    <2>3. h = Headed(g, s, n)
        BY <1>h, <2>1 DEF Initialized, Headed
    <2>4. IsPage(h) /\ h.state = s /\ h.seq = n
        BY <2>2, <2>3, StateUpdate
    <2> QED BY <2>1, <2>4
<1>5. PagesOK' /\ (\A q \in Pages : q # c => page'[q] = page[q]) /\ page'[c] = h
    <2>1. page' = [page EXCEPT ![c] = h] /\ PagesOK
        BY <1>1, <1>h DEF Shape
    <2>2. c \in Pages => IsPage(h)
        BY <1>4
    <2>3. /\ PagesOK'
          /\ \A q \in Pages : q # c => page'[q] = page[q]
          /\ c \in Pages => page'[c] = h
        BY <2>1, <2>2, OnePage
    <2> QED BY <1>2, <2>3
<1>6. /\ \A q \in Pages \ {c} : (HasSeq(q)' <=> HasSeq(q)) /\ page'[q].seq = page[q].seq
      /\ \A q \in Pages \ {c} : \A s : Is(q, s)' <=> Is(q, s)
      /\ HasSeq(c)' /\ Is(c, "ACTIVE")' /\ ~HasSeq(c) /\ page'[c].seq = nextSeq - 1
    BY <1>1, <1>4, <1>5 DEF HasSeq, Is
<1>7. \A q \in Pages \ {c} : HasSeq(q) => page[q].seq < nextSeq - 1
    BY <1>3 DEF ListOK
<1>8. \A q \in Pages : page[q].seq \in Nat
    BY DEF Shape, PagesOK, IsPage
<1>9. nextSeq \in Nat
    BY NvsAssumption DEF Shape
<1>10. FlashInv'
    <2>1. \A p \in Pages : Is(p, "UNINITIALIZED")' => page'[p] = ErasedPage
        BY <1>4, <1>5 DEF FlashInv, Is
    <2>2. \A p, q \in Pages : p # q /\ HasSeq(p)' /\ HasSeq(q)' => page'[p].seq # page'[q].seq
        BY <1>6, <1>7, <1>8, <1>9 DEF FlashInv
    <2>3. \A p, q \in Pages : p # q /\ Is(p, "ACTIVE")' /\ HasSeq(q)' => page'[q].seq < page'[p].seq
        BY <1>3, <1>6, <1>7, <1>8, <1>9
    <2>4. \A p, q \in Pages : Is(p, "FREEING")' /\ Is(q, "FREEING")' => p = q
        BY <1>4, <1>5 DEF FlashInv, Is
    <2>5. (\A p \in Pages : HasSeq(p)') => \E p \in Pages : Is(p, "FREEING")'
        <3>1. CASE free # <<>>
            <4>1. Head(free) \in On(free) /\ Head(free) \in Pages
                BY <3>1, OnIs DEF Shape
            <4>2. ~HasSeq(Head(free)) /\ Head(free) # c
                BY <1>2, <4>1 DEF ListOK
            <4> QED BY <1>6, <4>1, <4>2
        <3>2. CASE \E p \in Pages : Is(p, "FREEING")
            <4>1. PICK p \in Pages : Is(p, "FREEING")
                BY <3>2
            <4>2. p # c
                BY <1>1, <4>1 DEF Is
            <4> QED BY <1>6, <4>1, <4>2
        <3> QED BY <3>1, <3>2
    <2> QED BY <1>2, <1>6, <2>1, <2>2, <2>3, <2>4, <2>5 DEF FlashInv
<1>11. ListOK'
    <2>1. /\ On(list) \subseteq Pages /\ On(free) \subseteq Pages /\ c \notin On(free)
          /\ \A n \in 1 .. Len(list) : list[n] \in On(list)
        BY <1>2, OnIs DEF Shape, ListOK
    <2>2. \A p \in On(free) : ~HasSeq(p)'
        BY <1>6, <2>1 DEF ListOK
    <2>3. \A n \in 1 .. Len(list) : n < Len(list) => HasSeq(list[n]) /\ list[n] # c
        BY <1>2 DEF ListOK, Distinct
    <2>4. \A p \in On(list) : HasSeq(p)' => page'[p].seq < nextSeq
        BY <1>6, <1>9, <2>1 DEF ListOK
    <2>5. \A m, n \in 1 .. Len(list) : m < n => page'[list[m]].seq < page'[list[n]].seq
        <3> SUFFICES ASSUME NEW m \in 1 .. Len(list), NEW n \in 1 .. Len(list), m < n
                     PROVE  page'[list[m]].seq < page'[list[n]].seq
            OBVIOUS
        <3>1. list[m] \in Pages \ {c} /\ HasSeq(list[m])
            BY <1>2, <2>1, <2>3
        <3>2. CASE n = Len(list)
            BY <1>2, <1>6, <1>7, <3>1, <3>2
        <3>3. CASE n < Len(list)
            BY <1>6, <2>1, <2>3, <3>1, <3>3 DEF ListOK
        <3> QED BY <1>2, <3>2, <3>3
    <2>6. \A n \in 1 .. Len(list) : n < Len(list) => HasSeq(list[n])'
        <3> SUFFICES ASSUME NEW n \in 1 .. Len(list), n < Len(list) PROVE HasSeq(list[n])'
            OBVIOUS
        <3>1. PICK q : q = list[n]
            OBVIOUS
        <3>2. q \in Pages \ {c} /\ HasSeq(q)
            BY <2>1, <2>3, <3>1
        <3>3. HasSeq(q)'
            BY <1>6, <3>2
        <3> QED BY <1>2, <3>1, <3>3 DEF HasSeq
    <2>7. HasSeq(Current)' /\ ~Is(Current, "UNINITIALIZED")'
        BY <1>2, <1>4, <1>5 DEF HasSeq, Is
    <2>8. /\ Distinct(list') /\ Distinct(free')
          /\ On(list') \cup On(free') = Pages /\ On(list') \cap On(free') = {}
        BY <1>2 DEF ListOK
    <2>9. /\ \A p \in On(free') : ~HasSeq(p)'
          /\ \A n \in 1 .. Len(list') : n < Len(list') => HasSeq(list[n])'
          /\ \A m, n \in 1 .. Len(list') : m < n => page'[list'[m]].seq < page'[list'[n]].seq
          /\ \A p \in On(list') : HasSeq(p)' => page'[p].seq < nextSeq'
        BY <1>2, <2>2, <2>4, <2>5, <2>6
    <2> QED BY <2>7, <2>8, <2>9 DEF ListOK
<1> QED BY <1>1, <1>2, <1>4, <1>5, <1>10, <1>11

LEMMA InitSteps ==
    ASSUME PageInvs, InitPage \/ MoveInit
    PROVE  PageInvs'
<1>1. pc \in {"w_init", "mv_init"} /\ pc' = (IF pc = "w_init" THEN "w_item" ELSE "mv_entry")
    BY DEF InitPage, MoveInit
<1>2. UNCHANGED <<list, free, nextSeq, job, at, cuts>>
    BY DEF InitPage, MoveInit
<1>3. ListOK /\ list # <<>> /\ Is(Current, "UNINITIALIZED")
    BY <1>1 DEF PageInvs, ListInv, LoadPcs, StageInv
<1>4. pc = "mv_init" => job.from \in On(list) /\ job.from \in Pages /\ Is(job.from, "FREEING")
    BY OnIs DEF PageInvs, StageInv, MovePcs, Shape
<1>5. pc = "w_init" => free # <<>>
    BY DEF PageInvs, StageInv, WritePcs
<1>6. /\ PagesOK' /\ FlashInv' /\ ListOK'
      /\ Current' = Current /\ Current \in Pages
      /\ page'[Current].state = "ACTIVE"
      /\ \A q \in Pages : q # Current => page'[q] = page[q]
    BY <1>1, <1>2, <1>3, <1>4, <1>5, InitializedIs DEF PageInvs, InitPage, MoveInit
<1>7. Shape'
    BY <1>1, <1>2, <1>6 DEF PageInvs, Shape, Pcs
<1>8. ListInv'
    BY <1>1, <1>2, <1>3, <1>6 DEF ListInv, LoadPcs
<1>9. CASE pc = "w_init"
    BY <1>1, <1>2, <1>5, <1>6, <1>7, <1>8, <1>9
       DEF PageInvs, StageInv, FreeingPcs, LoadPcs, MovePcs, WritePcs, Is
<1>10. CASE pc = "mv_init"
    <2>1. job.from # Current
        BY <1>3, <1>4, <1>10 DEF Is
    <2> QED BY <1>1, <1>2, <1>4, <1>6, <1>7, <1>8, <1>10, <2>1
            DEF PageInvs, StageInv, FreeingPcs, LoadPcs, MovePcs, WritePcs, Is
<1> QED BY <1>1, <1>9, <1>10

\* Another state for a page that keeps its number.
LEMMA RestatedIs ==
    ASSUME Shape, FlashInv, ListOK, list # <<>>, NEW p \in Pages, HasSeq(p),
           NEW s \in {"FULL", "FREEING"},
           free # <<>> \/ Is(Current, "UNINITIALIZED"),
           s = "FREEING" => \A q \in Pages : ~Is(q, "FREEING"),
           page' = [page EXCEPT ![p].state = s],
           UNCHANGED <<list, free, nextSeq>>
    PROVE  /\ PagesOK' /\ FlashInv' /\ ListOK'
           /\ Current' = Current /\ Current \in Pages
           /\ page'[p].state = s
           /\ \A q \in Pages : q # p => page'[q] = page[q]
<1>1. PICK c : c = Current
    OBVIOUS
<1>2. c \in Pages /\ c \in On(list) /\ Current' = c /\ list' = list /\ free' = free /\ nextSeq' = nextSeq
    BY <1>1, OnIs DEF Shape, Current
<1>h. PICK h : h = Restated(page[p], s)
    OBVIOUS
<1>3. IsPage(h) /\ h.state = s /\ h.seq = page[p].seq
    <2>1. IsPage(page[p]) /\ s \in PageStates /\ page[p].seq \in 0 .. MaxSeq
        BY DEF Shape, PagesOK, PageStates, IsPage
    <2>2. PICK g : g = page[p]
        OBVIOUS
    <2> QED BY <1>h, <2>1, <2>2, StateUpdate
<1>4. PagesOK' /\ (\A q \in Pages : q # p => page'[q] = page[q]) /\ page'[p] = h
    <2>1. page' = [page EXCEPT ![p] = h] /\ PagesOK
        BY <1>h DEF Shape, PagesOK, Restated
    <2>2. p \in Pages => IsPage(h)
        BY <1>3
    <2>3. /\ PagesOK'
          /\ \A q \in Pages : q # p => page'[q] = page[q]
          /\ p \in Pages => page'[p] = h
        BY <2>1, <2>2, OnePage
    <2> QED BY <2>3
<1>5. /\ \A q \in Pages : (HasSeq(q)' <=> HasSeq(q)) /\ page'[q].seq = page[q].seq
      /\ \A q \in Pages : Is(q, "ACTIVE")' => Is(q, "ACTIVE")
      /\ \A q \in Pages : Is(q, "UNINITIALIZED")' <=> Is(q, "UNINITIALIZED")
    BY <1>3, <1>4 DEF HasSeq, Is
<1>6. FlashInv'
    <2>1. \A q \in Pages : Is(q, "UNINITIALIZED")' => page'[q] = ErasedPage
        BY <1>3, <1>4 DEF FlashInv, Is
    <2>2. \A q, r \in Pages : Is(q, "FREEING")' /\ Is(r, "FREEING")' => q = r
        BY <1>3, <1>4 DEF FlashInv, Is
    <2>3. ~ \A q \in Pages : HasSeq(q)
        <3>1. CASE free # <<>>
            BY <3>1, OnIs DEF Shape, ListOK
        <3>2. CASE Is(Current, "UNINITIALIZED")
            BY <1>1, <1>2, <3>2 DEF Is, HasSeq
        <3> QED BY <3>1, <3>2
    <2> QED BY <1>5, <2>1, <2>2, <2>3 DEF FlashInv
<1>7. ListOK'
    <2>1. /\ On(list) \subseteq Pages /\ On(free) \subseteq Pages
          /\ \A n \in 1 .. Len(list) : list[n] \in Pages
        BY OnIs DEF Shape
    <2> QED BY <1>1, <1>2, <1>5, <2>1 DEF ListOK
<1> QED BY <1>1, <1>2, <1>3, <1>4, <1>6, <1>7

LEMMA MarkFullStep ==
    ASSUME PageInvs, MarkFull
    PROVE  PageInvs'
<1>1. pc = "w_full" /\ pc' = "request" /\ UNCHANGED <<list, free, nextSeq, job, at, cuts>>
    BY DEF MarkFull
<1>2. ListOK /\ list # <<>> /\ Is(Current, "ACTIVE") /\ free # <<>> /\ HasSeq(Current)
    BY <1>1 DEF PageInvs, ListInv, LoadPcs, StageInv, WritePcs, HasSeq, Is
<1>3. Current \in Pages
    BY <1>2, OnIs DEF PageInvs, Shape, Current
<1>4. /\ PagesOK' /\ FlashInv' /\ ListOK'
      /\ Current' = Current
      /\ page'[Current].state = "FULL"
      /\ \A q \in Pages : q # Current => page'[q] = page[q]
    BY <1>1, <1>2, <1>3, RestatedIs DEF PageInvs, MarkFull
<1>5. \A q \in Pages : q # Current => ~Is(q, "ACTIVE")
    BY <1>2, ActiveIsLast DEF PageInvs
<1>6. Shape'
    BY <1>1, <1>4 DEF PageInvs, Shape, Pcs
<1>7. ListInv'
    BY <1>1, <1>2, <1>4 DEF ListInv, LoadPcs
<1> QED BY <1>1, <1>2, <1>3, <1>4, <1>5, <1>6, <1>7
        DEF PageInvs, StageInv, FreeingPcs, LoadPcs, MovePcs, WritePcs, Is, HasSeq

LEMMA MarkFreeingStep ==
    ASSUME PageInvs, MarkFreeing
    PROVE  PageInvs'
<1>1. pc = "mark" /\ UNCHANGED <<list, free, nextSeq, job, cuts>>
    BY DEF MarkFreeing
<1>2. PICK f : f = job.from
    OBVIOUS
<1>3. ListOK /\ list # <<>> /\ Is(Current, "UNINITIALIZED") /\ Is(f, "FULL") /\ f \in On(list)
    BY <1>1, <1>2 DEF PageInvs, ListInv, LoadPcs, StageInv
<1>4. f \in Pages /\ HasSeq(f) /\ f # Current
    BY <1>3, OnIs DEF PageInvs, Shape, HasSeq, Is
<1>5. \A q \in Pages : ~Is(q, "FREEING")
    BY <1>1 DEF PageInvs, StageInv, FreeingPcs, LoadPcs, MovePcs
<1>6. /\ PagesOK' /\ FlashInv' /\ ListOK'
      /\ Current' = Current /\ Current \in Pages
      /\ page'[f].state = "FREEING"
      /\ \A q \in Pages : q # f => page'[q] = page[q]
    BY <1>1, <1>2, <1>3, <1>4, <1>5, RestatedIs DEF PageInvs, MarkFreeing
<1>7. IsPlace(at') /\ pc' \in {"mv_free", "mv_init"}
    <2>1. \/ pc' = "mv_free" /\ UNCHANGED at
          \/ pc' = "mv_init" /\ \E i : at' = [p |-> f, i |-> i, end |-> 0]
        BY <1>2, <1>3 DEF MarkFreeing, ToMove, Is
    <2>2. ASSUME NEW i, at' = [p |-> f, i |-> i, end |-> 0] PROVE IsPlace(at')
        BY <2>2, JobIs
    <2> QED BY <2>1, <2>2 DEF PageInvs, Shape
<1>8. Shape'
    BY <1>1, <1>6, <1>7 DEF PageInvs, Shape, Pcs
<1>9. ListInv'
    BY <1>1, <1>3, <1>6, <1>7 DEF ListInv, LoadPcs
<1> QED BY <1>1, <1>2, <1>3, <1>4, <1>6, <1>7, <1>8, <1>9
        DEF PageInvs, StageInv, FreeingPcs, LoadPcs, MovePcs, WritePcs, Is

LEMMA EraseCorruptStep ==
    ASSUME PageInvs, EraseCorrupt
    PROVE  PageInvs'
<1>1. PICK c : c = Head(free)
    OBVIOUS
<1>2. /\ pc \in {"request", "ld_first", "ld_activate"} /\ free # <<>> /\ Is(c, "CORRUPT")
      /\ page' = [page EXCEPT ![c] = ErasedPage]
      /\ UNCHANGED <<list, free, nextSeq, pc, job, at, cuts>>
    BY <1>1 DEF EraseCorrupt, Is
<1>3. ListOK /\ (list = <<>> <=> pc = "ld_first")
    BY <1>2 DEF PageInvs, ListInv, LoadPcs
<1>4. /\ c \in On(free) /\ c \in Pages /\ c \notin On(list)
      /\ On(list) \subseteq Pages /\ On(free) \subseteq Pages
      /\ \A n \in 1 .. Len(list) : list[n] \in On(list)
      /\ list # <<>> => Current \in On(list)
    BY <1>1, <1>2, <1>3, OnIs DEF PageInvs, Shape, ListOK, Current
<1>5. PagesOK' /\ (\A q \in Pages : q # c => page'[q] = page[q]) /\ page'[c] = ErasedPage
    <2>1. c \in Pages => IsPage(ErasedPage)
        BY ErasedIs
    <2>2. PagesOK
        BY DEF PageInvs, Shape
    <2>3. /\ PagesOK'
          /\ \A q \in Pages : q # c => page'[q] = page[q]
          /\ c \in Pages => page'[c] = ErasedPage
        BY <1>2, <2>1, <2>2, OnePage
    <2> QED BY <1>4, <2>3
<1>6. /\ \A q \in Pages : HasSeq(q)' <=> HasSeq(q)
      /\ \A q \in Pages : HasSeq(q) => page'[q] = page[q]
      /\ \A q \in Pages, s \in {"ACTIVE", "FREEING"} : Is(q, s)' <=> Is(q, s)
      /\ \A q \in On(list) : page'[q] = page[q]
    BY <1>2, <1>4, <1>5, ErasedIs DEF HasSeq, Is
<1>7. Current' = Current /\ On(list') = On(list) /\ On(free') = On(free)
    BY <1>2 DEF Current
<1>8. FlashInv'
    <2>1. \A p \in Pages : Is(p, "UNINITIALIZED")' => page'[p] = ErasedPage
        BY <1>5 DEF PageInvs, FlashInv, Is
    <2>2. \A p, q \in Pages : p # q /\ HasSeq(p)' /\ HasSeq(q)' => page'[p].seq # page'[q].seq
        BY <1>6 DEF PageInvs, FlashInv
    <2>3. \A p, q \in Pages : p # q /\ Is(p, "ACTIVE")' /\ HasSeq(q)' => page'[q].seq < page'[p].seq
        <3>1. \A p \in Pages : Is(p, "ACTIVE") => HasSeq(p)
            BY DEF Is, HasSeq
        <3> QED BY <1>6, <3>1 DEF PageInvs, FlashInv
    <2> QED BY <1>6, <2>1, <2>2, <2>3 DEF PageInvs, FlashInv
<1>9. ListOK'
    <2>1. list # <<>> => (Is(Current, "UNINITIALIZED")' <=> Is(Current, "UNINITIALIZED"))
        BY <1>4, <1>6, <1>7 DEF Is
    <2>2. list # <<>> => (HasSeq(Current)' <=> HasSeq(Current))
        BY <1>4, <1>6, <1>7 DEF HasSeq
    <2> QED BY <1>2, <1>3, <1>4, <1>6, <1>7, <2>1, <2>2 DEF ListOK
<1>10. Shape' /\ ListInv'
    BY <1>2, <1>3, <1>5, <1>9 DEF PageInvs, Shape, ListInv, LoadPcs
<1>11. StageInv'
    <2>1. job.from \in On(list) => page'[job.from] = page[job.from]
        BY <1>6
    <2>2. pc # "ld_first" => (HasSeq(Current)' <=> HasSeq(Current))
        BY <1>3, <1>4, <1>6, <1>7 DEF HasSeq
    <2> QED BY <1>2, <1>6, <1>7, <2>1, <2>2
            DEF PageInvs, StageInv, FreeingPcs, LoadPcs, MovePcs, WritePcs, Is
<1> QED BY <1>8, <1>10, <1>11 DEF PageInvs

LEMMA VictimIs ==
    ASSUME Shape, Victims # {}
    PROVE  \E n \in 1 .. Len(list) : Victim = list[n]
<1>1. Victims \subseteq 1 .. Len(list) /\ Len(list) \in Nat
    BY OnIs DEF Victims, Shape
<1>2. Victims \subseteq Nat
    BY <1>1
<1>3. Lowest(Victims) \in Victims
    BY <1>2, LowestIs
<1> QED BY <1>1, <1>3 DEF Victim

LEMMA RequestNewPageStep ==
    ASSUME PageInvs, RequestNewPage
    PROVE  PageInvs'
<1>1. pc = "request" /\ UNCHANGED <<page, at, cuts>>
    BY DEF RequestNewPage
<1>2. /\ ListOK /\ list # <<>> /\ HasSeq(Current) /\ free # <<>>
      /\ \A p \in Pages : ~Is(p, "ACTIVE") /\ ~Is(p, "FREEING")
    BY <1>1 DEF PageInvs, ListInv, LoadPcs, StageInv, FreeingPcs, MovePcs
<1>3. CASE Len(free) < 2 /\ Victims = {}
    <2>1. pc' = "no_space" /\ UNCHANGED <<list, free, nextSeq, job>>
        BY <1>3 DEF RequestNewPage
    <2>2. Same
        BY <1>1, SameUnchanged DEF PageInvs, Shape
    <2>3. /\ Shape' /\ FlashInv' /\ ListInv'
          /\ \A p \in Pages : (HasSeq(p)' <=> HasSeq(p)) /\ page'[p].state = page[p].state
        BY <1>1, <2>1, <2>2, SameStep DEF PageInvs, Shape, Pcs, LoadPcs
    <2> QED BY <1>1, <1>2, <2>1, <2>3 DEF PageInvs, StageInv, FreeingPcs, LoadPcs, MovePcs, WritePcs, Is
<1>4. CASE ~(Len(free) < 2 /\ Victims = {})
    <2>1. /\ ~Is(Head(free), "CORRUPT") /\ Activate
          /\ \/ Len(free) >= 2 /\ pc' = "w_init" /\ UNCHANGED job
             \/ /\ ~(Len(free) >= 2) /\ pc' = "mark"
                /\ job' = [job EXCEPT !.from = Victim, !.used = Used(Victim)]
        BY <1>4 DEF RequestNewPage, Is
    <2>2. /\ ListOK' /\ list' \in Seq(Pages) /\ free' \in Seq(Pages)
          /\ nextSeq' \in 0 .. MaxSeq+1
          /\ list' # <<>> /\ Is(Current, "UNINITIALIZED")' /\ Current' \in Pages
          /\ On(list) \subseteq On(list')
          /\ Len(free') = Len(free) - 1
        BY <1>1, <1>2, <2>1, ActivateIs DEF PageInvs
    <2>3. FlashInv' /\ PagesOK'
        BY <1>1, FlashKept, SameUnchanged DEF PageInvs, Shape, Same
    <2>4. \A p \in Pages : ~Is(p, "ACTIVE")' /\ ~Is(p, "FREEING")'
        BY <1>1, <1>2 DEF Is
    <2>5. Len(free) \in Nat /\ Len(list) \in Nat
        BY OnIs DEF PageInvs, Shape
    <2>6. CASE Len(free) >= 2
        <3>1. pc' = "w_init" /\ UNCHANGED job /\ free' # <<>>
            BY <2>1, <2>2, <2>5, <2>6
        <3>2. Shape' /\ ListInv'
            BY <1>1, <2>2, <2>3, <3>1 DEF PageInvs, Shape, ListInv, LoadPcs, Pcs
        <3> QED BY <2>2, <2>3, <2>4, <3>1, <3>2
                DEF PageInvs, StageInv, FreeingPcs, LoadPcs, MovePcs, WritePcs
    <2>7. CASE ~(Len(free) >= 2)
        <3>1. PICK f : f = Victim
            OBVIOUS
        <3>2. Victims # {}
            BY <1>4, <2>5, <2>7
        <3>3. PICK m \in 1 .. Len(list) : f = list[m]
            BY <3>1, <3>2, VictimIs DEF PageInvs
        <3>4. f \in On(list) /\ f \in Pages
            BY <3>3, OnIs DEF PageInvs, Shape
        <3>5. HasSeq(f)
            <4>1. \A n \in 1 .. Len(list) : HasSeq(list[n])
                BY <1>2, <2>5 DEF ListOK, Current
            <4> QED BY <3>3, <4>1
        <3>6. Is(f, "FULL")'
            BY <1>1, <1>2, <3>4, <3>5 DEF HasSeq, Is
        <3>7. pc' = "mark" /\ \E u : job' = [job EXCEPT !.from = f, !.used = u]
            BY <2>1, <2>7, <3>1
        <3>8. IsJob(job') /\ job'.from = f
            <4>1. PICK u : job' = [job EXCEPT !.from = f, !.used = u]
                BY <3>7
            <4>2. PICK j : j = job
                OBVIOUS
            <4>3. IsJob(j) /\ job' = Assigned(j, f, u)
                BY <4>1, <4>2 DEF PageInvs, Shape, Assigned
            <4> QED BY <3>4, <4>3, JobUpdate
        <3>9. Shape' /\ ListInv'
            BY <1>1, <2>2, <2>3, <3>7, <3>8 DEF PageInvs, Shape, ListInv, LoadPcs, Pcs
        <3> QED BY <2>2, <2>3, <2>4, <3>4, <3>6, <3>7, <3>8, <3>9
                DEF PageInvs, StageInv, FreeingPcs, LoadPcs, MovePcs, WritePcs, Is
    <2> QED BY <2>6, <2>7
<1> QED BY <1>3, <1>4

\* The page that was freed leaves the list, whose last page stays the last.
LEMMA LastStays ==
    ASSUME list \in Seq(Pages), NEW f \in On(list), f # Current, list' = Without(list, PlaceOf(f))
    PROVE  Current' = Current
<1>1. PICK k \in 1 .. Len(list) : k = PlaceOf(f) /\ list[k] = f
    <2>1. \E n \in 1 .. Len(list) : list[n] = f
        BY DEF On
    <2> QED BY <2>1 DEF PlaceOf
<1>2. PICK s, len : s = list /\ len = Len(list)
    OBVIOUS
<1>3. len \in Nat /\ k \in 1 .. len /\ k # len /\ list' = Without(s, k)
    BY <1>1, <1>2 DEF Current
<1>4. /\ Len(Without(s, k)) = len - 1
      /\ \A n \in 1 .. len-1 : Without(s, k)[n] = IF n < k THEN s[n] ELSE s[n+1]
    BY <1>2, <1>3, WithoutIs
<1>5. len - 1 \in 1 .. len-1 /\ ~(len - 1 < k) /\ (len - 1) + 1 = len
    BY <1>3
<1>6. Without(s, k)[len - 1] = s[len]
    BY <1>4, <1>5
<1> QED BY <1>2, <1>3, <1>4, <1>6 DEF Current

LEMMA MoveFreeStep ==
    ASSUME PageInvs, MoveFree
    PROVE  PageInvs'
<1>1. PICK f : f = job.from
    OBVIOUS
<1>2. /\ pc = "mv_free" /\ page' = [page EXCEPT ![f] = ErasedPage]
      /\ list' = Without(list, PlaceOf(f)) /\ free' = Append(free, f)
      /\ UNCHANGED <<nextSeq, cuts>>
    BY <1>1 DEF MoveFree
<1>3. /\ ListOK /\ list # <<>> /\ f \in On(list) /\ Is(f, "FREEING")
      /\ Is(Current, "ACTIVE") \/ Is(Current, "UNINITIALIZED")
    BY <1>1, <1>2 DEF PageInvs, ListInv, LoadPcs, StageInv, MovePcs
<1>4. PICK k \in 1 .. Len(list) : k = PlaceOf(f) /\ list[k] = f
    <2>1. \E n \in 1 .. Len(list) : list[n] = f
        BY <1>3 DEF On
    <2> QED BY <2>1 DEF PlaceOf
<1>5. PICK c, len : c = Current /\ len = Len(list)
    OBVIOUS
<1>6. /\ f \in Pages /\ HasSeq(f) /\ c \in Pages /\ c # f /\ len \in Nat \ {0} /\ c = list[len]
      /\ list \in Seq(Pages) /\ free \in Seq(Pages)
      /\ \A n \in 1 .. len : list[n] \in Pages /\ list[n] \in On(list)
    <2>1. /\ list \in Seq(Pages) /\ free \in Seq(Pages)
          /\ len \in Nat /\ On(list) \subseteq Pages /\ len > 0
          /\ \A n \in 1 .. len : list[n] \in Pages /\ list[n] \in On(list)
        BY <1>3, <1>5, OnIs DEF PageInvs, Shape
    <2>2. c = list[len] /\ c \in Pages
        BY <1>5, <2>1 DEF Current
    <2>3. HasSeq(f) /\ c # f
        BY <1>3, <1>5 DEF HasSeq, Is
    <2> QED BY <1>3, <2>1, <2>2, <2>3
<1>7. k # len /\ len >= 2
    BY <1>4, <1>5, <1>6
<1>8. /\ list' \in Seq(Pages) /\ Len(list') = len - 1
      /\ \A n \in 1 .. len-1 : list'[n] = IF n < k THEN list[n] ELSE list[n+1]
      /\ Distinct(list') /\ On(list') = On(list) \ {f}
    <2>1. Distinct(list) /\ list' = Without(list, k) /\ Len(list) = len
        BY <1>2, <1>3, <1>4, <1>5 DEF ListOK
    <2>2. PICK s : s = list
        OBVIOUS
    <2>3. s \in Seq(Pages) /\ k \in 1 .. Len(s)
        BY <1>4, <1>6, <2>2
    <2>4. /\ Without(s, k) \in Seq(Pages) /\ Len(Without(s, k)) = Len(s) - 1
          /\ \A n \in 1 .. Len(s)-1 : Without(s, k)[n] = IF n < k THEN s[n] ELSE s[n+1]
          /\ Distinct(s) => /\ Distinct(Without(s, k))
                            /\ On(Without(s, k)) = On(s) \ {s[k]}
        BY <2>3, WithoutIs
    <2> QED BY <1>4, <2>1, <2>2, <2>4
<1>9. /\ free' \in Seq(Pages) /\ On(free') = On(free) \cup {f} /\ Distinct(free') /\ free' # <<>>
    BY <1>2, <1>3, <1>6, AppendIs DEF ListOK
<1>10. Current' = c /\ list' # <<>>
    BY <1>2, <1>3, <1>5, <1>6, <1>7, <1>8, LastStays
<1>11. PagesOK' /\ (\A q \in Pages : q # f => page'[q] = page[q]) /\ page'[f] = ErasedPage
    <2>1. f \in Pages => IsPage(ErasedPage)
        BY ErasedIs
    <2>2. PagesOK
        BY DEF PageInvs, Shape
    <2>3. /\ PagesOK'
          /\ \A q \in Pages : q # f => page'[q] = page[q]
          /\ f \in Pages => page'[f] = ErasedPage
        BY <1>2, <2>1, <2>2, OnePage
    <2> QED BY <1>6, <2>3
<1>12. /\ \A q \in Pages : HasSeq(q)' <=> HasSeq(q) /\ q # f
       /\ \A q \in Pages : Is(q, "ACTIVE")' <=> Is(q, "ACTIVE")
       /\ \A q \in Pages : ~Is(q, "FREEING")'
    BY <1>3, <1>6, <1>11, ErasedIs DEF HasSeq, Is, PageInvs, FlashInv
<1>13. FlashInv'
    <2>1. \A p \in Pages : Is(p, "UNINITIALIZED")' => page'[p] = ErasedPage
        BY <1>11 DEF PageInvs, FlashInv, Is
    <2>2. \A p, q \in Pages : p # q /\ HasSeq(p)' /\ HasSeq(q)' => page'[p].seq # page'[q].seq
        BY <1>11, <1>12 DEF PageInvs, FlashInv
    <2>3. \A p, q \in Pages : p # q /\ Is(p, "ACTIVE")' /\ HasSeq(q)' => page'[q].seq < page'[p].seq
        <3>1. \A p \in Pages : Is(p, "ACTIVE")' => p # f
            BY <1>3, <1>12 DEF Is
        <3> QED BY <1>11, <1>12, <3>1 DEF PageInvs, FlashInv
    <2> QED BY <1>6, <1>12, <2>1, <2>2, <2>3 DEF FlashInv
<1>14. ListOK'
    <2>1. On(list') \subseteq Pages /\ On(free') \subseteq Pages
        BY <1>8, <1>9, OnIs
    <2>2. On(list') \cup On(free') = Pages /\ On(list') \cap On(free') = {}
        BY <1>3, <1>8, <1>9 DEF ListOK
    <2>3. \A p \in On(free') : ~HasSeq(p)'
        BY <1>3, <1>9, <1>12, <2>1 DEF ListOK
    <2> DEFINE g(n) == IF n < k THEN n ELSE n + 1
    <2>4. \A n \in 1 .. len-1 : /\ g(n) \in 1 .. len /\ g(n) # k /\ list'[n] = list[g(n)]
                                /\ n < len-1 => g(n) < len
        BY <1>4, <1>5, <1>6, <1>8
    <2>5. \A m, n \in 1 .. len-1 : m < n => g(m) < g(n)
        BY <1>4, <1>5, <1>6
    <2>6. \A n \in 1 .. len : n # k => list[n] # f
        BY <1>3, <1>4, <1>5 DEF ListOK, Distinct
    <2> HIDE DEF g
    <2>7. \A n \in 1 .. len-1 : list'[n] \in Pages /\ list'[n] # f
        BY <1>6, <2>4, <2>6
    <2>8. \A n \in 1 .. len-1 : n < len-1 => HasSeq(list[n])'
        <3> SUFFICES ASSUME NEW n \in 1 .. len-1, n < len-1 PROVE HasSeq(list[n])'
            OBVIOUS
        <3>1. PICK q : q = list'[n]
            OBVIOUS
        <3>2. q = list[g(n)] /\ g(n) \in 1 .. len /\ g(n) < len /\ q \in Pages /\ q # f
            BY <2>4, <2>7, <3>1
        <3>3. HasSeq(q)
            BY <1>3, <1>5, <3>2 DEF ListOK
        <3>4. HasSeq(q)'
            BY <1>12, <3>2, <3>3
        <3> QED BY <3>1, <3>4 DEF HasSeq
    <2>9. \A m, n \in 1 .. len-1 : m < n /\ HasSeq(list[n])' => page'[list'[m]].seq < page'[list'[n]].seq
        <3> SUFFICES ASSUME NEW m \in 1 .. len-1, NEW n \in 1 .. len-1, m < n, HasSeq(list[n])'
                     PROVE  page'[list'[m]].seq < page'[list'[n]].seq
            OBVIOUS
        <3>1. PICK q, r : q = list'[m] /\ r = list'[n]
            OBVIOUS
        <3>2. /\ q = list[g(m)] /\ r = list[g(n)] /\ g(m) \in 1 .. len /\ g(n) \in 1 .. len
              /\ g(m) < g(n) /\ q \in Pages /\ q # f /\ r \in Pages /\ r # f
            BY <2>4, <2>5, <2>7, <3>1
        <3>3. HasSeq(r)'
            BY <3>1 DEF HasSeq
        <3>4. HasSeq(r)
            BY <1>12, <3>2, <3>3
        <3>5. page[q].seq < page[r].seq
            BY <1>3, <1>5, <3>2, <3>4 DEF ListOK
        <3> QED BY <1>11, <3>1, <3>2, <3>5
    <2>10. Len(list') = len - 1
        BY <1>8
    <2>11. \A p \in On(list') : HasSeq(p)' => page'[p].seq < nextSeq'
        BY <1>2, <1>3, <1>8, <1>11, <1>12, <2>1 DEF ListOK
    <2>12. HasSeq(Current)' \/ Is(Current, "UNINITIALIZED")'
        BY <1>3, <1>5, <1>6, <1>10, <1>11 DEF HasSeq, Is
    <2>13. Is(Current, "UNINITIALIZED")' =>
              /\ nextSeq' > 0
              /\ \A p \in On(list') : HasSeq(p)' => page'[p].seq < nextSeq' - 1
              /\ \A p \in Pages : ~Is(p, "ACTIVE")'
        <3> SUFFICES ASSUME Is(Current, "UNINITIALIZED")'
                     PROVE  /\ nextSeq' > 0
                            /\ \A p \in On(list') : HasSeq(p)' => page'[p].seq < nextSeq' - 1
                            /\ \A p \in Pages : ~Is(p, "ACTIVE")'
            OBVIOUS
        <3>1. Is(Current, "UNINITIALIZED")
            BY <1>5, <1>6, <1>10, <1>11 DEF Is
        <3> QED BY <1>2, <1>3, <1>8, <1>11, <1>12, <2>1, <3>1 DEF ListOK
    <2> QED BY <1>8, <1>9, <2>2, <2>3, <2>8, <2>9, <2>10, <2>11, <2>12, <2>13 DEF ListOK
<1>15. pc' \in {"idle", "abort", "w_init", "w_item", "no_space"}
    BY DEF MoveFree, ToWrite
<1>16. /\ pc' = "w_init" => Is(c, "UNINITIALIZED")
       /\ pc' = "w_item" => Is(c, "ACTIVE")
    BY <1>3, <1>5 DEF MoveFree, ToWrite, Is
<1>17. IsJob(job') /\ IsPlace(at')
    <2>1. /\ at' = NoPlace
          /\ job' = NoJob \/ job' = [job EXCEPT !.from = NoPage]
        BY DEF MoveFree
    <2>2. IsJob([job EXCEPT !.from = NoPage])
        BY JobUpdate DEF PageInvs, Shape
    <2> QED BY <2>1, <2>2, JobIs
<1>18. Shape' /\ ListInv'
    BY <1>2, <1>8, <1>9, <1>10, <1>11, <1>14, <1>15, <1>17 DEF PageInvs, Shape, ListInv, LoadPcs, Pcs
<1>19. page'[c] = page[c]
    BY <1>6, <1>11
<1> QED BY <1>9, <1>10, <1>12, <1>13, <1>15, <1>16, <1>18, <1>19
        DEF PageInvs, StageInv, FreeingPcs, LoadPcs, MovePcs, WritePcs, Is

-----------------------------------------------------------------------------
(* PageManager::load().                                                    *)

\* The page that Page::load() goes on with is active.
LEMMA LoadPageIs ==
    ASSUME Shape, NEW p, LoadPage(p)
    PROVE  /\ pc' \in {"ld_lists", "ld_half"} /\ IsPlace(at')
           /\ pc' = "ld_half" => at'.p \in Pages /\ Is(at'.p, "ACTIVE")
<1> DEFINE S == {q \in Pages : q >= p /\ page[q].state = "ACTIVE"}
<1>1. CASE S = {}
    <2>1. NextActive(p) = NoPage
        BY <1>1 DEF NextActive
    <2> QED BY <2>1, JobIs DEF LoadPage
<1>2. CASE S # {}
    <2>1. S \subseteq Nat
        BY DEF Pages
    <2>2. PICK q : q = NextActive(p)
        OBVIOUS
    <2>3. q = Lowest(S)
        BY <1>2, <2>2 DEF NextActive
    <2>4. q \in S
        <3> HIDE DEF S
        <3> QED BY <1>2, <2>1, <2>3, LowestIs
    <2>5. q \in Pages /\ Is(q, "ACTIVE") /\ q # NoPage
        BY <2>4, JobIs DEF Is
    <2>6. pc' = "ld_half" /\ \E i : at' = [p |-> q, end |-> 0, i |-> i]
        BY <2>2, <2>5 DEF LoadPage
    <2>7. IsPlace(at') /\ at'.p = q
        BY <2>6 DEF IsPlace
    <2> QED BY <2>5, <2>6, <2>7
<1> QED BY <1>1, <1>2

LEMMA LoadPageSteps ==
    ASSUME PageInvs, PowerOn \/ LoadNextPage
    PROVE  PageInvs'
<1>1. /\ pc \in {"off", "ld_scan"} /\ UNCHANGED <<page, list, free, nextSeq, job, cuts>>
      /\ \E p : LoadPage(p)
    BY DEF PowerOn, LoadNextPage
<1>2. /\ pc' \in {"ld_lists", "ld_half"} /\ IsPlace(at')
      /\ pc' = "ld_half" => at'.p \in Pages /\ Is(at'.p, "ACTIVE")
    BY <1>1, LoadPageIs DEF PageInvs
<1>3. Same
    BY <1>1, SameUnchanged DEF PageInvs, Shape
<1>4. /\ Shape' /\ FlashInv' /\ ListInv'
      /\ \A p \in Pages : (HasSeq(p)' <=> HasSeq(p)) /\ page'[p].state = page[p].state
    BY <1>1, <1>2, <1>3, SameStep DEF PageInvs, Shape, Pcs, LoadPcs
<1> QED BY <1>1, <1>2, <1>4 DEF PageInvs, StageInv, FreeingPcs, LoadPcs, MovePcs, WritePcs, Is

LEMMA LoadSteps ==
    ASSUME PageInvs, LoadHalf \/ LoadScan \/ LoadDuplicate
    PROVE  PageInvs'
<1>1. /\ pc \in {"ld_half", "ld_scan", "ld_dup"}
      /\ UNCHANGED <<list, free, nextSeq, job, cuts>>
    BY DEF LoadHalf, LoadScan, LoadDuplicate
<1>2. PICK p : p = at.p
    OBVIOUS
<1>3. p \in Pages /\ Is(p, "ACTIVE") /\ ~Is(p, "UNINITIALIZED") /\ PagesOK /\ IsPlace(at)
    BY <1>1, <1>2 DEF PageInvs, StageInv, Shape, Is
<1>4. Same
    <2>1. CASE LoadHalf
        <3>1. \/ UNCHANGED page
              \/ \E i : page' = [page EXCEPT ![p].tab[i] = "ERASED", ![p].ent[i] = Torn]
            BY <1>2, <2>1 DEF LoadHalf
        <3>2. ASSUME NEW i, page' = [page EXCEPT ![p].tab[i] = "ERASED", ![p].ent[i] = Torn]
              PROVE  Same
            <4>1. \E f, e : page' = [page EXCEPT ![p].tab = f, ![p].ent = e]
                BY <3>2, Zenon
            <4> QED BY <1>3, <4>1, SameBoth
        <3> QED BY <1>3, <3>1, <3>2, SameUnchanged
    <2>2. CASE LoadScan
        <3>1. \/ UNCHANGED page
              \/ \E S, s, from, to : AlterRange(p, S, s, from, to)
            BY <1>2, <2>2 DEF LoadScan
        <3> QED BY <1>3, <3>1, SameUnchanged, SameAlterRange
    <2>3. CASE LoadDuplicate
        <3>1. \E S, s, from, to : AlterRange(p, S, s, from, to)
            BY <1>2, <2>3 DEF LoadDuplicate
        <3> QED BY <1>3, <3>1, SameAlterRange
    <2> QED BY <2>1, <2>2, <2>3
<1>5. pc' \in {"ld_half", "ld_scan", "ld_dup"}
    BY <1>1 DEF LoadHalf, LoadScan, LoadDuplicate, AlterRange
<1>6. IsPlace(at') /\ at'.p = p
    <2>1. \/ at' = at
          \/ \E i : at' = [at EXCEPT !.i = i]
          \/ \E i, e : at' = Moved(at, i, e)
        BY DEF LoadHalf, LoadScan, LoadDuplicate, Moved
    <2>2. ASSUME NEW i, at' = [at EXCEPT !.i = i] PROVE IsPlace(at') /\ at'.p = p
        BY <1>2, <1>3, <2>2, PlaceUpdate
    <2>3. ASSUME NEW i, NEW e, at' = Moved(at, i, e) PROVE IsPlace(at') /\ at'.p = p
        <3>1. IsPlace(Moved(at, i, e)) /\ Moved(at, i, e).p = at.p
            BY <1>3, MovedIs
        <3> QED BY <1>2, <2>3, <3>1
    <2> QED BY <1>2, <1>3, <2>1, <2>2, <2>3
<1>7. /\ Shape' /\ FlashInv' /\ ListInv'
      /\ \A q \in Pages : (HasSeq(q)' <=> HasSeq(q)) /\ page'[q].state = page[q].state
    BY <1>1, <1>4, <1>5, <1>6, SameStep DEF PageInvs, Shape, Pcs, LoadPcs
<1> QED BY <1>1, <1>3, <1>5, <1>6, <1>7
        DEF PageInvs, StageInv, FreeingPcs, LoadPcs, MovePcs, WritePcs, Is

LEMMA BuildListsStep ==
    ASSUME PageInvs, BuildLists
    PROVE  PageInvs'
<1>1. PICK L, key, id : /\ L = Loaded
                        /\ key = [p \in Pages |-> page[p].seq]
                        /\ id = [p \in Pages |-> p]
    OBVIOUS
<1>2. /\ pc = "ld_lists" /\ UNCHANGED <<page, job, at, cuts>>
      /\ list' = Ordered(L, key) /\ free' = Ordered(Pages \ L, id)
      /\ nextSeq' = IF L = {} THEN 0 ELSE 1 + Highest({page[p].seq : p \in L})
      /\ pc' = IF L = {} THEN "ld_first" ELSE "ld_old"
    BY <1>1 DEF BuildLists
<1>3. /\ L \subseteq Pages /\ \A p \in Pages : p \in L <=> HasSeq(p)
      /\ MaxSeq \in Nat /\ NPages - 1 \in Nat /\ NPages > 1
      /\ key \in [Pages -> 0 .. MaxSeq] /\ id \in [Pages -> 0 .. NPages-1]
    BY <1>1, NvsAssumption DEF Loaded, PageInvs, Shape, PagesOK, IsPage, Pages
<1>4. /\ list' \in Seq(L) /\ Len(list') = Cardinality(L)
      /\ Distinct(list') /\ On(list') = L
      /\ \A m, n \in 1 .. Len(list') : m < n => Before(list'[m], list'[n], key)
    BY <1>2, <1>3, OrderedIs
<1>5. /\ free' \in Seq(Pages \ L) /\ Len(free') = Cardinality(Pages \ L)
      /\ Distinct(free') /\ On(free') = Pages \ L
    <2>1. Pages \ L \subseteq Pages
        OBVIOUS
    <2> QED BY <1>2, <1>3, <2>1, OrderedIs
<1>6. list' \in Seq(Pages) /\ free' \in Seq(Pages) /\ Len(list') \in Nat
    BY <1>3, <1>4, <1>5
<1>7. /\ \A p \in L : page[p].seq \in 0 .. MaxSeq
      /\ \A p, q \in L : p # q => page[p].seq # page[q].seq
      /\ \A p \in L : key[p] = page[p].seq
    BY <1>1, <1>3 DEF PageInvs, Shape, PagesOK, IsPage, FlashInv
<1>8. \A m, n \in 1 .. Len(list') : m < n => page[list'[m]].seq < page[list'[n]].seq
    <2> SUFFICES ASSUME NEW m \in 1 .. Len(list'), NEW n \in 1 .. Len(list'), m < n
                 PROVE  page[list'[m]].seq < page[list'[n]].seq
        OBVIOUS
    <2>1. list'[m] \in L /\ list'[n] \in L /\ list'[m] # list'[n]
        BY <1>4, <1>6 DEF Distinct, On
    <2>2. Before(list'[m], list'[n], key)
        BY <1>4
    <2> QED BY <1>7, <2>1, <2>2 DEF Before
<1>9. /\ nextSeq' \in 0 .. MaxSeq+1
      /\ \A p \in L : page[p].seq < nextSeq'
    <2>1. CASE L = {}
        BY <1>2, <1>3, <2>1
    <2>2. CASE L # {}
        <3> DEFINE S == {page[p].seq : p \in L}
        <3>1. S # {} /\ S \subseteq 0 .. MaxSeq /\ \A p \in L : page[p].seq \in S
            BY <1>7, <2>2
        <3>2. nextSeq' = 1 + Highest(S)
            BY <1>2, <2>2
        <3> HIDE DEF S
        <3>3. Highest(S) \in S /\ \A x \in S : Highest(S) >= x
            BY <1>3, <3>1, HighestIs
        <3>4. Highest(S) \in 0 .. MaxSeq
            BY <3>1, <3>3
        <3> QED BY <1>3, <1>7, <3>1, <3>2, <3>3, <3>4
    <2> QED BY <2>1, <2>2
<1>10. L # {} => list' # <<>> /\ Current' \in L
    <2>1. L # {} => list' # <<>>
        BY <1>4 DEF On
    <2>2. list' # <<>> => Len(list') \in 1 .. Len(list')
        BY <1>6
    <2> QED BY <1>4, <2>1, <2>2 DEF On, Current
<1>11. L = {} => list' = <<>> /\ Len(free') = NPages
    <2> SUFFICES ASSUME L = {} PROVE list' = <<>> /\ Len(free') = NPages
        OBVIOUS
    <2>1. list' = <<>>
        BY <1>4, FS_EmptySet
    <2>2. Pages \ L = Pages
        OBVIOUS
    <2>3. Cardinality(Pages) = NPages
        BY <1>3, FS_Interval, NvsAssumption DEF Pages
    <2> QED BY <1>5, <2>1, <2>2, <2>3
<1>12. \A p \in Pages : (HasSeq(p)' <=> p \in L) /\ page'[p] = page[p]
    BY <1>2, <1>3 DEF HasSeq
<1>13. ListOK'
    <2>1. \A n \in 1 .. Len(list') : HasSeq(list[n])'
        <3> TAKE n \in 1 .. Len(list')
        <3>1. PICK q : q = list'[n]
            OBVIOUS
        <3>2. q \in L /\ q \in Pages
            BY <1>3, <1>4, <3>1 DEF On
        <3>3. HasSeq(q)'
            BY <1>12, <3>2
        <3> QED BY <3>1, <3>3 DEF HasSeq
    <2>2. \A p \in On(free') : ~HasSeq(p)'
        BY <1>5, <1>12
    <2>3. list' # <<>> => HasSeq(Current)' /\ ~Is(Current, "UNINITIALIZED")'
        <3> SUFFICES ASSUME list' # <<>> PROVE HasSeq(Current)' /\ ~Is(Current, "UNINITIALIZED")'
            OBVIOUS
        <3>1. PICK q : q = Current'
            OBVIOUS
        <3>2. q \in L /\ q \in Pages
            BY <1>3, <1>10, <1>11, <3>1
        <3>3. HasSeq(q)'
            BY <1>12, <3>2
        <3> QED BY <3>1, <3>3 DEF HasSeq, Is
    <2>4. On(list') \cup On(free') = Pages /\ On(list') \cap On(free') = {}
        BY <1>3, <1>4, <1>5
    <2>5. \A p \in On(list') : page'[p].seq < nextSeq'
        BY <1>2, <1>4, <1>9
    <2>6. \A m, n \in 1 .. Len(list') : m < n => page'[list'[m]].seq < page'[list'[n]].seq
        BY <1>2, <1>8
    <2> QED BY <1>4, <1>5, <2>1, <2>2, <2>3, <2>4, <2>5, <2>6 DEF ListOK
<1>14. FlashInv' /\ PagesOK'
    BY <1>2, FlashKept, SameUnchanged DEF PageInvs, Shape, Same
<1>15. Shape' /\ ListInv'
    BY <1>2, <1>6, <1>9, <1>10, <1>11, <1>13, <1>14 DEF PageInvs, Shape, ListInv, LoadPcs, Pcs
<1>16. CASE L = {}
    <2>1. \A p \in Pages : ~Is(p, "FREEING")'
        BY <1>3, <1>12, <1>16 DEF HasSeq, Is
    <2>2. pc' = "ld_first"
        BY <1>2, <1>16
    <2> QED BY <1>11, <1>14, <1>15, <1>16, <2>1, <2>2
            DEF PageInvs, StageInv, FreeingPcs, LoadPcs, MovePcs, WritePcs
<1>17. CASE L # {}
    <2>1. pc' = "ld_old"
        BY <1>2, <1>17
    <2>2. HasSeq(Current)'
        <3>1. PICK q : q = Current'
            OBVIOUS
        <3>2. HasSeq(q)'
            BY <1>3, <1>10, <1>12, <1>17, <3>1
        <3> QED BY <3>1, <3>2 DEF HasSeq
    <2> QED BY <1>14, <1>15, <2>1, <2>2
            DEF PageInvs, StageInv, FreeingPcs, LoadPcs, MovePcs, WritePcs
<1> QED BY <1>16, <1>17

LEMMA ActivateFirstStep ==
    ASSUME PageInvs, ActivateFirst
    PROVE  PageInvs'
<1>1. /\ pc = "ld_first" /\ pc' = "idle" /\ UNCHANGED <<page, job, at, cuts>>
      /\ ~Is(Head(free), "CORRUPT") /\ Activate
    BY DEF ActivateFirst, Is
<1>2. ListOK /\ list = <<>> /\ Len(free) = NPages
    BY <1>1 DEF PageInvs, ListInv, LoadPcs, StageInv
<1>3. free # <<>> /\ NPages >= 2 /\ NPages \in Nat
    BY <1>2, NvsAssumption
<1>4. \A p \in Pages : ~HasSeq(p)
    <2>1. On(list) = {}
        BY <1>2 DEF On
    <2> QED BY <1>2, <2>1 DEF ListOK
<1>5. \A p \in Pages : ~Is(p, "ACTIVE") /\ ~Is(p, "FREEING")
    BY <1>4 DEF HasSeq, Is
<1>6. /\ ListOK' /\ list' \in Seq(Pages) /\ free' \in Seq(Pages)
      /\ nextSeq' \in 0 .. MaxSeq+1
      /\ list' # <<>> /\ Is(Current, "UNINITIALIZED")' /\ Current' \in Pages
      /\ Len(free') = Len(free) - 1
    BY <1>1, <1>2, <1>3, <1>5, ActivateIs DEF PageInvs
<1>7. FlashInv' /\ PagesOK'
    BY <1>1, FlashKept, SameUnchanged DEF PageInvs, Shape, Same
<1>8. \A p \in Pages : ~Is(p, "FREEING")'
    BY <1>1, <1>5 DEF Is
<1>9. free' # <<>>
    BY <1>2, <1>3, <1>6
<1>10. Shape' /\ ListInv'
    BY <1>1, <1>6, <1>7 DEF PageInvs, Shape, ListInv, LoadPcs, Pcs
<1> QED BY <1>1, <1>7, <1>8, <1>9, <1>10
        DEF PageInvs, StageInv, FreeingPcs, LoadPcs, MovePcs, WritePcs

LEMMA EraseOlderStep ==
    ASSUME PageInvs, EraseOlder
    PROVE  PageInvs'
<1>1. pc = "ld_old" /\ UNCHANGED <<list, free, nextSeq, job, at, cuts>>
    BY DEF EraseOlder
<1>2. pc' \in {"ld_old", "ld_freeing"}
    BY <1>1 DEF EraseOlder, AlterRange
<1>3. Same
    <2>1. CASE Older = {}
        BY <2>1, SameUnchanged DEF EraseOlder, PageInvs, Shape
    <2>2. CASE Older # {}
        <3>1. PICK p : p = list[Lowest(Older)]
            OBVIOUS
        <3>2. Older \subseteq Nat
            BY DEF Older
        <3>3. Lowest(Older) \in Older
            BY <2>2, <3>2, LowestIs
        <3>4. ItemsOf(p, LastItem.k) # {}
            BY <3>1, <3>3 DEF Older
        <3>5. HasSeq(p)
            BY <3>4 DEF ItemsOf, Items
        <3>6. \E S, s, from, to : AlterRange(p, S, s, from, to)
            BY <2>2, <3>1 DEF EraseOlder
        <3> QED BY <3>5, <3>6, SameAlterRange DEF PageInvs, Shape, HasSeq, Is
    <2> QED BY <2>1, <2>2
<1>4. /\ Shape' /\ FlashInv' /\ ListInv'
      /\ Current' = Current
      /\ Current \in Pages
      /\ \A p \in Pages : (HasSeq(p)' <=> HasSeq(p)) /\ page'[p].state = page[p].state
    BY <1>1, <1>2, <1>3, SameStep DEF PageInvs, Shape, Pcs, LoadPcs
<1>5. HasSeq(Current)'
    <2>1. HasSeq(Current)
        BY <1>1 DEF PageInvs, StageInv
    <2> QED BY <1>4, <2>1 DEF HasSeq
<1> QED BY <1>1, <1>2, <1>4, <1>5
        DEF PageInvs, StageInv, FreeingPcs, LoadPcs, MovePcs, WritePcs, Is

\* There is a page to move to: the last page is active, or a page is free.
LEMMA ResumeFreeingStep ==
    ASSUME PageInvs, ResumeFreeing
    PROVE  PageInvs'
<1>1. pc = "ld_freeing" /\ UNCHANGED <<page, list, free, nextSeq, cuts>>
    BY DEF ResumeFreeing
<1>2. ListOK /\ list # <<>> /\ HasSeq(Current)
    BY <1>1 DEF PageInvs, ListInv, LoadPcs, StageInv
<1>3. Same
    BY <1>1, SameUnchanged DEF PageInvs, Shape
<1>4. Len(list) \in Nat /\ On(list) \subseteq Pages
    BY OnIs DEF PageInvs, Shape
<1>5. \A n \in 1 .. Len(list) : HasSeq(list[n])
    BY <1>2, <1>4 DEF ListOK, Current
<1>6. \A p \in On(list) : HasSeq(p)
    BY <1>5 DEF On
<1>7. free = <<>> => \A p \in Pages : HasSeq(p)
    <2>1. free = <<>> => On(free) = {}
        BY DEF On
    <2> QED BY <1>2, <1>6, <2>1 DEF ListOK
<1>8. \A p \in Pages : Is(p, "FREEING") => \E n \in Freeing : list[n] = p
    <2> SUFFICES ASSUME NEW p \in Pages, Is(p, "FREEING") PROVE \E n \in Freeing : list[n] = p
        OBVIOUS
    <2>1. p \in On(list)
        BY <1>2 DEF ListOK, Is, HasSeq
    <2> QED BY <2>1 DEF On, Freeing, Is
<1>9. CASE Freeing = {}
    <2>1. \A p \in Pages : ~Is(p, "FREEING")
        BY <1>8, <1>9
    <2>2. free # <<>>
        BY <1>7, <2>1 DEF PageInvs, FlashInv
    <2>3. pc' = "idle" /\ UNCHANGED <<job, at>>
        BY <1>9, <2>2 DEF ResumeFreeing
    <2>4. /\ Shape' /\ FlashInv' /\ ListInv'
          /\ \A p \in Pages : (HasSeq(p)' <=> HasSeq(p)) /\ page'[p].state = page[p].state
        BY <1>1, <1>3, <2>3, SameStep DEF PageInvs, Shape, Pcs, LoadPcs
    <2> QED BY <1>1, <2>1, <2>2, <2>3, <2>4
            DEF PageInvs, StageInv, FreeingPcs, LoadPcs, MovePcs, WritePcs, Is
<1>10. CASE Freeing # {}
    <2>1. PICK f : f = list[Lowest(Freeing)]
        OBVIOUS
    <2>2. f \in On(list) /\ f \in Pages /\ Is(f, "FREEING")
        <3>1. Freeing \subseteq Nat
            BY <1>4 DEF Freeing
        <3>2. Lowest(Freeing) \in Freeing
            BY <1>10, <3>1, LowestIs
        <3> QED BY <1>4, <2>1, <3>2 DEF Freeing, On, Is
    <2>3. job' = [NoJob EXCEPT !.from = f]
        BY <1>10, <2>1 DEF ResumeFreeing
    <2>4. IsJob(job') /\ job'.from = f
        BY <2>2, <2>3, JobIs
    <2>5. CASE Is(Current, "ACTIVE")
        <3>1. ToMove(f)
            BY <1>10, <2>1, <2>5 DEF ResumeFreeing, Is
        <3>2. \/ pc' = "mv_free" /\ UNCHANGED at
              \/ pc' = "mv_entry" /\ \E i : at' = [p |-> f, i |-> i, end |-> 0]
            BY <2>5, <3>1 DEF ToMove, Is
        <3>3. ASSUME NEW i, at' = [p |-> f, i |-> i, end |-> 0] PROVE IsPlace(at')
            BY <3>3, JobIs
        <3>4. IsPlace(at') /\ pc' \in {"mv_free", "mv_entry"}
            BY <3>2, <3>3 DEF PageInvs, Shape
        <3>5. /\ Shape' /\ FlashInv' /\ ListInv' /\ Current' = Current /\ Current \in Pages
              /\ \A p \in Pages : (HasSeq(p)' <=> HasSeq(p)) /\ page'[p].state = page[p].state
            BY <1>1, <1>3, <2>4, <3>4, SameStep DEF PageInvs, Shape, Pcs, LoadPcs
        <3> QED BY <1>1, <2>2, <2>4, <2>5, <3>4, <3>5
                DEF PageInvs, StageInv, FreeingPcs, LoadPcs, MovePcs, WritePcs, Is
    <2>6. CASE ~Is(Current, "ACTIVE")
        <3>1. \A p \in Pages : ~Is(p, "ACTIVE")
            BY <1>2, <2>6, ActiveIsLast DEF PageInvs
        <3>2. free # <<>>
            BY <1>7, <3>1 DEF PageInvs, FlashInv
        <3>3. pc' = "ld_activate" /\ UNCHANGED at
            BY <1>10, <2>6, <3>2 DEF ResumeFreeing, Is
        <3>4. /\ Shape' /\ FlashInv' /\ ListInv' /\ Current' = Current /\ Current \in Pages
              /\ \A p \in Pages : (HasSeq(p)' <=> HasSeq(p)) /\ page'[p].state = page[p].state
            BY <1>1, <1>3, <2>4, <3>3, SameStep DEF PageInvs, Shape, Pcs, LoadPcs
        <3>5. HasSeq(Current)'
            BY <1>2, <3>4 DEF HasSeq
        <3> QED BY <1>1, <2>2, <2>4, <3>1, <3>2, <3>3, <3>4, <3>5
                DEF PageInvs, StageInv, FreeingPcs, LoadPcs, MovePcs, WritePcs, Is
    <2> QED BY <2>5, <2>6
<1> QED BY <1>9, <1>10

LEMMA ActivateForMoveStep ==
    ASSUME PageInvs, ActivateForMove
    PROVE  PageInvs'
<1>1. /\ pc = "ld_activate" /\ UNCHANGED <<page, job, cuts>>
      /\ ~Is(Head(free), "CORRUPT") /\ Activate
    BY DEF ActivateForMove, Is
<1>2. /\ ListOK /\ list # <<>> /\ HasSeq(Current) /\ free # <<>>
      /\ \A p \in Pages : ~Is(p, "ACTIVE")
      /\ job.from \in On(list) /\ Is(job.from, "FREEING")
    BY <1>1 DEF PageInvs, ListInv, LoadPcs, StageInv
<1>3. /\ ListOK' /\ list' \in Seq(Pages) /\ free' \in Seq(Pages)
      /\ nextSeq' \in 0 .. MaxSeq+1
      /\ list' # <<>> /\ Is(Current, "UNINITIALIZED")' /\ Current' \in Pages
      /\ On(list) \subseteq On(list')
    BY <1>1, <1>2, ActivateIs DEF PageInvs
<1>4. FlashInv' /\ PagesOK'
    BY <1>1, FlashKept, SameUnchanged DEF PageInvs, Shape, Same
<1>5. IsPlace(at') /\ pc' \in {"mv_free", "mv_init"}
    <2>1. \/ pc' = "mv_free" /\ UNCHANGED at
          \/ pc' = "mv_init" /\ \E i : at' = [p |-> job.from, i |-> i, end |-> 0]
        BY DEF ActivateForMove
    <2>2. ASSUME NEW i, at' = [p |-> job.from, i |-> i, end |-> 0] PROVE IsPlace(at')
        BY <2>2, JobIs
    <2> QED BY <2>1, <2>2 DEF PageInvs, Shape
<1>6. Shape' /\ ListInv'
    BY <1>1, <1>3, <1>4, <1>5 DEF PageInvs, Shape, ListInv, LoadPcs, Pcs
<1> QED BY <1>1, <1>2, <1>3, <1>4, <1>5, <1>6
        DEF PageInvs, StageInv, FreeingPcs, LoadPcs, MovePcs, WritePcs, Is

-----------------------------------------------------------------------------
(* Power failures.                                                         *)

\* A page whose header is damaged is not in use any more.
LEMMA CorruptIs ==
    ASSUME PageInvs, NEW p \in Pages, page' = [page EXCEPT ![p].state = "CORRUPT"]
    PROVE  PagesOK' /\ FlashInv'
<1>1. PICK h : h = Restated(page[p], "CORRUPT")
    OBVIOUS
<1>2. IsPage(h) /\ h.state = "CORRUPT"
    <2>1. PICK g, s : g = page[p] /\ s = "CORRUPT"
        OBVIOUS
    <2>2. IsPage(g) /\ s \in PageStates /\ g.seq \in 0 .. MaxSeq
        BY <2>1 DEF PageInvs, Shape, PagesOK, PageStates, IsPage
    <2>3. IsPage(Restated(g, s)) /\ Restated(g, s).state = s
        BY <2>2, StateUpdate
    <2> QED BY <1>1, <2>1, <2>3
<1>3. PagesOK' /\ (\A q \in Pages : q # p => page'[q] = page[q]) /\ page'[p] = h
    <2>1. page' = [page EXCEPT ![p] = h] /\ PagesOK /\ (p \in Pages => IsPage(h))
        BY <1>1, <1>2 DEF PageInvs, Shape, PagesOK, Restated
    <2>2. /\ PagesOK'
          /\ \A q \in Pages : q # p => page'[q] = page[q]
          /\ p \in Pages => page'[p] = h
        BY <2>1, OnePage
    <2> QED BY <2>2
<1>4. \A q \in Pages : HasSeq(q)' => HasSeq(q) /\ q # p
    BY <1>2, <1>3 DEF HasSeq
<1>5. \A q \in Pages, s \in {"ACTIVE", "FREEING", "UNINITIALIZED"} : Is(q, s)' => Is(q, s) /\ q # p
    BY <1>2, <1>3 DEF Is
<1>6. FlashInv'
    <2>1. \A q \in Pages : Is(q, "UNINITIALIZED")' => page'[q] = ErasedPage
        BY <1>3, <1>5 DEF PageInvs, FlashInv
    <2>2. \A q, r \in Pages : q # r /\ HasSeq(q)' /\ HasSeq(r)' => page'[q].seq # page'[r].seq
        BY <1>3, <1>4 DEF PageInvs, FlashInv
    <2>3. \A q, r \in Pages : q # r /\ Is(q, "ACTIVE")' /\ HasSeq(r)' => page'[r].seq < page'[q].seq
        BY <1>3, <1>4, <1>5 DEF PageInvs, FlashInv
    <2>4. \A q, r \in Pages : Is(q, "FREEING")' /\ Is(r, "FREEING")' => q = r
        BY <1>5 DEF PageInvs, FlashInv
    <2> QED BY <1>4, <2>1, <2>2, <2>3, <2>4 DEF FlashInv
<1> QED BY <1>3, <1>6

LEMMA PowerCutStep ==
    ASSUME PageInvs, PowerCut
    PROVE  PageInvs'
<1>1. /\ pc' = "off" /\ list' = <<>> /\ free' = <<>> /\ nextSeq' = 0
      /\ job' = NoJob /\ at' = NoPlace /\ cuts' = cuts + 1 /\ cuts < MaxCuts
    BY DEF PowerCut
<1>2. PICK c, f : c = Current /\ f = job.from
    OBVIOUS
<1>3. pc \in {"w_init", "w_item", "w_data"} \cup MovePcs =>
          /\ c \in Pages /\ f \in Pages \cup {NoPage}
          /\ pc \in {"w_item", "w_data", "mv_entry"} => Is(c, "ACTIVE")
          /\ pc = "w_data" => at.p = c
          /\ pc \in MovePcs => f \in Pages
    <2> SUFFICES ASSUME pc \in {"w_init", "w_item", "w_data"} \cup MovePcs
                 PROVE  /\ c \in Pages /\ f \in Pages \cup {NoPage}
                        /\ pc \in {"w_item", "w_data", "mv_entry"} => Is(c, "ACTIVE")
                        /\ pc = "w_data" => at.p = c
                        /\ pc \in MovePcs => f \in Pages
        OBVIOUS
    <2>1. list # <<>> /\ c \in Pages
        BY <1>2, OnIs DEF PageInvs, Shape, ListInv, LoadPcs, MovePcs, Current
    <2>2. pc \in {"w_item", "w_data", "mv_entry"} => Is(c, "ACTIVE")
        BY <1>2 DEF PageInvs, StageInv, WritePcs
    <2>3. pc = "w_data" => at.p = c
        BY <1>2 DEF PageInvs, StageInv
    <2>4. pc \in MovePcs => f \in Pages
        BY <1>2, OnIs DEF PageInvs, StageInv, Shape
    <2> QED BY <1>2, <2>1, <2>2, <2>3, <2>4 DEF PageInvs, Shape, IsJob
<1>4. \/ UNCHANGED page
      \/ pc \in {"w_init", "mv_init"} /\ page' = [page EXCEPT ![c].state = "CORRUPT"]
      \/ pc \in {"w_item", "mv_entry"} /\ \E i : page' = [page EXCEPT ![c].ent[i] = Torn]
      \/ pc = "w_data" /\ \E e : page' = [page EXCEPT ![at.p].ent = e]
      \/ pc = "mv_free" /\ page' = [page EXCEPT ![f].state = "CORRUPT"]
    <2>1. page' \in {page} \cup Broken
        BY DEF PowerCut
    <2>2. CASE pc \in {"w_init", "mv_init"}
        <3>1. Broken = {[page EXCEPT ![c].state = "CORRUPT"]}
            BY <1>2, <2>2 DEF Broken
        <3> QED BY <2>1, <2>2, <3>1
    <2>3. CASE pc = "w_item"
        <3>1. Broken = {[page EXCEPT ![c].ent[NextFree(c)] = Torn]}
            BY <1>2, <2>3 DEF Broken
        <3> QED BY <2>1, <2>3, <3>1
    <2>4. CASE pc = "w_data"
        <3>1. \A g \in Broken : \E e : g = [page EXCEPT ![at.p].ent = e]
            BY <2>4, Zenon DEF Broken
        <3> QED BY <2>1, <2>4, <3>1
    <2>5. CASE pc = "mv_entry"
        <3>1. Broken = {[page EXCEPT ![c].ent[NextFree(c)] = Torn]} \/ Broken = {}
            BY <1>2, <2>5 DEF Broken
        <3> QED BY <2>1, <2>5, <3>1
    <2>6. CASE pc = "mv_free"
        <3>1. Broken = {[page EXCEPT ![f].state = "CORRUPT"]}
            BY <1>2, <2>6 DEF Broken
        <3> QED BY <2>1, <2>6, <3>1
    <2>7. CASE pc \notin {"w_init", "mv_init", "w_item", "w_data", "mv_entry", "mv_free"}
        <3>1. Broken = {}
            BY <2>7 DEF Broken
        <3> QED BY <2>1, <3>1
    <2> QED BY <2>2, <2>3, <2>4, <2>5, <2>6, <2>7
<1>5. PagesOK' /\ FlashInv'
    <2>1. ASSUME Same PROVE PagesOK' /\ FlashInv'
        BY <2>1, FlashKept DEF PageInvs, Same
    <2>2. CASE UNCHANGED page
        BY <2>1, <2>2, SameUnchanged DEF PageInvs, Shape
    <2>3. CASE pc \in {"w_init", "mv_init"} /\ page' = [page EXCEPT ![c].state = "CORRUPT"]
        BY <1>3, <2>3, CorruptIs DEF MovePcs
    <2>4. CASE pc \in {"w_item", "mv_entry"} /\ \E i : page' = [page EXCEPT ![c].ent[i] = Torn]
        <3>1. PICK i : Write(c, i, Torn)
            BY <2>4 DEF Write
        <3>2. ~Is(c, "UNINITIALIZED")
            BY <1>3, <2>4 DEF Is, MovePcs
        <3> QED BY <2>1, <3>1, <3>2, SameWrite DEF PageInvs, Shape
    <2>5. CASE pc = "w_data" /\ \E e : page' = [page EXCEPT ![at.p].ent = e]
        <3>1. PICK e : page' = [page EXCEPT ![c].ent = e]
            BY <1>3, <2>5
        <3>2. ~Is(c, "UNINITIALIZED")
            BY <1>3, <2>5 DEF Is
        <3> QED BY <2>1, <3>1, <3>2, SameEntries DEF PageInvs, Shape
    <2>6. CASE pc = "mv_free" /\ page' = [page EXCEPT ![f].state = "CORRUPT"]
        BY <1>3, <2>6, CorruptIs DEF MovePcs
    <2> QED BY <1>4, <2>2, <2>3, <2>4, <2>5, <2>6
<1>6. Shape'
    <2>1. <<>> \in Seq(Pages) /\ 0 \in 0 .. MaxSeq+1 /\ cuts + 1 \in 0 .. MaxCuts
        BY <1>1, NvsAssumption DEF PageInvs, Shape
    <2> QED BY <1>1, <1>5, <2>1, JobIs DEF Shape, Pcs
<1> QED BY <1>1, <1>5, <1>6
        DEF PageInvs, ListInv, StageInv, FreeingPcs, LoadPcs, MovePcs, WritePcs

-----------------------------------------------------------------------------
LEMMA PageInvsInit == Init => PageInvs
<1> SUFFICES ASSUME Init PROVE PageInvs
    OBVIOUS
<1>1. \A p \in Pages : page[p] = ErasedPage
    BY DEF Init
<1>2. PagesOK
    BY <1>1, ErasedIs DEF Init, PagesOK
<1>3. Shape
    <2>1. <<>> \in Seq(Pages) /\ 0 \in 0 .. MaxSeq+1 /\ 0 \in 0 .. MaxCuts
        BY NvsAssumption
    <2> QED BY <1>2, <2>1, JobIs DEF Init, Shape, Pcs
<1>4. \A p \in Pages : ~HasSeq(p) /\ \A s \in {"ACTIVE", "FREEING"} : ~Is(p, s)
    BY <1>1, ErasedIs DEF HasSeq, Is
<1>5. 0 \in Pages
    BY NvsAssumption DEF Pages
<1>6. FlashInv
    BY <1>1, <1>4, <1>5 DEF FlashInv
<1> QED BY <1>3, <1>6 DEF Init, PageInvs, ListInv, StageInv, FreeingPcs, LoadPcs, MovePcs, WritePcs

LEMMA PageInvsStep == PageInvs /\ [Next]_vars => PageInvs'
<1> SUFFICES ASSUME PageInvs, [Next]_vars PROVE PageInvs'
    OBVIOUS
<1>1. CASE UNCHANGED vars
    <2>1. Same
        BY <1>1, SameUnchanged DEF vars, PageInvs, Shape
    <2>2. Shape' /\ FlashInv' /\ ListInv'
        BY <1>1, <2>1, SameStep DEF vars, PageInvs, Shape
    <2>3. StageInv'
        BY <1>1 DEF vars, PageInvs, StageInv, Is, HasSeq, Current
    <2> QED BY <2>2, <2>3 DEF PageInvs
<1>2. CASE Call
    BY <1>2, SetStep, EraseStep DEF Call
<1>3. CASE WriteItem
    BY <1>3, InitSteps, WriteSteps, EraseOldStep, MarkFullStep, RequestNewPageStep, MarkFreeingStep,
       NoSpaceStep DEF WriteItem
<1>4. CASE Move
    BY <1>4, InitSteps, MoveSteps, MoveFreeStep, EraseCorruptStep DEF Move
<1>5. CASE Load
    BY <1>5, LoadPageSteps, LoadSteps, BuildListsStep, ActivateFirstStep, EraseOlderStep,
       ResumeFreeingStep, ActivateForMoveStep DEF Load
<1>6. CASE PowerCut
    BY <1>6, PowerCutStep
<1> QED BY <1>1, <1>2, <1>3, <1>4, <1>5, <1>6 DEF Next

\* The pages and the two lists keep together, whatever call or load is in
\* progress and wherever power fails: sequence numbers tell the pages apart, the
\* list is in their order, and every page is either in use or free.
THEOREM PageInvsInvariant == Spec => []PageInvs
BY PageInvsInit, PageInvsStep, PTL DEF Spec

\* There is always a page in reserve: PageManager::load() never gives up for
\* want of a free page (ESP_ERR_NVS_NO_FREE_PAGES), wherever power failed and
\* however often, and between calls a page is free and none waits to be freed.
THEOREM AlwaysPageInReserve == Spec => []PageInReserve
<1>1. PageInvs => PageInReserve
    <2> SUFFICES ASSUME PageInvs PROVE PageInReserve
        OBVIOUS
    <2>1. pc # "no_free_page" /\ (pc = "idle" => free # <<>>)
        BY DEF PageInvs, StageInv
    <2>2. pc = "idle" => \A p \in Pages : ~Is(p, "FREEING")
        BY DEF PageInvs, StageInv, FreeingPcs, LoadPcs, MovePcs
    <2>3. \A n \in 1 .. Len(list) : list[n] \in Pages
        BY OnIs DEF PageInvs, Shape
    <2>4. pc = "idle" => Freeing = {}
        BY <2>2, <2>3 DEF Freeing, Is
    <2> QED BY <2>1, <2>4 DEF PageInReserve
<1> QED BY <1>1, PageInvsInvariant, PTL

-----------------------------------------------------------------------------
(* The entries of a page.                                                  *)

Entry == [t : {"blank", "torn", "item", "data"}, k : Keys \cup {NoValue}, v : Values \cup {NoValue}]
Table == [Idx -> {"EMPTY", "WRITTEN", "ERASED"}]
Ents == [Idx -> Entry]

Heads(g) == {i \in Idx : g.tab[i] = "WRITTEN" /\ g.ent[i].t = "item"}
Body(g, i) == i .. i + Span[g.ent[i].k] - 1
KeyIn(g, k) == \E i \in Heads(g) : g.ent[i].k = k

\* Items do not overlap, a written entry belongs to an item, and the first
\* entry of an item goes with its last one.
Sound(g) ==
    /\ g.tab \in Table /\ g.ent \in Ents
    /\ \A j \in Idx : g.ent[j].t = "item" => g.ent[j].k \in Keys /\ g.tab[j] # "ERASED"
    /\ \A i \in Heads(g), j \in Idx : i < j /\ g.ent[j].t = "item" => j \notin Body(g, i)
    /\ \A j \in Idx : g.tab[j] = "WRITTEN" => \E i \in Heads(g) : j \in Body(g, i)

\* No item reaches to entry b.
Below(g, b) == \A i \in Heads(g) : Body(g, i) \subseteq 0 .. b-1

UsedTo(g, f) == \A i \in 0 .. f-1 : g.tab[i] # "EMPTY"
BlankFrom(g, f) == \A i \in f .. N-1 : g.tab[i] = "EMPTY" /\ g.ent[i] = Blank

\* In use up to f, and free from there on.
Clean(g, f) == f \in 0 .. N /\ UsedTo(g, f) /\ BlankFrom(g, f) /\ Below(g, f)

\* All items end before entry a, except the one that begins there.
LastAt(g, a, e) ==
    /\ a \in Heads(g) /\ g.ent[a] = e
    /\ \A i \in Heads(g) \ {a} : Body(g, i) \subseteq 0 .. a-1

\* Page::writeItem(): the entry of the item is written; its state too; its data.
Placed(g, a, e) ==
    /\ a \in Idx /\ g.tab[a] = "EMPTY" /\ g.ent[a] = e
    /\ UsedTo(g, a) /\ BlankFrom(g, a+1) /\ Below(g, a)
Opened(g, a, e) == a \in Idx /\ UsedTo(g, a+1) /\ BlankFrom(g, a+1) /\ LastAt(g, a, e)
Filling(g, a, e) ==
    /\ a \in Idx /\ UsedTo(g, a+1) /\ LastAt(g, a, e)
    /\ \A i \in Body(g, a) \ {a} : i \in Idx /\ g.tab[i] # "ERASED" /\ g.ent[i].t # "item"
    /\ BlankFrom(g, a + Span[e.k])

\* Page::moveItem(): the first n entries of the item that begins with e are
\* there, and f is the next free entry.
Begun(g, f, n, e) ==
    /\ f \in n .. N /\ UsedTo(g, f)
    /\ IF n = 0 THEN Below(g, f) ELSE LastAt(g, f - n, e)
Receiving(g, f, n, e) == Begun(g, f, n, e) /\ BlankFrom(g, f)
Received(g, f, n, e, x) ==
    /\ Begun(g, f, n, e) /\ f < N
    /\ g.tab[f] = "EMPTY" /\ g.ent[f] = x /\ BlankFrom(g, f+1)

\* What Page::load() finds: entries below e are in use, those from n on are
\* free, and those between them are the rest of the last item.
Between(g, e, n) ==
    /\ e \in 0 .. N /\ n \in e .. N
    /\ UsedTo(g, e) /\ BlankFrom(g, n)
    /\ \A i \in Heads(g) : Body(g, i) \cap Idx \subseteq 0 .. n-1
Rest(g, e, n) == \E h \in Heads(g) : h < e /\ e .. n-1 \subseteq Body(g, h)
\* Or there is one, which shows that it was written.
Shown(g, e, n) == n = e + 1 /\ g.tab[e] = "EMPTY" /\ Shows(g.ent[e])
\* Or they were erased.
Gone(g, e, n) == \A i \in e .. n-1 : g.tab[i] = "ERASED"

Loadable(g) == \E e, n \in 0 .. N : Between(g, e, n) /\ (e = n \/ Rest(g, e, n) \/ Shown(g, e, n) \/ Gone(g, e, n))
Halving(g, i) == \E n \in 0 .. N : Between(g, i, n) /\ (i = n \/ Rest(g, i, n) \/ Shown(g, i, n))

\* Items before entry i are complete, or being erased.
Scanning(g, i, e) ==
    /\ i \in 0 .. N
    /\ \E n \in 0 .. N : Between(g, e, n) /\ (e = n \/ Rest(g, e, n) \/ Gone(g, e, n))
    /\ \A j \in Heads(g) : j < i =>
          Body(g, j) \subseteq 0 .. i-1 /\ \A x \in Body(g, j) : g.tab[x] # "EMPTY"

-----------------------------------------------------------------------------
(* The entries of all pages, by the step that is due.                      *)

\* Steps of Page::writeItem() and Page::moveItem() with an item half done.
HalfPcs == {"w_item_state", "w_data", "w_data_state", "mv_entry", "mv_state", "mv_erase"}

\* The active page g, by the step c that is due, the place a, the call j and
\* the page s that is being freed.
Phase(g, c, a, j, s) ==
    /\ c = "off" => Loadable(g)
    /\ c = "ld_half" => Halving(g, a.i)
    /\ c \in {"ld_scan", "ld_dup"} => Scanning(g, a.i, a.end)
    /\ c = "ld_dup" => /\ a.i \in Heads(g) /\ \A x \in Body(g, a.i) : x \in Idx /\ g.tab[x] = "WRITTEN"
                       /\ \E d \in Heads(g) : d < a.i /\ Hash[g.ent[d].k] = Hash[g.ent[a.i].k]
    /\ c \notin HalfPcs \cup {"off", "ld_half", "ld_scan", "ld_dup", "abort"} => \E f \in 0 .. N : Clean(g, f)
    /\ c = "w_item" => \E f \in 0 .. N : Clean(g, f) /\ f + Span[j.k] <= N
    /\ c \in {"w_item_state", "w_data", "w_data_state"} => a.i + Span[j.k] <= N
    /\ c = "w_item_state" => Placed(g, a.i, Item(j.k, j.v))
    /\ c = "w_data" => Opened(g, a.i, Item(j.k, j.v))
    /\ c = "w_data_state" => Filling(g, a.i, Item(j.k, j.v))
    /\ c \in {"mv_entry", "mv_erase"} => \E f \in 0 .. N : Receiving(g, f, a.end, s.ent[a.i])
    /\ c = "mv_state" => \E f \in 0 .. N : Received(g, f, a.end, s.ent[a.i], s.ent[a.i + a.end])

\* The page s that is being freed.
Source(s, c, a, j) ==
    /\ c \in MovePcs \ {"mv_free"} =>
          /\ a.p = j.from /\ a.i \in Heads(s)
          /\ c = "mv_init" => a.end = 0
          /\ c \in {"mv_entry", "mv_state"} => a.end \in 0 .. Span[s.ent[a.i].k] - 1
          /\ c = "mv_erase" => a.end = Span[s.ent[a.i].k]
    /\ c = "mv_free" => \A i \in Idx : s.tab[i] # "WRITTEN"

EntryInv ==
    /\ \A p \in Pages : page[p].tab \in Table /\ page[p].ent \in Ents
    /\ \A p \in Pages : HasSeq(p) => Sound(page[p])
    /\ \A p \in Pages : Is(p, "FULL") \/ Is(p, "FREEING") => Below(page[p], N)
    /\ \A p \in Pages : Is(p, "ACTIVE") => Phase(page[p], pc, at, job, page[job.from])
    /\ Source(page[job.from], pc, at, job)

\* The item that the call in progress replaces is where it was, or has been
\* moved to the last page.
WasInv ==
    job.was \in Pages /\ pc # "abort" =>
        \/ HasSeq(job.was) /\ KeyIn(page[job.was], job.k)
        \/ /\ pc \notin {"request", "mark", "w_full"}
           /\ Is(job.was, "UNINITIALIZED") \/ job.was = job.from
           /\ HasSeq(Current) /\ KeyIn(page[Current], job.k)

\* The call in progress.
CallInv ==
    /\ job.k \in Keys \cup {NoValue} /\ job.v \in Values \cup {NoValue}
    /\ at.p \in Pages \cup {NoPage}
    /\ pc \in {"request", "mark", "w_erase"} \cup WritePcs => job.k \in Keys
    /\ pc \in LoadPcs \cup {"ld_first", "ld_old", "ld_freeing", "ld_activate"} => job.was = NoPage
    /\ pc = "w_erase" => job.was \in Pages
    /\ pc \notin {"mark", "ld_activate", "abort"} \cup MovePcs => job.from = NoPage
    /\ WasInv
-----------------------------------------------------------------------------
(* What one write does to the entries of a page.                           *)

LEMMA IdxIs == N \in Nat /\ N > 0 /\ Idx = 0 .. N-1 /\ Idx \subseteq Nat
BY NvsAssumption DEF Idx

LEMMA HeadIs ==
    ASSUME NEW g, Sound(g), NEW i \in Heads(g)
    PROVE  /\ i \in Idx /\ i \in Nat /\ g.tab[i] = "WRITTEN" /\ g.ent[i].t = "item" /\ g.ent[i].k \in Keys
           /\ Span[g.ent[i].k] \in 1 .. N /\ Span[g.ent[i].k] \in Nat
           /\ i \in Body(g, i) /\ Body(g, i) \subseteq Nat
           /\ \A j \in Body(g, i) : j >= i /\ j < i + Span[g.ent[i].k]
           /\ \A j \in Body(g, i) \cap Idx : j # i => g.ent[j].t # "item"
<1>1. i \in Idx /\ i \in Nat /\ g.tab[i] = "WRITTEN" /\ g.ent[i].t = "item" /\ g.ent[i].k \in Keys
    BY IdxIs DEF Heads, Sound
<1>2. Span[g.ent[i].k] \in 1 .. N /\ Span[g.ent[i].k] \in Nat
    BY <1>1, IdxIs, NvsAssumption
<1>3. /\ i \in Body(g, i) /\ Body(g, i) \subseteq Nat
      /\ \A j \in Body(g, i) : j >= i /\ j < i + Span[g.ent[i].k]
    BY <1>1, <1>2 DEF Body
<1>4. \A j \in Body(g, i) \cap Idx : j # i => g.ent[j].t # "item"
    <2> SUFFICES ASSUME NEW j \in Body(g, i), j \in Idx, j # i, g.ent[j].t = "item" PROVE FALSE
        OBVIOUS
    <2>1. i < j
        BY <1>1, <1>3
    <2> QED BY <2>1 DEF Sound
<1> QED BY <1>1, <1>2, <1>3, <1>4

\* The items of g and of h are the same.
SameItems(g, h) == Heads(h) = Heads(g) /\ \A i \in Heads(g) : h.ent[i] = g.ent[i]

LEMMA SameItemsIs ==
    ASSUME NEW g, NEW h, SameItems(g, h)
    PROVE  /\ \A i \in Heads(g) : Body(h, i) = Body(g, i)
           /\ \A b : Below(g, b) <=> Below(h, b)
           /\ \A k : KeyIn(g, k) <=> KeyIn(h, k)
BY DEF SameItems, Body, Below, KeyIn

\* An entry is written that the table has as empty.
LEMMA WriteIs ==
    ASSUME NEW g, NEW h, Sound(g), NEW n \in Idx, g.tab[n] = "EMPTY", NEW e \in Entry,
           e.t = "item" => e.k \in Keys /\ Below(g, n),
           h.tab = g.tab, h.ent = [g.ent EXCEPT ![n] = e]
    PROVE  Sound(h) /\ SameItems(g, h)
<1>1. /\ h.ent \in Ents /\ h.tab \in Table /\ h.ent[n] = e
      /\ \A j \in Idx : j # n => h.ent[j] = g.ent[j]
    BY DEF Sound, Ents
<1>2. SameItems(g, h)
    BY <1>1 DEF SameItems, Heads
<1>3. \A i \in Heads(g) : Body(h, i) = Body(g, i)
    BY <1>2, SameItemsIs
<1>4. Heads(h) = Heads(g)
    BY <1>2 DEF SameItems
<1>5. \A j \in Idx : h.ent[j].t = "item" => h.ent[j].k \in Keys /\ h.tab[j] # "ERASED"
    BY <1>1 DEF Sound
<1>6. \A i \in Heads(h), j \in Idx : i < j /\ h.ent[j].t = "item" => j \notin Body(h, i)
    <2> SUFFICES ASSUME NEW i \in Heads(g), NEW j \in Idx, i < j, h.ent[j].t = "item"
                 PROVE  j \notin Body(g, i)
        BY <1>3, <1>4
    <2>1. CASE j # n
        BY <1>1, <2>1 DEF Sound
    <2>2. CASE j = n
        <3>1. Body(g, i) \subseteq 0 .. n-1
            BY <1>1, <2>2 DEF Below
        <3> QED BY <2>2, <3>1, IdxIs
    <2> QED BY <2>1, <2>2
<1>7. \A j \in Idx : h.tab[j] = "WRITTEN" => \E i \in Heads(h) : j \in Body(h, i)
    BY <1>3, <1>4 DEF Sound
<1> QED BY <1>1, <1>2, <1>5, <1>6, <1>7 DEF Sound

\* An entry is marked as written: the first of an item, or another one.
LEMMA CountIs ==
    ASSUME NEW g, NEW h, Sound(g), NEW n \in Idx, g.tab[n] = "EMPTY", BlankFrom(g, n+1),
           h.tab = [g.tab EXCEPT ![n] = "WRITTEN"], h.ent = g.ent
    PROVE  /\ g.ent[n].t = "item" => Sound(h) /\ Heads(h) = Heads(g) \cup {n}
           /\ g.ent[n].t # "item" /\ (\E i \in Heads(g) : n \in Body(g, i)) => Sound(h) /\ Heads(h) = Heads(g)
           /\ \A i \in Heads(g) : h.ent[i] = g.ent[i] /\ Body(h, i) = Body(g, i)
<1>1. /\ h.ent \in Ents /\ h.tab \in Table /\ h.tab[n] = "WRITTEN"
      /\ \A j \in Idx : j # n => h.tab[j] = g.tab[j]
    BY DEF Sound, Table
<1>2. \A i \in Idx : h.ent[i] = g.ent[i] /\ Body(h, i) = Body(g, i)
    BY DEF Body
<1>3. Heads(g) \subseteq Idx /\ n \notin Heads(g)
    BY DEF Heads
<1>4. \A j \in Idx : h.ent[j].t = "item" => h.ent[j].k \in Keys /\ h.tab[j] # "ERASED"
    BY <1>1 DEF Sound
<1>5. CASE g.ent[n].t = "item"
    <2>1. Heads(h) = Heads(g) \cup {n}
        BY <1>1, <1>5 DEF Heads
    <2>2. \A i \in Heads(h), j \in Idx : i < j /\ h.ent[j].t = "item" => j \notin Body(h, i)
        <3> SUFFICES ASSUME NEW i \in Heads(h), NEW j \in Idx, i < j, g.ent[j].t = "item"
                     PROVE  j \notin Body(g, i)
            BY <1>2, <1>3, <2>1
        <3>1. CASE i # n
            BY <2>1, <3>1 DEF Sound
        <3>2. CASE i = n
            <4>1. j \in n+1 .. N-1
                BY <3>2, IdxIs
            <4>2. g.ent[j] = Blank
                BY <4>1 DEF BlankFrom
            <4> QED BY <4>2 DEF Blank
        <3> QED BY <3>1, <3>2
    <2>3. n \in Body(h, n)
        <3>1. g.ent[n].k \in Keys
            BY <1>5 DEF Sound
        <3>2. Span[g.ent[n].k] \in 1 .. N
            BY <3>1, NvsAssumption
        <3> QED BY <1>2, <3>2, IdxIs DEF Body
    <2>4. \A j \in Idx : h.tab[j] = "WRITTEN" => \E i \in Heads(h) : j \in Body(h, i)
        BY <1>1, <1>2, <1>3, <2>1, <2>3 DEF Sound
    <2> QED BY <1>1, <1>2, <1>3, <1>4, <1>5, <2>1, <2>2, <2>4 DEF Sound
<1>6. CASE g.ent[n].t # "item"
    <2>1. Heads(h) = Heads(g)
        BY <1>1, <1>6 DEF Heads
    <2>2. \A i \in Heads(h), j \in Idx : i < j /\ h.ent[j].t = "item" => j \notin Body(h, i)
        BY <1>2, <1>3, <2>1 DEF Sound
    <2>3. (\E i \in Heads(g) : n \in Body(g, i)) =>
             \A j \in Idx : h.tab[j] = "WRITTEN" => \E i \in Heads(h) : j \in Body(h, i)
        BY <1>1, <1>2, <1>3, <2>1 DEF Sound
    <2> QED BY <1>1, <1>2, <1>3, <1>4, <1>6, <2>1, <2>2, <2>3 DEF Sound
<1> QED BY <1>5, <1>6

\* Entries of item i are marked as erased: some that follow the first one, or all.
LEMMA ErasePartIs ==
    ASSUME NEW g, NEW h, Sound(g), NEW i \in Heads(g), NEW L, L \subseteq Body(g, i), i \notin L,
           h.tab = [x \in Idx |-> IF x \in L THEN "ERASED" ELSE g.tab[x]], h.ent = g.ent
    PROVE  Sound(h) /\ SameItems(g, h)
<1>1. h.tab \in Table /\ \A x \in Idx : h.tab[x] = IF x \in L THEN "ERASED" ELSE g.tab[x]
    BY DEF Sound, Table
<1>2. \A x \in L \cap Idx : g.ent[x].t # "item"
    BY HeadIs
<1>3. Heads(h) = Heads(g)
    BY <1>1, <1>2 DEF Heads
<1>4. SameItems(g, h) /\ \A x : Body(h, x) = Body(g, x)
    BY <1>3 DEF SameItems, Body
<1>5. \A j \in Idx : h.ent[j].t = "item" => h.ent[j].k \in Keys /\ h.tab[j] # "ERASED"
    BY <1>1, <1>2 DEF Sound
<1>6. \A j \in Idx : h.tab[j] = "WRITTEN" => \E x \in Heads(h) : j \in Body(h, x)
    BY <1>1, <1>3, <1>4 DEF Sound
<1>7. \A x \in Heads(h), j \in Idx : x < j /\ h.ent[j].t = "item" => j \notin Body(h, x)
    BY <1>3, <1>4 DEF Sound
<1> QED BY <1>1, <1>4, <1>5, <1>6, <1>7 DEF Sound

LEMMA EraseAllIs ==
    ASSUME NEW g, NEW h, Sound(g), NEW i \in Heads(g),
           h.tab \in Table, \A x \in Body(g, i) \cap Idx : h.tab[x] = "ERASED",
           \A x \in Idx \ Body(g, i) : h.tab[x] = g.tab[x],
           h.ent = [x \in Idx |-> IF x \in Body(g, i) THEN Torn ELSE g.ent[x]]
    PROVE  /\ Sound(h) /\ Heads(h) = Heads(g) \ {i}
           /\ \A x \in Heads(h) : h.ent[x] = g.ent[x] /\ Body(h, x) = Body(g, x)
<1>1. \A x \in Idx : h.ent[x] = IF x \in Body(g, i) THEN Torn ELSE g.ent[x]
    OBVIOUS
<1>2. Torn \in Entry /\ Torn.t # "item"
    BY DEF Torn, Entry
<1>3. h.ent \in Ents
    BY <1>2 DEF Sound, Ents
<1>4. i \in Body(g, i) /\ \A x \in Heads(g) : x # i => x \notin Body(g, i)
    <2>1. i \in Body(g, i) /\ \A j \in Body(g, i) \cap Idx : j # i => g.ent[j].t # "item"
        BY HeadIs
    <2> QED BY <2>1 DEF Heads
<1>5. Heads(h) = Heads(g) \ {i}
    BY <1>1, <1>2, <1>4 DEF Heads
<1>6. \A x \in Heads(h) : h.ent[x] = g.ent[x] /\ Body(h, x) = Body(g, x)
    <2>1. \A x \in Heads(h) : x \in Idx /\ x \notin Body(g, i)
        BY <1>4, <1>5 DEF Heads
    <2> QED BY <1>1, <2>1 DEF Body
<1>7. \A j \in Idx : h.ent[j].t = "item" => /\ h.ent[j] = g.ent[j] /\ g.ent[j].t = "item"
                                            /\ h.ent[j].k \in Keys /\ h.tab[j] # "ERASED"
    BY <1>1, <1>2 DEF Sound
<1>8. \A x \in Heads(h), j \in Idx : x < j /\ h.ent[j].t = "item" => j \notin Body(h, x)
    BY <1>5, <1>6, <1>7 DEF Sound
<1>9. \A j \in Idx : h.tab[j] = "WRITTEN" => \E x \in Heads(h) : j \in Body(h, x)
    <2> SUFFICES ASSUME NEW j \in Idx, h.tab[j] = "WRITTEN" PROVE \E x \in Heads(h) : j \in Body(h, x)
        OBVIOUS
    <2>1. j \notin Body(g, i) /\ g.tab[j] = "WRITTEN"
        OBVIOUS
    <2>2. PICK x \in Heads(g) : j \in Body(g, x)
        BY <2>1 DEF Sound
    <2>3. x \in Heads(h)
        BY <1>5, <2>1, <2>2
    <2> QED BY <1>6, <2>2, <2>3
<1> QED BY <1>3, <1>5, <1>6, <1>7, <1>8, <1>9 DEF Sound

\* Entries of the last item, which are not the first, are marked as written.
LEMMA FillIs ==
    ASSUME NEW g, NEW h, Sound(g), NEW i \in Heads(g), NEW L, L \subseteq Body(g, i), i \notin L,
           h.tab = [x \in Idx |-> IF x \in L THEN "WRITTEN" ELSE g.tab[x]], h.ent = g.ent
    PROVE  Sound(h) /\ SameItems(g, h)
<1>1. h.tab \in Table /\ \A x \in Idx : h.tab[x] = IF x \in L THEN "WRITTEN" ELSE g.tab[x]
    BY DEF Sound, Table
<1>2. \A x \in L \cap Idx : g.ent[x].t # "item"
    BY HeadIs
<1>3. Heads(h) = Heads(g)
    BY <1>1, <1>2 DEF Heads
<1>4. SameItems(g, h) /\ \A x : Body(h, x) = Body(g, x)
    BY <1>3 DEF SameItems, Body
<1>5. \A j \in Idx : h.ent[j].t = "item" => h.ent[j].k \in Keys /\ h.tab[j] # "ERASED"
    BY <1>1 DEF Sound
<1>6. \A j \in Idx : h.tab[j] = "WRITTEN" => \E x \in Heads(h) : j \in Body(h, x)
    BY <1>1, <1>3, <1>4 DEF Sound
<1>7. \A x \in Heads(h), j \in Idx : x < j /\ h.ent[j].t = "item" => j \notin Body(h, x)
    BY <1>3, <1>4 DEF Sound
<1> QED BY <1>1, <1>4, <1>5, <1>6, <1>7 DEF Sound

\* Page::load() marks an entry as erased that was not counted yet.
LEMMA HalfIs ==
    ASSUME NEW g, NEW h, Sound(g), NEW n \in Idx, n \notin Heads(g),
           h.tab = [g.tab EXCEPT ![n] = "ERASED"], h.ent = [g.ent EXCEPT ![n] = Torn]
    PROVE  Sound(h) /\ SameItems(g, h)
<1>1. Torn \in Entry /\ Torn.t # "item"
    BY DEF Torn, Entry
<1>2. /\ h.tab \in Table /\ h.tab[n] = "ERASED" /\ \A j \in Idx : j # n => h.tab[j] = g.tab[j]
      /\ h.ent \in Ents /\ h.ent[n] = Torn /\ \A j \in Idx : j # n => h.ent[j] = g.ent[j]
    BY <1>1 DEF Sound, Table, Ents
<1>3. Heads(h) = Heads(g)
    BY <1>1, <1>2 DEF Heads
<1>4. n \notin Heads(g) /\ Heads(g) \subseteq Idx
    BY DEF Heads
<1>5. SameItems(g, h) /\ \A x \in Heads(g) : Body(h, x) = Body(g, x)
    BY <1>2, <1>3, <1>4 DEF SameItems, Body
<1>6. \A j \in Idx : h.ent[j].t = "item" => h.ent[j].k \in Keys /\ h.tab[j] # "ERASED"
    BY <1>1, <1>2 DEF Sound
<1>7. \A j \in Idx : h.tab[j] = "WRITTEN" => \E x \in Heads(h) : j \in Body(h, x)
    BY <1>2, <1>3, <1>5 DEF Sound
<1>8. \A x \in Heads(h), j \in Idx : x < j /\ h.ent[j].t = "item" => j \notin Body(h, x)
    BY <1>1, <1>2, <1>3, <1>5 DEF Sound
<1> QED BY <1>2, <1>5, <1>6, <1>7, <1>8 DEF Sound

-----------------------------------------------------------------------------
(* alterEntryRangeState().                                                 *)

LEMMA DivMonotone ==
    ASSUME NEW a \in Nat, NEW b \in Nat, a <= b
    PROVE  a \div Word <= b \div Word /\ a \div Word \in Nat
BY NvsAssumption

-----------------------------------------------------------------------------
(* Page::writeItem() and Page::moveItem(), write after write: g becomes h. *)

LEMMA ItemIs ==
    ASSUME NEW k \in Keys, NEW v \in Values \cup {NoValue}
    PROVE  /\ Item(k, v) \in Entry /\ Item(k, v).t = "item" /\ Item(k, v).k = k
           /\ Data(k, v) \in Entry /\ Data(k, v).t = "data"
           /\ Span[k] \in Nat /\ Span[k] >= 1 /\ Span[k] <= N
BY NvsAssumption DEF Item, Data, Entry

LEMMA BlankIs == Blank \in Entry /\ Blank.t = "blank" /\ Torn \in Entry /\ Torn.t = "torn" /\ Blank # Torn
BY DEF Blank, Torn, Entry

\* One entry of the page is written: where the item is to begin, or where the
\* next entry of an item goes.
LEMMA PlaceFirst ==
    ASSUME NEW g, NEW h, Sound(g), NEW f \in Idx, Clean(g, f), NEW e \in Entry, e.t = "item" => e.k \in Keys,
           h.tab = g.tab, h.ent = [g.ent EXCEPT ![f] = e]
    PROVE  Sound(h) /\ SameItems(g, h) /\ Placed(h, f, e)
<1>1. g.tab[f] = "EMPTY" /\ Below(g, f) /\ UsedTo(g, f) /\ BlankFrom(g, f)
    BY IdxIs DEF Clean, BlankFrom
<1>2. Sound(h) /\ SameItems(g, h)
    BY <1>1, WriteIs
<1>3. Below(h, f) /\ UsedTo(h, f)
    BY <1>1, <1>2, SameItemsIs DEF UsedTo
<1>4. h.ent[f] = e /\ \A j \in Idx : j # f => h.ent[j] = g.ent[j]
    BY DEF Sound, Ents
<1>5. BlankFrom(h, f+1)
    BY <1>1, <1>4, IdxIs DEF BlankFrom
<1> QED BY <1>1, <1>2, <1>3, <1>4, <1>5 DEF Placed

\* The table is told.
LEMMA OpenItem ==
    ASSUME NEW g, NEW h, Sound(g), NEW a, NEW e, Placed(g, a, e), e.t = "item", e.k \in Keys,
           h.tab = [g.tab EXCEPT ![a] = "WRITTEN"], h.ent = g.ent
    PROVE  /\ Sound(h) /\ Heads(h) = Heads(g) \cup {a} /\ a \notin Heads(g)
           /\ \A i \in Heads(g) : h.ent[i] = g.ent[i] /\ Body(h, i) = Body(g, i)
           /\ Opened(h, a, e)
           /\ Span[e.k] = 1 => Clean(h, a + 1)
<1>1. /\ a \in Idx /\ g.tab[a] = "EMPTY" /\ g.ent[a] = e /\ UsedTo(g, a) /\ BlankFrom(g, a+1) /\ Below(g, a)
      /\ a \in Nat /\ a + 1 <= N
    BY IdxIs DEF Placed
<1>2. /\ Sound(h) /\ Heads(h) = Heads(g) \cup {a}
      /\ \A i \in Heads(g) : h.ent[i] = g.ent[i] /\ Body(h, i) = Body(g, i)
    BY <1>1, CountIs
<1>3. a \notin Heads(g)
    BY <1>1 DEF Heads
<1>4. h.tab[a] = "WRITTEN" /\ \A j \in Idx : j # a => h.tab[j] = g.tab[j]
    BY <1>1 DEF Sound, Table
<1>5. UsedTo(h, a+1) /\ BlankFrom(h, a+1)
    BY <1>1, <1>4, IdxIs DEF UsedTo, BlankFrom
<1>6. \A i \in Heads(h) \ {a} : Body(h, i) \subseteq 0 .. a-1
    BY <1>1, <1>2 DEF Below
<1>7. LastAt(h, a, e)
    BY <1>1, <1>2, <1>6 DEF LastAt
<1>8. ASSUME Span[e.k] = 1 PROVE Clean(h, a + 1)
    <2>1. Body(h, a) = a .. a
        BY <1>1, <1>8 DEF Body
    <2>2. Below(h, a + 1)
        BY <1>1, <1>6, <2>1 DEF Below
    <2> QED BY <1>1, <1>5, <2>2, IdxIs DEF Clean
<1> QED BY <1>1, <1>2, <1>3, <1>5, <1>7, <1>8 DEF Opened

\* The data follows, in full or, when power fails, up to an entry m that is
\* torn.
LEMMA WriteDataIs ==
    ASSUME NEW g, NEW h, Sound(g), NEW a, NEW e, Opened(g, a, e), e.k \in Keys, a + Span[e.k] <= N,
           h.tab = g.tab, h.ent \in Ents,
           \A j \in Idx : j \in Body(g, a) \ {a} => h.ent[j].t # "item",
           \A j \in Idx : j \notin Body(g, a) \ {a} => h.ent[j] = g.ent[j]
    PROVE  Sound(h) /\ SameItems(g, h) /\ Filling(h, a, e)
<1>1. /\ a \in Idx /\ UsedTo(g, a+1) /\ BlankFrom(g, a+1) /\ LastAt(g, a, e) /\ a \in Heads(g) /\ g.ent[a] = e
      /\ Body(g, a) = a .. a + Span[e.k] - 1 /\ Span[e.k] \in Nat /\ a \in Nat
    BY IdxIs, NvsAssumption DEF Opened, LastAt, Body
<1>2. \A j \in Body(g, a) \ {a} : j \in Idx /\ j \in a+1 .. N-1 /\ g.tab[j] = "EMPTY" /\ g.ent[j] = Blank
    BY <1>1, IdxIs DEF BlankFrom
<1>3. \A j \in Heads(g) : j \notin Body(g, a) \ {a}
    BY <1>2 DEF Heads
<1>4. Heads(h) = Heads(g)
    BY <1>2, <1>3 DEF Heads
<1>5. SameItems(g, h)
    BY <1>3, <1>4 DEF SameItems, Heads
<1>6. \A i \in Heads(g) : Body(h, i) = Body(g, i)
    BY <1>5, SameItemsIs
<1>7. \A j \in Idx : h.ent[j].t = "item" => h.ent[j] = g.ent[j]
    OBVIOUS
<1>8. Sound(h)
    BY <1>4, <1>6, <1>7 DEF Sound
<1>9. h.ent[a] = e /\ LastAt(h, a, e)
    BY <1>1, <1>4, <1>5, <1>6 DEF LastAt, SameItems
<1>10. UsedTo(h, a+1) /\ BlankFrom(h, a + Span[e.k])
    <2>1. \A j \in a + Span[e.k] .. N-1 : j \in Idx /\ j \in a+1 .. N-1 /\ j \notin Body(g, a) \ {a}
        BY <1>1, IdxIs, NvsAssumption
    <2> QED BY <1>1, <2>1 DEF UsedTo, BlankFrom
<1>11. \A i \in Body(h, a) \ {a} : i \in Idx /\ h.tab[i] # "ERASED" /\ h.ent[i].t # "item"
    BY <1>1, <1>2, <1>6
<1> QED BY <1>1, <1>5, <1>8, <1>9, <1>10, <1>11 DEF Filling

\* The table is told of some of the data, or of all.
LEMMA FillSome ==
    ASSUME NEW g, NEW h, Sound(g), NEW a, NEW e, Filling(g, a, e), e.k \in Keys,
           NEW L, L \subseteq Body(g, a) \ {a},
           h.tab = [x \in Idx |-> IF x \in L THEN "WRITTEN" ELSE g.tab[x]], h.ent = g.ent
    PROVE  /\ Sound(h) /\ SameItems(g, h) /\ Filling(h, a, e)
           /\ (\A x \in Body(g, a) \ {a} : g.tab[x] # "WRITTEN" => x \in L) => Clean(h, a + Span[e.k])
<1>1. /\ a \in Idx /\ UsedTo(g, a+1) /\ LastAt(g, a, e) /\ a \in Heads(g) /\ g.ent[a] = e
      /\ Body(g, a) = a .. a + Span[e.k] - 1 /\ Span[e.k] \in Nat /\ Span[e.k] >= 1 /\ a \in Nat
    BY IdxIs, NvsAssumption DEF Filling, LastAt, Body
<1>2. Sound(h) /\ SameItems(g, h)
    BY <1>1, FillIs
<1>3. \A i \in Heads(g) : Body(h, i) = Body(g, i)
    BY <1>2, SameItemsIs
<1>4. \A x \in Idx : h.tab[x] = IF x \in L THEN "WRITTEN" ELSE g.tab[x]
    OBVIOUS
<1>5. LastAt(h, a, e)
    BY <1>1, <1>2, <1>3 DEF LastAt, SameItems
<1>6. UsedTo(h, a+1)
    BY <1>1, <1>4, IdxIs DEF UsedTo
<1>7. BlankFrom(h, a + Span[e.k])
    <2>1. \A j \in a + Span[e.k] .. N-1 : j \in Idx /\ j \notin L
        BY <1>1, IdxIs
    <2> QED BY <1>4, <2>1 DEF Filling, BlankFrom
<1>8. \A i \in Body(h, a) \ {a} : i \in Idx /\ h.tab[i] # "ERASED" /\ h.ent[i].t # "item"
    BY <1>1, <1>3, <1>4 DEF Filling
<1>9. Filling(h, a, e)
    BY <1>1, <1>5, <1>6, <1>7, <1>8 DEF Filling
<1>10. ASSUME \A x \in Body(g, a) \ {a} : g.tab[x] # "WRITTEN" => x \in L
       PROVE  Clean(h, a + Span[e.k])
    <2>1. \A x \in Body(g, a) \ {a} : x \in Idx /\ h.tab[x] = "WRITTEN"
        BY <1>1, <1>4, <1>10 DEF Filling
    <2>2. UsedTo(h, a + Span[e.k])
        <3>1. \A x \in 0 .. a : h.tab[x] # "EMPTY"
            BY <1>1, <1>6 DEF UsedTo
        <3> SUFFICES ASSUME NEW x \in 0 .. (a + Span[e.k]) - 1 PROVE h.tab[x] # "EMPTY"
            BY Zenon DEF UsedTo
        <3>2. x \in 0 .. a \/ x \in Body(g, a) \ {a}
            BY <1>1
        <3> QED BY <3>1, <3>2, <2>1
    <2>3. Below(h, a + Span[e.k])
        <3> SUFFICES ASSUME NEW i \in Heads(h), NEW x \in Body(h, i) PROVE x \in 0 .. (a + Span[e.k]) - 1
            BY Zenon DEF Below
        <3>1. CASE i = a
            BY <1>1, <1>3, <3>1
        <3>2. CASE i # a
            <4>1. x \in 0 .. a-1
                BY <1>5, <3>2, Zenon DEF LastAt
            <4> QED BY <1>1, <4>1
        <3> QED BY <3>1, <3>2
    <2>4. a + Span[e.k] \in 0 .. N
        <3>1. a + Span[e.k] - 1 \in Idx
            BY <1>1, <2>1
        <3> QED BY <1>1, <3>1, IdxIs
    <2> QED BY <1>7, <2>2, <2>3, <2>4 DEF Clean
<1> QED BY <1>2, <1>9, <1>10

\* An entry is copied to where the next one goes.
LEMMA PlaceNext ==
    ASSUME NEW g, NEW h, Sound(g), NEW f, NEW n \in Nat, NEW e, NEW x \in Entry, Receiving(g, f, n, e), f < N,
           x.t = "item" => n = 0 /\ x.k \in Keys,
           h.tab = g.tab, h.ent = [g.ent EXCEPT ![f] = x]
    PROVE  Sound(h) /\ SameItems(g, h) /\ Received(h, f, n, e, x)
<1>1. /\ f \in Idx /\ f \in Nat /\ f >= n /\ g.tab[f] = "EMPTY" /\ UsedTo(g, f) /\ BlankFrom(g, f)
      /\ f \in n .. N
    BY IdxIs DEF Receiving, Begun, BlankFrom
<1>2. Sound(h) /\ SameItems(g, h)
    <2>1. x.t = "item" => x.k \in Keys /\ Below(g, f)
        BY DEF Receiving, Begun
    <2> QED BY <1>1, <2>1, WriteIs
<1>3. /\ \A b : Below(g, b) <=> Below(h, b)
      /\ \A i \in Heads(g) : Body(h, i) = Body(g, i) /\ h.ent[i] = g.ent[i]
      /\ Heads(h) = Heads(g)
    BY <1>2, SameItemsIs DEF SameItems
<1>4. h.ent[f] = x /\ \A j \in Idx : j # f => h.ent[j] = g.ent[j]
    BY <1>1 DEF Sound, Ents
<1>5. BlankFrom(h, f+1)
    BY <1>1, <1>4, IdxIs DEF BlankFrom
<1>6. LastAt(g, f - n, e) => LastAt(h, f - n, e)
    BY <1>3 DEF LastAt
<1>7. Begun(h, f, n, e)
    BY <1>1, <1>3, <1>6 DEF Begun, Receiving, UsedTo
<1> QED BY <1>1, <1>2, <1>4, <1>5, <1>7 DEF Received

\* The table is told of it.
LEMMA CountNext ==
    ASSUME NEW g, NEW h, Sound(g), NEW f, NEW n \in Nat, NEW e, NEW x, Received(g, f, n, e, x),
           n = 0 => x = e, e.t = "item", e.k \in Keys, n < Span[e.k], n # 0 => x.t # "item",
           h.tab = [g.tab EXCEPT ![f] = "WRITTEN"], h.ent = g.ent
    PROVE  /\ Sound(h) /\ Heads(g) \subseteq Heads(h)
           /\ \A i \in Heads(g) : h.ent[i] = g.ent[i]
           /\ Receiving(h, f + 1, n + 1, e)
           /\ Heads(h) = IF n = 0 THEN Heads(g) \cup {f} ELSE Heads(g)
           /\ \A y \in Idx : g.tab[y] = "WRITTEN" => h.tab[y] = "WRITTEN"
<1>1. /\ f \in Idx /\ f \in Nat /\ f >= n /\ f < N /\ g.tab[f] = "EMPTY" /\ g.ent[f] = x
      /\ UsedTo(g, f) /\ BlankFrom(g, f+1)
    BY IdxIs DEF Received, Begun
<1>2. h.tab[f] = "WRITTEN" /\ \A j \in Idx : j # f => h.tab[j] = g.tab[j]
    BY <1>1 DEF Sound, Table
<1>3. UsedTo(h, f+1) /\ BlankFrom(h, f+1) /\ f + 1 \in n + 1 .. N
    BY <1>1, <1>2, IdxIs DEF UsedTo, BlankFrom
<1>4. Span[e.k] \in Nat
    BY NvsAssumption
<1>5. \A i \in Heads(g) : h.ent[i] = g.ent[i] /\ Body(h, i) = Body(g, i)
    BY <1>1, CountIs
<1>6. CASE n = 0
    <2>1. Below(g, f)
        BY <1>6 DEF Received, Begun
    <2>2. Sound(h) /\ Heads(h) = Heads(g) \cup {f}
        BY <1>1, <1>6, CountIs
    <2>3. LastAt(h, f, e)
        BY <1>1, <1>5, <1>6, <2>1, <2>2 DEF LastAt, Below
    <2>4. (f + 1) - (n + 1) = f /\ n + 1 # 0
        BY <1>1, <1>6
    <2> QED BY <1>2, <1>3, <1>5, <1>6, <2>2, <2>3, <2>4 DEF Receiving, Begun
<1>7. CASE n # 0
    <2>1. LastAt(g, f - n, e)
        BY <1>7 DEF Received, Begun
    <2>2. f - n \in Heads(g) /\ g.ent[f - n] = e
        BY <2>1 DEF LastAt
    <2>3. f \in Body(g, f - n)
        BY <1>1, <1>4, <2>2 DEF Body
    <2>4. Sound(h) /\ Heads(h) = Heads(g)
        BY <1>1, <1>7, <2>2, <2>3, CountIs
    <2>5. LastAt(h, f - n, e)
        BY <1>5, <2>1, <2>4 DEF LastAt
    <2>6. (f + 1) - (n + 1) = f - n /\ n + 1 # 0
        BY <1>1
    <2> QED BY <1>2, <1>3, <1>5, <1>7, <2>4, <2>5, <2>6 DEF Receiving, Begun
<1> QED BY <1>6, <1>7

\* All of it is there.
LEMMA ReceivedAll ==
    ASSUME NEW g, NEW f, NEW e, e.k \in Keys, Receiving(g, f, Span[e.k], e)
    PROVE  Clean(g, f) /\ \A x : Receiving(g, f, 0, x)
<1>1. Span[e.k] \in Nat /\ Span[e.k] # 0 /\ f \in Span[e.k] .. N /\ f \in 0 .. N /\ UsedTo(g, f) /\ BlankFrom(g, f)
    BY NvsAssumption, IdxIs DEF Receiving, Begun
<1>2. LastAt(g, f - Span[e.k], e)
    BY <1>1 DEF Receiving, Begun
<1>3. Body(g, f - Span[e.k]) \subseteq 0 .. f-1
    BY <1>1, <1>2 DEF LastAt, Body
<1>4. \A y \in 0 .. (f - Span[e.k]) - 1 : y \in 0 .. f-1
    BY <1>1
<1>5. Below(g, f)
    BY <1>2, <1>3, <1>4 DEF LastAt, Below
<1> QED BY <1>1, <1>5 DEF Clean, Receiving, Begun

\* The entries of an item are erased, some of them or all.
LEMMA EraseClean ==
    ASSUME NEW g, NEW h, Sound(g), NEW i \in Heads(g), h.tab \in Table,
           \A x \in Idx : h.tab[x] # g.tab[x] => x \in Body(g, i) /\ h.tab[x] = "ERASED",
           \A x \in Idx : h.ent[x] # g.ent[x] => x \in Body(g, i),
           Heads(h) \subseteq Heads(g), \A x \in Heads(h) : Body(h, x) = Body(g, x)
    PROVE  /\ \A f \in 0 .. N : Clean(g, f) => Clean(h, f)
           /\ \A b : Below(g, b) => Below(h, b)
<1>1. \A b : Below(g, b) => Below(h, b)
    BY DEF Below
<1>2. ASSUME NEW f \in 0 .. N, Clean(g, f) PROVE Clean(h, f)
    <2>1. Body(g, i) \subseteq 0 .. f-1 /\ UsedTo(g, f) /\ BlankFrom(g, f)
        BY <1>2 DEF Clean, Below
    <2>2. UsedTo(h, f)
        <3> SUFFICES ASSUME NEW x \in 0 .. f-1 PROVE h.tab[x] # "EMPTY"
            BY DEF UsedTo
        <3>1. x \in Idx /\ g.tab[x] # "EMPTY"
            BY <2>1, IdxIs DEF UsedTo
        <3> QED BY <3>1
    <2>3. BlankFrom(h, f)
        <3> SUFFICES ASSUME NEW x \in f .. N-1 PROVE h.tab[x] = "EMPTY" /\ h.ent[x] = Blank
            BY DEF BlankFrom
        <3>1. x \in Idx /\ g.tab[x] = "EMPTY" /\ g.ent[x] = Blank /\ x \notin 0 .. f-1
            BY <2>1, IdxIs DEF BlankFrom
        <3>2. x \notin Body(g, i)
            BY <2>1, <3>1
        <3> QED BY <3>1, <3>2
    <2> QED BY <1>1, <1>2, <2>2, <2>3 DEF Clean
<1> QED BY <1>1, <1>2

-----------------------------------------------------------------------------
(* One flash operation on the table or on the entries of a page.           *)

\* Page p has table f and entries e; nothing else is changed.
Redone(p, f, e) ==
    /\ page'[p].tab = f /\ page'[p].ent = e
    /\ page'[p].state = page[p].state /\ page'[p].seq = page[p].seq
    /\ \A q \in Pages : q # p => page'[q] = page[q]

Made(g, f, e) == [state |-> g.state, seq |-> g.seq, tab |-> f, ent |-> e]

LEMMA MadeIs ==
    ASSUME NEW g, IsPage(g), NEW f, NEW e
    PROVE  /\ g = Made(g, g.tab, g.ent) /\ IsPage(Made(g, f, e))
           /\ Made(g, f, e).tab = f /\ Made(g, f, e).ent = e
           /\ Made(g, f, e).state = g.state /\ Made(g, f, e).seq = g.seq
           /\ [Made(g, g.tab, g.ent) EXCEPT !.tab = f] = Made(g, f, g.ent)
           /\ [Made(g, g.tab, g.ent) EXCEPT !.ent = e] = Made(g, g.tab, e)
BY DEF IsPage, Made

LEMMA MadeFrom ==
    ASSUME NEW g, IsPage(g), NEW f, NEW e
    PROVE  /\ [g EXCEPT !.tab = f] = Made(g, f, g.ent)
           /\ [g EXCEPT !.ent = e] = Made(g, g.tab, e)
<1>1. g = Made(g, g.tab, g.ent)
    BY MadeIs
<1>2. [Made(g, g.tab, g.ent) EXCEPT !.tab = f] = Made(g, f, g.ent)
    BY MadeIs
<1>3. [Made(g, g.tab, g.ent) EXCEPT !.ent = e] = Made(g, g.tab, e)
    BY MadeIs
<1>4. [g EXCEPT !.tab = f] = Made(g, f, g.ent)
    BY <1>1, <1>2, Zenon
<1>5. [g EXCEPT !.ent = e] = Made(g, g.tab, e)
    BY <1>1, <1>3, Zenon
<1> QED BY <1>4, <1>5, Zenon

LEMMA PageMade ==
    ASSUME PagesOK, NEW p \in Pages, NEW f, NEW e, page' = [page EXCEPT ![p] = Made(page[p], f, e)]
    PROVE  Redone(p, f, e)
<1>1. IsPage(page[p])
    BY DEF PagesOK
<1>2. IsPage(Made(page[p], f, e))
    BY <1>1, MadeIs
<1>3. page'[p] = Made(page[p], f, e) /\ \A q \in Pages : q # p => page'[q] = page[q]
    BY <1>2, OnePage
<1>4. /\ Made(page[p], f, e).tab = f /\ Made(page[p], f, e).ent = e
      /\ Made(page[p], f, e).state = page[p].state /\ Made(page[p], f, e).seq = page[p].seq
    BY DEF Made
<1> QED BY <1>3, <1>4, Zenon DEF Redone

LEMMA BothAre ==
    ASSUME PagesOK, NEW p \in Pages, NEW f, NEW e,
           page' = [page EXCEPT ![p].tab = f, ![p].ent = e]
    PROVE  Redone(p, f, e)
<1>1. page' = [page EXCEPT ![p] = [[page[p] EXCEPT !.tab = f] EXCEPT !.ent = e]]
    BY DEF PagesOK
<1>2. IsPage(page[p])
    BY DEF PagesOK
<1>3. [[page[p] EXCEPT !.tab = f] EXCEPT !.ent = e] = Made(page[p], f, e)
    <2>1. PICK g : g = page[p]
        OBVIOUS
    <2>2. IsPage(g)
        BY <1>2, <2>1
    <2>3. [g EXCEPT !.tab = f] = Made(g, f, g.ent)
        BY <2>2, MadeFrom, Zenon
    <2>4. [Made(g, f, g.ent) EXCEPT !.ent = e] = Made(g, f, e)
        BY DEF Made
    <2> QED BY <2>1, <2>3, <2>4, Zenon
<1>4. page' = [page EXCEPT ![p] = Made(page[p], f, e)]
    BY <1>1, <1>3, Zenon
<1> QED BY <1>4, PageMade

LEMMA EntsAre ==
    ASSUME PagesOK, NEW p \in Pages, NEW e, page' = [page EXCEPT ![p].ent = e]
    PROVE  Redone(p, page[p].tab, e)
<1>1. page' = [page EXCEPT ![p] = [page[p] EXCEPT !.ent = e]]
    BY DEF PagesOK
<1>2. IsPage(page[p])
    BY DEF PagesOK
<1>3. [page[p] EXCEPT !.ent = e] = Made(page[p], page[p].tab, e)
    BY <1>2, MadeFrom, Zenon
<1>4. page' = [page EXCEPT ![p] = Made(page[p], page[p].tab, e)]
    BY <1>1, <1>3, Zenon
<1> QED BY <1>4, PageMade

LEMMA TabIs ==
    ASSUME PagesOK, NEW p \in Pages, NEW f, page' = [page EXCEPT ![p].tab = f]
    PROVE  Redone(p, f, page[p].ent)
<1>1. page' = [page EXCEPT ![p] = [page[p] EXCEPT !.tab = f]]
    BY DEF PagesOK
<1>2. IsPage(page[p])
    BY DEF PagesOK
<1>3. [page[p] EXCEPT !.tab = f] = Made(page[p], f, page[p].ent)
    BY <1>2, MadeFrom, Zenon
<1>4. page' = [page EXCEPT ![p] = Made(page[p], f, page[p].ent)]
    BY <1>1, <1>3, Zenon
<1> QED BY <1>4, PageMade

LEMMA AlterIs ==
    ASSUME PagesOK, NEW p \in Pages, NEW i, NEW s, Alter(p, i, s)
    PROVE  Redone(p, [page[p].tab EXCEPT ![i] = s], page[p].ent)
<1>1. page' = [page EXCEPT ![p].tab = [page[p].tab EXCEPT ![i] = s]]
    BY DEF Alter, PagesOK
<1> QED BY <1>1, TabIs

LEMMA WriteOneIs ==
    ASSUME PagesOK, NEW p \in Pages, NEW i, NEW e, Write(p, i, e)
    PROVE  Redone(p, page[p].tab, [page[p].ent EXCEPT ![i] = e])
<1>1. page' = [page EXCEPT ![p].ent = [page[p].ent EXCEPT ![i] = e]]
    BY DEF Write, PagesOK
<1> QED BY <1>1, EntsAre

\* The entries that share a word with the last one: when the first entry is
\* among them, so are all.
LEMMA LastWord ==
    ASSUME NEW S, S \subseteq Idx, NEW i \in S, \A j \in S : i <= j,
           i \div Word = Highest(S) \div Word
    PROVE  \A j \in S : j \div Word = Highest(S) \div Word
<1>1. Highest(S) \in S /\ \A j \in S : Highest(S) >= j
    <2>1. N - 1 \in Nat /\ S \subseteq 0 .. N-1 /\ S # {}
        BY IdxIs
    <2> QED BY <2>1, HighestIs
<1> SUFFICES ASSUME NEW j \in S PROVE j \div Word = Highest(S) \div Word
    OBVIOUS
<1>2. i \in Nat /\ j \in Nat /\ Highest(S) \in Nat /\ i <= j /\ j <= Highest(S)
    BY <1>1, IdxIs
<1> QED BY <1>2, DivMonotone

\* An item of g is being erased in h.
Erasing(g, h, i) ==
    /\ Sound(h) /\ h.state = g.state /\ h.seq = g.seq
    /\ Heads(h) \subseteq Heads(g)
    /\ \A x \in Heads(h) : h.ent[x] = g.ent[x] /\ Body(h, x) = Body(g, x)
    /\ \A x \in Idx : h.tab[x] # g.tab[x] => x \in Body(g, i) /\ h.tab[x] = "ERASED"
    /\ \A x \in Idx : h.ent[x] # g.ent[x] => x \in Body(g, i)

\* All of it is erased.
Wiped(g, h, i) == Heads(h) = Heads(g) \ {i} /\ \A x \in Body(g, i) \cap Idx : h.tab[x] = "ERASED"

LEMMA AlterErased ==
    ASSUME PagesOK, NEW p \in Pages, Sound(page[p]), NEW i \in Heads(page[p]), NEW from, NEW to,
           NEW S, S = Body(page[p], i), AlterRange(p, S, "ERASED", from, to)
    PROVE  /\ \A q \in Pages : q # p => page'[q] = page[q]
           /\ Erasing(page[p], page'[p], i)
           /\ \/ pc' = from /\ SameItems(page[p], page'[p]) /\ page'[p].ent = page[p].ent
              \/ pc' = to /\ Wiped(page[p], page'[p], i)
<1> DEFINE g == page[p]
           todo == {x \in S \cap Idx : g.tab[x] # "ERASED"}
           last == {x \in todo : x \div Word = Highest(todo) \div Word}
           f == [x \in Idx |-> IF x \in last THEN "ERASED" ELSE g.tab[x]]
           e == IF last = todo THEN [x \in Idx |-> IF x \in S THEN Torn ELSE g.ent[x]] ELSE g.ent
<1>1. /\ page' = [page EXCEPT ![p].tab = f, ![p].ent = e]
      /\ pc' = IF last = todo THEN to ELSE from
    BY DEF AlterRange
<1>2. /\ i \in Idx /\ i \in Nat /\ g.tab[i] = "WRITTEN" /\ i \in S /\ S \subseteq Nat
      /\ \A j \in S : i <= j
    <2>1. PICK k : k = g
        OBVIOUS
    <2>2. /\ i \in Idx /\ i \in Nat /\ k.tab[i] = "WRITTEN" /\ i \in Body(k, i) /\ Body(k, i) \subseteq Nat
          /\ \A j \in Body(k, i) : j >= i
        BY <2>1, HeadIs
    <2> QED BY <2>1, <2>2
<1>3. todo \subseteq Idx /\ i \in todo /\ \A j \in todo : i <= j
    BY <1>2
<1>4. last \subseteq todo /\ last \subseteq S
    OBVIOUS
<1>5. i \in last => last = todo
    <2>1. i \in last => \A j \in todo : j \div Word = Highest(todo) \div Word
        <3> HIDE DEF todo
        <3> QED BY <1>3, LastWord
    <2> QED BY <2>1
<1> HIDE DEF f, e
<1>6. Redone(p, f, e)
    BY <1>1, BothAre
<1>7. PICK h : h = page'[p]
    OBVIOUS
<1>8. h.tab = f /\ h.ent = e /\ h.state = g.state /\ h.seq = g.seq /\ \A q \in Pages : q # p => page'[q] = page[q]
    BY <1>6, <1>7 DEF Redone
<1>9. f \in Table /\ \A x \in Idx : f[x] = IF x \in last THEN "ERASED" ELSE g.tab[x]
    <2>1. g.tab \in Table
        BY DEF Sound
    <2> QED BY <2>1 DEF f, Table
<1>10. \A x \in Idx : f[x] # g.tab[x] => x \in S /\ f[x] = "ERASED"
    BY <1>4, <1>9
<1>11. CASE last # todo
    <2>1. e = g.ent /\ i \notin last /\ pc' = from
        BY <1>1, <1>5, <1>11 DEF e
    <2>2. Sound(h) /\ SameItems(g, h)
        <3> HIDE DEF last
        <3> QED BY <1>4, <1>8, <2>1, ErasePartIs DEF f
    <2>3. Heads(h) = Heads(g) /\ \A x \in Heads(g) : h.ent[x] = g.ent[x] /\ Body(h, x) = Body(g, x)
        BY <2>2, SameItemsIs DEF SameItems
    <2>4. Erasing(g, h, i)
        BY <1>8, <1>10, <2>1, <2>2, <2>3 DEF Erasing
    <2> QED BY <1>7, <1>8, <2>1, <2>2, <2>4
<1>12. CASE last = todo
    <2>1. e = [x \in Idx |-> IF x \in S THEN Torn ELSE g.ent[x]] /\ pc' = to
        BY <1>1, <1>12 DEF e
    <2>2. \A x \in S \cap Idx : f[x] = "ERASED"
        BY <1>9, <1>12
    <2>3. \A x \in Idx \ S : f[x] = g.tab[x]
        BY <1>4, <1>9
    <2>4. /\ Sound(h) /\ Heads(h) = Heads(g) \ {i}
          /\ \A x \in Heads(h) : h.ent[x] = g.ent[x] /\ Body(h, x) = Body(g, x)
        <3>1. PICK k : k = g
            OBVIOUS
        <3>2. Sound(k) /\ i \in Heads(k) /\ h.tab \in Table
            BY <1>8, <1>9, <3>1
        <3>3. /\ \A x \in Body(k, i) \cap Idx : h.tab[x] = "ERASED"
              /\ \A x \in Idx \ Body(k, i) : h.tab[x] = k.tab[x]
            BY <1>8, <2>2, <2>3, <3>1
        <3>4. h.ent = [x \in Idx |-> IF x \in Body(k, i) THEN Torn ELSE k.ent[x]]
            BY <1>8, <2>1, <3>1
        <3>5. /\ Sound(h) /\ Heads(h) = Heads(k) \ {i}
              /\ \A x \in Heads(h) : h.ent[x] = k.ent[x] /\ Body(h, x) = Body(k, x)
            BY <3>2, <3>3, <3>4, EraseAllIs
        <3> QED BY <3>1, <3>5
    <2>5. \A x \in Idx : h.ent[x] # g.ent[x] => x \in S
        BY <1>8, <2>1
    <2>6. Erasing(g, h, i)
        BY <1>8, <1>10, <2>4, <2>5 DEF Erasing
    <2>7. Wiped(g, h, i)
        BY <1>8, <2>2, <2>4 DEF Wiped
    <2> QED BY <1>7, <1>8, <2>1, <2>6, <2>7
<1> QED BY <1>11, <1>12

DataOf(a, k) == a+1 .. a+Span[k]-1

\* The table is told of the data of the item e at a: of some, or of all.
FillsIn(p, a, e, from, to) ==
    /\ \A q \in Pages : q # p => page'[q] = page[q]
    /\ page'[p].state = page[p].state /\ page'[p].seq = page[p].seq
    /\ Sound(page'[p]) /\ SameItems(page[p], page'[p])
    /\ page'[p].ent = page[p].ent /\ Filling(page'[p], a, e)
    /\ \A x \in Idx : page[p].tab[x] = "WRITTEN" => page'[p].tab[x] = "WRITTEN"
    /\ pc' = from \/ (pc' = to /\ Clean(page'[p], a + Span[e.k]))

LEMMA AlterWritten ==
    ASSUME PagesOK, NEW p \in Pages, Sound(page[p]), NEW a, NEW e, Filling(page[p], a, e), e.k \in Keys,
           NEW S, S = DataOf(a, e.k), NEW from, NEW to, AlterRange(p, S, "WRITTEN", from, to)
    PROVE  FillsIn(p, a, e, from, to)
<1> DEFINE g == page[p]
           todo == {x \in S \cap Idx : g.tab[x] # "WRITTEN"}
           last == {x \in todo : x \div Word = Highest(todo) \div Word}
           f == [x \in Idx |-> IF x \in last THEN "WRITTEN" ELSE g.tab[x]]
<1>1. /\ page' = [page EXCEPT ![p].tab = f, ![p].ent = g.ent]
      /\ pc' = IF last = todo THEN to ELSE from
    BY DEF AlterRange
<1>2. Redone(p, f, g.ent)
    <2> HIDE DEF f
    <2> QED BY <1>1, BothAre
<1>3. PICK h : h = page'[p]
    OBVIOUS
<1>4. /\ h.tab = f /\ h.ent = g.ent /\ h.state = g.state /\ h.seq = g.seq
      /\ \A q \in Pages : q # p => page'[q] = page[q]
    <2> HIDE DEF f
    <2> QED BY <1>2, <1>3 DEF Redone
<1>5. Body(g, a) \ {a} = S
    <2>1. a \in Nat /\ g.ent[a] = e /\ Span[e.k] \in Nat
        BY IdxIs, NvsAssumption DEF Filling, LastAt
    <2> QED BY <2>1 DEF Body, DataOf
<1>6. last \subseteq S /\ last \subseteq todo
    OBVIOUS
<1>7. last = todo => \A x \in S : g.tab[x] # "WRITTEN" => x \in last
    <2>1. \A x \in S : x \in Idx
        BY <1>5 DEF Filling
    <2> QED BY <2>1
<1>8. /\ Sound(h) /\ SameItems(g, h) /\ Filling(h, a, e)
      /\ (\A x \in Body(g, a) \ {a} : g.tab[x] # "WRITTEN" => x \in last) => Clean(h, a + Span[e.k])
    <2> HIDE DEF last
    <2> QED BY <1>4, <1>5, <1>6, FillSome
<1>9. \A x \in Idx : g.tab[x] = "WRITTEN" => h.tab[x] = "WRITTEN"
    <2> HIDE DEF last
    <2> QED BY <1>4
<1> QED BY <1>1, <1>3, <1>4, <1>5, <1>7, <1>8, <1>9 DEF FillsIn

\* Where the next entry goes.
LEMMA NextFreeIs ==
    ASSUME NEW p, page[p].tab \in Table, NEW f \in 0 .. N, UsedTo(page[p], f),
           \A i \in f .. N-1 : page[p].tab[i] = "EMPTY"
    PROVE  NextFree(p) = f
<1>1. Idx \ With(p, "EMPTY") = 0 .. f-1
    BY IdxIs DEF With, UsedTo
<1>2. CASE f = 0
    <2>1. With(p, "EMPTY") = Idx
        BY <1>1, <1>2 DEF With
    <2> QED BY <1>2, <2>1 DEF NextFree
<1>3. CASE f # 0
    <2>1. With(p, "EMPTY") # Idx
        BY <1>1, <1>3, IdxIs
    <2>2. Highest(0 .. f-1) \in 0 .. f-1 /\ \A y \in 0 .. f-1 : Highest(0 .. f-1) >= y
        <3>1. f - 1 \in Nat /\ 0 .. f-1 # {}
            BY <1>3, IdxIs
        <3> QED BY <3>1, HighestIs
    <2>3. Highest(0 .. f-1) = f - 1
        BY <1>3, <2>2, IdxIs
    <2>4. NextFree(p) = 1 + Highest(0 .. f-1)
        BY <1>1, <2>1 DEF NextFree
    <2> QED BY <1>3, <2>3, <2>4, IdxIs
<1> QED BY <1>2, <1>3

\* The first written entry, outside the bodies of some items, begins an item.
LEMMA FirstIsHead ==
    ASSUME NEW g, Sound(g), NEW W, W \subseteq {x \in Idx : g.tab[x] = "WRITTEN"}, W # {},
           \A i \in Heads(g) : \A x \in Body(g, i) : x \in W => i \in W
    PROVE  Lowest(W) \in Heads(g) /\ Lowest(W) \in W
<1>1. Lowest(W) \in W /\ \A y \in W : Lowest(W) <= y
    BY LowestIs, IdxIs
<1>2. Lowest(W) \in Idx /\ g.tab[Lowest(W)] = "WRITTEN"
    BY <1>1
<1>3. PICK i \in Heads(g) : Lowest(W) \in Body(g, i)
    BY <1>2 DEF Sound
<1>4. i \in Nat /\ i <= Lowest(W) /\ i \in W
    BY <1>1, <1>3, HeadIs
<1>5. i = Lowest(W)
    BY <1>1, <1>2, <1>4, IdxIs
<1> QED BY <1>1, <1>3, <1>5

-----------------------------------------------------------------------------
(* What a step has to show.                                                *)

IInv == PageInvs /\ EntryInv /\ CallInv

InUse == {"ACTIVE", "FULL", "FREEING"}
EntryTypes(g) == g.tab \in Table /\ g.ent \in Ents

\* All entries of item i are written, and its data is that of its value.
Complete(g, i) == \A x \in Body(g, i) : x \in Idx /\ g.tab[x] = "WRITTEN"
Whole(g, i) == \A x \in Body(g, i) \ {i} : x \in Idx /\ g.ent[x] = Data(g.ent[i].k, g.ent[i].v)

\* No item of page h, which was g, is new; one on an active page keeps the
\* entries that were counted.
Retained(g, h) ==
    h.state \in InUse =>
        \/ Heads(h) = {}
        \/ /\ g.state \in InUse /\ h.tab = g.tab
           /\ h.state = "ACTIVE" => g.state = "ACTIVE"
           /\ \A x \in Idx : g.state # "ACTIVE" \/ g.tab[x] = "WRITTEN" => h.ent[x] = g.ent[x]
Retaining == \A q \in Pages : Retained(page[q], page'[q])

\* Item i of page p is being erased: in part, or what is left of it.
Erases(p, i, from, to) ==
    /\ p \in Pages /\ HasSeq(p) /\ i \in Heads(page[p])
    /\ \A q \in Pages : q # p => page'[q] = page[q]
    /\ Erasing(page[p], page'[p], i)
    /\ \/ pc' = from /\ SameItems(page[p], page'[p]) /\ page'[p].ent = page[p].ent
       \/ pc' = to /\ Wiped(page[p], page'[p], i)

\* On page c, the active one, more entries are counted.
Counting(c) ==
    /\ c \in Pages /\ page[c].state = "ACTIVE" /\ page'[c].state = "ACTIVE"
    /\ \A q \in Pages : q # c => page'[q] = page[q]
    /\ page'[c].ent = page[c].ent
    /\ \A x \in Idx : page[c].tab[x] = "WRITTEN" => page'[c].tab[x] = "WRITTEN"

\* Entry m of page c, the active one, is counted: entry n of item i of page f.
Counts(c, m, f, i, n) ==
    /\ Counting(c) /\ page'[f] = page[f] /\ f \in Pages /\ f # c /\ m \in Idx /\ n \in Nat
    /\ page[c].ent[m] = page[f].ent[i + n] /\ page[c].tab[m] = "EMPTY" /\ page'[c].tab[m] = "WRITTEN"
    /\ Heads(page'[c]) = IF n = 0 THEN Heads(page[c]) \cup {m} ELSE Heads(page[c])
    /\ Receiving(page'[c], m + 1, n + 1, page[f].ent[i])

\* Entry i of page p, which was not counted, is marked as erased.
Drops(p, i) ==
    /\ p \in Pages /\ i \in Idx /\ page[p].state = "ACTIVE" /\ page'[p].state = "ACTIVE"
    /\ \A q \in Pages : q # p => page'[q] = page[q]
    /\ SameItems(page[p], page'[p]) /\ page'[p].tab[i] = "ERASED"
    /\ \A x \in Idx : x # i => page'[p].tab[x] = page[p].tab[x] /\ page'[p].ent[x] = page[p].ent[x]

SameCall == job'.k = job.k /\ job'.was = job.was

\* The header of a page stays as it is, or is lost.
Staying == \A q \in Pages : page'[q].state \in {page[q].state, "CORRUPT"}

LEMMA RetainOne ==
    ASSUME NEW p \in Pages, \A q \in Pages : q # p => page'[q] = page[q], Retained(page[p], page'[p])
    PROVE  Retaining
BY DEF Retaining, Retained

LEMMA RetainSame ==
    ASSUME UNCHANGED page
    PROVE  Retaining
BY DEF Retaining, Retained

LEMMA RetainCounted ==
    ASSUME NEW g, NEW h, g.state = "ACTIVE", h.state = "ACTIVE", h.tab = g.tab,
           \A x \in Idx : g.tab[x] = "WRITTEN" => h.ent[x] = g.ent[x]
    PROVE  Retained(g, h)
BY DEF Retained, InUse

LEMMA RetainWrite ==
    ASSUME NEW g, NEW h, Sound(g), g.state = "ACTIVE", h.state = g.state, h.tab = g.tab,
           NEW m \in Idx, g.tab[m] = "EMPTY", NEW x, h.ent = [g.ent EXCEPT ![m] = x]
    PROVE  Retained(g, h)
<1>1. \A y \in Idx : y # m => h.ent[y] = g.ent[y]
    BY DEF Sound, Ents
<1>2. \A y \in Idx : g.tab[y] = "WRITTEN" => h.ent[y] = g.ent[y]
    BY <1>1
<1> QED BY <1>2 DEF Retained, InUse

LEMMA StayOne ==
    ASSUME NEW p \in Pages, \A q \in Pages : q # p => page'[q] = page[q],
           page'[p].state \in {page[p].state, "CORRUPT"}
    PROVE  Staying
BY DEF Staying

\* At most page p is changed.
LEMMA EntryStep ==
    ASSUME EntryInv, NEW p \in Pages, \A q \in Pages : q # p => page'[q] = page[q],
           EntryTypes(page'[p]),
           page'[p].state \in InUse => Sound(page'[p]),
           page'[p].state \in {"FULL", "FREEING"} => Below(page'[p], N),
           \A q \in Pages : page'[q].state = "ACTIVE" => Phase(page'[q], pc', at', job', page'[job'.from]),
           Source(page'[job'.from], pc', at', job')
    PROVE  EntryInv'
<1>1. \A q \in Pages : page'[q].tab \in Table /\ page'[q].ent \in Ents
    BY DEF EntryInv, EntryTypes
<1>2. \A q \in Pages : page'[q].state \in InUse => Sound(page'[q])
    BY DEF EntryInv, HasSeq, InUse
<1>3. \A q \in Pages : page'[q].state \in {"FULL", "FREEING"} => Below(page'[q], N)
    BY DEF EntryInv, Is
<1> QED BY <1>1, <1>2, <1>3 DEF EntryInv, HasSeq, Is, InUse

LEMMA EntryKept ==
    ASSUME EntryInv, UNCHANGED page,
           \A q \in Pages : page[q].state = "ACTIVE" => Phase(page[q], pc', at', job', page[job'.from]),
           Source(page[job'.from], pc', at', job')
    PROVE  EntryInv'
BY DEF EntryInv, HasSeq, Is

LEMMA OneActive ==
    ASSUME PageInvs, NEW p \in Pages, NEW q \in Pages, page[p].state = "ACTIVE", page[q].state = "ACTIVE"
    PROVE  p = q
<1> SUFFICES ASSUME p # q PROVE FALSE
    OBVIOUS
<1>1. page[p].seq \in Nat /\ page[q].seq \in Nat
    BY NvsAssumption DEF PageInvs, Shape, PagesOK, IsPage
<1>2. page[p].seq < page[q].seq /\ page[q].seq < page[p].seq
    BY DEF PageInvs, FlashInv, Is, HasSeq
<1> QED BY <1>1, <1>2

\* The active page is p, after the step.
LEMMA ActiveStep ==
    ASSUME PageInvs', EntryInv, NEW p \in Pages, \A q \in Pages : q # p => page'[q] = page[q],
           page'[p].state = "ACTIVE", EntryTypes(page'[p]), Sound(page'[p]),
           Phase(page'[p], pc', at', job', page'[job'.from]),
           Source(page'[job'.from], pc', at', job')
    PROVE  EntryInv'
<1>1. \A q \in Pages : page'[q].state = "ACTIVE" => q = p
    <2> SUFFICES ASSUME NEW q \in Pages, page'[q].state = "ACTIVE", q # p PROVE FALSE
        OBVIOUS
    <2>1. page'[p].seq \in Nat /\ page'[q].seq \in Nat
        BY NvsAssumption DEF PageInvs, Shape, PagesOK, IsPage
    <2>2. page'[p].seq < page'[q].seq /\ page'[q].seq < page'[p].seq
        BY DEF PageInvs, FlashInv, Is, HasSeq
    <2> QED BY <2>1, <2>2
<1>2. \A q \in Pages : page'[q].state = "ACTIVE" => Phase(page'[q], pc', at', job', page'[job'.from])
    BY <1>1
<1> QED BY <1>2, EntryStep

LEMMA PhaseClean ==
    ASSUME NEW g, NEW c, NEW a, NEW j, NEW s, NEW f \in 0 .. N, Clean(g, f),
           c \notin HalfPcs \cup {"off", "ld_half", "ld_scan", "ld_dup"},
           c = "w_item" => f + Span[j.k] <= N
    PROVE  Phase(g, c, a, j, s)
BY DEF Phase, HalfPcs

LEMMA CleanIs ==
    ASSUME EntryInv, NEW p \in Pages, page[p].state = "ACTIVE",
           pc \notin HalfPcs \cup {"off", "ld_half", "ld_scan", "ld_dup", "abort"}
    PROVE  /\ Sound(page[p])
           /\ \E f \in 0 .. N : /\ Clean(page[p], f) /\ NextFree(p) = f
                                /\ pc = "w_item" => f + Span[job.k] <= N
<1>1. Sound(page[p])
    BY DEF EntryInv, HasSeq
<1>2. PICK f \in 0 .. N : Clean(page[p], f) /\ (pc = "w_item" => f + Span[job.k] <= N)
    BY Zenon DEF EntryInv, Phase, Is
<1>3. NextFree(p) = f
    BY <1>1, <1>2, NextFreeIs DEF Sound, Clean, BlankFrom
<1> QED BY <1>1, <1>2, <1>3

LEMMA SourceNone ==
    ASSUME NEW s, NEW c, NEW a, NEW j, c \notin MovePcs
    PROVE  Source(s, c, a, j)
BY DEF Source, MovePcs

\* The item to be replaced stays where it is.
LEMMA WasKept ==
    ASSUME WasInv, UNCHANGED list, job'.was = job.was, job'.k = job.k, job'.from = job.from,
           pc = "abort" => pc' = "abort",
           pc' \in {"request", "mark", "w_full"} => pc \in {"request", "mark", "w_full"},
           job.was \in Pages => \A q \in Pages :
              /\ page[q].state \in InUse =>
                    page'[q].state \in InUse /\ (KeyIn(page[q], job.k) => KeyIn(page'[q], job.k))
              /\ page[q].state = "UNINITIALIZED" => page'[q].state = "UNINITIALIZED" \/ q = Current,
           Current \in Pages
    PROVE  WasInv'
<1> SUFFICES ASSUME job.was \in Pages, pc' # "abort"
             PROVE  \/ page'[job.was].state \in InUse /\ KeyIn(page'[job.was], job.k)
                    \/ /\ pc' \notin {"request", "mark", "w_full"}
                       /\ page'[job.was].state = "UNINITIALIZED" \/ job.was = job.from
                       /\ page'[Current].state \in InUse /\ KeyIn(page'[Current], job.k)
    BY DEF WasInv, HasSeq, Is, InUse, Current
<1>1. CASE HasSeq(job.was) /\ KeyIn(page[job.was], job.k)
    BY <1>1 DEF HasSeq, InUse
<1>2. CASE /\ pc \notin {"request", "mark", "w_full"}
           /\ Is(job.was, "UNINITIALIZED") \/ job.was = job.from
           /\ HasSeq(Current) /\ KeyIn(page[Current], job.k)
    <2>1. page'[Current].state \in InUse /\ KeyIn(page'[Current], job.k)
        BY <1>2 DEF HasSeq, InUse
    <2>2. Is(job.was, "UNINITIALIZED") => page'[job.was].state = "UNINITIALIZED"
        BY <1>2 DEF Is, HasSeq
    <2> QED BY <1>2, <2>1, <2>2
<1> QED BY <1>1, <1>2 DEF WasInv

LEMMA WasNone ==
    ASSUME job'.was = NoPage
    PROVE  WasInv'
BY JobIs DEF WasInv

LEMMA KeyKept ==
    ASSUME NEW g, NEW h, Heads(g) \subseteq Heads(h), \A i \in Heads(g) : h.ent[i] = g.ent[i], NEW k, KeyIn(g, k)
    PROVE  KeyIn(h, k)
BY DEF KeyIn

-----------------------------------------------------------------------------
(* Storage::writeItem() and Storage::eraseItem().                          *)

LEMMA FindPageHas ==
    ASSUME Shape, NEW k
    PROVE  /\ FindPage(k) \in Pages => HasSeq(FindPage(k)) /\ KeyIn(page[FindPage(k)], k)
           /\ Holding(k) # {} => FindPage(k) \in Pages
<1>1. CASE Holding(k) = {}
    BY <1>1, JobIs DEF FindPage
<1>2. CASE Holding(k) # {}
    <2>1. PICK n : n = Lowest(Holding(k))
        OBVIOUS
    <2>2. Holding(k) \subseteq 1 .. Len(list) /\ Len(list) \in Nat
        BY OnIs DEF Holding, Shape
    <2>3. n \in Holding(k)
        BY <1>2, <2>1, <2>2, LowestIs
    <2>4. FindPage(k) = list[n] /\ list[n] \in Pages
        BY <1>2, <2>1, <2>2, <2>3, OnIs DEF FindPage, Shape
    <2>5. PICK i : i \in ItemsOf(list[n], k)
        BY <2>3 DEF Holding
    <2>6. HasSeq(list[n]) /\ i \in Heads(page[list[n]]) /\ page[list[n]].ent[i].k = k
        BY <2>5 DEF ItemsOf, Items, With, Heads
    <2> QED BY <2>4, <2>6 DEF KeyIn
<1> QED BY <1>1, <1>2

\* Page::findItem() finds the first entry of an item with the key.
LEMMA FindItemIs ==
    ASSUME NEW p, HasSeq(p), NEW k, KeyIn(page[p], k)
    PROVE  /\ findItem(p, k) \in Heads(page[p]) /\ page[p].ent[findItem(p, k)].k = k
           /\ Entries(p, findItem(p, k)) = Body(page[p], findItem(p, k))
<1>1. ItemsOf(p, k) = {i \in Heads(page[p]) : page[p].ent[i].k = k}
    BY DEF ItemsOf, Items, With, Heads
<1>2. ItemsOf(p, k) # {} /\ ItemsOf(p, k) \subseteq Nat
    BY <1>1, IdxIs DEF KeyIn, Heads
<1>3. findItem(p, k) \in ItemsOf(p, k)
    BY <1>2, LowestIs DEF findItem
<1>4. findItem(p, k) \in Heads(page[p]) /\ page[p].ent[findItem(p, k)].k = k
    BY <1>1, <1>3
<1>5. page[p].ent[findItem(p, k)].t = "item"
    BY <1>4 DEF Heads
<1> QED BY <1>4, <1>5 DEF Entries, SpanAt, Body

\* No step of writeItem() or load() but those of a move.
LEMMA SetEntries ==
    ASSUME IInv, PageInvs', NEW k \in Keys, NEW v \in Values, Set(k, v)
    PROVE  EntryInv' /\ CallInv'
<1>1. /\ pc = "idle" /\ pc' \in {"w_init", "w_item", "request", "w_full"}
      /\ UNCHANGED <<page, list, free, nextSeq, at, cuts>>
    BY DEF Set, ToWrite
<1>2. JobFor(job', k, v, FindPage(k), NoPage)
    BY JobIs, FindPageIs DEF IInv, PageInvs, Set
<1>3. job'.k = k /\ job'.v = v /\ job'.was = FindPage(k) /\ job'.from = NoPage
    BY <1>2 DEF JobFor
<1>4. ASSUME NEW q \in Pages, page[q].state = "ACTIVE"
      PROVE  Phase(page[q], pc', at', job', page[job'.from])
    <2>1. PICK f \in 0 .. N : Clean(page[q], f) /\ NextFree(q) = f
        BY <1>1, <1>4, CleanIs DEF IInv, HalfPcs
    <2>2. pc' = "w_item" => page'[Current].state = "ACTIVE" /\ Current \in Pages /\ q = Current
        <3>1. list # <<>> /\ Current \in Pages
            BY <1>1, OnIs DEF IInv, PageInvs, ListInv, LoadPcs, Shape, Current
        <3>2. pc' = "w_item" => page'[Current].state = "ACTIVE"
            BY <1>1 DEF PageInvs, StageInv, WritePcs, Is, Current
        <3> QED BY <1>1, <1>4, <3>1, <3>2, OneActive DEF IInv
    <2>3. pc' = "w_item" => f + Span[job'.k] <= N
        BY <1>1, <1>3, <2>1, <2>2 DEF Set, Fits
    <2>4. pc' \notin HalfPcs \cup {"off", "ld_half", "ld_scan", "ld_dup"}
        BY <1>1 DEF HalfPcs
    <2> QED BY <2>1, <2>3, <2>4, PhaseClean
<1>5. EntryInv'
    <2>1. Source(page[job'.from], pc', at', job')
        BY <1>1, SourceNone DEF MovePcs
    <2> QED BY <1>1, <1>4, <2>1, EntryKept DEF IInv
<1>6. WasInv'
    <2>1. FindPage(k) \in Pages => HasSeq(FindPage(k)) /\ KeyIn(page[FindPage(k)], k)
        BY FindPageHas DEF IInv, PageInvs
    <2> QED BY <1>1, <1>3, <2>1 DEF WasInv, HasSeq
<1>7. CallInv'
    BY <1>1, <1>3, <1>6 DEF IInv, CallInv, WritePcs, LoadPcs, MovePcs
<1> QED BY <1>5, <1>7

LEMMA EraseEntries ==
    ASSUME IInv, PageInvs', NEW k \in Keys, Erase(k)
    PROVE  EntryInv' /\ CallInv'
<1>1. /\ pc = "idle" /\ pc' = "w_erase" /\ Holding(k) # {}
      /\ UNCHANGED <<page, list, free, nextSeq, at, cuts>>
    BY DEF Erase
<1>2. JobFor(job', k, NoValue, FindPage(k), NoPage)
    BY JobIs, FindPageIs DEF IInv, PageInvs, Erase
<1>3. job'.k = k /\ job'.v = NoValue /\ job'.was = FindPage(k) /\ job'.from = NoPage
    BY <1>2 DEF JobFor
<1>4. ASSUME NEW q \in Pages, page[q].state = "ACTIVE"
      PROVE  Phase(page[q], pc', at', job', page[job'.from])
    <2>1. PICK f \in 0 .. N : Clean(page[q], f)
        BY <1>1, <1>4, CleanIs DEF IInv, HalfPcs
    <2> QED BY <1>1, <2>1, PhaseClean DEF HalfPcs
<1>5. EntryInv'
    <2>1. Source(page[job'.from], pc', at', job')
        BY <1>1, SourceNone DEF MovePcs
    <2> QED BY <1>1, <1>4, <2>1, EntryKept DEF IInv
<1>6. FindPage(k) \in Pages /\ HasSeq(FindPage(k)) /\ KeyIn(page[FindPage(k)], k)
    BY <1>1, FindPageHas DEF IInv, PageInvs
<1>7. WasInv'
    BY <1>1, <1>3, <1>6 DEF WasInv, HasSeq
<1>8. CallInv'
    BY <1>1, <1>3, <1>6, <1>7 DEF IInv, CallInv, WritePcs, LoadPcs, MovePcs
<1> QED BY <1>5, <1>8

\* Page p keeps its items and gets others.
LEMMA WasRedone ==
    ASSUME WasInv, UNCHANGED <<list, job>>, pc # "abort", pc' \notin {"request", "mark", "w_full"},
           Current \in Pages, NEW p \in Pages, \A q \in Pages : q # p => page'[q] = page[q],
           page'[p].state = page[p].state,
           \A k : KeyIn(page[p], k) => KeyIn(page'[p], k)
    PROVE  WasInv'
<1>1. \A q \in Pages : /\ page[q].state \in InUse =>
                             page'[q].state \in InUse /\ (KeyIn(page[q], job.k) => KeyIn(page'[q], job.k))
                       /\ page[q].state = "UNINITIALIZED" => page'[q].state = "UNINITIALIZED"
    OBVIOUS
<1> QED BY <1>1, WasKept

\* The call returns.
LEMMA ReturnedIs ==
    ASSUME Returned
    PROVE  /\ pc' = "idle" => /\ job'.k = NoValue /\ job'.v = NoValue /\ job'.was = NoPage /\ job'.from = NoPage
                              /\ at'.p = NoPage
           /\ pc' # "idle" => UNCHANGED <<job, at>>
BY JobIs DEF Returned, JobFor, PlaceFor

LEMMA CallEnds ==
    ASSUME pc' = "idle", job'.k = NoValue, job'.v = NoValue, job'.was = NoPage, job'.from = NoPage, at'.p = NoPage
    PROVE  CallInv'
BY WasNone DEF CallInv, WritePcs, LoadPcs, MovePcs

\* While an item is written.
LEMMA WriteContext ==
    ASSUME IInv, pc \in WritePcs \ {"w_init"}
    PROVE  /\ PagesOK /\ Current \in Pages /\ page[Current].state = "ACTIVE" /\ Sound(page[Current])
           /\ Phase(page[Current], pc, at, job, page[job.from])
           /\ job.k \in Keys /\ job.v \in Values \cup {NoValue} /\ job.from = NoPage
           /\ pc \in {"w_item_state", "w_data", "w_data_state"} => at.p = Current
           /\ Item(job.k, job.v) \in Entry /\ Item(job.k, job.v).t = "item" /\ Item(job.k, job.v).k = job.k
           /\ Span[job.k] \in Nat /\ Span[job.k] >= 1
<1>1. list # <<>> /\ Current \in Pages /\ PagesOK
    BY OnIs DEF IInv, PageInvs, ListInv, LoadPcs, WritePcs, Shape, Current
<1>2. page[Current].state = "ACTIVE"
    BY DEF IInv, PageInvs, StageInv, Is
<1>3. Sound(page[Current]) /\ Phase(page[Current], pc, at, job, page[job.from])
    BY <1>1, <1>2 DEF IInv, EntryInv, HasSeq, Is
<1>4. job.k \in Keys /\ job.v \in Values \cup {NoValue} /\ job.from = NoPage
    BY DEF IInv, CallInv, WritePcs, MovePcs
<1>5. pc \in {"w_item_state", "w_data", "w_data_state"} => at.p = Current
    BY DEF IInv, PageInvs, StageInv
<1> QED BY <1>1, <1>2, <1>3, <1>4, <1>5, ItemIs

LEMMA WriteEntryEntries ==
    ASSUME IInv, PageInvs', WriteEntry
    PROVE  EntryInv' /\ CallInv' /\ Retaining
<1>1. pc = "w_item" /\ pc' = "w_item_state" /\ UNCHANGED <<list, free, nextSeq, job, cuts>>
    BY DEF WriteEntry
<1>2. PICK c : c = Current
    OBVIOUS
<1>3. /\ PagesOK /\ c \in Pages /\ page[c].state = "ACTIVE" /\ Sound(page[c])
      /\ job.k \in Keys /\ job.v \in Values \cup {NoValue} /\ job.from = NoPage
      /\ Span[job.k] \in Nat /\ Span[job.k] >= 1
    BY <1>1, <1>2, WriteContext DEF WritePcs
<1>4. PICK e : e = Item(job.k, job.v)
    OBVIOUS
<1>5. e \in Entry /\ e.t = "item" /\ e.k = job.k
    BY <1>1, <1>4, WriteContext DEF WritePcs
<1>6. PICK f \in 0 .. N : Clean(page[c], f) /\ NextFree(c) = f /\ f + Span[job.k] <= N
    BY <1>1, <1>3, CleanIs DEF IInv, HalfPcs
<1>7. f \in Idx
    BY <1>3, <1>6, IdxIs
<1>8. at'.p = c /\ at'.i = f
    <2>1. at' = [NoPlace EXCEPT !.p = c, !.i = f]
        BY <1>2, <1>6 DEF WriteEntry
    <2>2. PlaceFor([NoPlace EXCEPT !.p = c, !.i = f], c, f, 0)
        BY JobIs, Zenon
    <2> QED BY <2>1, <2>2, Zenon DEF PlaceFor
<1>9. Redone(c, page[c].tab, [page[c].ent EXCEPT ![f] = e])
    <2>1. Write(c, f, e)
        BY <1>2, <1>4, <1>6 DEF WriteEntry
    <2> QED BY <1>3, <2>1, WriteOneIs
<1>10. PICK h : h = page'[c]
    OBVIOUS
<1>11. /\ h.tab = page[c].tab /\ h.ent = [page[c].ent EXCEPT ![f] = e] /\ h.state = page[c].state
       /\ \A q \in Pages : q # c => page'[q] = page[q]
    BY <1>9, <1>10 DEF Redone
<1>12. Sound(h) /\ SameItems(page[c], h) /\ Placed(h, f, e)
    BY <1>3, <1>5, <1>6, <1>7, <1>11, PlaceFirst
<1>13. Phase(h, pc', at', job', page'[job'.from])
    BY <1>1, <1>4, <1>6, <1>8, <1>12 DEF Phase, HalfPcs
<1>14. EntryInv'
    <2>1. Source(page'[job'.from], pc', at', job')
        BY <1>1, SourceNone DEF MovePcs
    <2>2. EntryTypes(h)
        BY <1>12 DEF EntryTypes, Sound
    <2> QED BY <1>3, <1>10, <1>11, <1>12, <1>13, <2>1, <2>2, ActiveStep DEF IInv
<1>15. WasInv'
    <2>1. \A k : KeyIn(page[c], k) => KeyIn(page'[c], k)
        BY <1>10, <1>12, SameItemsIs
    <2> QED BY <1>1, <1>2, <1>3, <1>10, <1>11, <2>1, WasRedone DEF IInv, CallInv
<1>16. CallInv'
    BY <1>1, <1>3, <1>8, <1>15 DEF CallInv, WritePcs, LoadPcs, MovePcs
<1>17. Retaining
    <2>1. PICK g : g = page[c]
        OBVIOUS
    <2>2. g.tab[f] = "EMPTY"
        BY <1>6, <1>7, <2>1, IdxIs DEF Clean, BlankFrom
    <2>3. \A x \in Idx : x # f => h.ent[x] = g.ent[x]
        BY <1>3, <1>11, <2>1 DEF Sound, Ents
    <2>4. Retained(g, h)
        <3>1. \A y \in Idx : g.tab[y] = "WRITTEN" => h.ent[y] = g.ent[y]
            BY <2>2, <2>3
        <3>2. g.state = "ACTIVE" /\ h.state = "ACTIVE" /\ h.tab = g.tab
            BY <1>3, <1>11, <2>1
        <3> QED BY <3>1, <3>2, RetainCounted
    <2> QED BY <1>3, <1>10, <1>11, <2>1, <2>4, RetainOne
<1> QED BY <1>14, <1>16, <1>17

LEMMA WriteEntryStateEntries ==
    ASSUME IInv, PageInvs', WriteEntryState
    PROVE  EntryInv' /\ CallInv' /\ Counting(Current)
           /\ Heads(page'[Current]) = Heads(page[Current]) \cup {at.i}
           /\ Opened(page'[Current], at.i, Item(job.k, job.v))
<1>1. /\ pc = "w_item_state" /\ Alter(at.p, at.i, "WRITTEN") /\ Returned
      /\ pc' = (IF Span[job.k] > 1 THEN "w_data" ELSE AfterWrite)
      /\ UNCHANGED <<list, free, nextSeq, cuts>>
    BY DEF WriteEntryState
<1>2. PICK c : c = Current
    OBVIOUS
<1>3. /\ PagesOK /\ c \in Pages /\ page[c].state = "ACTIVE" /\ Sound(page[c]) /\ at.p = c
      /\ job.k \in Keys /\ job.v \in Values \cup {NoValue} /\ job.from = NoPage
      /\ Span[job.k] \in Nat /\ Span[job.k] >= 1
      /\ Phase(page[c], pc, at, job, page[job.from])
    BY <1>1, <1>2, WriteContext DEF WritePcs
<1>4. PICK e : e = Item(job.k, job.v)
    OBVIOUS
<1>5. e.t = "item" /\ e.k = job.k
    BY <1>1, <1>4, WriteContext DEF WritePcs
<1>6. Placed(page[c], at.i, e) /\ at.i + Span[job.k] <= N
    BY <1>1, <1>3, <1>4 DEF Phase
<1>7. PICK h : h = page'[c]
    OBVIOUS
<1>8. /\ h.tab = [page[c].tab EXCEPT ![at.i] = "WRITTEN"] /\ h.ent = page[c].ent /\ h.state = page[c].state
      /\ \A q \in Pages : q # c => page'[q] = page[q]
    <2>1. Alter(c, at.i, "WRITTEN")
        BY <1>1, <1>3
    <2>2. Redone(c, [page[c].tab EXCEPT ![at.i] = "WRITTEN"], page[c].ent)
        BY <1>3, <2>1, AlterIs
    <2> QED BY <1>7, <2>2, Zenon DEF Redone
<1>9. /\ Sound(h) /\ Heads(h) = Heads(page[c]) \cup {at.i}
      /\ \A i \in Heads(page[c]) : h.ent[i] = page[c].ent[i]
      /\ Opened(h, at.i, e)
      /\ Span[job.k] = 1 => Clean(h, at.i + 1)
    <2>1. PICK g : g = page[c]
        OBVIOUS
    <2>2. PICK a : a = at.i
        OBVIOUS
    <2>3. Sound(g) /\ Placed(g, a, e) /\ e.k \in Keys /\ h.ent = g.ent
        BY <1>3, <1>5, <1>6, <1>8, <2>1, <2>2
    <2>4. h.tab = [g.tab EXCEPT ![a] = "WRITTEN"]
        BY <1>8, <2>1, <2>2, Zenon
    <2>5. /\ Sound(h) /\ Heads(h) = Heads(g) \cup {a}
          /\ \A i \in Heads(g) : h.ent[i] = g.ent[i]
          /\ Opened(h, a, e) /\ (Span[e.k] = 1 => Clean(h, a + 1))
        BY <1>5, <2>3, <2>4, OpenItem
    <2> QED BY <1>5, <2>1, <2>2, <2>5
<1>10. pc' \in {"w_data", "idle", "w_erase"} /\ (pc' # "w_data" => Span[job.k] = 1)
    BY <1>1, <1>3 DEF AfterWrite
<1>11. Phase(h, pc', at', job', page'[job'.from])
    <2>1. CASE pc' = "w_data"
        <3>1. UNCHANGED <<job, at>>
            BY <1>1, <2>1, ReturnedIs
        <3> QED BY <1>4, <1>6, <1>9, <2>1, <3>1 DEF Phase, HalfPcs
    <2>2. CASE pc' # "w_data"
        <3>1. at.i + 1 \in 0 .. N
            BY <1>6, IdxIs DEF Placed
        <3> QED BY <1>9, <1>10, <2>2, <3>1, PhaseClean DEF HalfPcs
    <2> QED BY <2>1, <2>2
<1>12. EntryInv'
    <2>1. Source(page'[job'.from], pc', at', job')
        BY <1>10, SourceNone DEF MovePcs
    <2>2. EntryTypes(h)
        BY <1>9 DEF EntryTypes, Sound
    <2> QED BY <1>3, <1>7, <1>8, <1>9, <1>11, <2>1, <2>2, ActiveStep DEF IInv
<1>13. ASSUME pc' = "idle" PROVE CallInv'
    BY <1>1, <1>13, ReturnedIs, CallEnds
<1>14. ASSUME pc' # "idle" PROVE CallInv'
    <2>1. UNCHANGED <<job, at>>
        BY <1>1, <1>14, ReturnedIs
    <2>2. \A k : KeyIn(page[c], k) => KeyIn(page'[c], k)
        BY <1>7, <1>9, KeyKept
    <2>3. WasInv'
        BY <1>1, <1>2, <1>3, <1>7, <1>8, <1>10, <2>1, <2>2, WasRedone DEF IInv, CallInv
    <2>4. pc' = "w_erase" => job.was \in Pages
        BY <1>1 DEF AfterWrite, IInv, PageInvs, Shape, IsJob
    <2>5. CallInv'
        BY <1>3, <1>10, <1>14, <2>1, <2>3, <2>4 DEF CallInv, WritePcs, LoadPcs, MovePcs
    <2> QED BY <2>5
<1>15. CallInv'
    BY <1>13, <1>14
<1>16. Counting(c)
    <2>1. PICK g, a : g = page[c] /\ a = at.i
        OBVIOUS
    <2>2. h.tab = [g.tab EXCEPT ![a] = "WRITTEN"] /\ g.tab \in Table
        BY <1>3, <1>8, <2>1 DEF Sound
    <2>3. \A x \in Idx : g.tab[x] = "WRITTEN" => h.tab[x] = "WRITTEN"
        BY <2>2 DEF Table
    <2> QED BY <1>3, <1>7, <1>8, <2>1, <2>3 DEF Counting
<1> QED BY <1>2, <1>4, <1>7, <1>9, <1>12, <1>15, <1>16

LEMMA WriteDataEntries ==
    ASSUME IInv, PageInvs', WriteData
    PROVE  EntryInv' /\ CallInv' /\ Retaining /\ Staying /\ Whole(page'[Current], at.i)
<1>1. pc = "w_data" /\ pc' = "w_data_state" /\ UNCHANGED <<list, free, nextSeq, job, at, cuts>>
    BY DEF WriteData
<1>2. PICK c, a : c = Current /\ a = at.i
    OBVIOUS
<1>3. /\ PagesOK /\ c \in Pages /\ page[c].state = "ACTIVE" /\ Sound(page[c]) /\ at.p = c
      /\ job.k \in Keys /\ job.v \in Values \cup {NoValue} /\ job.from = NoPage
      /\ Span[job.k] \in Nat /\ Span[job.k] >= 1
      /\ Phase(page[c], pc, at, job, page[job.from])
    BY <1>1, <1>2, WriteContext DEF WritePcs
<1>4. PICK e : e = Item(job.k, job.v)
    OBVIOUS
<1>5. e.t = "item" /\ e.k = job.k
    BY <1>1, <1>4, WriteContext DEF WritePcs
<1>6. Opened(page[c], a, e) /\ a + Span[e.k] <= N
    BY <1>1, <1>2, <1>3, <1>4, <1>5 DEF Phase
<1>7. PICK g, h, d : g = page[c] /\ h = page'[c] /\ d = Data(job.k, job.v)
    OBVIOUS
<1>8. d \in Entry /\ d.t = "data"
    BY <1>3, <1>7, ItemIs
<1> DEFINE F == [i \in Idx |-> IF i \in a+1 .. a+Span[job.k]-1 THEN d ELSE g.ent[i]]
<1>9. /\ h.tab = g.tab /\ h.ent = F /\ h.state = g.state
      /\ \A q \in Pages : q # c => page'[q] = page[q]
    <2>1. page' = [page EXCEPT ![c].ent = F]
        BY <1>2, <1>3, <1>7 DEF WriteData
    <2> HIDE DEF F
    <2> QED BY <1>3, <1>7, <2>1, EntsAre DEF Redone
<1>10. Body(g, a) \ {a} = a+1 .. a+Span[job.k]-1
    <2>1. a \in Nat /\ g.ent[a] = e
        BY <1>6, <1>7, IdxIs DEF Opened, LastAt
    <2> QED BY <1>3, <1>5, <2>1 DEF Body
<1>11. Sound(h) /\ SameItems(g, h) /\ Filling(h, a, e)
    <2>1. /\ F \in Ents
          /\ \A j \in Idx : j \in a+1 .. a+Span[job.k]-1 => F[j].t # "item"
          /\ \A j \in Idx : j \notin a+1 .. a+Span[job.k]-1 => F[j] = g.ent[j]
        BY <1>3, <1>7, <1>8 DEF Ents, Sound
    <2> HIDE DEF F
    <2>2. Sound(g) /\ Opened(g, a, e) /\ e.k \in Keys
        BY <1>3, <1>5, <1>6, <1>7
    <2> QED BY <1>6, <1>9, <1>10, <2>1, <2>2, WriteDataIs
<1> HIDE DEF F
<1>12. Phase(h, pc', at', job', page'[job'.from])
    BY <1>1, <1>2, <1>4, <1>5, <1>6, <1>11 DEF Phase, HalfPcs
<1>13. EntryInv'
    <2>1. Source(page'[job'.from], pc', at', job')
        BY <1>1, SourceNone DEF MovePcs
    <2>2. EntryTypes(h)
        BY <1>11 DEF EntryTypes, Sound
    <2> QED BY <1>3, <1>7, <1>9, <1>11, <1>12, <2>1, <2>2, ActiveStep DEF IInv
<1>14. WasInv'
    <2>1. \A k : KeyIn(page[c], k) => KeyIn(page'[c], k)
        BY <1>7, <1>11, SameItemsIs
    <2> QED BY <1>1, <1>2, <1>3, <1>7, <1>9, <2>1, WasRedone DEF IInv, CallInv
<1>15. CallInv'
    BY <1>1, <1>3, <1>14 DEF IInv, CallInv, WritePcs, LoadPcs, MovePcs
<1>16. Retaining /\ Staying /\ Whole(h, a)
    <2>1. /\ a \in Nat /\ a \in Heads(g) /\ BlankFrom(g, a + 1) /\ h.ent[a] = e
          /\ Body(h, a) = Body(g, a)
        BY <1>6, <1>7, <1>11, IdxIs, SameItemsIs DEF Opened, LastAt, Filling
    <2>2. \A x \in a+1 .. a+Span[job.k]-1 : x \in Idx /\ g.tab[x] = "EMPTY"
        BY <1>3, <1>5, <1>6, <2>1, IdxIs DEF BlankFrom
    <2>3. \A x \in Idx : h.ent[x] = IF x \in a+1 .. a+Span[job.k]-1 THEN d ELSE g.ent[x]
        BY <1>9 DEF F
    <2>4. Retained(g, h)
        BY <1>3, <1>7, <1>9, <2>2, <2>3, RetainCounted
    <2>5. Data(h.ent[a].k, h.ent[a].v) = d
        BY <1>4, <1>7, <2>1 DEF Item, Data
    <2>6. Whole(h, a)
        BY <1>10, <2>1, <2>2, <2>3, <2>5 DEF Whole
    <2> QED BY <1>3, <1>7, <1>9, <2>4, <2>6, RetainOne, StayOne
<1> QED BY <1>2, <1>7, <1>13, <1>15, <1>16

LEMMA WriteDataStateEntries ==
    ASSUME IInv, PageInvs', WriteDataState
    PROVE  /\ EntryInv' /\ CallInv' /\ Counting(Current) /\ SameItems(page[Current], page'[Current])
           /\ Filling(page'[Current], at.i, Item(job.k, job.v))
           /\ \/ pc' = "w_data_state"
              \/ pc' = AfterWrite /\ Clean(page'[Current], at.i + Span[job.k])
<1>1. /\ pc = "w_data_state" /\ Returned /\ UNCHANGED <<list, free, nextSeq, cuts>>
      /\ AlterRange(at.p, at.i+1 .. at.i+Span[job.k]-1, "WRITTEN", pc, AfterWrite)
    BY DEF WriteDataState
<1>2. PICK c, a : c = Current /\ a = at.i
    OBVIOUS
<1>3. /\ PagesOK /\ c \in Pages /\ page[c].state = "ACTIVE" /\ Sound(page[c]) /\ at.p = c
      /\ job.k \in Keys /\ job.v \in Values \cup {NoValue} /\ job.from = NoPage
      /\ Span[job.k] \in Nat /\ Span[job.k] >= 1
      /\ Phase(page[c], pc, at, job, page[job.from])
    BY <1>1, <1>2, WriteContext DEF WritePcs
<1>4. PICK e : e = Item(job.k, job.v)
    OBVIOUS
<1>5. e.t = "item" /\ e.k = job.k
    BY <1>1, <1>4, WriteContext DEF WritePcs
<1>6. Filling(page[c], a, e) /\ a + Span[e.k] <= N
    BY <1>1, <1>2, <1>3, <1>4, <1>5 DEF Phase
<1>7. /\ \A q \in Pages : q # c => page'[q] = page[q]
      /\ page'[c].state = page[c].state
      /\ Sound(page'[c]) /\ SameItems(page[c], page'[c])
      /\ page'[c].ent = page[c].ent /\ Filling(page'[c], a, e)
      /\ \A x \in Idx : page[c].tab[x] = "WRITTEN" => page'[c].tab[x] = "WRITTEN"
      /\ \/ pc' = pc /\ Filling(page'[c], a, e)
         \/ pc' = AfterWrite /\ Clean(page'[c], a + Span[e.k])
    <2>1. PICK S, from, to : S = DataOf(a, e.k) /\ from = pc /\ to = AfterWrite
        OBVIOUS
    <2>2. AlterRange(c, S, "WRITTEN", from, to)
        BY <1>1, <1>2, <1>3, <1>5, <2>1, Zenon DEF DataOf
    <2>3. PagesOK /\ c \in Pages /\ Sound(page[c]) /\ Filling(page[c], a, e) /\ e.k \in Keys /\ S = DataOf(a, e.k)
        BY <1>3, <1>5, <1>6, <2>1
    <2>4. FillsIn(c, a, e, from, to)
        BY <2>2, <2>3, AlterWritten
    <2> QED BY <2>1, <2>4 DEF FillsIn
<1>8. PICK h : h = page'[c]
    OBVIOUS
<1>9. pc' \in {"w_data_state", "idle", "w_erase"}
    BY <1>1, <1>7 DEF AfterWrite
<1>10. Phase(h, pc', at', job', page'[job'.from])
    <2>1. CASE pc' = "w_data_state"
        <3>1. UNCHANGED <<job, at>>
            BY <1>1, <2>1, ReturnedIs
        <3>2. Filling(h, a, e)
            BY <1>7, <1>8, <2>1 DEF AfterWrite
        <3> QED BY <1>2, <1>4, <1>5, <1>6, <2>1, <3>1, <3>2 DEF Phase, HalfPcs
    <2>2. CASE pc' # "w_data_state"
        <3>1. Clean(h, a + Span[e.k])
            BY <1>1, <1>7, <1>8, <2>2
        <3>2. a + Span[e.k] \in 0 .. N
            BY <3>1 DEF Clean
        <3> QED BY <1>9, <2>2, <3>1, <3>2, PhaseClean DEF HalfPcs
    <2> QED BY <2>1, <2>2
<1>11. EntryInv'
    <2>1. Source(page'[job'.from], pc', at', job')
        BY <1>9, SourceNone DEF MovePcs
    <2>2. EntryTypes(h)
        BY <1>7, <1>8 DEF EntryTypes, Sound
    <2> QED BY <1>3, <1>7, <1>8, <1>10, <2>1, <2>2, ActiveStep DEF IInv
<1>12. ASSUME pc' = "idle" PROVE CallInv'
    BY <1>1, <1>12, ReturnedIs, CallEnds
<1>13. ASSUME pc' # "idle" PROVE CallInv'
    <2>1. UNCHANGED <<job, at>>
        BY <1>1, <1>13, ReturnedIs
    <2>2. \A k : KeyIn(page[c], k) => KeyIn(page'[c], k)
        BY <1>7, SameItemsIs
    <2>3. WasInv'
        BY <1>1, <1>2, <1>3, <1>7, <1>9, <2>1, <2>2, WasRedone DEF IInv, CallInv
    <2>4. pc' = "w_erase" => job.was \in Pages
        BY <1>1, <1>7 DEF AfterWrite, IInv, PageInvs, Shape, IsJob
    <2>5. CallInv'
        BY <1>3, <1>9, <1>13, <2>1, <2>3, <2>4 DEF IInv, CallInv, WritePcs, LoadPcs, MovePcs
    <2> QED BY <2>5
<1>14. CallInv'
    BY <1>12, <1>13
<1>15. Counting(c)
    BY <1>3, <1>7 DEF Counting
<1>16. \/ pc' = "w_data_state"
       \/ pc' = AfterWrite /\ Clean(page'[c], a + Span[job.k])
    BY <1>1, <1>5, <1>7
<1> QED BY <1>2, <1>4, <1>7, <1>11, <1>14, <1>15, <1>16

LEMMA NoSpaceEntries ==
    ASSUME IInv, PageInvs', NoSpace
    PROVE  EntryInv' /\ CallInv'
<1>1. pc = "no_space" /\ pc' = "idle" /\ Returned /\ UNCHANGED <<page, list, free, nextSeq, cuts>>
    BY DEF NoSpace
<1>2. ASSUME NEW q \in Pages, page[q].state = "ACTIVE"
      PROVE  Phase(page[q], pc', at', job', page[job'.from])
    <2>1. PICK f \in 0 .. N : Clean(page[q], f)
        BY <1>1, <1>2, CleanIs DEF IInv, HalfPcs
    <2> QED BY <1>1, <2>1, PhaseClean DEF HalfPcs
<1>3. EntryInv'
    <2>1. Source(page[job'.from], pc', at', job')
        BY <1>1, SourceNone DEF MovePcs
    <2> QED BY <1>1, <1>2, <2>1, EntryKept DEF IInv
<1> QED BY <1>1, <1>3, ReturnedIs, CallEnds

\* A header is written.
LEMMA HeaderIs ==
    ASSUME PagesOK, NEW p \in Pages, NEW s \in PageStates, page' = [page EXCEPT ![p].state = s]
    PROVE  /\ page'[p].state = s /\ page'[p].tab = page[p].tab /\ page'[p].ent = page[p].ent
           /\ \A q \in Pages : q # p => page'[q] = page[q]
<1>1. PICK g, h : g = page[p] /\ h = Restated(g, s)
    OBVIOUS
<1>2. IsPage(g) /\ g.seq \in 0 .. MaxSeq
    BY <1>1 DEF PagesOK, IsPage
<1>3. IsPage(h) /\ h.state = s /\ h.tab = g.tab /\ h.ent = g.ent
    BY <1>1, <1>2, StateUpdate
<1>4. page' = [page EXCEPT ![p] = h]
    BY <1>1 DEF PagesOK, Restated
<1>5. page'[p] = h /\ \A q \in Pages : q # p => page'[q] = page[q]
    <2>1. p \in Pages => IsPage(h)
        BY <1>3
    <2>2. /\ PagesOK'
          /\ \A q \in Pages : q # p => page'[q] = page[q]
          /\ p \in Pages => page'[p] = h
        BY <1>4, <2>1, OnePage
    <2> QED BY <2>2
<1> QED BY <1>1, <1>3, <1>5

LEMMA MarkFullEntries ==
    ASSUME IInv, PageInvs', MarkFull
    PROVE  EntryInv' /\ CallInv' /\ Retaining
<1>1. pc = "w_full" /\ pc' = "request" /\ UNCHANGED <<list, free, nextSeq, job, at, cuts>>
    BY DEF MarkFull
<1>2. PICK c : c = Current
    OBVIOUS
<1>3. /\ PagesOK /\ c \in Pages /\ page[c].state = "ACTIVE" /\ Sound(page[c])
      /\ job.k \in Keys /\ job.v \in Values \cup {NoValue} /\ job.from = NoPage
    BY <1>1, <1>2, WriteContext DEF WritePcs
<1>4. PICK f \in 0 .. N : Clean(page[c], f)
    BY <1>1, <1>3, CleanIs DEF IInv, HalfPcs
<1>5. /\ page'[c].state = "FULL" /\ page'[c].tab = page[c].tab /\ page'[c].ent = page[c].ent
      /\ \A q \in Pages : q # c => page'[q] = page[q]
    BY <1>2, <1>3, HeaderIs DEF MarkFull, PageStates
<1>6. PICK g, h : g = page[c] /\ h = page'[c]
    OBVIOUS
<1>7. Sound(h) /\ Heads(h) = Heads(g) /\ \A i : Body(h, i) = Body(g, i)
    <2>1. h.tab = g.tab /\ h.ent = g.ent /\ Sound(g)
        BY <1>3, <1>5, <1>6
    <2>2. Heads(h) = Heads(g)
        BY <2>1 DEF Heads
    <2>3. \A i : Body(h, i) = Body(g, i)
        BY <2>1 DEF Body
    <2>4. Sound(h)
        BY <2>1, <2>2, <2>3 DEF Sound
    <2> QED BY <2>2, <2>3, <2>4
<1>8. Below(h, N)
    <2>1. \A i \in Heads(g) : Body(g, i) \subseteq 0 .. f-1
        BY <1>4, <1>6 DEF Clean, Below
    <2>2. \A x \in 0 .. f-1 : x \in 0 .. N-1
        BY <1>4, IdxIs
    <2> QED BY <1>7, <2>1, <2>2 DEF Below
<1>9. EntryInv'
    <2>1. \A q \in Pages : page'[q].state # "ACTIVE"
        BY <1>3, <1>5, OneActive DEF IInv
    <2>2. Source(page'[job'.from], pc', at', job')
        BY <1>1, SourceNone DEF MovePcs
    <2>3. EntryTypes(page'[c])
        BY <1>6, <1>7 DEF EntryTypes, Sound
    <2> QED BY <1>3, <1>5, <1>6, <1>7, <1>8, <2>1, <2>2, <2>3, EntryStep DEF IInv
<1>10. WasInv'
    <2>1. \A k : KeyIn(g, k) <=> KeyIn(h, k)
        BY <1>5, <1>6, <1>7 DEF KeyIn
    <2>2. \A q \in Pages : /\ page[q].state \in InUse =>
                                 page'[q].state \in InUse /\ (KeyIn(page[q], job.k) => KeyIn(page'[q], job.k))
                           /\ page[q].state = "UNINITIALIZED" => page'[q].state = "UNINITIALIZED" \/ q = Current
        BY <1>3, <1>5, <1>6, <2>1 DEF InUse
    <2> QED BY <1>1, <1>2, <1>3, <2>2, WasKept DEF IInv, CallInv
<1>11. CallInv'
    BY <1>1, <1>3, <1>10 DEF IInv, CallInv, WritePcs, LoadPcs, MovePcs
<1>12. Retaining
    <2>1. Retained(page[c], page'[c])
        BY <1>3, <1>5 DEF Retained, InUse
    <2> QED BY <1>3, <1>5, <2>1, RetainOne
<1> QED BY <1>9, <1>11, <1>12

LEMMA ErasedClean ==
    ASSUME NEW h, h.tab = ErasedPage.tab, h.ent = ErasedPage.ent
    PROVE  EntryTypes(h) /\ Sound(h) /\ Heads(h) = {} /\ Clean(h, 0) /\ \A k : ~KeyIn(h, k)
<1>1. \A i \in Idx : h.tab[i] = "EMPTY" /\ h.ent[i] = Blank
    BY DEF ErasedPage
<1>2. h.tab \in Table /\ h.ent \in Ents
    BY BlankIs DEF ErasedPage, Table, Ents
<1>3. Heads(h) = {}
    BY <1>1 DEF Heads
<1>4. Sound(h)
    BY <1>1, <1>2, <1>3, BlankIs DEF Sound
<1>5. UsedTo(h, 0) /\ BlankFrom(h, 0) /\ Below(h, 0)
    BY <1>1, <1>3, IdxIs DEF UsedTo, BlankFrom, Below
<1> QED BY <1>2, <1>3, <1>4, <1>5, IdxIs DEF EntryTypes, Clean, KeyIn

\* The last page of the list gets its number.
LEMMA InitEntries ==
    ASSUME IInv, PageInvs', InitPage \/ MoveInit
    PROVE  EntryInv' /\ CallInv' /\ Retaining
<1>1. /\ pc \in {"w_init", "mv_init"} /\ pc' = (IF pc = "w_init" THEN "w_item" ELSE "mv_entry")
      /\ UNCHANGED <<list, free, nextSeq, job, at, cuts>>
      /\ page' = [page EXCEPT ![Current] = Initialized(Current)]
    BY DEF InitPage, MoveInit
<1>2. PICK c : c = Current
    OBVIOUS
<1>3. ListOK /\ list # <<>> /\ Is(c, "UNINITIALIZED") /\ PagesOK /\ c \in Pages
    BY <1>1, <1>2, OnIs DEF IInv, PageInvs, ListInv, LoadPcs, StageInv, Shape, Current
<1>4. /\ page'[c].state = "ACTIVE" /\ page'[c].tab = page[c].tab /\ page'[c].ent = page[c].ent
      /\ \A q \in Pages : q # c => page'[q] = page[q]
    <2>1. PICK g, n, s : g = page[c] /\ n = nextSeq - 1 /\ s = "ACTIVE"
        OBVIOUS
    <2>2. n \in 0 .. MaxSeq
        BY <1>2, <1>3, <2>1, NvsAssumption DEF ListOK, IInv, PageInvs, Shape
    <2>3. IsPage(g) /\ s \in PageStates
        BY <1>3, <2>1 DEF PagesOK, PageStates
    <2>4. PICK h : h = Headed(g, s, n)
        OBVIOUS
    <2>5. IsPage(h) /\ h.state = s /\ h.tab = g.tab /\ h.ent = g.ent
        BY <2>2, <2>3, <2>4, StateUpdate
    <2>6. page' = [page EXCEPT ![c] = h]
        BY <1>1, <1>2, <2>1, <2>4 DEF Initialized, Headed
    <2>7. page'[c] = h /\ \A q \in Pages : q # c => page'[q] = page[q]
        BY <1>3, <2>5, <2>6, OnePage
    <2> QED BY <2>1, <2>5, <2>7
<1>5. PICK h : h = page'[c]
    OBVIOUS
<1>6. page[c] = ErasedPage /\ EntryTypes(h) /\ Sound(h) /\ Clean(h, 0)
    <2>1. page[c] = ErasedPage
        BY <1>3 DEF IInv, PageInvs, FlashInv
    <2> QED BY <1>4, <1>5, <2>1, ErasedClean
<1>7. pc = "mv_init" => page'[job'.from] = page[job.from]
    <2>1. pc = "mv_init" => Is(job.from, "FREEING") /\ job.from \in On(list)
        BY DEF IInv, PageInvs, StageInv, MovePcs
    <2>2. On(list) \subseteq Pages
        BY OnIs DEF IInv, PageInvs, Shape
    <2> QED BY <1>1, <1>3, <1>4, <2>1, <2>2 DEF Is
<1>8. Phase(h, pc', at', job', page'[job'.from])
    <2>1. CASE pc = "w_init"
        <3>1. job.k \in Keys /\ 0 + Span[job.k] <= N /\ 0 \in 0 .. N
            <4>1. job.k \in Keys
                BY <2>1 DEF IInv, CallInv, WritePcs
            <4> QED BY <4>1, ItemIs, IdxIs, NvsAssumption
        <3> QED BY <1>1, <1>6, <2>1, <3>1, PhaseClean DEF HalfPcs
    <2>2. CASE pc = "mv_init"
        <3>1. at.end = 0
            BY <2>2 DEF IInv, EntryInv, Source, MovePcs
        <3>2. \A x : Receiving(h, 0, 0, x)
            BY <1>6, IdxIs DEF Receiving, Begun, Clean
        <3>3. 0 \in 0 .. N
            BY IdxIs
        <3> QED BY <1>1, <2>2, <3>1, <3>2, <3>3 DEF Phase, HalfPcs
    <2> QED BY <1>1, <2>1, <2>2
<1>9. Source(page'[job'.from], pc', at', job')
    <2>1. CASE pc = "w_init"
        BY <1>1, <2>1, SourceNone DEF MovePcs
    <2>2. CASE pc = "mv_init"
        <3>1. PICK s : s = page[job.from]
            OBVIOUS
        <3>2. Source(s, pc, at, job) /\ Sound(s)
            <4>1. Is(job.from, "FREEING") /\ job.from \in Pages
                BY <2>2, OnIs DEF IInv, PageInvs, StageInv, MovePcs, Shape
            <4> QED BY <3>1, <4>1 DEF IInv, EntryInv, Is, HasSeq
        <3>3. at.p = job.from /\ at.i \in Heads(s) /\ at.end = 0
            BY <2>2, <3>2 DEF Source, MovePcs
        <3>4. at.end \in 0 .. Span[s.ent[at.i].k] - 1
            BY <3>2, <3>3, HeadIs
        <3> QED BY <1>1, <1>7, <2>2, <3>1, <3>3, <3>4 DEF Source, MovePcs
    <2> QED BY <1>1, <2>1, <2>2
<1>10. EntryInv'
    BY <1>3, <1>4, <1>5, <1>6, <1>8, <1>9, ActiveStep DEF IInv
<1>11. WasInv'
    <2>1. \A k : ~KeyIn(page[c], k)
        BY <1>6, ErasedClean
    <2>2. \A q \in Pages : /\ page[q].state \in InUse =>
                                 page'[q].state \in InUse /\ (KeyIn(page[q], job.k) => KeyIn(page'[q], job.k))
                           /\ page[q].state = "UNINITIALIZED" => page'[q].state = "UNINITIALIZED" \/ q = Current
        BY <1>2, <1>3, <1>4, <2>1 DEF InUse
    <2> QED BY <1>1, <1>2, <1>3, <2>2, WasKept DEF IInv, CallInv
<1>12. CallInv'
    BY <1>1, <1>11 DEF IInv, CallInv, WritePcs, LoadPcs, MovePcs
<1>13. Retaining
    <2>1. Heads(page'[c]) = {}
        BY <1>4, <1>6, ErasedClean
    <2>2. Retained(page[c], page'[c])
        BY <2>1 DEF Retained
    <2> QED BY <1>3, <1>4, <2>2, RetainOne
<1> QED BY <1>10, <1>12, <1>13

LEMMA EraseKept ==
    ASSUME NEW g, NEW h, Sound(g), NEW i \in Heads(g), Erasing(g, h, i)
    PROVE  /\ EntryTypes(h) /\ Sound(h)
           /\ \A f \in 0 .. N : Clean(g, f) => Clean(h, f)
           /\ \A b : Below(g, b) => Below(h, b)
<1>1. EntryTypes(h) /\ Sound(h) /\ h.tab \in Table
    BY DEF Erasing, EntryTypes, Sound
<1>2. /\ \A x \in Idx : h.tab[x] # g.tab[x] => x \in Body(g, i) /\ h.tab[x] = "ERASED"
      /\ \A x \in Idx : h.ent[x] # g.ent[x] => x \in Body(g, i)
    BY DEF Erasing
<1>3. Heads(h) \subseteq Heads(g) /\ \A x \in Heads(h) : Body(h, x) = Body(g, x)
    BY DEF Erasing
<1> QED BY <1>1, <1>2, <1>3, EraseClean

\* An item is erased while no page is half written.
LEMMA EraseItemEntries ==
    ASSUME IInv, NEW p \in Pages, HasSeq(p), NEW i \in Heads(page[p]),
           \A q \in Pages : q # p => page'[q] = page[q], Erasing(page[p], page'[p], i),
           pc \notin HalfPcs \cup {"off", "ld_half", "ld_scan", "ld_dup", "abort"},
           pc' \notin HalfPcs \cup MovePcs \cup {"off", "ld_half", "ld_scan", "ld_dup", "w_item"}
    PROVE  EntryInv'
<1>1. PICK g, h : g = page[p] /\ h = page'[p]
    OBVIOUS
<1>2. Sound(g) /\ h.state = g.state
    BY <1>1 DEF IInv, EntryInv, Erasing
<1>3. /\ EntryTypes(h) /\ Sound(h)
      /\ \A f \in 0 .. N : Clean(g, f) => Clean(h, f)
      /\ \A b : Below(g, b) => Below(h, b)
    BY <1>1, <1>2, EraseKept
<1>4. h.state \in {"FULL", "FREEING"} => Below(h, N)
    BY <1>1, <1>2, <1>3 DEF IInv, EntryInv, Is
<1>5. ASSUME NEW q \in Pages, page'[q].state = "ACTIVE"
      PROVE  Phase(page'[q], pc', at', job', page'[job'.from])
    <2>1. page[q].state = "ACTIVE"
        BY <1>1, <1>2, <1>5
    <2>2. PICK f \in 0 .. N : Clean(page[q], f)
        BY <2>1, CleanIs DEF IInv
    <2>3. Clean(page'[q], f)
        BY <1>1, <1>3, <2>2
    <2> QED BY <2>3, PhaseClean
<1>6. Source(page'[job'.from], pc', at', job')
    BY SourceNone
<1> QED BY <1>1, <1>3, <1>4, <1>5, <1>6, EntryStep DEF IInv

LEMMA EraseOldEntries ==
    ASSUME IInv, PageInvs', EraseOld
    PROVE  /\ EntryInv' /\ CallInv'
           /\ Erases(OldPage, findItem(OldPage, job.k), "w_erase", "idle")
           /\ page[OldPage].ent[findItem(OldPage, job.k)].k = job.k
<1>1. pc = "w_erase" /\ Returned /\ UNCHANGED <<list, free, nextSeq, cuts>>
    BY DEF EraseOld
<1>2. PICK p : p = OldPage
    OBVIOUS
<1>3. Shape /\ PagesOK /\ list # <<>> /\ Current \in Pages
    BY <1>1, OnIs DEF IInv, PageInvs, ListInv, LoadPcs, Shape, Current
<1>4. job.was \in Pages /\ job.from = NoPage /\ job.was # job.from /\ WasInv
    BY <1>1, JobIs DEF IInv, CallInv, MovePcs
<1>5. p \in Pages /\ HasSeq(p) /\ KeyIn(page[p], job.k)
    <2>1. CASE HasSeq(job.was) /\ KeyIn(page[job.was], job.k)
        BY <1>2, <1>4, <2>1 DEF OldPage, HasSeq
    <2>2. CASE ~(HasSeq(job.was) /\ KeyIn(page[job.was], job.k))
        <3>1. Is(job.was, "UNINITIALIZED") /\ HasSeq(Current) /\ KeyIn(page[Current], job.k)
            BY <1>1, <1>4, <2>2 DEF WasInv
        <3>2. Len(list) \in Holding(job.k)
            <4>1. PICK i \in Heads(page[Current]) : page[Current].ent[i].k = job.k
                BY <3>1 DEF KeyIn
            <4>2. i \in ItemsOf(Current, job.k)
                BY <3>1, <4>1 DEF ItemsOf, Items, With, Heads
            <4>3. Len(list) \in 1 .. Len(list)
                BY <1>3, OnIs DEF Shape
            <4> QED BY <4>2, <4>3 DEF Holding, Current
        <3>3. p = FindPage(job.k)
            BY <1>2, <3>1 DEF OldPage, Is
        <3> QED BY <1>3, <3>2, <3>3, FindPageHas
    <2> QED BY <2>1, <2>2
<1>6. PICK i : i = findItem(p, job.k)
    OBVIOUS
<1>7. /\ i \in Heads(page[p]) /\ Entries(p, i) = Body(page[p], i) /\ Sound(page[p])
      /\ page[p].ent[i].k = job.k
    BY <1>5, <1>6, FindItemIs DEF IInv, EntryInv
<1>8. PICK S, b : S = Entries(p, i) /\ b = "w_erase"
    OBVIOUS
<1>9. AlterRange(p, S, "ERASED", b, "idle")
    BY <1>1, <1>2, <1>6, <1>8, Zenon DEF EraseOld
<1>10. /\ \A q \in Pages : q # p => page'[q] = page[q]
       /\ Erasing(page[p], page'[p], i)
       /\ \/ pc' = b /\ SameItems(page[p], page'[p]) /\ page'[p].ent = page[p].ent
          \/ pc' = "idle" /\ Wiped(page[p], page'[p], i)
    BY <1>3, <1>5, <1>7, <1>8, <1>9, AlterErased
<1>11. EntryInv'
    BY <1>1, <1>5, <1>7, <1>8, <1>10, EraseItemEntries DEF HalfPcs, MovePcs
<1>14. Erases(p, i, "w_erase", "idle")
    BY <1>5, <1>7, <1>8, <1>10 DEF Erases
<1>12. CASE pc' = "idle"
    BY <1>1, <1>2, <1>6, <1>7, <1>11, <1>12, <1>14, ReturnedIs, CallEnds
<1>13. CASE pc' # "idle"
    <2>1. UNCHANGED <<job, at>> /\ pc' = "w_erase" /\ SameItems(page[p], page'[p])
        BY <1>1, <1>8, <1>10, <1>13, ReturnedIs
    <2>2. \A k : KeyIn(page[p], k) => KeyIn(page'[p], k)
        BY <2>1, SameItemsIs
    <2>3. page'[p].state = page[p].state
        BY <1>10 DEF Erasing
    <2>4. WasInv'
        BY <1>1, <1>3, <1>4, <1>5, <1>10, <2>1, <2>2, <2>3, WasRedone
    <2>5. CallInv'
        BY <1>1, <1>4, <2>1, <2>4 DEF IInv, CallInv, WritePcs, LoadPcs, MovePcs
    <2> QED BY <1>2, <1>6, <1>7, <1>11, <1>14, <2>5
<1> QED BY <1>12, <1>13

LEMMA EraseOlderEntries ==
    ASSUME IInv, PageInvs', EraseOlder
    PROVE  /\ EntryInv' /\ CallInv'
           /\ Older # {} => \E n \in Older : \E i :
                 /\ Erases(list[n], i, "ld_old", "ld_freeing")
                 /\ page[list[n]].ent[i].k = LastItem.k
<1>1. pc = "ld_old" /\ UNCHANGED <<list, free, nextSeq, job, at, cuts>>
    BY DEF EraseOlder
<1>2. job.was = NoPage /\ job.from = NoPage
    BY <1>1 DEF IInv, CallInv, MovePcs
<1>3. pc' \in {"ld_old", "ld_freeing"}
    BY <1>1 DEF EraseOlder, AlterRange
<1>4. CallInv'
    BY <1>1, <1>2, <1>3, WasNone DEF IInv, CallInv, WritePcs, LoadPcs, MovePcs
<1>5. CASE Older = {}
    <2>1. UNCHANGED page /\ pc' = "ld_freeing"
        BY <1>5 DEF EraseOlder
    <2>2. ASSUME NEW q \in Pages, page[q].state = "ACTIVE"
          PROVE  Phase(page[q], pc', at', job', page[job'.from])
        <3>1. PICK f \in 0 .. N : Clean(page[q], f)
            BY <1>1, <2>2, CleanIs DEF IInv, HalfPcs
        <3> QED BY <2>1, <3>1, PhaseClean DEF HalfPcs
    <2>3. Source(page[job'.from], pc', at', job')
        BY <2>1, SourceNone DEF MovePcs
    <2>4. EntryInv'
        BY <2>1, <2>2, <2>3, EntryKept DEF IInv
    <2> QED BY <1>4, <1>5, <2>4
<1>6. CASE Older # {}
    <2>1. PICK n, k : n = Lowest(Older) /\ k = LastItem.k
        OBVIOUS
    <2>2. Len(list) \in Nat /\ Older \subseteq 1 .. Len(list)-1 /\ Older \subseteq Nat
        BY OnIs DEF Older, IInv, PageInvs, Shape
    <2>3. n \in Older
        BY <1>6, <2>1, <2>2, LowestIs
    <2>4. PICK p : p = list[n]
        OBVIOUS
    <2>5. p \in Pages /\ PagesOK
        <3>1. n \in 1 .. Len(list)
            BY <2>2, <2>3
        <3> QED BY <2>4, <3>1, OnIs DEF IInv, PageInvs, Shape
    <2>6. ItemsOf(p, k) # {}
        BY <2>1, <2>3, <2>4 DEF Older
    <2>7. HasSeq(p) /\ KeyIn(page[p], k)
        BY <2>6 DEF ItemsOf, Items, With, KeyIn, Heads
    <2>8. PICK i : i = findItem(p, k)
        OBVIOUS
    <2>9. /\ i \in Heads(page[p]) /\ Entries(p, i) = Body(page[p], i) /\ Sound(page[p])
          /\ page[p].ent[i].k = k
        BY <2>5, <2>7, <2>8, FindItemIs DEF IInv, EntryInv
    <2>10. PICK S, b, d : S = Entries(p, i) /\ b = "ld_old" /\ d = "ld_freeing"
        OBVIOUS
    <2>11. AlterRange(p, S, "ERASED", b, d)
        BY <1>1, <1>6, <2>1, <2>4, <2>8, <2>10, Zenon DEF EraseOlder
    <2>12. /\ \A q \in Pages : q # p => page'[q] = page[q]
           /\ Erasing(page[p], page'[p], i)
           /\ \/ pc' = b /\ SameItems(page[p], page'[p]) /\ page'[p].ent = page[p].ent
              \/ pc' = d /\ Wiped(page[p], page'[p], i)
        BY <2>5, <2>9, <2>10, <2>11, AlterErased
    <2>13. EntryInv'
        BY <1>1, <1>3, <2>5, <2>7, <2>9, <2>12, EraseItemEntries DEF HalfPcs, MovePcs
    <2>14. Erases(p, i, "ld_old", "ld_freeing")
        BY <2>5, <2>7, <2>9, <2>10, <2>12 DEF Erases
    <2> QED BY <1>4, <2>1, <2>3, <2>4, <2>9, <2>13, <2>14
<1> QED BY <1>5, <1>6

-----------------------------------------------------------------------------
(* Pages are taken from the list of free ones.                             *)

LEMMA RequestNewPageEntries ==
    ASSUME IInv, PageInvs', RequestNewPage
    PROVE  EntryInv' /\ CallInv' /\ SameCall
<1>1. pc = "request" /\ UNCHANGED <<page, at, cuts>> /\ pc' \in {"no_space", "w_init", "mark"}
    BY DEF RequestNewPage
<1>2. /\ \A p \in Pages : page[p].state # "ACTIVE"
      /\ job.k \in Keys /\ job.v \in Values \cup {NoValue} /\ job.from = NoPage
    BY <1>1 DEF IInv, PageInvs, StageInv, Is, CallInv, MovePcs
<1>3. job'.k = job.k /\ job'.v = job.v /\ job'.was = job.was /\ (pc' # "mark" => job'.from = NoPage)
    <2>1. CASE pc' # "mark"
        <3>1. UNCHANGED job
            BY <2>1 DEF RequestNewPage
        <3> QED BY <1>2, <3>1
    <2>2. CASE pc' = "mark"
        <3>1. Victims # {} /\ job' = [job EXCEPT !.from = Victim, !.used = Used(Victim)]
            BY <2>2, OnIs DEF RequestNewPage, IInv, PageInvs, Shape
        <3>2. Victim \in Pages
            BY <3>1, VictimIs, OnIs DEF IInv, PageInvs, Shape
        <3>3. PICK j, p, u : j = job /\ p = Victim /\ u = Used(Victim)
            OBVIOUS
        <3>4. IsJob(j) /\ p \in Pages
            BY <3>2, <3>3 DEF IInv, PageInvs, Shape
        <3>5. JobFor(Assigned(j, p, u), j.k, j.v, j.was, p)
            BY <3>4, JobUpdate
        <3>6. job' = Assigned(j, p, u)
            BY <3>1, <3>3 DEF Assigned
        <3> QED BY <2>2, <3>3, <3>5, <3>6 DEF JobFor
    <2> QED BY <2>1, <2>2
<1>4. EntryInv'
    <2>1. Source(page[job'.from], pc', at', job')
        BY <1>1, SourceNone DEF MovePcs
    <2> QED BY <1>1, <1>2, <2>1, EntryKept DEF IInv
<1>5. WasInv'
    <2>1. job.was \in Pages => HasSeq(job.was) /\ KeyIn(page[job.was], job.k)
        BY <1>1 DEF IInv, CallInv, WasInv
    <2> QED BY <1>1, <1>3, <2>1 DEF WasInv, HasSeq
<1>6. CallInv'
    BY <1>1, <1>2, <1>3, <1>5 DEF IInv, CallInv, WritePcs, LoadPcs, MovePcs
<1> QED BY <1>3, <1>4, <1>6 DEF SameCall

\* The first written entry of a page begins an item.
LEMMA FirstUsedIs ==
    ASSUME NEW p, Sound(page[p]), With(p, "WRITTEN") # {}
    PROVE  FirstUsed(p) \in Heads(page[p])
<1>1. PICK g, W : g = page[p] /\ W = With(p, "WRITTEN")
    OBVIOUS
<1>2. W = {x \in Idx : g.tab[x] = "WRITTEN"} /\ Sound(g) /\ W # {}
    BY <1>1 DEF With
<1>3. \A i \in Heads(g) : i \in W
    BY <1>2 DEF Heads
<1>4. Lowest(W) \in Heads(g)
    BY <1>2, <1>3, FirstIsHead
<1> QED BY <1>1, <1>4 DEF FirstUsed

\* The first item of page p is moved next, unless there is none.
LEMMA ToMoveIs ==
    ASSUME NEW p, Sound(page[p]), NEW c, NEW a, NEW j, j.from = p,
           \/ c = "mv_free" /\ With(p, "WRITTEN") = {}
           \/ /\ c \in {"mv_init", "mv_entry"} /\ With(p, "WRITTEN") # {}
              /\ PlaceFor(a, p, FirstUsed(p), 0)
    PROVE  Source(page[p], c, a, j)
<1>1. CASE c = "mv_free" /\ With(p, "WRITTEN") = {}
    BY <1>1 DEF Source, MovePcs, With
<1>2. CASE c # "mv_free"
    <2>1. PICK g : g = page[p]
        OBVIOUS
    <2>2. a.p = p /\ a.i \in Heads(g) /\ a.end = 0
        BY <1>2, <2>1, FirstUsedIs DEF PlaceFor
    <2>3. 0 \in 0 .. Span[g.ent[a.i].k] - 1
        BY <2>1, <2>2, HeadIs
    <2>4. c \in {"mv_init", "mv_entry"}
        BY <1>2
    <2>5. Source(g, c, a, j)
        BY <2>2, <2>3, <2>4 DEF Source, MovePcs
    <2> QED BY <2>1, <2>5
<1> QED BY <1>1, <1>2

LEMMA MarkFreeingEntries ==
    ASSUME IInv, PageInvs', MarkFreeing
    PROVE  EntryInv' /\ CallInv' /\ Retaining
<1>1. pc = "mark" /\ UNCHANGED <<list, free, nextSeq, job, cuts>>
    BY DEF MarkFreeing
<1>2. PICK c, f : c = Current /\ f = job.from
    OBVIOUS
<1>3. /\ list # <<>> /\ c \in Pages /\ page[c].state = "UNINITIALIZED" /\ f \in Pages /\ page[f].state = "FULL"
      /\ \A p \in Pages : page[p].state # "ACTIVE"
      /\ PagesOK /\ job.k \in Keys
    BY <1>1, <1>2, OnIs DEF IInv, PageInvs, Shape, ListInv, LoadPcs, StageInv, Is, CallInv, Current
<1>4. /\ page'[f].state = "FREEING" /\ page'[f].tab = page[f].tab /\ page'[f].ent = page[f].ent
      /\ \A q \in Pages : q # f => page'[q] = page[q]
    BY <1>1, <1>2, <1>3, HeaderIs DEF MarkFreeing, PageStates
<1>5. PICK g, h : g = page[f] /\ h = page'[f]
    OBVIOUS
<1>6. Sound(g) /\ Below(g, N)
    BY <1>3, <1>5 DEF IInv, EntryInv, HasSeq, Is
<1>7. Heads(h) = Heads(g) /\ SameItems(g, h) /\ Sound(h) /\ Below(h, N)
    <2>1. h.tab = g.tab /\ h.ent = g.ent
        BY <1>4, <1>5
    <2>2. Heads(h) = Heads(g) /\ SameItems(g, h)
        BY <2>1 DEF Heads, SameItems
    <2>3. \A i : Body(h, i) = Body(g, i)
        BY <2>1 DEF Body
    <2> QED BY <1>6, <2>1, <2>2, <2>3 DEF Sound, Below
<1>8. /\ \/ pc' = "mv_free" /\ With(f, "WRITTEN") = {} /\ UNCHANGED at
         \/ pc' = "mv_init" /\ With(f, "WRITTEN") # {} /\ at' = [p |-> f, i |-> FirstUsed(f), end |-> 0]
    BY <1>2, <1>3 DEF MarkFreeing, ToMove
<1>9. Source(h, pc', at', job')
    <2>1. Source(g, pc', at', job')
        <3>1. pc' = "mv_init" => PlaceFor(at', f, FirstUsed(f), 0)
            BY <1>8 DEF PlaceFor
        <3> QED BY <1>1, <1>2, <1>5, <1>6, <1>8, <3>1, ToMoveIs
    <2>2. h.tab = g.tab /\ h.ent = g.ent
        BY <1>4, <1>5
    <2> QED BY <1>7, <2>1, <2>2 DEF Source
<1>10. EntryInv'
    <2>1. \A q \in Pages : page'[q].state # "ACTIVE"
        BY <1>3, <1>4
    <2>2. EntryTypes(h)
        BY <1>7 DEF EntryTypes, Sound
    <2>3. Source(page'[job'.from], pc', at', job')
        BY <1>1, <1>2, <1>5, <1>9
    <2> QED BY <1>3, <1>4, <1>5, <1>7, <2>1, <2>2, <2>3, EntryStep DEF IInv
<1>11. WasInv'
    <2>1. KeyIn(g, job.k) => KeyIn(h, job.k)
        BY <1>7, SameItemsIs
    <2>2. \A q \in Pages : /\ page[q].state \in InUse =>
                                 page'[q].state \in InUse /\ (KeyIn(page[q], job.k) => KeyIn(page'[q], job.k))
                           /\ page[q].state = "UNINITIALIZED" => page'[q].state = "UNINITIALIZED" \/ q = Current
        BY <1>3, <1>4, <1>5, <2>1 DEF InUse
    <2> QED BY <1>1, <1>2, <1>3, <1>8, <2>2, WasKept DEF IInv, CallInv
<1>12. CallInv'
    <2>1. at'.p \in Pages \cup {NoPage}
        <3>1. pc' = "mv_init" => PlaceFor(at', f, FirstUsed(f), 0)
            BY <1>8 DEF PlaceFor
        <3> QED BY <1>3, <1>8, <3>1 DEF IInv, CallInv, PlaceFor
    <2> QED BY <1>1, <1>3, <1>8, <1>11, <2>1 DEF IInv, CallInv, WritePcs, LoadPcs, MovePcs
<1>13. Retaining
    <2>1. Retained(page[f], page'[f])
        BY <1>3, <1>4 DEF Retained, InUse
    <2> QED BY <1>3, <1>4, <2>1, RetainOne
<1> QED BY <1>10, <1>12, <1>13

LEMMA EraseCorruptEntries ==
    ASSUME IInv, PageInvs', EraseCorrupt
    PROVE  EntryInv' /\ CallInv' /\ Retaining
<1>1. PICK c : c = Head(free)
    OBVIOUS
<1>2. /\ pc \in {"request", "ld_first", "ld_activate"} /\ free # <<>> /\ page[c].state = "CORRUPT"
      /\ page' = [page EXCEPT ![c] = ErasedPage]
      /\ UNCHANGED <<list, free, nextSeq, pc, job, at, cuts>>
    BY <1>1 DEF EraseCorrupt
<1>3. PagesOK /\ c \in Pages
    BY <1>1, <1>2, OnIs DEF IInv, PageInvs, Shape
<1>4. page'[c] = ErasedPage /\ \A q \in Pages : q # c => page'[q] = page[q]
    <2>1. c \in Pages => IsPage(ErasedPage)
        BY ErasedIs
    <2>2. /\ PagesOK'
          /\ \A q \in Pages : q # c => page'[q] = page[q]
          /\ c \in Pages => page'[c] = ErasedPage
        BY <1>2, <1>3, <2>1, OnePage
    <2> QED BY <1>3, <2>2
<1>5. PICK h : h = page'[c]
    OBVIOUS
<1>6. EntryTypes(h) /\ Sound(h) /\ h.state = "UNINITIALIZED"
    BY <1>4, <1>5, ErasedClean, ErasedIs
<1>7. ASSUME NEW q \in Pages, page'[q].state = "ACTIVE"
      PROVE  Phase(page'[q], pc', at', job', page'[job'.from])
    <2>1. page'[q] = page[q]
        BY <1>4, <1>5, <1>6, <1>7
    <2>2. PICK f \in 0 .. N : Clean(page[q], f)
        BY <1>2, <1>7, <2>1, CleanIs DEF IInv, HalfPcs
    <2> QED BY <1>2, <2>1, <2>2, PhaseClean DEF HalfPcs
<1>8. EntryInv'
    <2>1. Source(page'[job'.from], pc', at', job')
        BY <1>2, SourceNone DEF MovePcs
    <2> QED BY <1>3, <1>4, <1>5, <1>6, <1>7, <2>1, EntryStep DEF IInv
<1>9. WasInv'
    <2>1. CASE pc = "request"
        <3>1. job.was \in Pages => HasSeq(job.was) /\ KeyIn(page[job.was], job.k)
            BY <2>1 DEF IInv, CallInv, WasInv
        <3>2. job.was \in Pages => page'[job.was] = page[job.was]
            BY <1>2, <1>4, <3>1 DEF HasSeq
        <3> QED BY <1>2, <3>1, <3>2 DEF WasInv, HasSeq
    <2>2. CASE pc # "request"
        BY <1>2, <2>2, WasNone DEF IInv, CallInv
    <2> QED BY <2>1, <2>2
<1>10. CallInv'
    BY <1>2, <1>9 DEF IInv, CallInv, WritePcs, LoadPcs, MovePcs
<1>11. Retaining
    <2>1. Retained(page[c], page'[c])
        BY <1>5, <1>6 DEF Retained, InUse
    <2> QED BY <1>3, <1>4, <2>1, RetainOne
<1> QED BY <1>8, <1>10, <1>11

\* No page is half written, before and after, and nothing is moved.
LEMMA CleanKept ==
    ASSUME IInv, UNCHANGED page,
           pc \notin HalfPcs \cup {"off", "ld_half", "ld_scan", "ld_dup", "abort"},
           pc' \notin HalfPcs \cup MovePcs \cup {"off", "ld_half", "ld_scan", "ld_dup", "w_item"}
    PROVE  EntryInv'
<1>1. ASSUME NEW q \in Pages, page[q].state = "ACTIVE"
      PROVE  Phase(page[q], pc', at', job', page[job'.from])
    <2>1. PICK f \in 0 .. N : Clean(page[q], f)
        BY <1>1, CleanIs DEF IInv
    <2> QED BY <2>1, PhaseClean
<1>2. Source(page[job'.from], pc', at', job')
    BY SourceNone
<1> QED BY <1>1, <1>2, EntryKept DEF IInv

LEMMA BuildListsEntries ==
    ASSUME IInv, PageInvs', BuildLists
    PROVE  EntryInv' /\ CallInv'
<1>1. pc = "ld_lists" /\ pc' \in {"ld_first", "ld_old"} /\ UNCHANGED <<page, job, at, cuts>>
    BY DEF BuildLists
<1>2. EntryInv'
    BY <1>1, CleanKept DEF HalfPcs, MovePcs
<1>3. job.was = NoPage /\ job.from = NoPage
    BY <1>1 DEF IInv, CallInv, LoadPcs, MovePcs
<1>4. CallInv'
    BY <1>1, <1>3, WasNone DEF IInv, CallInv, WritePcs, LoadPcs, MovePcs
<1> QED BY <1>2, <1>4

LEMMA ActivateFirstEntries ==
    ASSUME IInv, PageInvs', ActivateFirst
    PROVE  EntryInv' /\ CallInv'
<1>1. pc = "ld_first" /\ pc' = "idle" /\ UNCHANGED <<page, job, at, cuts>>
    BY DEF ActivateFirst
<1>2. EntryInv'
    BY <1>1, CleanKept DEF HalfPcs, MovePcs
<1>3. job.was = NoPage /\ job.from = NoPage
    BY <1>1 DEF IInv, CallInv, LoadPcs, MovePcs
<1>4. CallInv'
    BY <1>1, <1>3, WasNone DEF IInv, CallInv, WritePcs, LoadPcs, MovePcs
<1> QED BY <1>2, <1>4

LEMMA ActivateForMoveEntries ==
    ASSUME IInv, PageInvs', ActivateForMove
    PROVE  EntryInv' /\ CallInv'
<1>1. PICK f : f = job.from
    OBVIOUS
<1>2. /\ pc = "ld_activate" /\ UNCHANGED <<page, job, cuts>>
      /\ \/ pc' = "mv_free" /\ With(f, "WRITTEN") = {} /\ UNCHANGED at
         \/ pc' = "mv_init" /\ With(f, "WRITTEN") # {} /\ at' = [p |-> f, i |-> FirstUsed(f), end |-> 0]
    BY <1>1 DEF ActivateForMove
<1>3. /\ f \in Pages /\ page[f].state = "FREEING" /\ job.was = NoPage
      /\ \A p \in Pages : page[p].state # "ACTIVE"
    BY <1>1, <1>2, OnIs DEF IInv, PageInvs, Shape, StageInv, Is, CallInv
<1>4. pc' = "mv_init" => PlaceFor(at', f, FirstUsed(f), 0)
    BY <1>2 DEF PlaceFor
<1>5. Source(page[job'.from], pc', at', job')
    <2>1. Sound(page[f])
        BY <1>3 DEF IInv, EntryInv, HasSeq
    <2> QED BY <1>1, <1>2, <1>4, <2>1, ToMoveIs
<1>6. EntryInv'
    BY <1>2, <1>3, <1>5, EntryKept DEF IInv
<1>7. at'.p \in Pages \cup {NoPage}
    BY <1>2, <1>3, <1>4 DEF IInv, CallInv, PlaceFor
<1>8. CallInv'
    BY <1>2, <1>3, <1>7, WasNone DEF IInv, CallInv, WritePcs, LoadPcs, MovePcs
<1> QED BY <1>6, <1>8

LEMMA ResumeFreeingEntries ==
    ASSUME IInv, PageInvs', ResumeFreeing
    PROVE  EntryInv' /\ CallInv'
<1>1. pc = "ld_freeing" /\ UNCHANGED <<page, list, free, nextSeq, cuts>>
    BY DEF ResumeFreeing
<1>2. job.was = NoPage /\ job.from = NoPage
    BY <1>1 DEF IInv, CallInv, MovePcs
<1>3. CASE Freeing = {}
    <2>1. pc' \in {"no_free_page", "idle"} /\ UNCHANGED <<job, at>>
        BY <1>3 DEF ResumeFreeing
    <2>2. EntryInv'
        BY <1>1, <2>1, CleanKept DEF HalfPcs, MovePcs
    <2>3. CallInv'
        BY <1>1, <1>2, <2>1, WasNone DEF IInv, CallInv, WritePcs, LoadPcs, MovePcs
    <2> QED BY <2>2, <2>3
<1>4. CASE Freeing # {}
    <2>1. PICK f, c : f = list[Lowest(Freeing)] /\ c = Current
        OBVIOUS
    <2>2. f \in Pages /\ page[f].state = "FREEING"
        <3>1. Freeing \subseteq 1 .. Len(list) /\ Len(list) \in Nat
            BY OnIs DEF Freeing, IInv, PageInvs, Shape
        <3>2. Freeing \subseteq Nat
            BY <3>1
        <3>3. Lowest(Freeing) \in Freeing
            BY <1>4, <3>2, LowestIs
        <3> QED BY <2>1, <3>1, <3>3, OnIs DEF Freeing, IInv, PageInvs, Shape
    <2>3. list # <<>> /\ c \in Pages
        BY <1>1, <2>1, OnIs DEF IInv, PageInvs, ListInv, LoadPcs, Shape, Current
    <2>4. JobFor(job', NoValue, NoValue, NoPage, f)
        <3>1. job' = [NoJob EXCEPT !.from = f]
            BY <1>4, <2>1 DEF ResumeFreeing
        <3> QED BY <2>2, <3>1, JobIs
    <2>5. job'.k = NoValue /\ job'.v = NoValue /\ job'.was = NoPage /\ job'.from = f
        BY <2>4 DEF JobFor
    <2>6. CASE page[c].state = "ACTIVE"
        <3>1. \/ pc' = "mv_free" /\ With(f, "WRITTEN") = {} /\ UNCHANGED at
              \/ pc' = "mv_entry" /\ With(f, "WRITTEN") # {} /\ at' = [p |-> f, i |-> FirstUsed(f), end |-> 0]
            BY <1>4, <2>1, <2>6 DEF ResumeFreeing, ToMove
        <3>2. pc' = "mv_entry" => PlaceFor(at', f, FirstUsed(f), 0)
            BY <3>1 DEF PlaceFor
        <3>3. Source(page[job'.from], pc', at', job')
            <4>1. Sound(page[f])
                BY <2>2 DEF IInv, EntryInv, HasSeq
            <4> QED BY <2>5, <3>1, <3>2, <4>1, ToMoveIs
        <3>4. ASSUME NEW q \in Pages, page[q].state = "ACTIVE"
              PROVE  Phase(page[q], pc', at', job', page[job'.from])
            <4>1. PICK n \in 0 .. N : Clean(page[q], n)
                BY <1>1, <3>4, CleanIs DEF IInv, HalfPcs
            <4>2. CASE pc' = "mv_free"
                BY <4>1, <4>2, PhaseClean DEF HalfPcs
            <4>3. CASE pc' = "mv_entry"
                <5>1. \A x : Receiving(page[q], n, 0, x)
                    BY <4>1 DEF Clean, Receiving, Begun
                <5>2. at'.end = 0
                    BY <3>2, <4>3 DEF PlaceFor
                <5> QED BY <4>1, <4>3, <5>1, <5>2 DEF Phase, HalfPcs
            <4> QED BY <3>1, <4>2, <4>3
        <3>5. EntryInv'
            BY <1>1, <3>3, <3>4, EntryKept DEF IInv
        <3>6. at'.p \in Pages \cup {NoPage}
            BY <2>2, <3>1, <3>2 DEF IInv, CallInv, PlaceFor
        <3>7. CallInv'
            BY <2>5, <3>1, <3>6, WasNone DEF CallInv, WritePcs, LoadPcs, MovePcs
        <3> QED BY <3>5, <3>7
    <2>7. CASE page[c].state # "ACTIVE"
        <3>1. pc' \in {"no_free_page", "ld_activate"} /\ UNCHANGED at
            BY <1>4, <2>1, <2>7 DEF ResumeFreeing
        <3>2. pc' # "no_free_page"
            BY DEF PageInvs, StageInv
        <3>3. EntryInv'
            BY <1>1, <3>1, CleanKept DEF HalfPcs, MovePcs
        <3>4. CallInv'
            BY <2>5, <3>1, <3>2, WasNone DEF IInv, CallInv, WritePcs, LoadPcs, MovePcs
        <3> QED BY <3>3, <3>4
    <2> QED BY <2>6, <2>7
<1> QED BY <1>3, <1>4

LEMMA MoveFreeEntries ==
    ASSUME IInv, PageInvs', MoveFree
    PROVE  EntryInv' /\ CallInv' /\ Retaining /\ (pc' = "idle" \/ SameCall)
<1>1. PICK f, c : f = job.from /\ c = Current
    OBVIOUS
<1>2. /\ pc = "mv_free" /\ page' = [page EXCEPT ![f] = ErasedPage]
      /\ list' = Without(list, PlaceOf(f))
      /\ UNCHANGED <<nextSeq, cuts>>
      /\ pc' \in {"idle", "abort", "w_init", "w_item", "no_space"}
    BY <1>1 DEF MoveFree, ToWrite
<1>3. /\ PagesOK /\ list # <<>> /\ c \in Pages /\ f \in Pages /\ page[f].state = "FREEING"
      /\ page[c].state \in {"ACTIVE", "UNINITIALIZED"} /\ c # f
    BY <1>1, <1>2, OnIs DEF IInv, PageInvs, Shape, ListInv, LoadPcs, StageInv, MovePcs, Is, Current
<1>4. page'[f] = ErasedPage /\ \A q \in Pages : q # f => page'[q] = page[q]
    <2>1. f \in Pages => IsPage(ErasedPage)
        BY ErasedIs
    <2>2. /\ PagesOK'
          /\ \A q \in Pages : q # f => page'[q] = page[q]
          /\ f \in Pages => page'[f] = ErasedPage
        BY <1>2, <1>3, <2>1, OnePage
    <2> QED BY <1>3, <2>2
<1>5. page'[f].state = "UNINITIALIZED" /\ EntryTypes(page'[f])
    BY <1>4, ErasedClean, ErasedIs
<1>6. Current' = c
    <2>1. list \in Seq(Pages) /\ f \in On(list)
        BY <1>1, <1>2 DEF IInv, PageInvs, Shape, StageInv, MovePcs
    <2> QED BY <1>1, <1>2, <1>3, <2>1, LastStays
<1>7. /\ pc' = "idle" => JobFor(job', NoValue, NoValue, NoPage, NoPage)
      /\ pc' # "idle" => JobFor(job', job.k, job.v, job.was, NoPage)
      /\ PlaceFor(at', NoPage, 0, 0)
      /\ pc' # "idle" => job.k # NoValue
    <2>1. PICK j : j = job
        OBVIOUS
    <2>2. IsJob(j)
        BY <2>1 DEF IInv, PageInvs, Shape
    <2>3. JobFor([j EXCEPT !.from = NoPage], j.k, j.v, j.was, NoPage)
        BY <2>2, JobUpdate
    <2>4. /\ pc' = "idle" => job' = NoJob
          /\ pc' # "idle" => job' = [j EXCEPT !.from = NoPage]
          /\ at' = NoPlace
        BY <2>1 DEF MoveFree
    <2>5. pc' # "idle" => job.k # NoValue
        BY DEF MoveFree, ToWrite
    <2> QED BY <2>1, <2>3, <2>4, <2>5, JobIs
<1>8. ASSUME NEW q \in Pages, page'[q].state = "ACTIVE"
      PROVE  Phase(page'[q], pc', at', job', page'[job'.from])
    <2>1. q # f /\ page'[q] = page[q] /\ page[q].state = "ACTIVE"
        BY <1>4, <1>5, <1>8
    <2>2. PICK n \in 0 .. N : Clean(page[q], n) /\ NextFree(q) = n
        BY <1>2, <2>1, CleanIs DEF IInv, HalfPcs
    <2>3. pc' = "w_item" => n + Span[job'.k] <= N
        <3> SUFFICES ASSUME pc' = "w_item" PROVE n + Span[job'.k] <= N
            OBVIOUS
        <3>1. Fits(c, job.k) /\ page[c].state # "UNINITIALIZED"
            BY <1>1 DEF MoveFree, ToWrite
        <3>2. c = q
            BY <1>3, <2>1, <3>1, OneActive DEF IInv
        <3>3. job'.k = job.k
            BY <1>7 DEF JobFor
        <3> QED BY <2>2, <3>1, <3>2, <3>3 DEF Fits
    <2> QED BY <1>2, <2>1, <2>2, <2>3, PhaseClean DEF HalfPcs
<1>9. EntryInv'
    <2>1. Source(page'[job'.from], pc', at', job')
        BY <1>2, SourceNone DEF MovePcs
    <2> QED BY <1>3, <1>4, <1>5, <1>8, <2>1, EntryStep DEF IInv, InUse
<1>12. Retaining
    <2>1. Retained(page[f], page'[f])
        BY <1>5 DEF Retained, InUse
    <2> QED BY <1>3, <1>4, <2>1, RetainOne
<1>10. CASE pc' = "idle"
    BY <1>7, <1>9, <1>10, <1>12, CallEnds DEF JobFor, PlaceFor
<1>11. CASE pc' # "idle"
    <2>1. job'.k = job.k /\ job'.v = job.v /\ job'.was = job.was /\ job'.from = NoPage /\ job.k # NoValue /\ at'.p = NoPage
        BY <1>7, <1>11 DEF JobFor, PlaceFor
    <2>2. WasInv'
        <3> SUFFICES ASSUME job.was \in Pages
                     PROVE  \/ page'[job.was].state \in InUse /\ KeyIn(page'[job.was], job.k)
                            \/ /\ page'[job.was].state = "UNINITIALIZED"
                               /\ page'[c].state \in InUse /\ KeyIn(page'[c], job.k)
            BY <1>2, <1>6, <2>1 DEF WasInv, HasSeq, Is, InUse
        <3>1. ~KeyIn(page[f], job.k)
            <4>1. \A i \in Idx : page[f].tab[i] # "WRITTEN"
                BY <1>1, <1>2 DEF IInv, EntryInv, Source
            <4> QED BY <4>1 DEF KeyIn, Heads
        <3>2. page'[c] = page[c]
            BY <1>3, <1>4
        <3>3. CASE HasSeq(job.was) /\ KeyIn(page[job.was], job.k)
            BY <1>4, <3>1, <3>3 DEF HasSeq, InUse
        <3>4. CASE ~(HasSeq(job.was) /\ KeyIn(page[job.was], job.k))
            <4>1. /\ page[job.was].state = "UNINITIALIZED" \/ job.was = f
                  /\ page[c].state \in InUse /\ KeyIn(page[c], job.k)
                BY <1>1, <1>2, <3>4 DEF IInv, CallInv, WasInv, HasSeq, Is, InUse
            <4>2. page'[job.was].state = "UNINITIALIZED"
                BY <1>4, <1>5, <4>1
            <4> QED BY <3>2, <4>1, <4>2
        <3> QED BY <3>3, <3>4
    <2>3. CallInv'
        BY <1>2, <1>11, <2>1, <2>2 DEF IInv, CallInv, WritePcs, LoadPcs, MovePcs
    <2> QED BY <1>9, <1>12, <2>1, <2>3 DEF SameCall
<1> QED BY <1>10, <1>11

-----------------------------------------------------------------------------
(* Page::moveItem().                                                       *)

LEMMA MoveContext ==
    ASSUME IInv, pc \in {"mv_entry", "mv_state", "mv_erase"}, NEW c, c = Current, NEW f, f = job.from
    PROVE  /\ PagesOK /\ IsPlace(at) /\ list # <<>>
           /\ c \in Pages /\ page[c].state = "ACTIVE" /\ Sound(page[c])
           /\ f \in Pages /\ page[f].state = "FREEING" /\ Sound(page[f]) /\ Below(page[f], N) /\ c # f
           /\ Phase(page[c], pc, at, job, page[f])
           /\ at.p = f /\ at.i \in Heads(page[f])
           /\ pc \in {"mv_entry", "mv_state"} => at.end \in 0 .. Span[page[f].ent[at.i].k] - 1
           /\ pc = "mv_erase" => at.end = Span[page[f].ent[at.i].k]
<1>1. /\ PagesOK /\ IsPlace(at) /\ list # <<>> /\ c \in Pages /\ page[c].state = "ACTIVE"
      /\ f \in Pages /\ page[f].state = "FREEING"
    BY OnIs DEF IInv, PageInvs, Shape, ListInv, LoadPcs, StageInv, MovePcs, Is, Current
<1>2. Sound(page[c]) /\ Sound(page[f]) /\ Below(page[f], N)
    BY <1>1 DEF IInv, EntryInv, HasSeq, Is
<1>3. Phase(page[c], pc, at, job, page[f]) /\ Source(page[f], pc, at, job)
    BY <1>1 DEF IInv, EntryInv, Is
<1>4. /\ at.p = f /\ at.i \in Heads(page[f])
      /\ pc \in {"mv_entry", "mv_state"} => at.end \in 0 .. Span[page[f].ent[at.i].k] - 1
      /\ pc = "mv_erase" => at.end = Span[page[f].ent[at.i].k]
    BY <1>3 DEF Source, MovePcs
<1> QED BY <1>1, <1>2, <1>3, <1>4

LEMMA MoveEntryEntries ==
    ASSUME IInv, PageInvs', MoveEntry
    PROVE  EntryInv' /\ CallInv' /\ Retaining /\ Staying /\ page'[job.from] = page[job.from]
<1>1. pc = "mv_entry" /\ UNCHANGED <<list, free, nextSeq, job, at, cuts>>
    BY DEF MoveEntry
<1>2. PICK c, f : c = Current /\ f = job.from
    OBVIOUS
<1>3. PICK g, s, i, n : g = page[c] /\ s = page[f] /\ i = at.i /\ n = at.end
    OBVIOUS
<1>4. /\ PagesOK /\ c \in Pages /\ g.state = "ACTIVE" /\ Sound(g) /\ f \in Pages /\ c # f
      /\ Sound(s) /\ Below(s, N) /\ i \in Heads(s) /\ at.p = f
      /\ n \in 0 .. Span[s.ent[i].k] - 1
      /\ Phase(g, pc, at, job, s)
    BY <1>1, <1>2, <1>3, MoveContext
<1>5. PICK e, x : e = s.ent[i] /\ x = s.ent[i + n]
    OBVIOUS
<1>6. PICK m \in 0 .. N : Receiving(g, m, n, e)
    BY <1>1, <1>3, <1>4, <1>5 DEF Phase
<1>7. NextFree(c) = m
    <2>1. page[c].tab \in Table /\ UsedTo(page[c], m) /\ \A j \in m .. N-1 : page[c].tab[j] = "EMPTY"
        BY <1>3, <1>4, <1>6 DEF Sound, Receiving, Begun, BlankFrom
    <2> QED BY <2>1, NextFreeIs
<1>8. Source(page[job.from], pc, at, job)
    BY DEF IInv, EntryInv
<1>9. CASE m < N
    <2>1. pc' = "mv_state" /\ Write(c, m, x)
        BY <1>2, <1>3, <1>5, <1>7, <1>9 DEF MoveEntry
    <2>2. PICK h : h = page'[c]
        OBVIOUS
    <2>3. /\ h.tab = g.tab /\ h.ent = [g.ent EXCEPT ![m] = x] /\ h.state = g.state
          /\ \A q \in Pages : q # c => page'[q] = page[q]
        <3>1. Redone(c, page[c].tab, [page[c].ent EXCEPT ![m] = x])
            BY <1>4, <2>1, WriteOneIs
        <3> QED BY <1>3, <2>2, <3>1, Zenon DEF Redone
    <2>4. n \in Nat /\ x \in Entry /\ (x.t = "item" => n = 0 /\ x.k \in Keys)
        <3>1. /\ i \in Nat /\ Span[s.ent[i].k] \in Nat /\ s.ent[i].k \in Keys
              /\ \A j \in Body(s, i) \cap Idx : j # i => s.ent[j].t # "item"
            BY <1>4, HeadIs
        <3>2. n \in Nat /\ i + n \in Body(s, i)
            BY <1>4, <3>1 DEF Body
        <3>3. i + n \in Idx
            BY <1>4, <3>2, IdxIs DEF Below
        <3>4. x \in Entry
            BY <1>4, <1>5, <3>3 DEF Sound, Ents
        <3>5. n # 0 => i + n # i
            BY <3>1, <3>2
        <3>6. n = 0 => i + n = i
            BY <3>1
        <3> QED BY <1>5, <3>1, <3>2, <3>3, <3>4, <3>5, <3>6
    <2>5. Sound(h) /\ SameItems(g, h) /\ Received(h, m, n, e, x)
        BY <1>4, <1>6, <1>9, <2>3, <2>4, PlaceNext
    <2>6. page'[job'.from] = s
        BY <1>1, <1>2, <1>3, <1>4, <2>3
    <2>7. Phase(h, pc', at', job', page'[job'.from])
        BY <1>1, <1>3, <1>5, <2>1, <2>5, <2>6 DEF Phase, HalfPcs
    <2>8. Source(page'[job'.from], pc', at', job')
        BY <1>1, <1>2, <1>3, <1>8, <2>1, <2>6 DEF Source, MovePcs
    <2>9. EntryInv'
        <3>1. EntryTypes(h)
            BY <2>5 DEF EntryTypes, Sound
        <3> QED BY <1>4, <2>2, <2>3, <2>5, <2>7, <2>8, <3>1, ActiveStep DEF IInv
    <2>10. WasInv'
        <3>1. \A k : KeyIn(page[c], k) => KeyIn(page'[c], k)
            BY <1>3, <2>2, <2>5, SameItemsIs
        <3> QED BY <1>1, <1>2, <1>3, <1>4, <2>1, <2>2, <2>3, <3>1, WasRedone DEF IInv, CallInv
    <2>11. CallInv'
        BY <1>1, <2>1, <2>10 DEF IInv, CallInv, WritePcs, LoadPcs, MovePcs
    <2>12. Retaining
        <3>1. m \in Idx /\ g.tab[m] = "EMPTY"
            BY <1>6, <1>9, IdxIs DEF Receiving, BlankFrom
        <3>2. Retained(g, h)
            BY <1>4, <2>3, <3>1, RetainWrite
        <3> QED BY <1>3, <1>4, <2>2, <2>3, <3>2, RetainOne
    <2>13. Staying
        BY <1>3, <1>4, <2>2, <2>3, StayOne
    <2> QED BY <1>1, <1>2, <1>3, <2>6, <2>9, <2>11, <2>12, <2>13
<1>10. CASE ~(m < N)
    <2>1. pc' = "abort" /\ UNCHANGED page
        BY <1>2, <1>7, <1>10 DEF MoveEntry
    <2>2. \A q \in Pages : Phase(page[q], pc', at', job', page[job'.from])
        BY <2>1 DEF Phase, HalfPcs
    <2>3. Source(page[job'.from], pc', at', job')
        BY <2>1, SourceNone DEF MovePcs
    <2>4. EntryInv'
        BY <2>1, <2>2, <2>3, EntryKept DEF IInv
    <2>5. CallInv'
        BY <1>1, <2>1 DEF IInv, CallInv, WasInv, WritePcs, LoadPcs, MovePcs
    <2> QED BY <2>1, <2>4, <2>5, RetainSame DEF Staying
<1> QED BY <1>9, <1>10

LEMMA MoveStateEntries ==
    ASSUME IInv, PageInvs', MoveState
    PROVE  /\ EntryInv' /\ CallInv'
           /\ \E m \in Idx : Counts(Current, m, job.from, at.i, at.end)
           /\ at'.i = at.i /\ at'.end = at.end + 1
           /\ pc' = IF at.end + 1 = Span[page[job.from].ent[at.i].k] THEN "mv_erase" ELSE "mv_entry"
<1>1. pc = "mv_state" /\ UNCHANGED <<list, free, nextSeq, job, cuts>>
    BY DEF MoveState
<1>2. PICK c, f : c = Current /\ f = job.from
    OBVIOUS
<1>3. PICK g, s, i, n : g = page[c] /\ s = page[f] /\ i = at.i /\ n = at.end
    OBVIOUS
<1>4. /\ PagesOK /\ c \in Pages /\ g.state = "ACTIVE" /\ Sound(g) /\ f \in Pages /\ c # f
      /\ Sound(s) /\ Below(s, N) /\ i \in Heads(s) /\ at.p = f /\ IsPlace(at)
      /\ n \in 0 .. Span[s.ent[i].k] - 1
      /\ Phase(g, pc, at, job, s)
    BY <1>1, <1>2, <1>3, MoveContext
<1>5. PICK e, x : e = s.ent[i] /\ x = s.ent[i + n]
    OBVIOUS
<1>6. PICK m \in 0 .. N : Received(g, m, n, e, x)
    BY <1>1, <1>3, <1>4, <1>5 DEF Phase
<1>7. NextFree(c) = m
    <2>1. page[c].tab \in Table /\ UsedTo(page[c], m) /\ g.tab[m] = "EMPTY" /\ BlankFrom(g, m+1)
        BY <1>3, <1>4, <1>6 DEF Sound, Received, Begun
    <2>2. \A j \in m .. N-1 : page[c].tab[j] = "EMPTY"
        <3> TAKE j \in m .. N-1
        <3>1. j = m \/ j \in m+1 .. N-1
            BY IdxIs
        <3> QED BY <1>3, <2>1, <3>1 DEF BlankFrom
    <2> QED BY <2>1, <2>2, NextFreeIs
<1>8. PICK h : h = page'[c]
    OBVIOUS
<1>9. /\ h.tab = [g.tab EXCEPT ![m] = "WRITTEN"] /\ h.ent = g.ent /\ h.state = g.state
      /\ \A q \in Pages : q # c => page'[q] = page[q]
    <2>1. Alter(c, m, "WRITTEN")
        BY <1>2, <1>7 DEF MoveState
    <2>2. Redone(c, [page[c].tab EXCEPT ![m] = "WRITTEN"], page[c].ent)
        BY <1>4, <2>1, AlterIs
    <2> QED BY <1>3, <1>8, <2>2, Zenon DEF Redone
<1>10. /\ n \in Nat /\ i \in Nat /\ Span[e.k] \in Nat /\ e.t = "item" /\ e.k \in Keys /\ n < Span[e.k]
       /\ n = 0 => x = e
       /\ n # 0 => x.t # "item"
    <2>1. /\ i \in Nat /\ Span[s.ent[i].k] \in Nat /\ s.ent[i].t = "item" /\ s.ent[i].k \in Keys
          /\ \A j \in Body(s, i) \cap Idx : j # i => s.ent[j].t # "item"
        BY <1>4, HeadIs
    <2>2. n \in Nat /\ n < Span[s.ent[i].k] /\ i + n \in Body(s, i) /\ (n # 0 => i + n # i) /\ (n = 0 => i + n = i)
        BY <1>4, <2>1 DEF Body
    <2>3. i + n \in Idx
        BY <1>4, <2>2, IdxIs DEF Below
    <2> QED BY <1>5, <2>1, <2>2, <2>3
<1>11. /\ Sound(h) /\ Heads(g) \subseteq Heads(h)
       /\ \A d \in Heads(g) : h.ent[d] = g.ent[d]
       /\ Receiving(h, m + 1, n + 1, e)
       /\ Heads(h) = IF n = 0 THEN Heads(g) \cup {m} ELSE Heads(g)
       /\ \A y \in Idx : g.tab[y] = "WRITTEN" => h.tab[y] = "WRITTEN"
    <2>1. Sound(h) /\ Heads(g) \subseteq Heads(h)
        BY <1>4, <1>6, <1>9, <1>10, CountNext
    <2>2. \A d \in Heads(g) : h.ent[d] = g.ent[d]
        BY <1>9
    <2>3. Receiving(h, m + 1, n + 1, e)
        BY <1>4, <1>6, <1>9, <1>10, CountNext
    <2>4. Heads(h) = IF n = 0 THEN Heads(g) \cup {m} ELSE Heads(g)
        BY <1>4, <1>6, <1>9, <1>10, CountNext
    <2>5. \A y \in Idx : g.tab[y] = "WRITTEN" => h.tab[y] = "WRITTEN"
        BY <1>4, <1>9 DEF Sound, Table
    <2> QED BY <2>1, <2>2, <2>3, <2>4, <2>5
<1>12. m + 1 \in 0 .. N
    BY <1>6, <1>10, <1>11, IdxIs DEF Receiving, Begun
<1>13. at'.p = f /\ at'.i = i /\ at'.end = n + 1
    <2>1. at' = [at EXCEPT !.end = n + 1]
        BY <1>3 DEF MoveState
    <2>2. PlaceFor([at EXCEPT !.end = n + 1], at.p, at.i, n + 1)
        BY <1>4, PlaceUpdate
    <2> QED BY <1>3, <1>4, <2>1, <2>2 DEF PlaceFor
<1>14. pc' = IF n + 1 = Span[e.k] THEN "mv_erase" ELSE "mv_entry"
    <2>1. SpanAt(f, i) = Span[e.k]
        BY <1>3, <1>5, <1>10 DEF SpanAt
    <2> QED BY <1>2, <1>3, <2>1 DEF MoveState
<1>15. page'[job'.from] = s
    BY <1>1, <1>2, <1>3, <1>4, <1>9
<1>16. Phase(h, pc', at', job', page'[job'.from])
    BY <1>5, <1>11, <1>12, <1>13, <1>14, <1>15 DEF Phase, HalfPcs
<1>17. Source(page'[job'.from], pc', at', job')
    <2>1. n + 1 # Span[e.k] => n + 1 \in 0 .. Span[e.k] - 1
        BY <1>10
    <2> QED BY <1>1, <1>2, <1>4, <1>5, <1>13, <1>14, <1>15, <2>1 DEF Source, MovePcs
<1>18. EntryInv'
    <2>1. EntryTypes(h)
        BY <1>11 DEF EntryTypes, Sound
    <2> QED BY <1>4, <1>8, <1>9, <1>11, <1>16, <1>17, <2>1, ActiveStep DEF IInv
<1>19. WasInv'
    <2>1. \A k : KeyIn(page[c], k) => KeyIn(page'[c], k)
        BY <1>3, <1>8, <1>11, KeyKept
    <2> QED BY <1>1, <1>2, <1>3, <1>4, <1>8, <1>9, <1>14, <2>1, WasRedone DEF IInv, CallInv
<1>20. CallInv'
    BY <1>1, <1>4, <1>13, <1>14, <1>19 DEF IInv, CallInv, WritePcs, LoadPcs, MovePcs
<1>21. Counts(c, m, f, i, n) /\ m \in Idx
    <2>1. Counting(c)
        BY <1>3, <1>4, <1>8, <1>9, <1>11 DEF Counting
    <2>2. m \in Idx /\ g.ent[m] = x /\ g.tab[m] = "EMPTY"
        BY <1>6, IdxIs DEF Received
    <2>3. h.tab[m] = "WRITTEN"
        BY <1>4, <1>9, <2>2 DEF Sound, Table
    <2> QED BY <1>3, <1>4, <1>5, <1>8, <1>9, <1>10, <1>11, <2>1, <2>2, <2>3 DEF Counts
<1>22. /\ at'.i = at.i /\ at'.end = at.end + 1
       /\ pc' = IF at.end + 1 = Span[page[job.from].ent[at.i].k] THEN "mv_erase" ELSE "mv_entry"
    BY <1>2, <1>3, <1>5, <1>13, <1>14
<1>23. \E y \in Idx : Counts(Current, y, job.from, at.i, at.end)
    BY <1>2, <1>3, <1>21
<1> QED BY <1>18, <1>20, <1>22, <1>23

LEMMA MoveEraseEntries ==
    ASSUME IInv, PageInvs', MoveErase
    PROVE  EntryInv' /\ CallInv' /\ \E d \in {"mv_free", "mv_entry"} : Erases(job.from, at.i, "mv_erase", d)
<1>1. pc = "mv_erase" /\ UNCHANGED <<list, free, nextSeq, job, cuts>>
    BY DEF MoveErase
<1>2. PICK c, f : c = Current /\ f = job.from
    OBVIOUS
<1>3. PICK g, s, i, n : g = page[c] /\ s = page[f] /\ i = at.i /\ n = at.end
    OBVIOUS
<1>4. /\ PagesOK /\ c \in Pages /\ g.state = "ACTIVE" /\ Sound(g) /\ f \in Pages /\ c # f
      /\ s.state = "FREEING" /\ Sound(s) /\ Below(s, N) /\ i \in Heads(s) /\ at.p = f /\ IsPlace(at)
      /\ n = Span[s.ent[i].k]
      /\ Phase(g, pc, at, job, s)
    BY <1>1, <1>2, <1>3, MoveContext
<1>5. PICK e : e = s.ent[i]
    OBVIOUS
<1>6. PICK m \in 0 .. N : Receiving(g, m, n, e)
    BY <1>1, <1>3, <1>4, <1>5 DEF Phase
<1>7. e.t = "item" /\ e.k \in Keys /\ Entries(f, i) = Body(s, i)
    <2>1. s.ent[i].t = "item" /\ s.ent[i].k \in Keys
        BY <1>4, HeadIs
    <2> QED BY <1>3, <1>5, <2>1 DEF Entries, SpanAt, Body
<1>8. PICK S, rest, b, d : /\ S = Entries(f, i) /\ rest = With(f, "WRITTEN") \ S /\ b = "mv_erase"
                           /\ d = IF rest = {} THEN "mv_free" ELSE "mv_entry"
    OBVIOUS
<1>9. /\ AlterRange(f, S, "ERASED", b, d)
      /\ at' = IF pc' = "mv_entry" THEN Moved(at, Lowest(rest), 0) ELSE at
    BY <1>1, <1>2, <1>3, <1>8 DEF MoveErase, Moved
<1>10. PICK h : h = page'[f]
    OBVIOUS
<1>11. /\ \A q \in Pages : q # f => page'[q] = page[q]
       /\ Erasing(s, h, i)
       /\ \/ pc' = b /\ SameItems(s, h) /\ h.ent = s.ent
          \/ pc' = d /\ Wiped(s, h, i)
    <2>1. S = Body(page[f], i) /\ i \in Heads(page[f]) /\ Sound(page[f])
        BY <1>3, <1>4, <1>7, <1>8
    <2>2. /\ \A q \in Pages : q # f => page'[q] = page[q]
          /\ Erasing(page[f], page'[f], i)
          /\ \/ pc' = b /\ SameItems(page[f], page'[f]) /\ page'[f].ent = page[f].ent
             \/ pc' = d /\ Wiped(page[f], page'[f], i)
        <3>1. PagesOK /\ f \in Pages /\ AlterRange(f, S, "ERASED", b, d)
            BY <1>4, <1>9
        <3> QED BY <2>1, <3>1, AlterErased
    <2> QED BY <1>3, <1>10, <2>2
<1>12. h.state = "FREEING" /\ Sound(h) /\ EntryTypes(h) /\ Below(h, N)
    BY <1>4, <1>11, EraseKept DEF Erasing
<1>13. page'[c] = g /\ page'[job'.from] = h /\ pc' \in {"mv_erase", "mv_free", "mv_entry"}
    BY <1>1, <1>2, <1>3, <1>4, <1>8, <1>10, <1>11
<1>14. Phase(g, pc', at', job', h) /\ Source(h, pc', at', job') /\ at'.p = f
    <2>1. CASE pc' = b /\ SameItems(s, h)
        <3>1. at' = at /\ pc' = "mv_erase"
            BY <1>8, <1>9, <2>1
        <3>2. i \in Heads(h) /\ h.ent[i] = e
            BY <1>4, <1>5, <2>1 DEF SameItems
        <3>3. Phase(g, pc', at', job', h)
            BY <1>3, <1>6, <3>1, <3>2 DEF Phase, HalfPcs
        <3>4. Source(h, pc', at', job')
            BY <1>1, <1>2, <1>3, <1>4, <1>5, <3>1, <3>2 DEF Source, MovePcs
        <3> QED BY <1>4, <3>1, <3>3, <3>4
    <2>2. CASE pc' = d /\ Wiped(s, h, i)
        <3>1. Clean(g, m) /\ \A x : Receiving(g, m, 0, x)
            BY <1>4, <1>5, <1>6, <1>7, ReceivedAll
        <3>2. rest = {x \in Idx : h.tab[x] = "WRITTEN"}
            <4>1. rest = {x \in Idx : s.tab[x] = "WRITTEN"} \ Body(s, i)
                BY <1>3, <1>7, <1>8 DEF With
            <4>2. \A x \in Idx : x \in Body(s, i) => h.tab[x] = "ERASED"
                BY <2>2 DEF Wiped
            <4>3. \A x \in Idx : x \notin Body(s, i) => h.tab[x] = s.tab[x]
                BY <1>11 DEF Erasing
            <4> QED BY <4>1, <4>2, <4>3
        <3>3. CASE rest = {}
            <4>1. pc' = "mv_free" /\ at' = at
                BY <1>8, <1>9, <2>2, <3>3
            <4>2. Phase(g, pc', at', job', h)
                BY <3>1, <4>1, PhaseClean DEF HalfPcs
            <4>3. Source(h, pc', at', job')
                BY <3>2, <3>3, <4>1 DEF Source, MovePcs
            <4> QED BY <1>4, <4>1, <4>2, <4>3
        <3>4. CASE rest # {}
            <4>1. pc' = "mv_entry" /\ PlaceFor(at', f, Lowest(rest), 0)
                <5>1. PlaceFor(Moved(at, Lowest(rest), 0), at.p, Lowest(rest), 0)
                    BY <1>4, MovedIs
                <5>2. pc' = "mv_entry" /\ at' = Moved(at, Lowest(rest), 0)
                    BY <1>8, <1>9, <2>2, <3>4
                <5> QED BY <1>4, <5>1, <5>2
            <4>2. Lowest(rest) \in Heads(h)
                <5>1. \A x \in Heads(h) : x \in rest
                    BY <3>2 DEF Heads
                <5> QED BY <1>12, <3>2, <3>4, <5>1, FirstIsHead
            <4>3. at'.p = f /\ at'.i \in Heads(h) /\ at'.end = 0
                BY <4>1, <4>2 DEF PlaceFor
            <4>4. 0 \in 0 .. Span[h.ent[at'.i].k] - 1
                BY <1>12, <4>3, HeadIs
            <4>5. Phase(g, pc', at', job', h)
                BY <3>1, <4>1, <4>3 DEF Phase, HalfPcs
            <4>6. Source(h, pc', at', job')
                BY <1>1, <1>2, <4>1, <4>3, <4>4 DEF Source, MovePcs
            <4> QED BY <4>3, <4>5, <4>6
        <3> QED BY <3>3, <3>4
    <2> QED BY <1>11, <2>1, <2>2
<1>15. EntryInv'
    <2>1. ASSUME NEW q \in Pages, page'[q].state = "ACTIVE"
          PROVE  Phase(page'[q], pc', at', job', page'[job'.from])
        <3>1. q # f /\ page[q].state = "ACTIVE"
            BY <1>10, <1>11, <1>12, <2>1
        <3>2. q = c
            BY <1>3, <1>4, <3>1, OneActive DEF IInv
        <3> QED BY <1>13, <1>14, <3>2
    <2>2. Source(page'[job'.from], pc', at', job')
        BY <1>13, <1>14
    <2> QED BY <1>4, <1>10, <1>11, <1>12, <2>1, <2>2, EntryStep DEF IInv
<1>16. WasInv'
    <2> SUFFICES ASSUME job.was \in Pages
                 PROVE  \/ page'[job.was].state \in InUse /\ KeyIn(page'[job.was], job.k)
                        \/ /\ page'[job.was].state = "UNINITIALIZED" \/ job.was = f
                           /\ page'[c].state \in InUse /\ KeyIn(page'[c], job.k)
        BY <1>1, <1>2, <1>13 DEF WasInv, HasSeq, Is, InUse, Current
    <2>1. CASE HasSeq(job.was) /\ KeyIn(page[job.was], job.k) /\ job.was # f
        BY <1>11, <2>1 DEF HasSeq, InUse
    <2>2. CASE job.was = f /\ KeyIn(s, job.k)
        <3>1. PICK x \in Heads(s) : s.ent[x].k = job.k
            BY <2>2 DEF KeyIn
        <3>2. CASE x \in Heads(h)
            <4>1. h.ent[x] = s.ent[x]
                BY <1>11, <3>2 DEF Erasing
            <4> QED BY <1>10, <1>12, <2>2, <3>1, <3>2, <4>1 DEF KeyIn, InUse
        <3>3. CASE x \notin Heads(h)
            <4>1. x = i
                BY <1>11, <3>1, <3>3 DEF Wiped, SameItems
            <4>2. m - n \in Heads(g) /\ g.ent[m - n] = e
                <5>1. n # 0
                    BY <1>4, <1>5, <1>7, ItemIs, NvsAssumption
                <5> QED BY <1>6, <5>1 DEF Receiving, Begun, LastAt
            <4>3. KeyIn(g, job.k)
                BY <1>5, <3>1, <4>1, <4>2 DEF KeyIn
            <4> QED BY <1>4, <1>13, <2>2, <4>3 DEF InUse
        <3> QED BY <3>2, <3>3
    <2>3. CASE ~(HasSeq(job.was) /\ KeyIn(page[job.was], job.k))
        <3>1. /\ page[job.was].state = "UNINITIALIZED" \/ job.was = f
              /\ KeyIn(g, job.k)
            BY <1>1, <1>2, <1>3, <2>3 DEF IInv, CallInv, WasInv, Is
        <3>2. page[job.was].state = "UNINITIALIZED" => page'[job.was].state = "UNINITIALIZED"
            BY <1>3, <1>4, <1>11
        <3> QED BY <1>4, <1>13, <3>1, <3>2 DEF InUse
    <2> QED BY <1>3, <2>1, <2>2, <2>3
<1>17. CallInv'
    BY <1>1, <1>4, <1>13, <1>14, <1>16 DEF IInv, CallInv, WritePcs, LoadPcs, MovePcs
<1>18. Erases(f, i, "mv_erase", d) /\ d \in {"mv_free", "mv_entry"}
    BY <1>3, <1>4, <1>8, <1>10, <1>11 DEF Erases, HasSeq
<1> QED BY <1>2, <1>3, <1>15, <1>17, <1>18

-----------------------------------------------------------------------------
(* Page::mLoadEntryTable(): g is the active page as it was found.          *)

\* The first entry that the table has as empty.
LEMMA HalfStart ==
    ASSUME NEW g, Loadable(g), NEW W, W = {x \in Idx : g.tab[x] = "EMPTY"},
           NEW i, i = IF W = {} THEN N ELSE Lowest(W)
    PROVE  Halving(g, i)
<1>1. PICK e \in 0 .. N, n \in 0 .. N :
          Between(g, e, n) /\ (e = n \/ Rest(g, e, n) \/ Shown(g, e, n) \/ Gone(g, e, n))
    BY DEF Loadable
<1>2. W \subseteq Idx /\ W \subseteq Nat
    BY IdxIs
<1>3. /\ i \in 0 .. N /\ \A x \in W : i <= x
      /\ i # N => i \in W
    <2>1. CASE W = {}
        BY <2>1, IdxIs
    <2>2. CASE W # {}
        <3>1. i \in W /\ \A x \in W : i <= x
            BY <1>2, <2>2, LowestIs
        <3> QED BY <1>2, <3>1, IdxIs
    <2> QED BY <2>1, <2>2
<1>4. UsedTo(g, e) /\ BlankFrom(g, n) /\ e <= n
    BY <1>1 DEF Between
<1>5. e <= i
    <2> SUFFICES ASSUME i < e PROVE FALSE
        BY <1>3, IdxIs
    <2>1. i \in W /\ i \in 0 .. e-1
        BY <1>3, IdxIs
    <2> QED BY <1>4, <2>1 DEF UsedTo
<1>6. i <= n
    <2> SUFFICES ASSUME n < i PROVE FALSE
        BY <1>3, IdxIs
    <2>1. n \in Idx /\ n \in n .. N-1
        BY <1>3, IdxIs
    <2>2. n \in W
        BY <1>4, <2>1 DEF BlankFrom
    <2> QED BY <1>3, <2>2, IdxIs
<1>7. UsedTo(g, i)
    <2> SUFFICES ASSUME NEW x \in 0 .. i-1, g.tab[x] = "EMPTY" PROVE FALSE
        BY DEF UsedTo
    <2>1. x \in Idx /\ x < i
        BY <1>3, IdxIs
    <2> QED BY <1>3, <2>1, IdxIs
<1>8. n \in i .. N
    BY <1>3, <1>6, IdxIs
<1>9. Between(g, i, n)
    BY <1>1, <1>3, <1>7, <1>8 DEF Between
<1>10. i = n \/ Rest(g, i, n) \/ Shown(g, i, n)
    <2> SUFFICES ASSUME i # n PROVE Rest(g, i, n) \/ Shown(g, i, n)
        OBVIOUS
    <2>1. i \in e .. n-1 /\ e # n /\ i # N
        BY <1>3, <1>5, <1>6, IdxIs
    <2>2. CASE Rest(g, e, n)
        <3>1. PICK h \in Heads(g) : h < e /\ e .. n-1 \subseteq Body(g, h)
            BY <2>2 DEF Rest
        <3>2. h \in Nat
            <4>1. h \in Idx
                BY <3>1 DEF Heads
            <4> QED BY <4>1, IdxIs
        <3>3. h < i
            BY <1>3, <1>5, <3>1, <3>2, IdxIs
        <3>4. \A x \in i .. n-1 : x \in e .. n-1
            BY <1>3, <1>5, IdxIs
        <3>5. i .. n-1 \subseteq Body(g, h)
            BY <3>1, <3>4
        <3> QED BY <3>1, <3>3, <3>5 DEF Rest
    <2>3. CASE Shown(g, e, n)
        <3>1. i = e
            BY <2>1, <2>3 DEF Shown
        <3> QED BY <2>3, <3>1
    <2>4. CASE Gone(g, e, n)
        <3>1. g.tab[i] = "ERASED"
            BY <2>1, <2>4 DEF Gone
        <3> QED BY <1>3, <2>1, <3>1
    <2> QED BY <1>1, <2>1, <2>2, <2>3, <2>4
<1> QED BY <1>1, <1>9, <1>10 DEF Halving

\* An entry shows that it was written: it is erased.
LEMMA HalfNext ==
    ASSUME NEW g, NEW h, Sound(g), NEW i, Halving(g, i), i < N, Shows(g.ent[i]),
           h.tab = [g.tab EXCEPT ![i] = "ERASED"], h.ent = [g.ent EXCEPT ![i] = Torn]
    PROVE  /\ Sound(h) /\ Halving(h, i + 1) /\ i \in Idx /\ SameItems(g, h) /\ h.tab[i] = "ERASED"
           /\ \A x \in Idx : x # i => h.tab[x] = g.tab[x] /\ h.ent[x] = g.ent[x]
<1>1. PICK n \in 0 .. N : Between(g, i, n) /\ (i = n \/ Rest(g, i, n) \/ Shown(g, i, n))
    BY DEF Halving
<1>2. /\ i \in Idx /\ i \in Nat /\ UsedTo(g, i) /\ BlankFrom(g, n) /\ n \in i .. N
      /\ \A d \in Heads(g) : Body(g, d) \cap Idx \subseteq 0 .. n-1
    BY <1>1, IdxIs DEF Between
<1>3. i # n
    <2> SUFFICES ASSUME i = n PROVE FALSE
        OBVIOUS
    <2>1. g.ent[i] = Blank
        BY <1>2, IdxIs DEF BlankFrom
    <2> QED BY <2>1, BlankIs DEF Shows
<1>4. i \notin Heads(g)
    <2>1. CASE Shown(g, i, n)
        BY <2>1 DEF Shown, Heads
    <2>2. CASE Rest(g, i, n)
        <3>1. PICK d \in Heads(g) : d < i /\ i .. n-1 \subseteq Body(g, d)
            BY <2>2 DEF Rest
        <3>2. i \in Body(g, d) /\ d # i
            BY <1>2, <1>3, <3>1, HeadIs, IdxIs
        <3>3. g.ent[i].t # "item"
            BY <1>2, <3>2, HeadIs
        <3> QED BY <3>3 DEF Heads
    <2> QED BY <1>1, <1>3, <2>1, <2>2
<1>5. Sound(h) /\ SameItems(g, h)
    BY <1>2, <1>4, HalfIs
<1>6. Heads(h) = Heads(g) /\ \A d \in Heads(g) : Body(h, d) = Body(g, d)
    BY <1>5, SameItemsIs DEF SameItems
<1>7. /\ h.tab[i] = "ERASED" /\ \A x \in Idx : x # i => h.tab[x] = g.tab[x]
      /\ \A x \in Idx : x # i => h.ent[x] = g.ent[x]
    BY <1>2 DEF Sound, Table, Ents
<1>8. UsedTo(h, i + 1)
    <2> SUFFICES ASSUME NEW x \in 0 .. (i + 1) - 1 PROVE h.tab[x] # "EMPTY"
        BY Zenon DEF UsedTo
    <2>1. x \in Idx /\ (x = i \/ x \in 0 .. i-1)
        BY <1>2, IdxIs
    <2> QED BY <1>2, <1>7, <2>1 DEF UsedTo
<1>9. BlankFrom(h, n)
    <2> SUFFICES ASSUME NEW x \in n .. N-1 PROVE h.tab[x] = "EMPTY" /\ h.ent[x] = Blank
        BY DEF BlankFrom
    <2>1. x \in Idx /\ x # i
        BY <1>2, <1>3, IdxIs
    <2> QED BY <1>2, <1>7, <2>1 DEF BlankFrom
<1>10. i + 1 \in 0 .. N /\ n \in i + 1 .. N
    BY <1>2, <1>3, IdxIs
<1>11. Between(h, i + 1, n)
    BY <1>2, <1>6, <1>8, <1>9, <1>10 DEF Between
<1>12. i + 1 = n \/ Rest(h, i + 1, n)
    <2>1. CASE Shown(g, i, n)
        BY <2>1 DEF Shown
    <2>2. CASE Rest(g, i, n)
        <3>1. PICK d \in Heads(g) : d < i /\ i .. n-1 \subseteq Body(g, d)
            BY <2>2 DEF Rest
        <3>2. d < i + 1 /\ i + 1 .. n-1 \subseteq i .. n-1
            BY <1>2, <3>1, HeadIs
        <3> QED BY <1>6, <3>1, <3>2 DEF Rest
    <2> QED BY <1>1, <1>3, <2>1, <2>2
<1>13. Halving(h, i + 1)
    BY <1>11, <1>12 DEF Halving
<1> QED BY <1>2, <1>5, <1>7, <1>13

\* The next entry does not show that.
LEMMA ScanStart ==
    ASSUME NEW g, NEW i, Halving(g, i), ~(i < N /\ Shows(g.ent[i]))
    PROVE  Scanning(g, 0, i)
<1>1. PICK n \in 0 .. N : Between(g, i, n) /\ (i = n \/ Rest(g, i, n) \/ Shown(g, i, n))
    BY DEF Halving
<1>2. ~Shown(g, i, n)
    BY <1>1, IdxIs DEF Shown, Between
<1>3. \A j \in Heads(g) : ~(j < 0)
    BY IdxIs DEF Heads
<1> QED BY <1>1, <1>2, <1>3, IdxIs DEF Scanning

\* Where the scan is, a written entry begins an item.
LEMMA ScanAt ==
    ASSUME NEW g, Sound(g), NEW i, NEW e, Scanning(g, i, e), i < e
    PROVE  /\ i \in Idx /\ i \in Nat /\ g.tab[i] # "EMPTY" /\ e \in 0 .. N
           /\ g.tab[i] = "ERASED" => Scanning(g, i + 1, e)
           /\ g.tab[i] # "ERASED" => i \in Heads(g)
<1>1. PICK n \in 0 .. N : Between(g, e, n) /\ (e = n \/ Rest(g, e, n) \/ Gone(g, e, n))
    BY DEF Scanning
<1>2. /\ i \in 0 .. N /\ e \in 0 .. N /\ UsedTo(g, e) /\ i \in Idx /\ i \in Nat
      /\ \A j \in Heads(g) : j < i => Body(g, j) \subseteq 0 .. i-1 /\ \A x \in Body(g, j) : g.tab[x] # "EMPTY"
    BY <1>1, IdxIs DEF Scanning, Between
<1>3. g.tab[i] # "EMPTY"
    BY <1>2 DEF UsedTo
<1>4. ASSUME g.tab[i] = "ERASED" PROVE Scanning(g, i + 1, e)
    <2>1. ASSUME NEW j \in Heads(g), j < i + 1
          PROVE  Body(g, j) \subseteq 0 .. (i + 1) - 1 /\ \A x \in Body(g, j) : g.tab[x] # "EMPTY"
        <3>1. j < i
            BY <1>2, <1>4, <2>1, HeadIs
        <3>2. \A x \in 0 .. i-1 : x \in 0 .. (i + 1) - 1
            BY <1>2
        <3> QED BY <1>2, <3>1, <3>2
    <2>2. i + 1 \in 0 .. N
        BY <1>2, IdxIs
    <2> QED BY <1>1, <2>1, <2>2, Zenon DEF Scanning
<1>5. ASSUME g.tab[i] # "ERASED" PROVE i \in Heads(g)
    <2>1. g.tab[i] = "WRITTEN"
        BY <1>2, <1>3, <1>5 DEF Sound, Table
    <2>2. PICK d \in Heads(g) : i \in Body(g, d)
        BY <1>2, <2>1 DEF Sound
    <2>3. d \in Nat /\ d <= i
        BY <2>2, HeadIs
    <2>4. ~(d < i)
        <3> SUFFICES ASSUME d < i PROVE FALSE
            OBVIOUS
        <3>1. i \in 0 .. i-1
            BY <1>2, <2>2
        <3> QED BY <1>2, <3>1
    <2>5. d = i
        BY <1>2, <2>3, <2>4
    <2> QED BY <2>2, <2>5
<1> QED BY <1>2, <1>3, <1>4, <1>5

\* A complete item is passed.
LEMMA ScanNext ==
    ASSUME NEW g, Sound(g), NEW i \in Heads(g), NEW e, Scanning(g, i, e),
           \A x \in Body(g, i) : x \in Idx /\ g.tab[x] = "WRITTEN"
    PROVE  Scanning(g, i + Span[g.ent[i].k], e)
<1>1. PICK s : s = Span[g.ent[i].k]
    OBVIOUS
<1>2. /\ i \in Nat /\ s \in Nat /\ s >= 1 /\ Body(g, i) = i .. (i + s) - 1
      /\ \A j \in Body(g, i) \cap Idx : j # i => g.ent[j].t # "item"
    <2>1. i \in Nat /\ s \in 1 .. N /\ \A j \in Body(g, i) \cap Idx : j # i => g.ent[j].t # "item"
        BY <1>1, HeadIs
    <2>2. i + s - 1 = (i + s) - 1 /\ s \in Nat /\ s >= 1
        BY <2>1, IdxIs
    <2> QED BY <1>1, <2>1, <2>2 DEF Body
<1>3. i + s \in 0 .. N
    <2>1. (i + s) - 1 \in Idx
        BY <1>2
    <2> QED BY <1>2, <2>1, IdxIs
<1>4. ASSUME NEW j \in Heads(g), j < i + s
      PROVE  Body(g, j) \subseteq 0 .. (i + s) - 1 /\ \A x \in Body(g, j) : g.tab[x] # "EMPTY"
    <2>1. j \in Nat /\ j \in Idx /\ g.ent[j].t = "item"
        BY HeadIs
    <2>2. CASE j < i
        <3>1. Body(g, j) \subseteq 0 .. i-1 /\ \A x \in Body(g, j) : g.tab[x] # "EMPTY"
            BY <2>2 DEF Scanning
        <3>2. \A x \in 0 .. i-1 : x \in 0 .. (i + s) - 1
            BY <1>2
        <3> QED BY <3>1, <3>2
    <2>3. CASE j = i
        <3>1. \A x \in i .. (i + s) - 1 : x \in 0 .. (i + s) - 1
            BY <1>2
        <3> QED BY <1>2, <2>3, <3>1
    <2>4. CASE j > i
        <3>1. j \in Body(g, i) /\ j # i
            BY <1>2, <1>4, <2>1, <2>4
        <3> QED BY <1>2, <2>1, <3>1
    <2> QED BY <1>2, <2>1, <2>2, <2>3, <2>4
<1>5. Scanning(g, i + s, e)
    BY <1>3, <1>4, Zenon DEF Scanning
<1> QED BY <1>1, <1>5

\* An item is erased, in part or in full.
LEMMA ScanErase ==
    ASSUME NEW g, NEW h, Sound(g), NEW i, NEW e, Scanning(g, i, e), NEW d \in Heads(g), Erasing(g, h, d),
           SameItems(g, h) \/ Wiped(g, h, d)
    PROVE  Scanning(h, i, e)
<1>1. PICK n \in 0 .. N : Between(g, e, n) /\ (e = n \/ Rest(g, e, n) \/ Gone(g, e, n))
    BY DEF Scanning
<1>2. /\ e \in 0 .. N /\ n \in e .. N /\ UsedTo(g, e) /\ BlankFrom(g, n)
      /\ \A x \in Heads(g) : Body(g, x) \cap Idx \subseteq 0 .. n-1
    BY <1>1 DEF Between
<1>3. /\ Heads(h) \subseteq Heads(g) /\ \A x \in Heads(h) : Body(h, x) = Body(g, x)
      /\ \A x \in Idx : h.tab[x] # g.tab[x] => x \in Body(g, d) /\ h.tab[x] = "ERASED"
      /\ \A x \in Idx : h.ent[x] # g.ent[x] => x \in Body(g, d)
    BY DEF Erasing
<1>4. UsedTo(h, e)
    <2> SUFFICES ASSUME NEW x \in 0 .. e-1 PROVE h.tab[x] # "EMPTY"
        BY DEF UsedTo
    <2>1. x \in Idx /\ g.tab[x] # "EMPTY"
        BY <1>2, IdxIs DEF UsedTo
    <2> QED BY <1>3, <2>1
<1>5. BlankFrom(h, n)
    <2> SUFFICES ASSUME NEW x \in n .. N-1 PROVE h.tab[x] = "EMPTY" /\ h.ent[x] = Blank
        BY DEF BlankFrom
    <2>1. x \in Idx /\ x \notin 0 .. n-1
        BY IdxIs
    <2>2. x \notin Body(g, d)
        BY <1>2, <2>1
    <2> QED BY <1>2, <1>3, <2>1, <2>2 DEF BlankFrom
<1>6. Between(h, e, n)
    BY <1>2, <1>3, <1>4, <1>5 DEF Between
<1>7. \A x \in e .. n-1 : x \in Idx
    BY <1>2, IdxIs
<1>8. e = n \/ Rest(h, e, n) \/ Gone(h, e, n)
    <2>1. CASE Gone(g, e, n)
        BY <1>3, <1>7, <2>1 DEF Gone
    <2>2. CASE Rest(g, e, n)
        <3>1. PICK w \in Heads(g) : w < e /\ e .. n-1 \subseteq Body(g, w)
            BY <2>2 DEF Rest
        <3>2. CASE w \in Heads(h)
            BY <1>3, <3>1, <3>2 DEF Rest
        <3>3. CASE w \notin Heads(h)
            <4>1. w = d /\ Wiped(g, h, d)
                BY <3>1, <3>3 DEF SameItems, Wiped
            <4> QED BY <1>7, <3>1, <4>1 DEF Wiped, Gone
        <3> QED BY <3>2, <3>3
    <2> QED BY <1>1, <2>1, <2>2
<1>9. ASSUME NEW j \in Heads(h), j < i
      PROVE  Body(h, j) \subseteq 0 .. i-1 /\ \A x \in Body(h, j) : h.tab[x] # "EMPTY"
    <2>1. Body(g, j) \subseteq 0 .. i-1 /\ \A x \in Body(g, j) : g.tab[x] # "EMPTY"
        BY <1>3, <1>9 DEF Scanning
    <2>2. \A x \in 0 .. i-1 : x \in Idx
        BY IdxIs DEF Scanning
    <2> QED BY <1>3, <2>1, <2>2
<1> QED BY <1>6, <1>8, <1>9, Zenon DEF Scanning

\* At the end of the scan there are only complete items and free entries.
LEMMA ScanEnd ==
    ASSUME NEW g, Sound(g), NEW i, NEW e, Scanning(g, i, e), i >= e
    PROVE  (\E n \in 0 .. N : Clean(g, n)) /\ \A j \in Heads(g) : j < i
<1>1. PICK n \in 0 .. N : Between(g, e, n) /\ (e = n \/ Rest(g, e, n) \/ Gone(g, e, n))
    BY DEF Scanning
<1>2. /\ e \in 0 .. N /\ n \in e .. N /\ UsedTo(g, e) /\ BlankFrom(g, n)
      /\ \A x \in Heads(g) : Body(g, x) \cap Idx \subseteq 0 .. n-1
    BY <1>1 DEF Between
<1>3. /\ i \in 0 .. N
      /\ \A j \in Heads(g) : j < i => Body(g, j) \subseteq 0 .. i-1 /\ \A x \in Body(g, j) : g.tab[x] # "EMPTY"
    BY DEF Scanning
<1>4. UsedTo(g, n)
    <2> SUFFICES ASSUME NEW x \in 0 .. n-1 PROVE g.tab[x] # "EMPTY"
        BY DEF UsedTo
    <2>1. x \in 0 .. e-1 \/ x \in e .. n-1
        BY <1>2
    <2>2. CASE x \in 0 .. e-1
        BY <1>2, <2>2 DEF UsedTo
    <2>3. CASE x \in e .. n-1
        <3>1. CASE Gone(g, e, n)
            BY <2>3, <3>1 DEF Gone
        <3>2. CASE Rest(g, e, n)
            <4>1. PICK w \in Heads(g) : w < e /\ e .. n-1 \subseteq Body(g, w)
                BY <3>2 DEF Rest
            <4>2. w < i
                BY <1>2, <1>3, <4>1, HeadIs
            <4> QED BY <1>3, <2>3, <4>1, <4>2
        <3>3. e # n
            BY <1>2, <2>3
        <3> QED BY <1>1, <3>1, <3>2, <3>3
    <2> QED BY <2>1, <2>2, <2>3
<1>5. ASSUME NEW j \in Heads(g) PROVE j < i
    <2> SUFFICES ASSUME ~(j < i) PROVE FALSE
        OBVIOUS
    <2>1. j \in Idx /\ j \in Nat /\ g.tab[j] = "WRITTEN" /\ g.ent[j].t = "item"
        BY HeadIs
    <2>2. j < n
        <3> SUFFICES ASSUME ~(j < n) PROVE FALSE
            OBVIOUS
        <3>1. j \in n .. N-1
            BY <1>2, <2>1, IdxIs
        <3> QED BY <1>2, <2>1, <3>1 DEF BlankFrom
    <2>3. j \in e .. n-1 /\ e # n
        BY <1>2, <1>3, <2>1, <2>2
    <2>4. ~Gone(g, e, n)
        BY <2>1, <2>3 DEF Gone
    <2>5. PICK w \in Heads(g) : w < e /\ e .. n-1 \subseteq Body(g, w)
        BY <1>1, <2>3, <2>4 DEF Rest
    <2>6. j \in Body(g, w) /\ w # j
        BY <1>2, <2>3, <2>5, HeadIs
    <2>7. g.ent[j].t # "item"
        BY <2>1, <2>6, HeadIs
    <2> QED BY <2>1, <2>7
<1>6. Below(g, n)
    <2>1. \A x \in 0 .. i-1 : x \in Idx
        BY <1>3, IdxIs
    <2> QED BY <1>2, <1>3, <1>5, <2>1 DEF Below
<1> QED BY <1>1, <1>2, <1>4, <1>5, <1>6 DEF Clean

\* While the table of a page is read.
LEMMA LoadContext ==
    ASSUME IInv, pc \in {"ld_half", "ld_scan", "ld_dup"}, NEW p, p = at.p
    PROVE  /\ PagesOK /\ IsPlace(at) /\ p \in Pages /\ page[p].state = "ACTIVE" /\ HasSeq(p) /\ Sound(page[p])
           /\ Phase(page[p], pc, at, job, page[job.from])
<1>1. PagesOK /\ IsPlace(at) /\ p \in Pages /\ page[p].state = "ACTIVE"
    BY DEF IInv, PageInvs, Shape, StageInv, Is
<1>2. HasSeq(p)
    BY <1>1 DEF HasSeq
<1> QED BY <1>1, <1>2 DEF IInv, EntryInv, Is

LEMMA LoadCall ==
    ASSUME IInv, pc \in LoadPcs, pc' \in LoadPcs, UNCHANGED job, at'.p \in Pages \cup {NoPage}
    PROVE  CallInv'
<1>1. job.was = NoPage /\ job.from = NoPage
    BY DEF IInv, CallInv, LoadPcs, MovePcs
<1>2. WasInv'
    BY <1>1, WasNone
<1> QED BY <1>1, <1>2 DEF IInv, CallInv, LoadPcs, MovePcs, WritePcs

LEMMA LoadEntries ==
    ASSUME IInv, PageInvs', pc \in {"ld_half", "ld_scan", "ld_dup"}, pc' \in {"ld_half", "ld_scan", "ld_dup"},
           UNCHANGED job, NEW p, p = at.p, at'.p = p,
           \A q \in Pages : q # p => page'[q] = page[q],
           page'[p].state = page[p].state, Sound(page'[p]),
           Phase(page'[p], pc', at', job', page'[job'.from])
    PROVE  EntryInv' /\ CallInv'
<1>1. p \in Pages /\ page'[p].state = "ACTIVE"
    BY LoadContext
<1>2. CallInv'
    BY <1>1, LoadCall DEF LoadPcs
<1>3. Source(page'[job'.from], pc', at', job')
    BY SourceNone DEF MovePcs
<1>4. EntryTypes(page'[p])
    BY DEF EntryTypes, Sound
<1>5. EntryInv'
    BY <1>1, <1>3, <1>4, ActiveStep DEF IInv
<1> QED BY <1>2, <1>5

\* The page is read from the first entry that its table has as empty.
LEMMA LoadPageAt ==
    ASSUME Shape, NEW p, LoadPage(p)
    PROVE  \/ /\ pc' = "ld_lists" /\ at' = NoPlace
              /\ \A q \in Pages : q >= p => page[q].state # "ACTIVE"
           \/ /\ pc' = "ld_half"
              /\ \E q \in Pages : \E W :
                     /\ q >= p /\ page[q].state = "ACTIVE"
                     /\ W = {x \in Idx : page[q].tab[x] = "EMPTY"}
                     /\ PlaceFor(at', q, IF W = {} THEN N ELSE Lowest(W), 0)
<1> DEFINE S == {q \in Pages : q >= p /\ page[q].state = "ACTIVE"}
<1>1. CASE S = {}
    <2>1. NextActive(p) = NoPage
        BY <1>1 DEF NextActive
    <2> QED BY <1>1, <2>1 DEF LoadPage
<1>2. CASE S # {}
    <2>1. S \subseteq Nat
        BY DEF Pages
    <2>2. PICK q : q = NextActive(p)
        OBVIOUS
    <2>3. q = Lowest(S)
        BY <1>2, <2>2 DEF NextActive
    <2>4. q \in S
        <3> HIDE DEF S
        <3> QED BY <1>2, <2>1, <2>3, LowestIs
    <2>5. q \in Pages /\ page[q].state = "ACTIVE" /\ q # NoPage /\ q >= p
        BY <2>4, JobIs
    <2>6. PICK W, i : W = With(q, "EMPTY") /\ i = IF W = {} THEN N ELSE Lowest(W)
        OBVIOUS
    <2>7. pc' = "ld_half" /\ at' = [p |-> q, end |-> 0, i |-> i]
        BY <2>2, <2>5, <2>6, Zenon DEF LoadPage
    <2>8. PlaceFor(at', q, i, 0)
        BY <2>7 DEF PlaceFor
    <2>9. W = {x \in Idx : page[q].tab[x] = "EMPTY"}
        BY <2>6 DEF With
    <2> QED BY <2>5, <2>6, <2>7, <2>8, <2>9
<1> QED BY <1>1, <1>2

LEMMA PowerOnEntries ==
    ASSUME IInv, PageInvs', PowerOn
    PROVE  EntryInv' /\ CallInv'
<1>1. pc = "off" /\ LoadPage(0) /\ UNCHANGED <<page, list, free, nextSeq, job, cuts>>
    BY DEF PowerOn
<1>2. \A q \in Pages : q >= 0
    BY DEF Pages
<1>3. CASE /\ pc' = "ld_lists" /\ at' = NoPlace
           /\ \A q \in Pages : q >= 0 => page[q].state # "ACTIVE"
    <2>1. CallInv'
        <3>1. at'.p \in Pages \cup {NoPage}
            BY <1>3, JobIs DEF PlaceFor
        <3> QED BY <1>1, <1>3, <3>1, LoadCall DEF LoadPcs
    <2>2. Source(page[job'.from], pc', at', job')
        BY <1>3, SourceNone DEF MovePcs
    <2>3. EntryInv'
        BY <1>1, <1>2, <1>3, <2>2, EntryKept DEF IInv
    <2> QED BY <2>1, <2>3
<1>4. ASSUME pc' = "ld_half", NEW q \in Pages, NEW W, page[q].state = "ACTIVE",
             W = {x \in Idx : page[q].tab[x] = "EMPTY"},
             PlaceFor(at', q, IF W = {} THEN N ELSE Lowest(W), 0)
      PROVE  EntryInv' /\ CallInv'
    <2>1. at'.p = q /\ at'.i = IF W = {} THEN N ELSE Lowest(W)
        BY <1>4 DEF PlaceFor
    <2>2. CallInv'
        BY <1>1, <1>4, <2>1, LoadCall DEF LoadPcs
    <2>3. Source(page[job'.from], pc', at', job')
        BY <1>4, SourceNone DEF MovePcs
    <2>4. Loadable(page[q])
        BY <1>1, <1>4 DEF IInv, EntryInv, Phase, Is
    <2>5. Halving(page[q], at'.i)
        <3>1. PICK g, i : g = page[q] /\ i = IF W = {} THEN N ELSE Lowest(W)
            OBVIOUS
        <3>2. Halving(g, i)
            BY <1>4, <2>4, <3>1, HalfStart
        <3> QED BY <2>1, <3>1, <3>2
    <2>6. Phase(page[q], pc', at', job', page[job'.from])
        BY <1>4, <2>5 DEF Phase, HalfPcs
    <2>7. \A r \in Pages : page[r].state = "ACTIVE" => r = q
        BY <1>4, OneActive DEF IInv
    <2>8. EntryInv'
        BY <1>1, <2>3, <2>6, <2>7, EntryKept DEF IInv
    <2> QED BY <2>2, <2>8
<1> QED BY <1>1, <1>3, <1>4, LoadPageAt DEF IInv, PageInvs

\* There is one active page: no other follows.
LEMMA LoadNextPageEntries ==
    ASSUME IInv, PageInvs', LoadNextPage
    PROVE  EntryInv' /\ CallInv' /\ pc' = "ld_lists" /\ \A j \in Heads(page[at.p]) : j < at.i
<1>1. /\ pc = "ld_scan" /\ at.i >= at.end /\ LoadPage(at.p + 1)
      /\ UNCHANGED <<page, list, free, nextSeq, job, cuts>>
    BY DEF LoadNextPage
<1>2. PICK p : p = at.p
    OBVIOUS
<1>3. /\ p \in Pages /\ page[p].state = "ACTIVE" /\ Sound(page[p])
      /\ Phase(page[p], pc, at, job, page[job.from])
    BY <1>1, <1>2, LoadContext
<1>4. \A r \in Pages : page[r].state = "ACTIVE" => r = p
    BY <1>3, OneActive DEF IInv
<1>5. \A q \in Pages : q >= p + 1 => page[q].state # "ACTIVE"
    BY <1>3, <1>4 DEF Pages
<1>6. pc' = "ld_lists" /\ at' = NoPlace
    BY <1>1, <1>2, <1>5, LoadPageAt DEF IInv, PageInvs
<1>7. CallInv'
    <2>1. at'.p \in Pages \cup {NoPage}
        BY <1>6, JobIs DEF PlaceFor
    <2> QED BY <1>1, <1>6, <2>1, LoadCall DEF LoadPcs
<1>8. Scanning(page[p], at.i, at.end)
    BY <1>1, <1>3 DEF Phase
<1>9. PICK n \in 0 .. N : Clean(page[p], n)
    BY <1>1, <1>3, <1>8, ScanEnd
<1>13. \A j \in Heads(page[p]) : j < at.i
    BY <1>1, <1>3, <1>8, ScanEnd
<1>10. Phase(page[p], pc', at', job', page[job'.from])
    BY <1>6, <1>9, PhaseClean DEF HalfPcs
<1>11. Source(page[job'.from], pc', at', job')
    BY <1>6, SourceNone DEF MovePcs
<1>12. EntryInv'
    BY <1>1, <1>4, <1>10, <1>11, EntryKept DEF IInv
<1> QED BY <1>2, <1>6, <1>7, <1>12, <1>13

LEMMA LoadHalfEntries ==
    ASSUME IInv, PageInvs', LoadHalf
    PROVE  /\ EntryInv' /\ CallInv'
           /\ \/ pc' = "ld_half" /\ Drops(at.p, at.i)
              \/ pc' = "ld_scan" /\ UNCHANGED page /\ at'.i = 0
<1>1. pc = "ld_half" /\ UNCHANGED <<list, free, nextSeq, job, cuts>>
    BY DEF LoadHalf
<1>2. PICK p, i : p = at.p /\ i = at.i
    OBVIOUS
<1>3. /\ PagesOK /\ IsPlace(at) /\ p \in Pages /\ Sound(page[p]) /\ page[p].state = "ACTIVE"
      /\ Phase(page[p], pc, at, job, page[job.from])
    BY <1>1, <1>2, LoadContext
<1>4. Halving(page[p], i)
    BY <1>1, <1>2, <1>3 DEF Phase
<1>5. CASE i < N /\ Shows(page[p].ent[i])
    <2>1. /\ page' = [page EXCEPT ![p].tab[i] = "ERASED", ![p].ent[i] = Torn]
          /\ at' = [at EXCEPT !.i = i + 1] /\ pc' = "ld_half"
        BY <1>1, <1>2, <1>5 DEF LoadHalf
    <2>2. PICK g, h : g = page[p] /\ h = page'[p]
        OBVIOUS
    <2>3. /\ h.tab = [g.tab EXCEPT ![i] = "ERASED"] /\ h.ent = [g.ent EXCEPT ![i] = Torn] /\ h.state = g.state
          /\ \A q \in Pages : q # p => page'[q] = page[q]
        <3>1. PICK f, e : f = [page[p].tab EXCEPT ![i] = "ERASED"] /\ e = [page[p].ent EXCEPT ![i] = Torn]
            OBVIOUS
        <3>2. page' = [page EXCEPT ![p].tab = f, ![p].ent = e]
            BY <2>1, <3>1, Zenon
        <3>3. Redone(p, f, e)
            BY <1>3, <3>2, BothAre
        <3> QED BY <2>2, <3>1, <3>3, Zenon DEF Redone
    <2>4. /\ Sound(h) /\ Halving(h, i + 1) /\ i \in Idx /\ SameItems(g, h) /\ h.tab[i] = "ERASED"
          /\ \A x \in Idx : x # i => h.tab[x] = g.tab[x] /\ h.ent[x] = g.ent[x]
        <3>1. Sound(g) /\ Halving(g, i) /\ i < N /\ Shows(g.ent[i])
            BY <1>3, <1>4, <1>5, <2>2
        <3>2. h.tab = [g.tab EXCEPT ![i] = "ERASED"] /\ h.ent = [g.ent EXCEPT ![i] = Torn]
            BY <2>3
        <3>3. Sound(h) /\ Halving(h, i + 1) /\ i \in Idx /\ SameItems(g, h) /\ h.tab[i] = "ERASED"
            <4>1. Sound(h) /\ SameItems(g, h)
                BY <3>1, <3>2, HalfNext
            <4>2. Halving(h, i + 1)
                BY <3>1, <3>2, HalfNext
            <4>3. i \in Idx
                BY <3>1, <3>2, HalfNext
            <4>4. h.tab[i] = "ERASED"
                BY <3>1, <3>2, <4>3 DEF Sound, Table
            <4> QED BY <4>1, <4>2, <4>3, <4>4
        <3>4. \A x \in Idx : x # i => h.tab[x] = g.tab[x] /\ h.ent[x] = g.ent[x]
            BY <3>1, <3>2 DEF Sound, Table, Ents
        <3> QED BY <3>3, <3>4
    <2>5. at'.p = p /\ at'.i = i + 1
        <3>1. PlaceFor(at', p, i + 1, at.end)
            BY <1>2, <1>3, <2>1, PlaceUpdate
        <3> QED BY <3>1 DEF PlaceFor
    <2>6. Phase(h, pc', at', job', page'[job'.from])
        BY <2>1, <2>4, <2>5 DEF Phase, HalfPcs
    <2>7. Drops(p, i)
        BY <1>3, <2>2, <2>3, <2>4 DEF Drops
    <2>8. EntryInv' /\ CallInv'
        <3>1. page'[p].state = page[p].state /\ Sound(page'[p]) /\ Phase(page'[p], pc', at', job', page'[job'.from])
            BY <2>2, <2>3, <2>4, <2>6
        <3>2. pc \in {"ld_half", "ld_scan", "ld_dup"} /\ pc' \in {"ld_half", "ld_scan", "ld_dup"} /\ UNCHANGED job
            BY <1>1, <2>1
        <3> QED BY <1>2, <2>3, <2>5, <3>1, <3>2, LoadEntries
    <2> QED BY <1>2, <2>1, <2>7, <2>8
<1>6. CASE ~(i < N /\ Shows(page[p].ent[i]))
    <2>1. pc' = "ld_scan" /\ UNCHANGED page /\ at' = Moved(at, 0, i)
        BY <1>1, <1>2, <1>6 DEF LoadHalf, Moved
    <2>2. at'.p = p /\ at'.i = 0 /\ at'.end = i
        <3>1. PlaceFor(Moved(at, 0, i), p, 0, i)
            BY <1>2, <1>3, MovedIs
        <3> QED BY <2>1, <3>1 DEF PlaceFor
    <2>3. Scanning(page[p], 0, i)
        <3>1. PICK g : g = page[p]
            OBVIOUS
        <3> QED BY <1>4, <1>6, <3>1, ScanStart
    <2>4. Phase(page[p], pc', at', job', page'[job'.from])
        BY <2>1, <2>2, <2>3 DEF Phase, HalfPcs
    <2> QED BY <1>1, <1>2, <1>3, <2>1, <2>2, <2>4, LoadEntries
<1> QED BY <1>5, <1>6

LEMMA EntriesAre ==
    ASSUME NEW p, NEW i \in Heads(page[p])
    PROVE  Entries(p, i) = Body(page[p], i) /\ SpanAt(p, i) = Span[page[p].ent[i].k]
BY DEF Entries, Body, SpanAt, Heads

\* While a page is scanned, items that were scanned before i end before i.
LEMMA DuplicateIs ==
    ASSUME NEW g, NEW h, Sound(g), NEW i \in Heads(g), NEW e, Scanning(g, i, e),
           \A x \in Body(g, i) : x \in Idx /\ g.tab[x] = "WRITTEN",
           NEW d \in Heads(g), d < i, Erasing(g, h, d), SameItems(g, h) \/ Wiped(g, h, d)
    PROVE  /\ i \in Heads(h) /\ h.ent[i] = g.ent[i]
           /\ \A x \in Body(h, i) : x \in Idx /\ h.tab[x] = "WRITTEN"
<1>1. i \in Nat /\ d \in Nat /\ d # i
    BY HeadIs
<1>2. i \in Heads(h)
    BY <1>1 DEF SameItems, Wiped
<1>3. h.ent[i] = g.ent[i] /\ Body(h, i) = Body(g, i)
    BY <1>2 DEF Erasing
<1>4. Body(g, d) \subseteq 0 .. i-1
    BY DEF Scanning
<1>5. \A x \in Body(g, i) : x >= i /\ x \in Nat
    BY HeadIs
<1>6. \A x \in Body(g, i) : x \notin Body(g, d)
    BY <1>1, <1>4, <1>5
<1>7. \A x \in Body(g, i) : h.tab[x] = g.tab[x]
    BY <1>6 DEF Erasing
<1> QED BY <1>2, <1>3, <1>7

\* The complete item at i is followed by entry b.
Passes(g, i, b) == i \in Heads(g) /\ Complete(g, i) /\ b = i + Span[g.ent[i].k]

LEMMA LoadScanEntries ==
    ASSUME IInv, PageInvs', LoadScan
    PROVE  /\ EntryInv' /\ CallInv' /\ at'.p = at.p
           /\ \/ /\ pc' = "ld_scan" /\ UNCHANGED page /\ at'.i = at.i + 1
                 /\ page[at.p].tab[at.i] = "ERASED"
              \/ Erases(at.p, at.i, "ld_scan", "ld_scan") /\ at'.i = at.i
              \/ /\ pc' = "ld_scan" /\ UNCHANGED page /\ Passes(page[at.p], at.i, at'.i)
                 /\ \A d \in Heads(page[at.p]) :
                        d < at.i => Hash[page[at.p].ent[d].k] # Hash[page[at.p].ent[at.i].k]
              \/ pc' = "ld_dup" /\ UNCHANGED page /\ at'.i = at.i
<1>1. pc = "ld_scan" /\ at.i < at.end /\ UNCHANGED <<list, free, nextSeq, job, cuts>>
    BY DEF LoadScan
<1>2. PICK p, i, e, g : p = at.p /\ i = at.i /\ e = at.end /\ g = page[p]
    OBVIOUS
<1>3. /\ PagesOK /\ IsPlace(at) /\ p \in Pages /\ HasSeq(p) /\ Sound(g)
      /\ Phase(g, pc, at, job, page[job.from])
    BY <1>1, <1>2, LoadContext
<1>4. Scanning(g, i, e) /\ i < e
    BY <1>1, <1>2, <1>3 DEF Phase
<1>5. /\ i \in Idx /\ i \in Nat /\ g.tab[i] # "EMPTY"
      /\ g.tab[i] = "ERASED" => Scanning(g, i + 1, e)
      /\ g.tab[i] # "ERASED" => i \in Heads(g)
    BY <1>3, <1>4, ScanAt
<1>6. CASE g.tab[i] = "ERASED"
    <2>1. at' = [at EXCEPT !.i = i + 1] /\ UNCHANGED <<page, pc>>
        BY <1>2, <1>6 DEF LoadScan
    <2>2. at'.p = p /\ at'.i = i + 1 /\ at'.end = e
        <3>1. PlaceFor([at EXCEPT !.i = i + 1], at.p, i + 1, at.end)
            BY <1>3, PlaceUpdate
        <3> QED BY <1>2, <2>1, <3>1 DEF PlaceFor
    <2>3. Phase(g, pc', at', job', page'[job'.from])
        BY <1>1, <1>5, <1>6, <2>1, <2>2 DEF Phase, HalfPcs
    <2>4. EntryInv' /\ CallInv'
        BY <1>1, <1>2, <1>3, <2>1, <2>2, <2>3, LoadEntries
    <2> QED BY <1>1, <1>2, <1>6, <2>1, <2>2, <2>4
<1>7. CASE g.tab[i] # "ERASED" /\ Incomplete(p, i)
    <2>1. PICK S, b : S = Entries(p, i) /\ b = "ld_scan"
        OBVIOUS
    <2>2. AlterRange(p, S, "ERASED", b, b) /\ UNCHANGED at
        BY <1>1, <1>2, <1>7, <2>1 DEF LoadScan
    <2>3. PICK h : h = page'[p]
        OBVIOUS
    <2>4. Sound(page[p]) /\ i \in Heads(page[p]) /\ S = Body(page[p], i)
        BY <1>2, <1>3, <1>5, <1>7, <2>1, EntriesAre
    <2>5. /\ \A q \in Pages : q # p => page'[q] = page[q]
          /\ Erasing(page[p], page'[p], i)
          /\ \/ pc' = b /\ SameItems(page[p], page'[p]) /\ page'[p].ent = page[p].ent
             \/ pc' = b /\ Wiped(page[p], page'[p], i)
        <3>1. PagesOK /\ p \in Pages /\ AlterRange(p, S, "ERASED", b, b)
            BY <1>3, <2>2
        <3> QED BY <2>4, <3>1, AlterErased
    <2>6. Sound(h) /\ h.state = g.state /\ Erasing(g, h, i) /\ (SameItems(g, h) \/ Wiped(g, h, i))
        BY <1>2, <2>3, <2>5 DEF Erasing
    <2>7. Scanning(h, i, e)
        BY <1>2, <1>3, <1>4, <2>4, <2>6, ScanErase
    <2>8. pc' = "ld_scan" /\ at'.i = i /\ at'.end = e /\ at'.p = p
        BY <1>2, <2>1, <2>2, <2>5
    <2>9. Phase(h, pc', at', job', page'[job'.from])
        BY <2>7, <2>8 DEF Phase, HalfPcs
    <2>10. EntryInv' /\ CallInv'
        BY <1>1, <1>2, <2>3, <2>5, <2>6, <2>8, <2>9, LoadEntries
    <2>11. Erases(p, i, "ld_scan", "ld_scan")
        BY <1>3, <2>1, <2>4, <2>5 DEF Erases
    <2> QED BY <1>2, <2>8, <2>10, <2>11
<1>8. CASE g.tab[i] # "ERASED" /\ ~Incomplete(p, i)
    <2>1. i \in Heads(g) /\ \A x \in Body(g, i) : x \in Idx /\ g.tab[x] = "WRITTEN"
        <3>1. i \in Heads(g) /\ Entries(p, i) = Body(g, i)
            BY <1>2, <1>5, <1>8, EntriesAre
        <3> QED BY <1>2, <1>8, <3>1 DEF Incomplete, With
    <2>2. PICK s : s = Span[g.ent[i].k]
        OBVIOUS
    <2>3. SpanAt(p, i) = s
        BY <1>2, <2>1, <2>2, EntriesAre
    <2>4. CASE Duplicates(p, i) = {}
        <3>1. at' = [at EXCEPT !.i = i + s] /\ UNCHANGED <<page, pc>>
            BY <1>2, <1>8, <2>3, <2>4 DEF LoadScan
        <3>2. at'.p = p /\ at'.i = i + s /\ at'.end = e
            <4>1. PlaceFor([at EXCEPT !.i = i + s], at.p, i + s, at.end)
                BY <1>3, PlaceUpdate
            <4> QED BY <1>2, <3>1, <4>1 DEF PlaceFor
        <3>3. Scanning(g, i + s, e)
            BY <1>3, <1>4, <2>1, <2>2, ScanNext
        <3>4. Phase(g, pc', at', job', page'[job'.from])
            BY <1>1, <3>1, <3>2, <3>3 DEF Phase, HalfPcs
        <3>5. EntryInv' /\ CallInv'
            BY <1>1, <1>2, <1>3, <3>1, <3>2, <3>4, LoadEntries
        <3>6. Passes(g, i, at'.i)
            BY <2>1, <2>2, <3>2 DEF Passes, Complete
        <3>7. \A d \in Heads(g) : d < i => Hash[g.ent[d].k] # Hash[g.ent[i].k]
            BY <1>2, <1>3, <2>4 DEF Duplicates, Items, With, Heads
        <3> QED BY <1>1, <1>2, <3>1, <3>2, <3>5, <3>6, <3>7
    <2>5. CASE Duplicates(p, i) # {}
        <3>1. pc' = "ld_dup" /\ UNCHANGED <<page, at>>
            BY <1>2, <1>8, <2>5 DEF LoadScan
        <3>2. \E d \in Heads(g) : d < i /\ Hash[g.ent[d].k] = Hash[g.ent[i].k]
            BY <1>2, <2>5 DEF Duplicates, Items, With, Heads
        <3>3. at'.i = i /\ at'.end = e /\ at'.p = p
            BY <1>2, <3>1
        <3>4. Phase(g, pc', at', job', page'[job'.from])
            BY <1>4, <2>1, <3>1, <3>2, <3>3 DEF Phase, HalfPcs
        <3>5. EntryInv' /\ CallInv'
            BY <1>1, <1>2, <1>3, <3>1, <3>3, <3>4, LoadEntries
        <3> QED BY <1>2, <3>1, <3>3, <3>5
    <2> QED BY <2>4, <2>5
<1> QED BY <1>6, <1>7, <1>8

LEMMA LoadDuplicateEntries ==
    ASSUME IInv, PageInvs', LoadDuplicate
    PROVE  /\ EntryInv' /\ CallInv' /\ at'.p = at.p
           /\ pc' = "ld_dup" => at'.i = at.i
           /\ pc' = "ld_scan" => at'.i = at.i + Span[page[at.p].ent[at.i].k]
           /\ \E d \in Heads(page[at.p]) :
                 /\ d < at.i /\ Hash[page[at.p].ent[d].k] = Hash[page[at.p].ent[at.i].k]
                 /\ Erases(at.p, d, "ld_dup", "ld_scan")
<1>1. pc = "ld_dup" /\ UNCHANGED <<list, free, nextSeq, job, cuts>>
    BY DEF LoadDuplicate
<1>2. PICK p, i, e, g : p = at.p /\ i = at.i /\ e = at.end /\ g = page[p]
    OBVIOUS
<1>3. /\ PagesOK /\ IsPlace(at) /\ p \in Pages /\ HasSeq(p) /\ Sound(g)
      /\ Phase(g, pc, at, job, page[job.from])
    BY <1>1, <1>2, LoadContext
<1>4. /\ Scanning(g, i, e) /\ i \in Heads(g)
      /\ \A x \in Body(g, i) : x \in Idx /\ g.tab[x] = "WRITTEN"
      /\ \E d \in Heads(g) : d < i /\ Hash[g.ent[d].k] = Hash[g.ent[i].k]
    BY <1>1, <1>2, <1>3 DEF Phase
<1>5. PICK D, d, s : D = Duplicates(p, i) /\ d = Lowest(D) /\ s = Span[g.ent[i].k]
    OBVIOUS
<1>6. d \in Heads(g) /\ d < i /\ Hash[g.ent[d].k] = Hash[g.ent[i].k]
    <2>1. D = {x \in Heads(g) : x < i /\ Hash[g.ent[x].k] = Hash[g.ent[i].k]}
        BY <1>2, <1>3, <1>5 DEF Duplicates, Items, With, Heads
    <2>2. D \subseteq Nat /\ D # {}
        BY <1>4, <2>1, IdxIs DEF Heads
    <2>3. d \in D
        BY <1>5, <2>2, LowestIs
    <2> QED BY <2>1, <2>3
<1>7. PICK S, b, c : S = Entries(p, d) /\ b = "ld_dup" /\ c = "ld_scan"
    OBVIOUS
<1>8. AlterRange(p, S, "ERASED", b, c)
    BY <1>1, <1>2, <1>5, <1>7, Zenon DEF LoadDuplicate
<1>9. /\ Sound(page[p]) /\ d \in Heads(page[p]) /\ S = Body(page[p], d)
      /\ SpanAt(p, i) = s
    BY <1>2, <1>3, <1>4, <1>5, <1>6, <1>7, EntriesAre
<1>10. at' = IF pc' = pc THEN at ELSE [at EXCEPT !.i = i + s]
    BY <1>2, <1>9 DEF LoadDuplicate
<1>11. /\ \A q \in Pages : q # p => page'[q] = page[q]
       /\ Erasing(page[p], page'[p], d)
       /\ \/ pc' = b /\ SameItems(page[p], page'[p]) /\ page'[p].ent = page[p].ent
          \/ pc' = c /\ Wiped(page[p], page'[p], d)
    <2>1. PagesOK /\ p \in Pages /\ Sound(page[p]) /\ d \in Heads(page[p]) /\ S = Body(page[p], d)
        BY <1>3, <1>9
    <2> QED BY <1>8, <2>1, AlterErased
<1>12. PICK h : h = page'[p]
    OBVIOUS
<1>13. Sound(h) /\ h.state = g.state /\ Erasing(g, h, d) /\ (SameItems(g, h) \/ Wiped(g, h, d))
    BY <1>2, <1>11, <1>12 DEF Erasing
<1>14. Scanning(h, i, e)
    BY <1>3, <1>4, <1>6, <1>13, ScanErase
<1>15. /\ i \in Heads(h) /\ h.ent[i] = g.ent[i]
       /\ \A x \in Body(h, i) : x \in Idx /\ h.tab[x] = "WRITTEN"
    <2>1. \A x \in Body(g, i) : x \in Idx /\ g.tab[x] = "WRITTEN"
        BY <1>4
    <2>2. Sound(g) /\ i \in Heads(g) /\ Scanning(g, i, e) /\ d \in Heads(g) /\ d < i
        BY <1>3, <1>4, <1>6
    <2> QED BY <1>13, <2>1, <2>2, DuplicateIs
<1>18. Erases(p, d, "ld_dup", "ld_scan")
    BY <1>3, <1>7, <1>9, <1>11 DEF Erases
<1>16. CASE pc' = "ld_dup"
    <2>1. SameItems(g, h)
        BY <1>2, <1>7, <1>11, <1>12, <1>16
    <2>2. \E x \in Heads(h) : x < i /\ Hash[h.ent[x].k] = Hash[h.ent[i].k]
        BY <1>6, <1>15, <2>1 DEF SameItems
    <2>3. at'.i = i /\ at'.end = e /\ at'.p = p
        BY <1>1, <1>2, <1>10, <1>16
    <2>4. Phase(h, pc', at', job', page'[job'.from])
        BY <1>14, <1>15, <1>16, <2>2, <2>3 DEF Phase, HalfPcs
    <2>5. EntryInv' /\ CallInv'
        BY <1>1, <1>2, <1>11, <1>12, <1>13, <1>16, <2>3, <2>4, LoadEntries
    <2> QED BY <1>2, <1>6, <1>16, <1>18, <2>3, <2>5
<1>17. CASE pc' = "ld_scan"
    <2>1. at'.p = p /\ at'.i = i + s /\ at'.end = e
        <3>1. PlaceFor([at EXCEPT !.i = i + s], at.p, i + s, at.end)
            BY <1>3, PlaceUpdate
        <3> QED BY <1>1, <1>2, <1>10, <1>17, <3>1 DEF PlaceFor
    <2>2. Scanning(h, i + s, e)
        BY <1>5, <1>13, <1>14, <1>15, ScanNext
    <2>3. Phase(h, pc', at', job', page'[job'.from])
        BY <1>17, <2>1, <2>2 DEF Phase, HalfPcs
    <2>4. EntryInv' /\ CallInv'
        BY <1>1, <1>2, <1>11, <1>12, <1>13, <1>17, <2>1, <2>3, LoadEntries
    <2> QED BY <1>2, <1>5, <1>6, <1>17, <1>18, <2>1, <2>4
<1> QED BY <1>7, <1>11, <1>16, <1>17

-----------------------------------------------------------------------------
(* Wherever power fails, Page::load() can tell what was written.           *)

LEMMA LoadClean ==
    ASSUME NEW g, NEW f, Clean(g, f)
    PROVE  Loadable(g)
<1>1. f \in 0 .. N /\ UsedTo(g, f) /\ BlankFrom(g, f) /\ \A i \in Heads(g) : Body(g, i) \subseteq 0 .. f-1
    BY DEF Clean, Below
<1>2. f \in f .. N
    BY <1>1, IdxIs
<1>3. Between(g, f, f)
    BY <1>1, <1>2 DEF Between
<1> QED BY <1>1, <1>3 DEF Loadable

LEMMA LoadPlaced ==
    ASSUME NEW g, NEW a, NEW e, Placed(g, a, e), Shows(e)
    PROVE  Loadable(g)
<1>1. /\ a \in Idx /\ a \in Nat /\ g.tab[a] = "EMPTY" /\ g.ent[a] = e /\ UsedTo(g, a) /\ BlankFrom(g, a + 1)
      /\ \A i \in Heads(g) : Body(g, i) \subseteq 0 .. a-1
    BY IdxIs DEF Placed, Below
<1>2. a \in 0 .. N /\ a + 1 \in 0 .. N /\ a + 1 \in a .. N
    BY <1>1, IdxIs
<1>3. \A x \in 0 .. a-1 : x \in 0 .. (a + 1) - 1
    BY <1>1
<1>4. Between(g, a, a + 1)
    BY <1>1, <1>2, <1>3 DEF Between
<1>5. Shown(g, a, a + 1)
    BY <1>1 DEF Shown
<1> QED BY <1>2, <1>4, <1>5 DEF Loadable

\* The last item begins at a, and its first entries, up to e, are counted.
LEMMA LoadLast ==
    ASSUME NEW g, Sound(g), NEW a, NEW e \in 0 .. N, NEW x, LastAt(g, a, x), a < e, e <= a + Span[x.k],
           UsedTo(g, e), NEW n \in e .. N, BlankFrom(g, n), n = a + Span[x.k] \/ (n = N /\ N < a + Span[x.k])
    PROVE  Loadable(g)
<1>1. /\ a \in Heads(g) /\ a \in Nat /\ Span[x.k] \in Nat /\ g.ent[a] = x
      /\ \A i \in Heads(g) \ {a} : Body(g, i) \subseteq 0 .. a-1
    BY HeadIs DEF LastAt
<1>2. Body(g, a) = a .. (a + Span[x.k]) - 1
    <2>1. a + Span[x.k] - 1 = (a + Span[x.k]) - 1
        BY <1>1
    <2> QED BY <1>1, <2>1 DEF Body
<1>3. Body(g, a) \cap Idx \subseteq 0 .. n-1
    BY <1>1, <1>2, IdxIs
<1>4. \A y \in 0 .. a-1 : y \in 0 .. n-1
    BY <1>1, IdxIs
<1>5. \A i \in Heads(g) : Body(g, i) \cap Idx \subseteq 0 .. n-1
    <2> SUFFICES ASSUME NEW i \in Heads(g), NEW y \in Body(g, i), y \in Idx PROVE y \in 0 .. n-1
        OBVIOUS
    <2>1. CASE i = a
        BY <1>3, <2>1
    <2>2. CASE i # a
        BY <1>1, <1>4, <2>2
    <2> QED BY <2>1, <2>2
<1>6. Between(g, e, n)
    BY <1>5 DEF Between
<1>7. \A y \in e .. n-1 : y \in a .. (a + Span[x.k]) - 1
    BY <1>1, IdxIs
<1>8. Rest(g, e, n)
    BY <1>1, <1>2, <1>7 DEF Rest
<1>9. n \in 0 .. N
    BY IdxIs
<1> QED BY <1>6, <1>8, <1>9 DEF Loadable

LEMMA LoadFilling ==
    ASSUME NEW g, Sound(g), NEW a, NEW x, x.k \in Keys, a + Span[x.k] <= N, Opened(g, a, x) \/ Filling(g, a, x)
    PROVE  Loadable(g)
<1>1. a \in Idx /\ a \in Nat /\ Span[x.k] \in Nat /\ Span[x.k] >= 1 /\ UsedTo(g, a + 1) /\ LastAt(g, a, x)
    BY IdxIs, NvsAssumption DEF Opened, Filling
<1>2. PICK n : n = a + Span[x.k]
    OBVIOUS
<1>3. a + 1 \in 0 .. N /\ n \in a + 1 .. N /\ a < a + 1 /\ a + 1 <= a + Span[x.k]
    BY <1>1, <1>2, IdxIs
<1>4. BlankFrom(g, n)
    <2>1. CASE Filling(g, a, x)
        BY <1>2, <2>1 DEF Filling
    <2>2. CASE Opened(g, a, x)
        <3>1. BlankFrom(g, a + 1)
            BY <2>2 DEF Opened
        <3>2. \A y \in n .. N-1 : y \in a + 1 .. N-1
            BY <1>1, <1>2, <1>3, IdxIs
        <3> QED BY <3>1, <3>2 DEF BlankFrom
    <2> QED BY <2>1, <2>2
<1> QED BY <1>1, <1>2, <1>3, <1>4, LoadLast

\* Some of the entries of the item that is moved have been counted, and the
\* next one may have been written.
LEMMA LoadReceived ==
    ASSUME NEW g, Sound(g), NEW f \in 0 .. N, NEW n \in Nat, NEW e, e.k \in Keys, Begun(g, f, n, e),
           \/ BlankFrom(g, f) /\ n <= Span[e.k]
           \/ /\ n < Span[e.k] /\ f < N /\ g.tab[f] = "EMPTY" /\ BlankFrom(g, f + 1)
              /\ n = 0 => Shows(g.ent[f])
    PROVE  Loadable(g)
<1>1. /\ f \in Nat /\ f >= n /\ UsedTo(g, f) /\ Span[e.k] \in Nat /\ N \in Nat /\ f <= N
      /\ n = 0 => Below(g, f)
      /\ n # 0 => LastAt(g, f - n, e)
    BY IdxIs, NvsAssumption DEF Begun
<1>2. CASE n = 0
    <2>1. CASE BlankFrom(g, f)
        <3>1. Clean(g, f)
            BY <1>1, <1>2, <2>1 DEF Clean
        <3> QED BY <3>1, LoadClean
    <2>2. CASE f < N /\ g.tab[f] = "EMPTY" /\ (n = 0 => Shows(g.ent[f])) /\ BlankFrom(g, f + 1)
        <3>1. f \in Idx
            BY <1>1, <2>2, IdxIs
        <3>2. Placed(g, f, g.ent[f])
            BY <1>1, <1>2, <2>2, <3>1 DEF Placed
        <3> QED BY <1>2, <2>2, <3>2, LoadPlaced
    <2> QED BY <2>1, <2>2
<1>3. CASE n # 0
    <2>1. PICK a, b : a = f - n /\ b = a + Span[e.k]
        OBVIOUS
    <2>2. a \in Int /\ b \in Int /\ LastAt(g, a, e) /\ a < f /\ f <= b /\ b = a + Span[e.k]
        BY <1>1, <1>3, <2>1
    <2>3. PICK m : m = IF b <= N THEN b ELSE N
        OBVIOUS
    <2>4. m \in f .. N /\ (m = b \/ (m = N /\ N < b))
        BY <1>1, <2>2, <2>3
    <2>5. BlankFrom(g, m)
        <3>1. CASE BlankFrom(g, f)
            <4>1. \A y \in m .. N-1 : y \in f .. N-1
                BY <1>1, <2>4
            <4> QED BY <3>1, <4>1 DEF BlankFrom
        <3>2. CASE n < Span[e.k] /\ f < N /\ BlankFrom(g, f + 1)
            <4>1. f < b
                BY <1>1, <2>1, <3>2
            <4>2. \A y \in m .. N-1 : y \in f + 1 .. N-1
                BY <1>1, <2>2, <2>3, <3>2, <4>1
            <4> QED BY <3>2, <4>2 DEF BlankFrom
        <3> QED BY <3>1, <3>2
    <2>6. f <= a + Span[e.k] /\ (m = a + Span[e.k] \/ (m = N /\ N < a + Span[e.k]))
        BY <2>2, <2>4
    <2> QED BY <1>1, <2>2, <2>4, <2>5, <2>6, LoadLast
<1> QED BY <1>2, <1>3

\* The active page, whatever step is due.
LEMMA PhaseLoadable ==
    ASSUME NEW g, NEW c \in Pcs \ {"abort"}, NEW a, NEW j, NEW s, Sound(g), Phase(g, c, a, j, s),
           Source(s, c, a, j), c \in MovePcs => Sound(s),
           c \in WritePcs => j.k \in Keys /\ j.v \in Values \cup {NoValue}
    PROVE  Loadable(g)
<1>1. CASE c = "off"
    BY <1>1 DEF Phase
<1>2. CASE c = "ld_half"
    <2>1. Halving(g, a.i)
        BY <1>2 DEF Phase
    <2>2. PICK n \in 0 .. N : Between(g, a.i, n) /\ (a.i = n \/ Rest(g, a.i, n) \/ Shown(g, a.i, n))
        BY <2>1 DEF Halving
    <2>3. a.i \in 0 .. N
        BY <2>2 DEF Between
    <2> QED BY <2>2, <2>3 DEF Loadable
<1>3. CASE c \in {"ld_scan", "ld_dup"}
    <2>1. Scanning(g, a.i, a.end)
        BY <1>3 DEF Phase
    <2>2. PICK n \in 0 .. N : Between(g, a.end, n) /\ (a.end = n \/ Rest(g, a.end, n) \/ Gone(g, a.end, n))
        BY <2>1, Zenon DEF Scanning
    <2>3. a.end \in 0 .. N
        BY <2>2 DEF Between
    <2> QED BY <2>2, <2>3 DEF Loadable
<1>4. CASE c \in {"w_item_state", "w_data", "w_data_state"}
    <2>1. PICK x, y : x = Item(j.k, j.v) /\ y = a.i
        OBVIOUS
    <2>2. x.t = "item" /\ x.k = j.k /\ x.k \in Keys
        BY <1>4, <2>1, ItemIs DEF WritePcs
    <2>3. y + Span[x.k] <= N
        BY <1>4, <2>1, <2>2 DEF Phase
    <2>4. CASE c = "w_item_state"
        <3>1. Placed(g, y, x)
            BY <2>1, <2>4 DEF Phase
        <3>2. Shows(x)
            BY <2>2 DEF Shows
        <3> QED BY <3>1, <3>2, LoadPlaced
    <2>5. CASE c \in {"w_data", "w_data_state"}
        <3>1. Opened(g, y, x) \/ Filling(g, y, x)
            BY <2>1, <2>5 DEF Phase
        <3> QED BY <2>2, <2>3, <3>1, LoadFilling
    <2> QED BY <1>4, <2>4, <2>5
<1>5. CASE c \in {"mv_entry", "mv_state", "mv_erase"}
    <2>1. PICK i, n, e, x : i = a.i /\ n = a.end /\ e = s.ent[i] /\ x = s.ent[i + n]
        OBVIOUS
    <2>2. Sound(s) /\ i \in Heads(s)
        BY <1>5, <2>1 DEF Source, MovePcs
    <2>3. i \in Nat /\ e.t = "item" /\ e.k \in Keys /\ Span[e.k] \in Nat /\ Span[e.k] >= 1
        BY <2>1, <2>2, HeadIs
    <2>4. /\ c \in {"mv_entry", "mv_state"} => n \in 0 .. Span[e.k] - 1
          /\ c = "mv_erase" => n = Span[e.k]
        BY <1>5, <2>1 DEF Source, MovePcs
    <2>5. n \in Nat /\ n <= Span[e.k] /\ (c = "mv_state" => n < Span[e.k])
        BY <1>5, <2>3, <2>4
    <2>6. CASE c # "mv_state"
        <3>1. PICK f \in 0 .. N : Receiving(g, f, n, e)
            BY <1>5, <2>1, <2>6 DEF Phase
        <3>2. Begun(g, f, n, e) /\ BlankFrom(g, f)
            BY <3>1 DEF Receiving
        <3> QED BY <2>3, <2>5, <3>2, LoadReceived
    <2>7. CASE c = "mv_state"
        <3>1. PICK f \in 0 .. N : Received(g, f, n, e, x)
            BY <2>1, <2>7 DEF Phase
        <3>2. Begun(g, f, n, e) /\ f < N /\ g.tab[f] = "EMPTY" /\ g.ent[f] = x /\ BlankFrom(g, f + 1)
            BY <3>1 DEF Received
        <3>3. n = 0 => Shows(x)
            <4>1. n = 0 => i + n = i
                BY <2>3
            <4> QED BY <2>1, <2>3, <4>1 DEF Shows
        <3> QED BY <2>3, <2>5, <2>7, <3>2, <3>3, LoadReceived
    <2> QED BY <2>6, <2>7
<1>6. CASE c \notin HalfPcs \cup {"off", "ld_half", "ld_scan", "ld_dup", "abort"}
    <2>1. PICK f \in 0 .. N : Clean(g, f)
        BY <1>6, Zenon DEF Phase
    <2> QED BY <2>1, LoadClean
<1> QED BY <1>1, <1>2, <1>3, <1>4, <1>5, <1>6 DEF HalfPcs

\* What a power failure leaves of the active page.
LEMMA CutActive ==
    ASSUME IInv, pc # "abort", NEW q \in Pages, page[q].state = "ACTIVE"
    PROVE  Sound(page[q]) /\ Loadable(page[q])
<1>1. PICK g, s : g = page[q] /\ s = page[job.from]
    OBVIOUS
<1>2. Sound(g) /\ Phase(g, pc, at, job, s) /\ Source(s, pc, at, job)
    BY <1>1 DEF IInv, EntryInv, HasSeq, Is
<1>3. pc \in MovePcs => Sound(s)
    <2> SUFFICES ASSUME pc \in MovePcs PROVE Sound(s)
        OBVIOUS
    <2>1. job.from \in Pages /\ Is(job.from, "FREEING")
        BY OnIs DEF IInv, PageInvs, Shape, StageInv
    <2> QED BY <1>1, <2>1 DEF IInv, EntryInv, HasSeq, Is
<1>4. pc \in WritePcs => job.k \in Keys /\ job.v \in Values \cup {NoValue}
    BY DEF IInv, CallInv
<1>5. pc \in Pcs \ {"abort"}
    BY DEF IInv, PageInvs, Shape
<1>6. Loadable(g)
    BY <1>2, <1>3, <1>4, <1>5, PhaseLoadable
<1> QED BY <1>1, <1>2, <1>6

LEMMA OffPhase ==
    ASSUME NEW g, NEW a, NEW j, NEW s, Loadable(g)
    PROVE  Phase(g, "off", a, j, s) /\ Source(s, "off", a, j)
BY DEF Phase, HalfPcs, Source, MovePcs

\* The active page p is left half written.
LEMMA CutWrite ==
    ASSUME IInv, PageInvs', pc' = "off", NEW p \in Pages, page[p].state = "ACTIVE",
           \A q \in Pages : q # p => page'[q] = page[q],
           page'[p].state = page[p].state, Sound(page'[p]), Loadable(page'[p])
    PROVE  EntryInv'
<1>1. Phase(page'[p], pc', at', job', page'[job'.from]) /\ Source(page'[job'.from], pc', at', job')
    BY OffPhase
<1>2. EntryTypes(page'[p])
    BY DEF EntryTypes, Sound
<1> QED BY <1>1, <1>2, ActiveStep DEF IInv

\* The header of page p is lost.
LEMMA CutHeader ==
    ASSUME IInv, pc # "abort", pc' = "off", NEW p \in Pages, page' = [page EXCEPT ![p].state = "CORRUPT"]
    PROVE  EntryInv' /\ Retaining /\ Staying
<1>1. PICK s : s = "CORRUPT"
    OBVIOUS
<1>2. /\ page'[p].state = s /\ page'[p].tab = page[p].tab /\ page'[p].ent = page[p].ent
      /\ \A q \in Pages : q # p => page'[q] = page[q]
    <2>1. PagesOK /\ s \in PageStates /\ page' = [page EXCEPT ![p].state = s]
        BY <1>1 DEF IInv, PageInvs, Shape, PageStates
    <2> QED BY <2>1, HeaderIs
<1>3. EntryTypes(page'[p])
    BY <1>2 DEF EntryTypes, IInv, EntryInv
<1>4. ASSUME NEW q \in Pages, page'[q].state = "ACTIVE"
      PROVE  Phase(page'[q], pc', at', job', page'[job'.from])
    <2>1. page'[q] = page[q] /\ page[q].state = "ACTIVE"
        BY <1>1, <1>2, <1>4
    <2>2. Loadable(page'[q])
        BY <2>1, CutActive
    <2> QED BY <2>2, OffPhase
<1>5. Source(page'[job'.from], pc', at', job')
    BY SourceNone DEF MovePcs
<1>6. page'[p].state \notin InUse /\ page'[p].state \notin {"FULL", "FREEING"}
    BY <1>1, <1>2 DEF InUse
<1>7. Retained(page[p], page'[p])
    BY <1>6 DEF Retained
<1>8. Staying
    BY <1>1, <1>2, StayOne
<1> QED BY <1>2, <1>3, <1>4, <1>5, <1>6, <1>7, <1>8, EntryStep, RetainOne DEF IInv

\* Inside the write of the first entry of an item.
LEMMA CutItem ==
    ASSUME IInv, PageInvs', pc' = "off", pc = "w_item", page' = [page EXCEPT ![Current].ent[NextFree(Current)] = Torn]
    PROVE  EntryInv' /\ Retaining /\ Staying
<1>1. PICK c : c = Current
    OBVIOUS
<1>2. /\ PagesOK /\ c \in Pages /\ page[c].state = "ACTIVE" /\ Sound(page[c])
      /\ Span[job.k] \in Nat /\ Span[job.k] >= 1
    BY <1>1, WriteContext DEF WritePcs
<1>3. PICK f \in 0 .. N : Clean(page[c], f) /\ NextFree(c) = f /\ f + Span[job.k] <= N
    BY <1>2, CleanIs DEF IInv, HalfPcs
<1>4. f \in Idx
    BY <1>2, <1>3, IdxIs
<1>5. Write(c, f, Torn)
    BY <1>1, <1>3 DEF Write
<1>6. PICK g, h : g = page[c] /\ h = page'[c]
    OBVIOUS
<1>7. /\ h.tab = g.tab /\ h.ent = [g.ent EXCEPT ![f] = Torn] /\ h.state = g.state
      /\ \A q \in Pages : q # c => page'[q] = page[q]
    <2>1. Redone(c, page[c].tab, [page[c].ent EXCEPT ![f] = Torn])
        BY <1>2, <1>5, WriteOneIs
    <2> QED BY <1>6, <2>1, Zenon DEF Redone
<1>8. Torn \in Entry /\ Torn.t # "item" /\ Shows(Torn)
    BY BlankIs DEF Shows
<1>9. Sound(g) /\ Clean(g, f)
    BY <1>2, <1>3, <1>6
<1>10. Sound(h) /\ Placed(h, f, Torn)
    BY <1>4, <1>7, <1>8, <1>9, PlaceFirst
<1>11. Loadable(h)
    BY <1>8, <1>10, LoadPlaced
<1>12. Retained(g, h)
    <2>1. g.tab[f] = "EMPTY" /\ g.state = "ACTIVE"
        BY <1>2, <1>4, <1>6, <1>9, IdxIs DEF Clean, BlankFrom
    <2> QED BY <1>4, <1>7, <1>9, <2>1, RetainWrite
<1>13. Retaining /\ Staying
    BY <1>2, <1>6, <1>7, <1>12, RetainOne, StayOne
<1> QED BY <1>2, <1>6, <1>7, <1>10, <1>11, <1>13, CutWrite

\* Inside the write of an entry that is moved.
LEMMA CutMove ==
    ASSUME IInv, PageInvs', pc' = "off", pc = "mv_entry", NextFree(Current) < N,
           page' = [page EXCEPT ![Current].ent[NextFree(Current)] = Torn]
    PROVE  EntryInv' /\ Retaining /\ Staying
<1>1. PICK c, f : c = Current /\ f = job.from
    OBVIOUS
<1>2. PICK g, s, i, n : g = page[c] /\ s = page[f] /\ i = at.i /\ n = at.end
    OBVIOUS
<1>3. /\ PagesOK /\ c \in Pages /\ page[c].state = "ACTIVE" /\ Sound(g) /\ Sound(s) /\ i \in Heads(s)
      /\ n \in 0 .. Span[s.ent[i].k] - 1
      /\ Phase(g, pc, at, job, s)
    BY <1>1, <1>2, MoveContext
<1>4. PICK e : e = s.ent[i]
    OBVIOUS
<1>5. PICK m \in 0 .. N : Receiving(g, m, n, e)
    BY <1>2, <1>3, <1>4 DEF Phase
<1>6. NextFree(c) = m
    <2>1. page[c].tab \in Table /\ UsedTo(page[c], m) /\ \A j \in m .. N-1 : page[c].tab[j] = "EMPTY"
        BY <1>2, <1>3, <1>5 DEF Sound, Receiving, Begun, BlankFrom
    <2> QED BY <2>1, NextFreeIs
<1>7. Write(c, m, Torn) /\ m < N
    BY <1>1, <1>6 DEF Write
<1>8. PICK h : h = page'[c]
    OBVIOUS
<1>9. /\ h.tab = g.tab /\ h.ent = [g.ent EXCEPT ![m] = Torn] /\ h.state = g.state
      /\ \A q \in Pages : q # c => page'[q] = page[q]
    <2>1. Redone(c, page[c].tab, [page[c].ent EXCEPT ![m] = Torn])
        BY <1>3, <1>7, WriteOneIs
    <2> QED BY <1>2, <1>8, <2>1, Zenon DEF Redone
<1>10. Torn \in Entry /\ Torn.t # "item" /\ Shows(Torn)
    BY BlankIs DEF Shows
<1>11. e.k \in Keys /\ Span[e.k] \in Nat
    BY <1>3, <1>4, HeadIs
<1>12. n \in Nat /\ n < Span[e.k]
    BY <1>3, <1>4, <1>11
<1>13. Sound(h) /\ Received(h, m, n, e, Torn)
    BY <1>3, <1>5, <1>7, <1>9, <1>10, <1>12, PlaceNext
<1>14. Begun(h, m, n, e) /\ m < N /\ h.tab[m] = "EMPTY" /\ h.ent[m] = Torn /\ BlankFrom(h, m + 1)
    BY <1>13 DEF Received
<1>15. Loadable(h)
    BY <1>10, <1>11, <1>12, <1>13, <1>14, LoadReceived
<1>16. Retained(g, h)
    <2>1. m \in Idx /\ g.tab[m] = "EMPTY" /\ g.state = "ACTIVE"
        BY <1>2, <1>3, <1>5, <1>7, IdxIs DEF Receiving, BlankFrom
    <2> QED BY <1>3, <1>9, <2>1, RetainWrite
<1>17. Retaining /\ Staying
    BY <1>2, <1>3, <1>8, <1>9, <1>16, RetainOne, StayOne
<1> QED BY <1>2, <1>3, <1>8, <1>9, <1>13, <1>15, <1>17, CutWrite

\* Inside the write of the data of an item: up to entry m, which is torn.
LEMMA CutData ==
    ASSUME IInv, PageInvs', pc' = "off", pc = "w_data", NEW m,
           page' = [page EXCEPT ![at.p].ent =
                       [i \in Idx |-> CASE i \in at.i+1 .. m-1 -> Data(job.k, job.v)
                                        [] i = m -> Torn
                                        [] OTHER -> @[i]]],
           m \in at.i+1 .. at.i+Span[job.k]-1
    PROVE  EntryInv' /\ Retaining /\ Staying
<1>1. PICK c, a : c = Current /\ a = at.i
    OBVIOUS
<1>2. /\ PagesOK /\ c \in Pages /\ page[c].state = "ACTIVE" /\ Sound(page[c]) /\ at.p = c
      /\ job.k \in Keys /\ job.v \in Values \cup {NoValue}
      /\ Span[job.k] \in Nat /\ Span[job.k] >= 1
      /\ Phase(page[c], pc, at, job, page[job.from])
    BY <1>1, WriteContext DEF WritePcs
<1>3. PICK e : e = Item(job.k, job.v)
    OBVIOUS
<1>4. e.t = "item" /\ e.k = job.k
    BY <1>3, WriteContext DEF WritePcs
<1>5. Opened(page[c], a, e) /\ a + Span[e.k] <= N
    BY <1>1, <1>2, <1>3, <1>4 DEF Phase
<1>6. PICK g, h, d : g = page[c] /\ h = page'[c] /\ d = Data(job.k, job.v)
    OBVIOUS
<1>7. d \in Entry /\ d.t = "data" /\ Torn \in Entry /\ Torn.t = "torn" /\ Blank.t = "blank"
    BY <1>2, <1>6, ItemIs, BlankIs
<1> DEFINE F == [i \in Idx |-> CASE i \in a+1 .. m-1 -> d [] i = m -> Torn [] OTHER -> g.ent[i]]
<1>8. /\ h.tab = g.tab /\ h.ent = F /\ h.state = g.state
      /\ \A q \in Pages : q # c => page'[q] = page[q]
    <2>1. page' = [page EXCEPT ![c].ent = F]
        BY <1>1, <1>2, <1>6
    <2> HIDE DEF F
    <2>2. Redone(c, page[c].tab, F)
        BY <1>2, <2>1, EntsAre
    <2> QED BY <1>6, <2>2 DEF Redone
<1>9. a \in Nat /\ g.ent[a] = e /\ g.ent \in Ents /\ BlankFrom(g, a + 1)
    BY <1>2, <1>5, <1>6, IdxIs DEF Opened, LastAt, Sound
<1>10. Body(g, a) \ {a} = a+1 .. a+Span[job.k]-1
    BY <1>2, <1>4, <1>9 DEF Body
<1>11. \A j \in Idx : \/ F[j] = d /\ j \in a+1 .. m-1
                      \/ F[j] = Torn /\ j = m
                      \/ F[j] = g.ent[j] /\ j \notin a+1 .. m-1 /\ j # m
    OBVIOUS
<1>12. /\ F \in Ents
       /\ \A j \in Idx : j \in a+1 .. a+Span[job.k]-1 => F[j].t # "item"
       /\ \A j \in Idx : j \notin a+1 .. a+Span[job.k]-1 => F[j] = g.ent[j]
    <2>1. F \in Ents
        BY <1>7, <1>9 DEF Ents
    <2> HIDE DEF F
    <2>2. \A j \in Idx : j \in a+1 .. a+Span[job.k]-1 => F[j].t # "item"
        <3> SUFFICES ASSUME NEW j \in Idx, j \in a+1 .. a+Span[job.k]-1 PROVE F[j].t # "item"
            OBVIOUS
        <3>1. g.ent[j] = Blank
            <4>1. j \in a + 1 .. N-1
                BY <1>2, <1>9, IdxIs
            <4> QED BY <1>9, <4>1 DEF BlankFrom
        <3> QED BY <1>7, <1>11, <3>1
    <2>3. m \in a+1 .. a+Span[job.k]-1
        BY <1>1
    <2>4. \A j \in Idx : j \notin a+1 .. a+Span[job.k]-1 => j \notin a+1 .. m-1 /\ j # m
        BY <1>2, <1>9, <2>3, IdxIs
    <2> QED BY <1>11, <2>1, <2>2, <2>4
<1> HIDE DEF F
<1>13. Sound(h) /\ Filling(h, a, e)
    <2>1. Sound(g) /\ Opened(g, a, e) /\ e.k \in Keys
        BY <1>2, <1>4, <1>5, <1>6
    <2> QED BY <1>5, <1>8, <1>10, <1>12, <2>1, WriteDataIs
<1>14. Loadable(h)
    BY <1>2, <1>4, <1>5, <1>13, LoadFilling
<1>15. Retained(g, h)
    <2>1. \A x \in a+1 .. a+Span[job.k]-1 : x \in a+1 .. N-1
        BY <1>2, <1>4, <1>5, <1>9, IdxIs
    <2>2. \A x \in Idx : g.tab[x] = "WRITTEN" => x \notin a+1 .. a+Span[job.k]-1
        BY <1>9, <2>1 DEF BlankFrom
    <2>3. \A x \in Idx : g.tab[x] = "WRITTEN" => h.ent[x] = g.ent[x]
        BY <1>8, <1>12, <2>2
    <2>4. g.state = "ACTIVE" /\ h.state = "ACTIVE" /\ h.tab = g.tab
        BY <1>2, <1>6, <1>8
    <2> QED BY <2>3, <2>4, RetainCounted
<1>16. Retaining /\ Staying
    BY <1>2, <1>6, <1>8, <1>15, RetainOne, StayOne
<1> QED BY <1>2, <1>6, <1>8, <1>13, <1>14, <1>16, CutWrite

LEMMA PowerCutEntries ==
    ASSUME IInv, PageInvs', PowerCut
    PROVE  EntryInv' /\ CallInv' /\ Retaining /\ Staying
<1>1. /\ pc' = "off" /\ job' = NoJob /\ at' = NoPlace /\ pc # "abort"
      /\ page' \in {page} \cup Broken
    BY DEF PowerCut
<1>2. CallInv'
    <2>1. /\ job'.k = NoValue /\ job'.v = NoValue /\ job'.was = NoPage /\ job'.from = NoPage
          /\ at'.p = NoPage
        BY <1>1, JobIs DEF JobFor, PlaceFor
    <2>2. WasInv'
        BY <2>1, WasNone
    <2> QED BY <1>1, <2>1, <2>2 DEF CallInv, WritePcs, LoadPcs, MovePcs
<1>3. PICK c, f : c = Current /\ f = job.from
    OBVIOUS
<1>4. /\ pc \in {"w_init", "mv_init"} => c \in Pages
      /\ pc = "mv_free" => f \in Pages
    <2>1. pc \in {"w_init", "mv_init"} => c \in Pages
        BY <1>3, OnIs DEF IInv, PageInvs, Shape, ListInv, LoadPcs, Current
    <2>2. pc = "mv_free" => f \in Pages
        BY <1>3, OnIs DEF IInv, PageInvs, Shape, StageInv, MovePcs
    <2> QED BY <2>1, <2>2
<1>5. CASE UNCHANGED page
    <2>1. \A q \in Pages : page[q].state = "ACTIVE" => Phase(page[q], pc', at', job', page[job'.from])
        BY <1>1, CutActive, OffPhase
    <2>2. Source(page[job'.from], pc', at', job')
        BY <1>1, SourceNone DEF MovePcs
    <2> QED BY <1>2, <1>5, <2>1, <2>2, EntryKept, RetainSame DEF IInv, Staying
<1>6. CASE page' \in Broken
    <2>1. CASE pc \in {"w_init", "mv_init"}
        <3>1. Broken = {[page EXCEPT ![c].state = "CORRUPT"]}
            BY <1>3, <2>1 DEF Broken
        <3> QED BY <1>1, <1>2, <1>4, <1>6, <2>1, <3>1, CutHeader
    <2>2. CASE pc = "w_item"
        <3>1. Broken = {[page EXCEPT ![Current].ent[NextFree(Current)] = Torn]}
            BY <2>2 DEF Broken
        <3> QED BY <1>1, <1>2, <1>6, <2>2, <3>1, CutItem
    <2>3. CASE pc = "w_data"
        <3>1. Broken = {[page EXCEPT ![at.p].ent =
                            [i \in Idx |-> CASE i \in at.i+1 .. m-1 -> Data(job.k, job.v)
                                             [] i = m -> Torn
                                             [] OTHER -> @[i]]] : m \in at.i+1 .. at.i+Span[job.k]-1}
            BY <2>3, Zenon DEF Broken
        <3>2. \E m \in at.i+1 .. at.i+Span[job.k]-1 :
                  page' = [page EXCEPT ![at.p].ent =
                              [i \in Idx |-> CASE i \in at.i+1 .. m-1 -> Data(job.k, job.v)
                                               [] i = m -> Torn
                                               [] OTHER -> @[i]]]
            BY <1>6, <3>1, Zenon
        <3> QED BY <1>1, <1>2, <2>3, <3>2, CutData, Zenon
    <2>4. CASE pc = "mv_entry"
        <3>1. NextFree(Current) < N /\ Broken = {[page EXCEPT ![Current].ent[NextFree(Current)] = Torn]}
            BY <1>6, <2>4 DEF Broken
        <3> QED BY <1>1, <1>2, <1>6, <2>4, <3>1, CutMove
    <2>5. CASE pc = "mv_free"
        <3>1. Broken = {[page EXCEPT ![f].state = "CORRUPT"]}
            BY <1>3, <2>5 DEF Broken
        <3> QED BY <1>1, <1>2, <1>4, <1>6, <2>5, <3>1, CutHeader
    <2>6. CASE pc \notin {"w_init", "mv_init", "w_item", "w_data", "mv_entry", "mv_free"}
        <3>1. Broken = {}
            BY <2>6 DEF Broken
        <3> QED BY <1>6, <3>1
    <2> QED BY <2>1, <2>2, <2>3, <2>4, <2>5, <2>6
<1> QED BY <1>1, <1>5, <1>6

-----------------------------------------------------------------------------
LEMMA IInvInit == Init => IInv
<1> SUFFICES ASSUME Init PROVE IInv
    OBVIOUS
<1>1. \A p \in Pages : page[p] = ErasedPage
    BY DEF Init
<1>2. \A p \in Pages : EntryTypes(page[p])
    BY <1>1, ErasedClean
<1>3. \A p \in Pages : page[p].state = "UNINITIALIZED"
    BY <1>1, ErasedIs
<1>4. pc = "off" /\ job = NoJob /\ at = NoPlace
    BY DEF Init
<1>5. Source(page[job.from], pc, at, job)
    BY <1>4, SourceNone DEF MovePcs
<1>6. EntryInv
    BY <1>2, <1>3, <1>5 DEF EntryInv, EntryTypes, HasSeq, Is
<1>7. /\ job.k = NoValue /\ job.v = NoValue /\ job.was = NoPage /\ job.from = NoPage
      /\ at.p = NoPage /\ NoPage \notin Pages
    BY <1>4, JobIs DEF JobFor, PlaceFor
<1>8. CallInv
    BY <1>4, <1>7 DEF CallInv, WasInv, WritePcs, LoadPcs, MovePcs
<1> QED BY <1>6, <1>8, PageInvsInit DEF IInv

LEMMA IInvStep == IInv /\ [Next]_vars => IInv'
<1> SUFFICES ASSUME IInv, [Next]_vars PROVE IInv'
    OBVIOUS
<1>1. PageInvs'
    BY PageInvsStep DEF IInv
<1>2. CASE UNCHANGED vars
    <2>1. EntryInv'
        BY <1>2 DEF vars, IInv, EntryInv, HasSeq, Is
    <2>2. CallInv'
        BY <1>2 DEF vars, IInv, CallInv, WasInv, HasSeq, Is, Current
    <2> QED BY <1>1, <2>1, <2>2 DEF IInv
<1>3. CASE Call
    BY <1>1, <1>3, SetEntries, EraseEntries DEF Call, IInv
<1>4. CASE WriteItem
    BY <1>1, <1>4, InitEntries, WriteEntryEntries, WriteEntryStateEntries, WriteDataEntries,
       WriteDataStateEntries, EraseOldEntries, MarkFullEntries, RequestNewPageEntries,
       MarkFreeingEntries, NoSpaceEntries DEF WriteItem, IInv
<1>5. CASE Move
    BY <1>1, <1>5, InitEntries, MoveEntryEntries, MoveStateEntries, MoveEraseEntries,
       MoveFreeEntries, EraseCorruptEntries DEF Move, IInv
<1>6. CASE Load
    BY <1>1, <1>6, PowerOnEntries, LoadHalfEntries, LoadScanEntries, LoadDuplicateEntries,
       LoadNextPageEntries, BuildListsEntries, ActivateFirstEntries, EraseOlderEntries,
       ResumeFreeingEntries, ActivateForMoveEntries DEF Load, IInv
<1>7. CASE PowerCut
    BY <1>1, <1>7, PowerCutEntries DEF IInv
<1> QED BY <1>2, <1>3, <1>4, <1>5, <1>6, <1>7 DEF Next

\* On every page that is in use, items do not overlap and every entry that the
\* table has as written belongs to one; the active page, at every step of
\* Page::writeItem(), moveItem() and load(), is in use up to an entry and blank
\* from there on, but for the item in progress, so that load() can tell what a
\* power failure left of it.
THEOREM EntriesStaySound == Spec => []IInv
BY IInvInit, IInvStep, PTL DEF Spec

\* The variables keep their types: no table, entry, list or sequence number
\* leaves its range, whatever is written, moved or loaded and wherever power
\* fails.
THEOREM NvsTypeCorrect == Spec => []TypeOK
<1>1. IInv => TypeOK
    <2> SUFFICES ASSUME IInv PROVE TypeOK
        OBVIOUS
    <2> DEFINE PageSet == [state : PageStates, seq : 0 .. MaxSeq,
                           tab : [Idx -> {"EMPTY", "WRITTEN", "ERASED"}],
                           ent : [Idx -> [t : {"blank", "torn", "item", "data"},
                                          k : Keys \cup {NoValue}, v : Values \cup {NoValue}]]]
    <2>1. ASSUME NEW p \in Pages PROVE page[p] \in PageSet
        <3>1. PICK g : g = page[p]
            OBVIOUS
        <3>2. /\ g = [state |-> g.state, seq |-> g.seq, tab |-> g.tab, ent |-> g.ent]
              /\ g.state \in PageStates /\ g.seq \in 0 .. MaxSeq
            BY <2>1, <3>1 DEF IInv, PageInvs, Shape, PagesOK, IsPage
        <3>3. g.tab \in Table /\ g.ent \in Ents
            BY <2>1, <3>1 DEF IInv, EntryInv
        <3>4. PICK s, n, t, e : s = g.state /\ n = g.seq /\ t = g.tab /\ e = g.ent
            OBVIOUS
        <3>5. [state |-> s, seq |-> n, tab |-> t, ent |-> e] \in PageSet
            BY <3>2, <3>3, <3>4 DEF Table, Ents, Entry
        <3> QED BY <3>1, <3>2, <3>4, <3>5
    <2> HIDE DEF PageSet
    <2>2. page \in [Pages -> PageSet]
        BY <2>1 DEF IInv, PageInvs, Shape, PagesOK
    <2>3. /\ list \in Seq(Pages) /\ free \in Seq(Pages) /\ nextSeq \in 0 .. MaxSeq+1 /\ pc \in Pcs
          /\ {job.was, job.from} \subseteq Pages \cup {NoPage} /\ cuts \in 0 .. MaxCuts
        BY DEF IInv, PageInvs, Shape, IsJob
    <2>4. job.k \in Keys \cup {NoValue} /\ at.p \in Pages \cup {NoPage}
        BY DEF IInv, CallInv
    <2> QED BY <2>2, <2>3, <2>4 DEF TypeOK, PageSet
<1> QED BY <1>1, EntriesStaySound, PTL

\* The flash is only appended to: the entry that Page::writeItem() or
\* moveItem() is about to program, and every entry that writeEntryData() is
\* about to program, is blank, also after any power failure and restart.
THEOREM NeverProgrammedTwice == Spec => []AppendsOnly
<1>1. IInv => AppendsOnly
    <2> SUFFICES ASSUME IInv PROVE AppendsOnly
        OBVIOUS
    <2>1. PICK c : c = Current
        OBVIOUS
    <2>2. ASSUME pc = "w_item", NextFree(c) < N PROVE page[c].ent[NextFree(c)] = Blank
        <3>1. c \in Pages /\ page[c].state = "ACTIVE"
            BY <2>1, <2>2, WriteContext DEF WritePcs
        <3>2. PICK f \in 0 .. N : Clean(page[c], f) /\ NextFree(c) = f
            BY <2>2, <3>1, CleanIs DEF IInv, HalfPcs
        <3>3. f \in f .. N-1
            BY <2>2, <3>2, IdxIs
        <3> QED BY <3>2, <3>3 DEF Clean, BlankFrom
    <2>3. ASSUME pc = "mv_entry", NextFree(c) < N PROVE page[c].ent[NextFree(c)] = Blank
        <3>1. PICK f, g, s : f = job.from /\ g = page[c] /\ s = page[f]
            OBVIOUS
        <3>2. Sound(g) /\ Phase(g, pc, at, job, s)
            BY <2>1, <2>3, <3>1, MoveContext
        <3>3. PICK m \in 0 .. N : Receiving(g, m, at.end, s.ent[at.i])
            BY <2>3, <3>2 DEF Phase
        <3>4. BlankFrom(g, m) /\ UsedTo(g, m) /\ g.tab \in Table
            BY <3>2, <3>3 DEF Receiving, Begun, Sound
        <3>5. NextFree(c) = m
            BY <3>1, <3>4, NextFreeIs DEF BlankFrom
        <3>6. m \in m .. N-1
            BY <2>3, <3>5, IdxIs
        <3> QED BY <3>1, <3>4, <3>5, <3>6 DEF BlankFrom
    <2>4. ASSUME pc = "w_data", NEW i \in at.i+1 .. at.i+Span[job.k]-1 PROVE page[at.p].ent[i] = Blank
        <3>1. PICK g, a, k : g = page[at.p] /\ a = at.i /\ k = job.k
            OBVIOUS
        <3>2. Span[k] \in Nat /\ Phase(g, pc, at, job, page[job.from])
            BY <2>4, <3>1, WriteContext DEF WritePcs
        <3>3. Opened(g, a, Item(k, job.v)) /\ a + Span[k] <= N
            BY <2>4, <3>1, <3>2 DEF Phase
        <3>4. a \in Nat /\ BlankFrom(g, a + 1)
            BY <3>3, IdxIs DEF Opened
        <3>5. i \in a + 1 .. N-1
            BY <2>4, <3>1, <3>2, <3>3, <3>4, IdxIs
        <3> QED BY <3>1, <3>4, <3>5 DEF BlankFrom
    <2> QED BY <2>1, <2>2, <2>3, <2>4 DEF AppendsOnly
<1> QED BY <1>1, EntriesStaySound, PTL

-----------------------------------------------------------------------------
(* Copies of an item.                                                      *)

\* There is an item with key k at entry i of page p.
Holds(p, i, k) == HasSeq(p) /\ i \in Heads(page[p]) /\ page[p].ent[i].k = k
Latest(p, i) == Is(p, "ACTIVE") /\ \A x \in Heads(page[p]) : x <= i

\* No key is stored twice; or if one is, one of the two is the latest item.
Unique ==
    \A p, q \in Pages, i, j \in Idx, k \in Keys :
        Holds(p, i, k) /\ Holds(q, j, k) => p = q /\ i = j
UniqueButLatest ==
    \A p, q \in Pages, i, j \in Idx, k \in Keys :
        Holds(p, i, k) /\ Holds(q, j, k) => (p = q /\ i = j) \/ Latest(p, i) \/ Latest(q, j)
UniqueBut(x) ==
    \A p, q \in Pages, i, j \in Idx, k \in Keys :
        Holds(p, i, k) /\ Holds(q, j, k) => (p = q /\ i = j) \/ k = x
Absent(k) == \A p \in Pages, i \in Idx : ~Holds(p, i, k)

\* Of the items before entry b no two have the same hash.
Apart(g, b) == \A x, y \in Heads(g) : x < b /\ y < b /\ Hash[g.ent[x].k] = Hash[g.ent[y].k] => x = y

SettledPcs == {"idle", "no_space", "w_init", "w_item", "w_item_state", "w_full", "request", "mark",
               "mv_init", "mv_free", "ld_first", "ld_freeing", "ld_activate"}
AbsentPcs == {"w_init", "w_item", "w_item_state", "w_full", "request", "mark",
              "ld_activate"} \cup MovePcs
NoneTwice == \/ pc \in SettledPcs
             \/ pc \in {"mv_entry", "mv_state"} /\ at.end = 0
             \/ pc \in {"w_data", "w_data_state"} /\ job.was = NoPage

CopyInv ==
    /\ pc # "abort" => UniqueButLatest
    /\ NoneTwice => Unique
    /\ pc = "w_erase" => UniqueBut(job.k)
    /\ pc \in AbsentPcs /\ job.k \in Keys /\ job.was = NoPage => Absent(job.k)
    /\ pc \in {"ld_scan", "ld_dup"} => Apart(page[at.p], at.i)
    /\ pc \in {"ld_lists", "ld_old"} => \A p \in Pages : Is(p, "ACTIVE") => Apart(page[p], N)

-----------------------------------------------------------------------------
(* The data of the items.                                                  *)

\* The item that EraseOld erases.
Target(p, i) == p = OldPage /\ i = findItem(OldPage, job.k)

\* The first n entries of item h are those of item i of page s.
Copied(g, h, n, s, i) ==
    \A x \in 0 .. n-1 : h + x \in Idx /\ g.tab[h + x] = "WRITTEN" /\ g.ent[h + x] = s.ent[i + x]
LastHead(g, h) == \A y \in Heads(g) : y <= h

\* Item i of the active page g, by the step c that is due, the place a and the
\* page s that is being freed, is complete.
OddPcs == {"off", "abort", "ld_half", "ld_scan", "ld_dup", "w_data", "w_data_state", "w_erase",
           "mv_entry", "mv_state"}
Done(g, i, c, a, s) ==
    /\ c \notin OddPcs => Complete(g, i)
    /\ c \in {"w_data", "w_data_state"} => i = a.i \/ Complete(g, i)
    /\ c = "w_data_state" /\ i = a.i => Whole(g, i)
    /\ c = "ld_scan" /\ i < a.i => Complete(g, i)
    /\ c = "ld_dup" /\ i < a.i => Hash[g.ent[i].k] = Hash[g.ent[a.i].k] \/ Complete(g, i)
    /\ c \in {"mv_entry", "mv_state"} =>
          Complete(g, i) \/ (a.end > 0 /\ LastHead(g, i) /\ Copied(g, i, a.end, s, a.i))

WholeInv ==
    /\ \A p \in Pages : Is(p, "FULL") \/ Is(p, "FREEING") => \A i \in Heads(page[p]) : Whole(page[p], i)
    /\ pc # "abort" => \A p \in Pages : Is(p, "ACTIVE") => \A i \in Heads(page[p]) :
          /\ Done(page[p], i, pc, at, page[job.from])
          /\ pc = "w_erase" => Target(p, i) \/ Complete(page[p], i)
          /\ Complete(page[p], i) => Whole(page[p], i)

DInv == IInv /\ CopyInv /\ WholeInv

-----------------------------------------------------------------------------
(* How copies come and go.                                                 *)

\* The items of h are items of g, and an active page stays the active one.
Fewer(g, h) ==
    h.state \in InUse => \A i \in Heads(h) : g.state \in InUse /\ i \in Heads(g) /\ h.ent[i].k = g.ent[i].k
StaysActive(g, h) == g.state = "ACTIVE" /\ h.state \in InUse => h.state = "ACTIVE"

LEMMA FewerCopies ==
    ASSUME \A p \in Pages : Fewer(page[p], page'[p])
    PROVE  /\ Unique => Unique'
           /\ \A x : UniqueBut(x) => UniqueBut(x)'
           /\ \A k \in Keys : Absent(k) => Absent(k)'
           /\ (\A p \in Pages : StaysActive(page[p], page'[p])) /\ UniqueButLatest => UniqueButLatest'
<1>1. \A p \in Pages, i \in Idx, k \in Keys : Holds(p, i, k)' => Holds(p, i, k)
    BY DEF Holds, HasSeq, Fewer, InUse
<1>2. Unique => Unique'
    BY <1>1 DEF Unique
<1>3. \A x : UniqueBut(x) => UniqueBut(x)'
    BY <1>1 DEF UniqueBut
<1>4. \A k \in Keys : Absent(k) => Absent(k)'
    BY <1>1 DEF Absent
<1>5. ASSUME \A p \in Pages : StaysActive(page[p], page'[p]), UniqueButLatest PROVE UniqueButLatest'
    <2>1. \A p \in Pages, i \in Idx, k \in Keys : Holds(p, i, k)' /\ Latest(p, i) => Latest(p, i)'
        BY <1>5 DEF Holds, HasSeq, Latest, Is, Fewer, StaysActive, InUse
    <2> QED BY <1>1, <1>5, <2>1 DEF UniqueButLatest
<1> QED BY <1>2, <1>3, <1>4, <1>5

LEMMA SameCopies ==
    ASSUME UNCHANGED page
    PROVE  /\ Unique => Unique'
           /\ \A x : UniqueBut(x) => UniqueBut(x)'
           /\ \A k \in Keys : Absent(k) => Absent(k)'
           /\ UniqueButLatest => UniqueButLatest'
<1>1. \A p \in Pages : Fewer(page[p], page'[p]) /\ StaysActive(page[p], page'[p])
    BY DEF Fewer, StaysActive
<1> QED BY <1>1, FewerCopies

\* There is only one latest item.
LEMMA OneLatest ==
    ASSUME PageInvs, NEW p \in Pages, NEW q \in Pages, NEW i \in Idx, NEW j \in Idx, NEW k,
           Holds(p, i, k), Holds(q, j, k), Latest(p, i), Latest(q, j)
    PROVE  p = q /\ i = j
<1>1. p = q
    BY OneActive DEF Latest, Is
<1>2. i <= j /\ j <= i
    BY <1>1 DEF Latest, Holds
<1> QED BY <1>1, <1>2, IdxIs

\* A key that is stored twice is not stored three times.
LEMMA ThreeCopies ==
    ASSUME PageInvs, UniqueButLatest, NEW k \in Keys,
           NEW p \in Pages, NEW q \in Pages, NEW r \in Pages, NEW i \in Idx, NEW j \in Idx, NEW l \in Idx,
           Holds(p, i, k), Holds(q, j, k), Holds(r, l, k), <<p, i>> # <<q, j>>, <<p, i>> # <<r, l>>
    PROVE  q = r /\ j = l
<1> SUFFICES ASSUME ~(q = r /\ j = l) PROVE FALSE
    OBVIOUS
<1>1. Latest(p, i) \/ Latest(q, j)
    BY DEF UniqueButLatest
<1>2. Latest(p, i) \/ Latest(r, l)
    BY DEF UniqueButLatest
<1>3. Latest(q, j) \/ Latest(r, l)
    BY DEF UniqueButLatest
<1> QED BY <1>1, <1>2, <1>3, OneLatest

\* If the last item of the active page has key k, no other key is stored twice.
LEMMA LatestKey ==
    ASSUME PageInvs, UniqueButLatest, NEW c \in Pages, page[c].state = "ACTIVE",
           NEW a \in Heads(page[c]), LastHead(page[c], a), NEW k, page[c].ent[a].k = k
    PROVE  UniqueBut(k)
<1>1. \A p \in Pages, i \in Idx, x \in Keys : Holds(p, i, x) /\ Latest(p, i) => x = k
    <2> SUFFICES ASSUME NEW p \in Pages, NEW i \in Idx, NEW x \in Keys, Holds(p, i, x), Latest(p, i)
                 PROVE  x = k
        OBVIOUS
    <2>1. p = c
        BY OneActive DEF Latest, Is
    <2>2. i <= a /\ a <= i /\ a \in Idx
        BY <2>1 DEF Latest, Holds, LastHead, Heads
    <2>3. i = a
        BY <2>2, IdxIs
    <2> QED BY <2>1, <2>3 DEF Holds
<1> QED BY <1>1 DEF UniqueBut, UniqueButLatest

LEMMA NoneLatest ==
    ASSUME UniqueButLatest, \A p \in Pages : page[p].state # "ACTIVE"
    PROVE  Unique
BY DEF UniqueButLatest, Unique, Latest, Is

\* An item with the only key that may be stored twice is erased.
LEMMA EraseCopy ==
    ASSUME PageInvs, UniqueButLatest, NEW k \in Keys, UniqueBut(k), NEW p \in Pages, NEW i \in Idx, Holds(p, i, k),
           \A q \in Pages : q # p => page'[q] = page[q],
           Erasing(page[p], page'[p], i), Wiped(page[p], page'[p], i)
    PROVE  Unique'
<1>1. \A q \in Pages, j \in Idx, x \in Keys : Holds(q, j, x)' => Holds(q, j, x) /\ ~(q = p /\ j = i)
    BY DEF Holds, HasSeq, Erasing, Wiped
<1> SUFFICES ASSUME NEW q \in Pages, NEW r \in Pages, NEW j \in Idx, NEW l \in Idx, NEW x \in Keys,
                    Holds(q, j, x)', Holds(r, l, x)'
             PROVE  q = r /\ j = l
    BY DEF Unique
<1>2. /\ Holds(q, j, x) /\ ~(q = p /\ j = i)
      /\ Holds(r, l, x) /\ ~(r = p /\ l = i)
    BY <1>1
<1>3. CASE x = k
    BY <1>2, <1>3, ThreeCopies
<1>4. CASE x # k
    BY <1>2, <1>4 DEF UniqueBut
<1> QED BY <1>3, <1>4

\* The active page gets one more item, with key k.
LEMMA AddCopy ==
    ASSUME Unique, NEW k \in Keys, NEW c \in Pages, page[c].state = "ACTIVE", page'[c].state = "ACTIVE",
           \A q \in Pages : q # c => page'[q] = page[q],
           NEW a \in Idx, Heads(page'[c]) = Heads(page[c]) \cup {a}, LastHead(page'[c], a),
           \A i \in Heads(page[c]) : page'[c].ent[i] = page[c].ent[i], page'[c].ent[a].k = k
    PROVE  /\ UniqueButLatest' /\ UniqueBut(k)' /\ (Absent(k) => Unique')
           /\ \A x \in Keys : x # k /\ Absent(x) => Absent(x)'
<1>1. \A q \in Pages, j \in Idx, x \in Keys :
          Holds(q, j, x)' => Holds(q, j, x) \/ (q = c /\ j = a /\ x = k)
    BY DEF Holds, HasSeq
<1>2. Latest(c, a)'
    BY DEF Latest, LastHead, Is
<1>3. UniqueButLatest'
    BY <1>1, <1>2 DEF Unique, UniqueButLatest
<1>4. UniqueBut(k)'
    BY <1>1 DEF Unique, UniqueBut
<1>5. Absent(k) => Unique'
    BY <1>1 DEF Unique, Absent
<1>6. \A x \in Keys : x # k /\ Absent(x) => Absent(x)'
    BY <1>1 DEF Absent
<1> QED BY <1>3, <1>4, <1>5, <1>6

-----------------------------------------------------------------------------
(* How items keep their data.                                              *)

LEMMA RetainedItem ==
    ASSUME NEW g, NEW h, Retained(g, h), h.state \in InUse, NEW i \in Heads(h)
    PROVE  /\ g.state \in InUse /\ (h.state = "ACTIVE" => g.state = "ACTIVE") /\ h.tab = g.tab
           /\ i \in Heads(g) /\ h.ent[i] = g.ent[i]
           /\ Complete(h, i) <=> Complete(g, i)
           /\ (Complete(g, i) \/ g.state # "ACTIVE") /\ Whole(g, i) => Whole(h, i)
<1>1. /\ g.state \in InUse /\ (h.state = "ACTIVE" => g.state = "ACTIVE") /\ h.tab = g.tab
      /\ \A x \in Idx : g.state # "ACTIVE" \/ g.tab[x] = "WRITTEN" => h.ent[x] = g.ent[x]
    BY DEF Retained
<1>2. i \in Idx /\ i \in Heads(g) /\ h.ent[i] = g.ent[i]
    BY <1>1 DEF Heads
<1>3. Body(h, i) = Body(g, i)
    BY <1>2 DEF Body
<1>4. Complete(h, i) <=> Complete(g, i)
    BY <1>1, <1>3 DEF Complete
<1>5. (Complete(g, i) \/ g.state # "ACTIVE") /\ Whole(g, i) => Whole(h, i)
    BY <1>1, <1>2, <1>3 DEF Complete, Whole
<1> QED BY <1>1, <1>2, <1>4, <1>5

LEMMA RetainFewer ==
    ASSUME Retaining
    PROVE  /\ \A p \in Pages : Fewer(page[p], page'[p])
           /\ Staying => \A p \in Pages : StaysActive(page[p], page'[p])
<1>1. ASSUME NEW p \in Pages PROVE Fewer(page[p], page'[p])
    BY <1>1, RetainedItem DEF Retaining, Fewer
<1>2. Staying => \A p \in Pages : StaysActive(page[p], page'[p])
    BY DEF Staying, StaysActive, InUse
<1> QED BY <1>1, <1>2

\* All items of all pages are as they should be.
AllWhole(g) == \A i \in Heads(g) : Whole(g, i) /\ (g.state = "ACTIVE" => Complete(g, i))
AllDone == \A p \in Pages : page[p].state \in InUse => AllWhole(page[p])

LEMMA DoneIs ==
    ASSUME WholeInv, pc \notin OddPcs
    PROVE  AllDone
BY DEF WholeInv, Done, AllDone, AllWhole, InUse, Is, OddPcs

LEMMA DoneKept ==
    ASSUME AllDone, Retaining
    PROVE  AllDone'
<1> SUFFICES ASSUME NEW p \in Pages, page'[p].state \in InUse, NEW i \in Heads(page'[p])
             PROVE  Whole(page'[p], i) /\ (page'[p].state = "ACTIVE" => Complete(page'[p], i))
    BY DEF AllDone, AllWhole
<1>1. PICK g, h : g = page[p] /\ h = page'[p]
    OBVIOUS
<1>2. Retained(g, h) /\ h.state \in InUse /\ i \in Heads(h)
    BY <1>1 DEF Retaining
<1>3. /\ g.state \in InUse /\ (h.state = "ACTIVE" => g.state = "ACTIVE") /\ i \in Heads(g)
      /\ Complete(h, i) <=> Complete(g, i)
      /\ (Complete(g, i) \/ g.state # "ACTIVE") /\ Whole(g, i) => Whole(h, i)
    BY <1>2, RetainedItem
<1>4. Whole(g, i) /\ (g.state = "ACTIVE" => Complete(g, i))
    BY <1>1, <1>3 DEF AllDone, AllWhole
<1> QED BY <1>1, <1>3, <1>4

LEMMA DoneWhole ==
    ASSUME AllDone'
    PROVE  WholeInv'
<1>1. \A p \in Pages : Is(p, "FULL")' \/ Is(p, "FREEING")' => \A i \in Heads(page'[p]) : Whole(page'[p], i)
    BY DEF AllDone, AllWhole, Is, InUse
<1>2. ASSUME NEW p \in Pages, page'[p].state = "ACTIVE", NEW i \in Heads(page'[p])
      PROVE  /\ Done(page'[p], i, pc', at', page'[job'.from])
             /\ Complete(page'[p], i) /\ Whole(page'[p], i)
    BY <1>2 DEF AllDone, AllWhole, InUse, Done
<1> QED BY <1>1, <1>2 DEF WholeInv, Is

\* A step at which nothing is stored twice, and at which no item is added.
LEMMA SettledStep ==
    ASSUME Retaining, Unique, pc' \notin {"ld_scan", "ld_dup", "ld_lists", "ld_old"},
           pc' \in AbsentPcs /\ job'.k \in Keys /\ job'.was = NoPage => Absent(job'.k)
    PROVE  CopyInv'
<1>1. Unique' /\ \A k \in Keys : Absent(k) => Absent(k)'
    BY RetainFewer, FewerCopies
<1>2. UniqueButLatest' /\ UniqueBut(job.k)'
    BY <1>1 DEF Unique, UniqueButLatest, UniqueBut
<1>3. \A k : Absent(k)' <=> \A p \in Pages, i \in Idx : ~Holds(p, i, k)'
    BY DEF Absent
<1>4. pc' \in AbsentPcs /\ job'.k \in Keys /\ job'.was = NoPage => Absent(job.k)'
    BY <1>1, <1>3 DEF Absent
<1> QED BY <1>1, <1>2, <1>4 DEF CopyInv

LEMMA QuietStep ==
    ASSUME DInv, Retaining, NoneTwice, pc \notin OddPcs, pc' \notin {"ld_scan", "ld_dup", "ld_lists", "ld_old"},
           pc' \in AbsentPcs /\ job'.k \in Keys /\ job'.was = NoPage => Absent(job'.k)
    PROVE  CopyInv' /\ WholeInv'
<1>1. AllDone'
    BY DoneIs, DoneKept DEF DInv
<1> QED BY <1>1, SettledStep, DoneWhole DEF DInv, CopyInv

-----------------------------------------------------------------------------
(* The steps that neither add nor erase an item.                           *)

LEMMA FindNone ==
    ASSUME Shape, ListOK, NEW k, FindPage(k) \notin Pages
    PROVE  Absent(k)
<1> SUFFICES ASSUME NEW p \in Pages, NEW i \in Idx, Holds(p, i, k) PROVE FALSE
    BY DEF Absent
<1>1. p \in On(list)
    BY DEF ListOK, Holds
<1>2. PICK n \in 1 .. Len(list) : p = list[n]
    BY <1>1 DEF On
<1>3. i \in ItemsOf(list[n], k)
    BY <1>2 DEF Holds, ItemsOf, Items, With, Heads
<1>4. n \in Holding(k)
    BY <1>3 DEF Holding
<1> QED BY <1>4, FindPageHas

LEMMA SetCopies ==
    ASSUME DInv, NEW k \in Keys, NEW v \in Values, Set(k, v)
    PROVE  CopyInv' /\ WholeInv'
<1>1. pc = "idle" /\ pc' \in {"w_init", "w_item", "request", "w_full"} /\ UNCHANGED page
    BY DEF Set, ToWrite
<1>2. job'.k = k /\ job'.was = FindPage(k)
    <2>1. JobFor(job', k, v, FindPage(k), NoPage)
        BY JobIs, FindPageIs DEF DInv, IInv, PageInvs, Set
    <2> QED BY <2>1 DEF JobFor
<1>3. job'.was = NoPage => Absent(job'.k)
    <2>1. Shape /\ ListOK /\ NoPage \notin Pages
        BY <1>1, JobIs DEF DInv, IInv, PageInvs, ListInv, LoadPcs
    <2>2. FindPage(k) = NoPage => Absent(k)
        BY <2>1, FindNone
    <2> QED BY <1>2, <2>2
<1>4. Retaining
    BY <1>1, RetainSame
<1>5. pc \notin OddPcs /\ NoneTwice /\ pc' \notin {"ld_scan", "ld_dup", "ld_lists", "ld_old"}
    BY <1>1 DEF OddPcs, NoneTwice, SettledPcs
<1> QED BY <1>3, <1>4, <1>5, QuietStep

LEMMA SettledPcsAre ==
    ASSUME pc \in SettledPcs
    PROVE  pc \notin OddPcs /\ NoneTwice
BY DEF OddPcs, NoneTwice, SettledPcs

\* A call goes on, or no call is in progress.
LEMMA QuietKept ==
    ASSUME DInv, Retaining, pc \in SettledPcs, pc' \notin {"ld_scan", "ld_dup", "ld_lists", "ld_old"},
           pc' \notin AbsentPcs \/ job'.k \notin Keys \/ (SameCall /\ pc \in AbsentPcs)
    PROVE  CopyInv' /\ WholeInv'
<1>1. pc' \in AbsentPcs /\ job'.k \in Keys /\ job'.was = NoPage => Absent(job'.k)
    BY DEF DInv, CopyInv, SameCall
<1> QED BY <1>1, SettledPcsAre, QuietStep

LEMMA EraseCopies ==
    ASSUME DInv, NEW k \in Keys, Erase(k)
    PROVE  CopyInv' /\ WholeInv'
<1>1. pc = "idle" /\ pc' = "w_erase" /\ UNCHANGED page
    BY DEF Erase
<1> QED BY <1>1, RetainSame, QuietKept DEF AbsentPcs, MovePcs, SettledPcs

LEMMA WriteQuiet ==
    ASSUME DInv, PageInvs', InitPage \/ WriteEntry \/ MarkFull \/ RequestNewPage \/ MarkFreeing \/ NoSpace
    PROVE  CopyInv' /\ WholeInv'
<1>1. Retaining
    <2>1. CASE RequestNewPage \/ NoSpace
        BY <2>1, RetainSame DEF RequestNewPage, NoSpace
    <2> QED BY <2>1, InitEntries, WriteEntryEntries, MarkFullEntries, MarkFreeingEntries DEF DInv
<1>2. \/ pc = "no_space" /\ pc' = "idle"
      \/ /\ SameCall /\ pc \in {"w_init", "w_item", "w_full", "request", "mark"}
         /\ pc' \in {"w_item", "w_item_state", "request", "no_space", "w_init", "mark", "mv_free", "mv_init", "mv_entry"}
    <2>1. CASE InitPage \/ WriteEntry \/ MarkFull \/ NoSpace
        BY <2>1 DEF InitPage, WriteEntry, MarkFull, NoSpace, SameCall
    <2>2. CASE RequestNewPage
        <3>1. SameCall
            BY <2>2, RequestNewPageEntries DEF DInv
        <3> QED BY <2>2, <3>1 DEF RequestNewPage
    <2>3. CASE MarkFreeing
        BY <2>3 DEF MarkFreeing, ToMove, SameCall
    <2> QED BY <2>1, <2>2, <2>3
<1> QED BY <1>1, <1>2, QuietKept DEF AbsentPcs, MovePcs, SettledPcs

LEMMA MoveQuiet ==
    ASSUME DInv, PageInvs', MoveInit \/ MoveFree \/ EraseCorrupt
    PROVE  CopyInv' /\ WholeInv'
<1>1. Retaining
    BY InitEntries, MoveFreeEntries, EraseCorruptEntries DEF DInv
<1>2. CASE MoveInit
    BY <1>1, <1>2, QuietKept DEF MoveInit, SameCall, AbsentPcs, MovePcs, SettledPcs
<1>3. CASE MoveFree
    <2>1. pc = "mv_free" /\ pc' \in {"idle", "abort", "w_init", "w_item", "no_space"}
        BY <1>3 DEF MoveFree, ToWrite
    <2>2. pc' = "idle" \/ SameCall
        BY <1>3, MoveFreeEntries DEF DInv
    <2> QED BY <1>1, <2>1, <2>2, QuietKept DEF AbsentPcs, MovePcs, SettledPcs
<1>4. CASE EraseCorrupt
    BY <1>1, <1>4, QuietKept DEF EraseCorrupt, SameCall, AbsentPcs, MovePcs, SettledPcs
<1> QED BY <1>2, <1>3, <1>4

LEMMA LoadQuiet ==
    ASSUME DInv, ActivateFirst \/ ResumeFreeing \/ ActivateForMove
    PROVE  CopyInv' /\ WholeInv'
<1>1. Retaining
    BY RetainSame DEF ActivateFirst, ResumeFreeing, ActivateForMove
<1>2. CASE ActivateFirst
    BY <1>1, <1>2, QuietKept DEF ActivateFirst, AbsentPcs, MovePcs, SettledPcs
<1>3. CASE ResumeFreeing
    <2>1. pc = "ld_freeing" /\ pc' \in {"no_free_page", "idle", "ld_activate", "mv_free", "mv_init", "mv_entry"}
        BY <1>3 DEF ResumeFreeing, ToMove
    <2>2. pc' \in {"no_free_page", "idle"} \/ job'.k = NoValue
        BY <1>3 DEF ResumeFreeing, NoJob
    <2> QED BY <1>1, <2>1, <2>2, QuietKept, NvsAssumption DEF AbsentPcs, MovePcs, SettledPcs
<1>4. CASE ActivateForMove
    BY <1>1, <1>4, QuietKept DEF ActivateForMove, SameCall, AbsentPcs, MovePcs, SettledPcs
<1> QED BY <1>2, <1>3, <1>4

-----------------------------------------------------------------------------
(* The steps that write entries, and power failures.                       *)

\* Page h, which was g, is the active one and has kept what was counted.
Stayed(g, h) ==
    /\ g.state = "ACTIVE" /\ h.tab = g.tab /\ Heads(h) \subseteq Heads(g)
    /\ \A x \in Idx : g.tab[x] = "WRITTEN" => h.ent[x] = g.ent[x]
    /\ \A i \in Heads(h) : (Complete(h, i) <=> Complete(g, i)) /\ (Complete(h, i) => Whole(h, i))

LEMMA StayStep ==
    ASSUME DInv, pc # "abort", Retaining, Staying
    PROVE  /\ UniqueButLatest' /\ (NoneTwice => Unique') /\ \A k \in Keys : Absent(k) => Absent(k)'
           /\ \A p \in Pages : page'[p].state \in {"FULL", "FREEING"} =>
                 \A i \in Heads(page'[p]) : Whole(page'[p], i)
           /\ \A p \in Pages : page'[p].state = "ACTIVE" =>
                 Heads(page'[p]) = {} \/ Stayed(page[p], page'[p])
<1>1. UniqueButLatest' /\ (NoneTwice => Unique') /\ \A k \in Keys : Absent(k) => Absent(k)'
    BY RetainFewer, FewerCopies DEF DInv, CopyInv
<1>2. ASSUME NEW p \in Pages, page'[p].state \in {"FULL", "FREEING"}, NEW i \in Heads(page'[p])
      PROVE  Whole(page'[p], i)
    <2>1. PICK g, h : g = page[p] /\ h = page'[p]
        OBVIOUS
    <2>2. Retained(g, h) /\ h.state \in InUse /\ i \in Heads(h) /\ g.state = h.state
        BY <1>2, <2>1 DEF Retaining, Staying, InUse
    <2>3. i \in Heads(g) /\ (g.state # "ACTIVE" /\ Whole(g, i) => Whole(h, i))
        BY <2>2, RetainedItem
    <2>4. Whole(g, i)
        BY <1>2, <2>1, <2>2, <2>3 DEF DInv, WholeInv, Is
    <2> QED BY <1>2, <2>1, <2>2, <2>3, <2>4
<1>3. ASSUME NEW p \in Pages, page'[p].state = "ACTIVE", Heads(page'[p]) # {}
      PROVE  Stayed(page[p], page'[p])
    <2>1. PICK g, h : g = page[p] /\ h = page'[p]
        OBVIOUS
    <2>2. Retained(g, h) /\ h.state \in InUse /\ h.state = "ACTIVE" /\ Heads(h) # {}
        BY <1>3, <2>1 DEF Retaining, InUse
    <2>3. g.state = "ACTIVE" /\ h.tab = g.tab /\ \A x \in Idx : g.tab[x] = "WRITTEN" => h.ent[x] = g.ent[x]
        BY <2>2 DEF Retained
    <2>4. \A i \in Heads(h) : /\ i \in Heads(g) /\ (Complete(h, i) <=> Complete(g, i))
                              /\ Complete(g, i) /\ Whole(g, i) => Whole(h, i)
        BY <2>2, RetainedItem
    <2>5. \A i \in Heads(g) : Complete(g, i) => Whole(g, i)
        BY <2>1, <2>3 DEF DInv, WholeInv, Is
    <2> QED BY <2>1, <2>3, <2>4, <2>5 DEF Stayed
<1> QED BY <1>1, <1>2, <1>3

LEMMA WriteDataCopies ==
    ASSUME DInv, PageInvs', WriteData
    PROVE  CopyInv' /\ WholeInv'
<1>1. pc = "w_data" /\ pc' = "w_data_state" /\ UNCHANGED <<job, at>>
    BY DEF WriteData
<1>2. Retaining /\ Staying /\ Whole(page'[Current], at.i)
    BY WriteDataEntries DEF DInv
<1>3. /\ UniqueButLatest' /\ (NoneTwice => Unique')
      /\ \A p \in Pages : page'[p].state \in {"FULL", "FREEING"} =>
            \A i \in Heads(page'[p]) : Whole(page'[p], i)
      /\ \A p \in Pages : page'[p].state = "ACTIVE" =>
            Heads(page'[p]) = {} \/ Stayed(page[p], page'[p])
    BY <1>1, <1>2, StayStep
<1>4. CopyInv'
    BY <1>1, <1>3 DEF CopyInv, NoneTwice, SettledPcs, AbsentPcs, MovePcs
<1>5. ASSUME NEW p \in Pages, page'[p].state = "ACTIVE", NEW i \in Heads(page'[p])
      PROVE  /\ i = at.i \/ Complete(page'[p], i)
             /\ i = at.i => Whole(page'[p], i)
             /\ Complete(page'[p], i) => Whole(page'[p], i)
    <2>1. PICK g, h, s : g = page[p] /\ h = page'[p] /\ s = page[job.from]
        OBVIOUS
    <2>2. /\ g.state = "ACTIVE" /\ i \in Heads(g)
          /\ Complete(h, i) <=> Complete(g, i)
          /\ Complete(h, i) => Whole(h, i)
        BY <1>3, <1>5, <2>1 DEF Stayed
    <2>3. Done(g, i, pc, at, s)
        BY <1>1, <2>1, <2>2 DEF DInv, WholeInv, Is
    <2>4. p = Current
        BY <1>1, <2>1, <2>2, OneActive, WriteContext DEF DInv, IInv, WritePcs
    <2> QED BY <1>1, <1>2, <2>1, <2>2, <2>3, <2>4 DEF Done
<1>6. WholeInv'
    BY <1>1, <1>3, <1>5 DEF WholeInv, Is, Done, OddPcs
<1> QED BY <1>4, <1>6

LEMMA MoveEntryCopies ==
    ASSUME DInv, PageInvs', MoveEntry
    PROVE  CopyInv' /\ WholeInv'
<1>1. pc = "mv_entry" /\ pc' \in {"mv_state", "abort"} /\ UNCHANGED <<job, at>>
    BY DEF MoveEntry
<1>2. Retaining /\ Staying /\ page'[job.from] = page[job.from]
    BY MoveEntryEntries DEF DInv
<1>3. /\ UniqueButLatest' /\ (NoneTwice => Unique') /\ \A k \in Keys : Absent(k) => Absent(k)'
      /\ \A p \in Pages : page'[p].state \in {"FULL", "FREEING"} =>
            \A i \in Heads(page'[p]) : Whole(page'[p], i)
      /\ \A p \in Pages : page'[p].state = "ACTIVE" =>
            Heads(page'[p]) = {} \/ Stayed(page[p], page'[p])
    BY <1>1, <1>2, StayStep
<1>4. CopyInv'
    <2>1. job.k \in Keys /\ job.was = NoPage => Absent(job.k)'
        <3>1. \A k : Absent(k)' <=> \A p \in Pages, i \in Idx : ~Holds(p, i, k)'
            BY DEF Absent
        <3>2. job.k \in Keys /\ job.was = NoPage => Absent(job.k)
            BY <1>1 DEF DInv, CopyInv, AbsentPcs, MovePcs
        <3> QED BY <1>1, <1>3, <3>1, <3>2 DEF Absent
    <2> QED BY <1>1, <1>3, <2>1 DEF CopyInv, NoneTwice, SettledPcs
<1>5. PICK n, a, s : n = at.end /\ a = at.i /\ s = page[job.from]
    OBVIOUS
<1>6. ASSUME NEW p \in Pages, page'[p].state = "ACTIVE", NEW i \in Heads(page'[p])
      PROVE  /\ Complete(page'[p], i) \/ (n > 0 /\ LastHead(page'[p], i) /\ Copied(page'[p], i, n, s, a))
             /\ Complete(page'[p], i) => Whole(page'[p], i)
    <2>1. PICK g, h : g = page[p] /\ h = page'[p]
        OBVIOUS
    <2>2. Stayed(g, h)
        BY <1>3, <1>6, <2>1
    <2>3. i \in Heads(g) /\ (Complete(h, i) <=> Complete(g, i)) /\ (Complete(h, i) => Whole(h, i))
        BY <1>6, <2>1, <2>2 DEF Stayed
    <2>4. Done(g, i, pc, at, s)
        BY <1>1, <1>5, <2>1, <2>2, <2>3 DEF DInv, WholeInv, Is, Stayed
    <2>5. Complete(g, i) \/ (n > 0 /\ LastHead(g, i) /\ Copied(g, i, n, s, a))
        BY <1>1, <1>5, <2>4 DEF Done
    <2>6. LastHead(g, i) => LastHead(h, i)
        BY <2>2 DEF LastHead, Stayed
    <2>7. Copied(g, i, n, s, a) => Copied(h, i, n, s, a)
        BY <2>2 DEF Copied, Stayed
    <2> QED BY <2>1, <2>3, <2>5, <2>6, <2>7
<1>7. ASSUME NEW p \in Pages, page'[p].state = "ACTIVE", NEW i \in Heads(page'[p]), pc' # "abort"
      PROVE  Done(page'[p], i, pc', at', page'[job'.from])
    BY <1>1, <1>2, <1>5, <1>6, <1>7 DEF Done, OddPcs
<1>8. WholeInv'
    BY <1>1, <1>3, <1>6, <1>7 DEF WholeInv, Is
<1> QED BY <1>4, <1>8

LEMMA PowerCutCopies ==
    ASSUME DInv, PageInvs', PowerCut
    PROVE  CopyInv' /\ WholeInv'
<1>1. pc # "abort" /\ pc' = "off"
    BY DEF PowerCut
<1>2. Retaining /\ Staying
    BY PowerCutEntries DEF DInv
<1>3. /\ UniqueButLatest'
      /\ \A p \in Pages : page'[p].state \in {"FULL", "FREEING"} =>
            \A i \in Heads(page'[p]) : Whole(page'[p], i)
      /\ \A p \in Pages : page'[p].state = "ACTIVE" =>
            Heads(page'[p]) = {} \/ Stayed(page[p], page'[p])
    BY <1>1, <1>2, StayStep
<1>4. CopyInv'
    BY <1>1, <1>3 DEF CopyInv, NoneTwice, SettledPcs, AbsentPcs, MovePcs
<1>5. WholeInv'
    BY <1>1, <1>3 DEF WholeInv, Is, Done, OddPcs, Stayed
<1> QED BY <1>4, <1>5

-----------------------------------------------------------------------------
(* An item is erased, or more entries are counted.                         *)

LEMMA BodiesApart ==
    ASSUME NEW g, Sound(g), NEW i \in Heads(g), NEW d \in Heads(g), i # d, NEW x \in Body(g, i)
    PROVE  x \notin Body(g, d)
<1> SUFFICES ASSUME x \in Body(g, d) PROVE FALSE
    OBVIOUS
<1>1. /\ i \in Idx /\ i \in Nat /\ d \in Idx /\ d \in Nat /\ x \in Nat
      /\ g.ent[i].t = "item" /\ g.ent[d].t = "item"
      /\ Span[g.ent[i].k] \in Nat /\ Span[g.ent[d].k] \in Nat
      /\ x >= i /\ x < i + Span[g.ent[i].k] /\ x >= d /\ x < d + Span[g.ent[d].k]
    BY HeadIs
<1>2. CASE i < d
    <2>1. d \in Body(g, i)
        BY <1>1, <1>2 DEF Body
    <2> QED BY <1>1, <1>2, <2>1 DEF Sound
<1>3. CASE d < i
    <2>1. i \in Body(g, d)
        BY <1>1, <1>3 DEF Body
    <2> QED BY <1>1, <1>3, <2>1 DEF Sound
<1> QED BY <1>1, <1>2, <1>3

LEMMA EraseWhole ==
    ASSUME NEW g, NEW h, Sound(g), NEW d \in Heads(g), Erasing(g, h, d),
           (SameItems(g, h) /\ h.ent = g.ent) \/ Wiped(g, h, d), NEW i \in Heads(h)
    PROVE  /\ i \in Heads(g) /\ h.ent[i] = g.ent[i]
           /\ Whole(g, i) => Whole(h, i)
           /\ Complete(h, i) => Complete(g, i)
           /\ i # d /\ Complete(g, i) => Complete(h, i)
<1>1. i \in Heads(g) /\ h.ent[i] = g.ent[i] /\ Body(h, i) = Body(g, i)
    BY DEF Erasing
<1>2. Complete(h, i) => Complete(g, i)
    BY <1>1 DEF Complete, Erasing
<1>3. i # d => \A x \in Body(g, i) \cap Idx : h.tab[x] = g.tab[x] /\ h.ent[x] = g.ent[x]
    BY <1>1, BodiesApart DEF Erasing
<1>4. i # d /\ Complete(g, i) => Complete(h, i)
    BY <1>1, <1>3 DEF Complete
<1>5. h.ent = g.ent \/ i # d
    BY DEF Wiped
<1>6. Whole(g, i) => Whole(h, i)
    BY <1>1, <1>3, <1>5 DEF Whole
<1> QED BY <1>1, <1>2, <1>4, <1>6

LEMMA ErasesStep ==
    ASSUME DInv, pc # "abort", NEW p, NEW i, NEW from, NEW to, Erases(p, i, from, to)
    PROVE  /\ \A q \in Pages : Fewer(page[q], page'[q]) /\ StaysActive(page[q], page'[q])
           /\ \A q \in Pages : page'[q].state \in {"FULL", "FREEING"} =>
                 \A j \in Heads(page'[q]) : Whole(page'[q], j)
           /\ \A q \in Pages : page'[q].state = "ACTIVE" =>
                 /\ page[q].state = "ACTIVE"
                 /\ \A j \in Heads(page'[q]) :
                       /\ j \in Heads(page[q]) /\ page'[q].ent[j] = page[q].ent[j]
                       /\ Complete(page[q], j) /\ ~(q = p /\ j = i) => Complete(page'[q], j)
                       /\ Complete(page'[q], j) => Whole(page'[q], j)
<1>1. PICK g, h : g = page[p] /\ h = page'[p]
    OBVIOUS
<1>2. /\ p \in Pages /\ HasSeq(p) /\ i \in Heads(g) /\ \A q \in Pages : q # p => page'[q] = page[q]
      /\ Erasing(g, h, i) /\ ((SameItems(g, h) /\ h.ent = g.ent) \/ Wiped(g, h, i))
    BY <1>1 DEF Erases
<1>3. Sound(g) /\ h.state = g.state
    BY <1>1, <1>2 DEF DInv, IInv, EntryInv, Erasing
<1>4. \A j \in Heads(h) : /\ j \in Heads(g) /\ h.ent[j] = g.ent[j]
                          /\ Whole(g, j) => Whole(h, j)
                          /\ Complete(h, j) => Complete(g, j)
                          /\ j # i /\ Complete(g, j) => Complete(h, j)
    BY <1>2, <1>3, EraseWhole
<1>5. ASSUME NEW q \in Pages
      PROVE  Fewer(page[q], page'[q]) /\ StaysActive(page[q], page'[q])
    <2>1. CASE q = p
        BY <1>1, <1>3, <1>4, <2>1 DEF Fewer, StaysActive
    <2>2. CASE q # p
        BY <1>2, <2>2 DEF Fewer, StaysActive
    <2> QED BY <2>1, <2>2
<1>6. ASSUME NEW q \in Pages, page'[q].state \in {"FULL", "FREEING"}, NEW j \in Heads(page'[q])
      PROVE  Whole(page'[q], j)
    <2>1. page[q].state \in {"FULL", "FREEING"} => \A x \in Heads(page[q]) : Whole(page[q], x)
        BY DEF DInv, WholeInv, Is
    <2>2. CASE q = p
        BY <1>1, <1>3, <1>4, <1>6, <2>1, <2>2
    <2>3. CASE q # p
        BY <1>2, <1>6, <2>1, <2>3
    <2> QED BY <2>2, <2>3
<1>7. ASSUME NEW q \in Pages, page'[q].state = "ACTIVE"
      PROVE  /\ page[q].state = "ACTIVE"
             /\ \A j \in Heads(page'[q]) :
                   /\ j \in Heads(page[q]) /\ page'[q].ent[j] = page[q].ent[j]
                   /\ Complete(page[q], j) /\ ~(q = p /\ j = i) => Complete(page'[q], j)
                   /\ Complete(page'[q], j) => Whole(page'[q], j)
    <2>1. page[q].state = "ACTIVE"
        BY <1>1, <1>2, <1>3, <1>7
    <2>2. \A j \in Heads(page[q]) : Complete(page[q], j) => Whole(page[q], j)
        BY <2>1 DEF DInv, WholeInv, Is
    <2>3. CASE q = p
        BY <1>1, <1>4, <2>1, <2>2, <2>3
    <2>4. CASE q # p
        BY <1>2, <2>1, <2>2, <2>4
    <2> QED BY <2>3, <2>4
<1> QED BY <1>5, <1>6, <1>7

\* More entries of the active page c are counted.
LEMMA CountStep ==
    ASSUME DInv, pc # "abort", NEW c, Counting(c)
    PROVE  /\ \A q \in Pages : page'[q].state \in {"FULL", "FREEING"} =>
                 \A j \in Heads(page'[q]) : Whole(page'[q], j)
           /\ \A q \in Pages : page'[q].state = "ACTIVE" => q = c
           /\ \A j \in Heads(page[c]) :
                 /\ j \in Heads(page'[c])
                 /\ Complete(page[c], j) => Complete(page'[c], j) /\ Whole(page'[c], j)
                 /\ Whole(page[c], j) => Whole(page'[c], j)
<1>1. PICK g, h : g = page[c] /\ h = page'[c]
    OBVIOUS
<1>2. /\ c \in Pages /\ g.state = "ACTIVE" /\ h.state = "ACTIVE" /\ h.ent = g.ent
      /\ \A q \in Pages : q # c => page'[q] = page[q]
      /\ \A x \in Idx : g.tab[x] = "WRITTEN" => h.tab[x] = "WRITTEN"
    BY <1>1 DEF Counting
<1>3. ASSUME NEW q \in Pages, page'[q].state \in {"FULL", "FREEING"}, NEW j \in Heads(page'[q])
      PROVE  Whole(page'[q], j)
    <2>1. page'[q] = page[q]
        BY <1>1, <1>2, <1>3
    <2> QED BY <1>3, <2>1 DEF DInv, WholeInv, Is
<1>4. ASSUME NEW q \in Pages, page'[q].state = "ACTIVE", q # c PROVE FALSE
    <2>1. page'[q] = page[q]
        BY <1>2, <1>4
    <2> QED BY <1>1, <1>2, <1>4, <2>1, OneActive DEF DInv, IInv
<1>5. ASSUME NEW j \in Heads(g)
      PROVE  /\ j \in Heads(h)
             /\ Complete(g, j) => Complete(h, j) /\ Whole(h, j)
             /\ Whole(g, j) => Whole(h, j)
    <2>1. j \in Heads(h) /\ Body(h, j) = Body(g, j)
        BY <1>2, <1>5 DEF Heads, Body
    <2>2. Complete(g, j) => Complete(h, j)
        BY <1>2, <2>1 DEF Complete
    <2>3. Whole(g, j) => Whole(h, j)
        BY <1>2, <2>1 DEF Whole
    <2>4. Complete(g, j) => Whole(g, j)
        BY <1>1, <1>2, <1>5 DEF DInv, WholeInv, Is
    <2> QED BY <2>1, <2>2, <2>3, <2>4
<1> QED BY <1>1, <1>3, <1>4, <1>5

LEMMA CountDone ==
    ASSUME DInv, pc # "abort", NEW c, Counting(c),
           \A j \in Heads(page'[c]) : Complete(page'[c], j) /\ Whole(page'[c], j)
    PROVE  WholeInv'
<1>1. AllDone'
    BY CountStep DEF AllDone, AllWhole, InUse
<1> QED BY <1>1, DoneWhole

-----------------------------------------------------------------------------
(* The steps of writeItem() that add an item and erase the old one.        *)

LEMMA LastAtIs ==
    ASSUME NEW g, Sound(g), NEW a, NEW e, LastAt(g, a, e)
    PROVE  a \in Heads(g) /\ a \in Idx /\ a \in Nat /\ LastHead(g, a) /\ g.ent[a] = e
<1>1. a \in Heads(g) /\ g.ent[a] = e /\ a \in Idx /\ a \in Nat
    BY HeadIs DEF LastAt
<1>2. ASSUME NEW y \in Heads(g), y # a PROVE y <= a
    <2>1. y \in Body(g, y) /\ y \in Nat
        BY <1>2, HeadIs
    <2>2. y \in 0 .. a-1
        BY <1>2, <2>1 DEF LastAt
    <2> QED BY <1>1, <2>1, <2>2
<1> QED BY <1>1, <1>2 DEF LastHead

LEMMA WriteEntryStateCopies ==
    ASSUME DInv, PageInvs', WriteEntryState
    PROVE  CopyInv' /\ WholeInv'
<1>1. /\ pc = "w_item_state" /\ Returned
      /\ pc' = IF Span[job.k] > 1 THEN "w_data" ELSE AfterWrite
    BY DEF WriteEntryState
<1>2. PICK c, a, k, e : c = Current /\ a = at.i /\ k = job.k /\ e = Item(job.k, job.v)
    OBVIOUS
<1>3. PICK g, h : g = page[c] /\ h = page'[c]
    OBVIOUS
<1>4. /\ EntryInv' /\ Counting(c) /\ Heads(h) = Heads(g) \cup {a} /\ Opened(h, a, e)
    BY <1>2, <1>3, WriteEntryStateEntries DEF DInv
<1>5. k \in Keys /\ e.k = k /\ Span[k] \in Nat /\ Span[k] >= 1
    BY <1>1, <1>2, WriteContext DEF DInv, WritePcs
<1>6. /\ c \in Pages /\ g.state = "ACTIVE" /\ h.state = "ACTIVE" /\ h.ent = g.ent
      /\ \A q \in Pages : q # c => page'[q] = page[q]
    BY <1>3, <1>4 DEF Counting
<1>7. Sound(h)
    BY <1>3, <1>4, <1>6 DEF EntryInv, HasSeq
<1>8. a \in Heads(h) /\ a \in Idx /\ a \in Nat /\ LastHead(h, a) /\ h.ent[a] = e /\ BlankFrom(h, a + 1)
    BY <1>4, <1>7, LastAtIs DEF Opened
<1>9. Unique /\ (job.was = NoPage => Absent(k))
    BY <1>1, <1>2, <1>5 DEF DInv, CopyInv, NoneTwice, SettledPcs, AbsentPcs
<1>10. UniqueButLatest' /\ UniqueBut(k)' /\ (Absent(k) => Unique')
    BY <1>3, <1>5, <1>6, <1>4, <1>8, <1>9, AddCopy
<1>11. pc' # "idle" => UNCHANGED <<job, at>>
    BY <1>1, ReturnedIs
<1>12. CopyInv'
    <2>1. pc' \in {"w_data", "idle", "w_erase"} /\ (pc' = "idle" => job.was = NoPage)
        BY <1>1 DEF AfterWrite
    <2>2. pc' = "w_erase" => UniqueBut(job.k)'
        BY <1>2, <1>10, <1>11 DEF UniqueBut
    <2> QED BY <1>9, <1>10, <1>11, <2>1, <2>2 DEF CopyInv, NoneTwice, SettledPcs, AbsentPcs, MovePcs
<1>13. AllDone
    BY <1>1, DoneIs DEF DInv, OddPcs
<1>14. \A j \in Heads(g) : Complete(g, j)
    BY <1>3, <1>6, <1>13 DEF AllDone, AllWhole, InUse
<1>15. \A j \in Heads(h) : j # a => Complete(h, j) /\ Whole(h, j)
    BY <1>1, <1>3, <1>4, <1>14, CountStep
<1>16. CASE Span[k] > 1
    <2>1. pc' = "w_data" /\ UNCHANGED <<job, at>>
        BY <1>1, <1>2, <1>11, <1>16
    <2>2. ~Complete(h, a)
        <3>1. a + 1 \in Body(h, a)
            BY <1>5, <1>8, <1>16 DEF Body
        <3>2. a + 1 \in Idx => a + 1 \in a + 1 .. N-1
            BY <1>8, IdxIs
        <3> QED BY <1>8, <3>1, <3>2 DEF Complete, BlankFrom
    <2>3. \A j \in Heads(h) : (j = a \/ Complete(h, j)) /\ (Complete(h, j) => Whole(h, j))
        BY <1>15, <2>2
    <2>4. /\ \A q \in Pages : page'[q].state \in {"FULL", "FREEING"} =>
                 \A j \in Heads(page'[q]) : Whole(page'[q], j)
          /\ \A q \in Pages : page'[q].state = "ACTIVE" => q = c
        BY <1>1, <1>4, CountStep
    <2>5. ASSUME NEW q \in Pages, page'[q].state = "ACTIVE", NEW j \in Heads(page'[q])
          PROVE  Done(page'[q], j, pc', at', page'[job'.from]) /\ (Complete(page'[q], j) => Whole(page'[q], j))
        BY <1>2, <1>3, <2>1, <2>3, <2>4, <2>5 DEF Done, OddPcs
    <2>6. WholeInv'
        BY <2>1, <2>4, <2>5 DEF WholeInv, Is
    <2> QED BY <1>12, <2>6
<1>17. CASE ~(Span[k] > 1)
    <2>1. Body(h, a) = {a}
        <3>1. Span[k] = 1
            BY <1>5, <1>17
        <3> QED BY <1>5, <1>8, <3>1 DEF Body
    <2>2. Complete(h, a) /\ Whole(h, a)
        BY <1>8, <2>1 DEF Complete, Whole, Heads
    <2>3. \A j \in Heads(page'[c]) : Complete(page'[c], j) /\ Whole(page'[c], j)
        BY <1>3, <1>15, <2>2
    <2>4. WholeInv'
        BY <1>1, <1>4, <2>3, CountDone
    <2> QED BY <1>12, <2>4
<1> QED BY <1>16, <1>17

LEMMA WriteDataStateCopies ==
    ASSUME DInv, PageInvs', WriteDataState
    PROVE  CopyInv' /\ WholeInv'
<1>1. pc = "w_data_state" /\ Returned
    BY DEF WriteDataState
<1>2. PICK c, a, k, e : c = Current /\ a = at.i /\ k = job.k /\ e = Item(job.k, job.v)
    OBVIOUS
<1>3. PICK g, h : g = page[c] /\ h = page'[c]
    OBVIOUS
<1>4. /\ EntryInv' /\ Counting(c) /\ SameItems(g, h) /\ Filling(h, a, e)
      /\ \/ pc' = "w_data_state"
         \/ pc' = AfterWrite /\ Clean(h, a + Span[k])
    BY <1>2, <1>3, WriteDataStateEntries DEF DInv
<1>5. k \in Keys /\ e.k = k /\ Span[k] \in Nat /\ Span[k] >= 1
    BY <1>1, <1>2, WriteContext DEF DInv, WritePcs
<1>6. /\ c \in Pages /\ g.state = "ACTIVE" /\ h.state = "ACTIVE" /\ h.ent = g.ent
      /\ \A q \in Pages : q # c => page'[q] = page[q]
    BY <1>3, <1>4 DEF Counting
<1>7. Sound(h)
    BY <1>3, <1>4, <1>6 DEF EntryInv, HasSeq
<1>8. a \in Heads(h) /\ a \in Idx /\ a \in Nat /\ LastHead(h, a) /\ h.ent[a] = e
    BY <1>4, <1>7, LastAtIs DEF Filling
<1>9. /\ UniqueButLatest' /\ (NoneTwice => Unique')
      /\ \A x : UniqueBut(x) => UniqueBut(x)'
    <2>1. \A q \in Pages : Fewer(page[q], page'[q]) /\ StaysActive(page[q], page'[q])
        <3> TAKE q \in Pages
        <3>1. CASE q = c
            BY <1>3, <1>4, <1>6, <3>1 DEF Fewer, StaysActive, SameItems, InUse
        <3>2. CASE q # c
            BY <1>6, <3>2 DEF Fewer, StaysActive
        <3> QED BY <3>1, <3>2
    <2> QED BY <1>1, <2>1, FewerCopies DEF DInv, CopyInv
<1>10. pc' # "idle" => UNCHANGED <<job, at>>
    BY <1>1, ReturnedIs
<1>11. UniqueBut(k)
    <2>1. a \in Heads(g) /\ LastHead(g, a) /\ g.ent[a].k = k
        BY <1>4, <1>5, <1>6, <1>8 DEF SameItems, LastHead
    <2>2. PageInvs /\ UniqueButLatest /\ page[c].state = "ACTIVE"
        BY <1>1, <1>3, <1>6 DEF DInv, IInv, CopyInv
    <2> QED BY <1>3, <1>6, <2>1, <2>2, LatestKey
<1>12. pc' \in {"w_data_state", "idle", "w_erase"} /\ (pc' = "idle" => job.was = NoPage)
    BY <1>4 DEF AfterWrite
<1>13. CopyInv'
    <2>1. pc' = "w_erase" => UniqueBut(job.k)'
        BY <1>2, <1>9, <1>10, <1>11 DEF UniqueBut
    <2>2. job.was = NoPage => NoneTwice
        BY <1>1 DEF NoneTwice
    <2> QED BY <1>9, <1>10, <1>12, <2>1, <2>2 DEF CopyInv, NoneTwice, SettledPcs, AbsentPcs, MovePcs
<1>14. \A j \in Heads(g) : (j = a \/ Complete(g, j)) /\ Whole(g, a)
    <2>1. \A j \in Heads(g) : Done(g, j, pc, at, page[job.from])
        BY <1>1, <1>3, <1>6 DEF DInv, WholeInv, Is
    <2>2. a \in Heads(g)
        BY <1>4, <1>8 DEF SameItems
    <2> QED BY <1>1, <1>2, <2>1, <2>2 DEF Done
<1>15. \A j \in Heads(h) : (j = a \/ Complete(h, j)) /\ Whole(h, j)
    <2>1. \A j \in Heads(g) : /\ Complete(g, j) => Complete(h, j) /\ Whole(h, j)
                              /\ Whole(g, j) => Whole(h, j)
        BY <1>1, <1>3, <1>4, CountStep
    <2> QED BY <1>4, <1>14, <2>1 DEF SameItems
<1>16. CASE pc' = "w_data_state"
    <2>1. UNCHANGED <<job, at>>
        BY <1>10, <1>16
    <2>2. /\ \A q \in Pages : page'[q].state \in {"FULL", "FREEING"} =>
                 \A j \in Heads(page'[q]) : Whole(page'[q], j)
          /\ \A q \in Pages : page'[q].state = "ACTIVE" => q = c
        BY <1>1, <1>4, CountStep
    <2>3. ASSUME NEW q \in Pages, page'[q].state = "ACTIVE", NEW j \in Heads(page'[q])
          PROVE  Done(page'[q], j, pc', at', page'[job'.from]) /\ Whole(page'[q], j)
        BY <1>2, <1>3, <1>15, <1>16, <2>1, <2>2, <2>3 DEF Done, OddPcs
    <2>4. WholeInv'
        BY <1>16, <2>2, <2>3 DEF WholeInv, Is
    <2> QED BY <1>13, <2>4
<1>17. CASE pc' # "w_data_state"
    <2>1. Clean(h, a + Span[k])
        BY <1>4, <1>17
    <2>2. Complete(h, a)
        <3>1. ASSUME NEW x \in Body(h, a), x # a PROVE x \in Idx /\ h.tab[x] = "WRITTEN"
            <4>1. x \in Idx /\ h.tab[x] # "ERASED"
                BY <1>4, <3>1 DEF Filling
            <4>2. x \in 0 .. (a + Span[k]) - 1
                BY <1>5, <1>8, <3>1 DEF Body
            <4>3. h.tab[x] # "EMPTY"
                BY <2>1, <4>2 DEF Clean, UsedTo
            <4> QED BY <1>7, <4>1, <4>3 DEF Sound, Table
        <3> QED BY <1>8, <3>1 DEF Complete, Heads
    <2>3. \A j \in Heads(page'[c]) : Complete(page'[c], j) /\ Whole(page'[c], j)
        BY <1>3, <1>15, <2>2
    <2>4. WholeInv'
        BY <1>1, <1>4, <2>3, CountDone
    <2> QED BY <1>13, <2>4
<1> QED BY <1>16, <1>17

-----------------------------------------------------------------------------
(* The steps that erase an item which is stored twice.                     *)

LEMMA ErasesDone ==
    ASSUME DInv, pc # "abort", NEW p, NEW i, NEW from, NEW to, Erases(p, i, from, to),
           page[p].state # "ACTIVE" \/ Wiped(page[p], page'[p], i),
           \A q \in Pages : page[q].state = "ACTIVE" =>
              \A j \in Heads(page[q]) : (q = p /\ j = i) \/ Complete(page[q], j)
    PROVE  WholeInv'
<1>1. ASSUME NEW q \in Pages, page'[q].state \in InUse, NEW j \in Heads(page'[q])
      PROVE  Whole(page'[q], j) /\ (page'[q].state = "ACTIVE" => Complete(page'[q], j))
    <2>1. CASE page'[q].state # "ACTIVE"
        BY <1>1, <2>1, ErasesStep DEF InUse
    <2>2. CASE page'[q].state = "ACTIVE"
        <3>1. /\ page[q].state = "ACTIVE" /\ j \in Heads(page[q])
              /\ Complete(page[q], j) /\ ~(q = p /\ j = i) => Complete(page'[q], j)
              /\ Complete(page'[q], j) => Whole(page'[q], j)
            BY <1>1, <2>2, ErasesStep
        <3>2. ~(q = p /\ j = i)
            BY <1>1, <3>1 DEF Wiped
        <3> QED BY <3>1, <3>2
    <2> QED BY <2>1, <2>2
<1>2. AllDone'
    BY <1>1 DEF AllDone, AllWhole
<1> QED BY <1>2, DoneWhole

\* What an erased item leaves of the copies of a key.
LEMMA ErasesCopies ==
    ASSUME DInv, pc # "abort", NEW p, NEW i, NEW from, NEW to, Erases(p, i, from, to)
    PROVE  /\ UniqueButLatest' /\ (Unique => Unique')
           /\ \A x : UniqueBut(x) => UniqueBut(x)'
           /\ \A x \in Keys : Absent(x) => Absent(x)'
           /\ \A k \in Keys : UniqueBut(k) /\ page[p].ent[i].k = k /\ Wiped(page[p], page'[p], i) => Unique'
<1>1. /\ UniqueButLatest' /\ (Unique => Unique')
      /\ \A x : UniqueBut(x) => UniqueBut(x)'
      /\ \A x \in Keys : Absent(x) => Absent(x)'
    BY ErasesStep, FewerCopies DEF DInv, CopyInv
<1>2. ASSUME NEW k \in Keys, UniqueBut(k), page[p].ent[i].k = k, Wiped(page[p], page'[p], i)
      PROVE  Unique'
    <2>1. /\ p \in Pages /\ i \in Idx /\ Holds(p, i, k) /\ Erasing(page[p], page'[p], i)
          /\ \A q \in Pages : q # p => page'[q] = page[q]
        BY <1>2 DEF Erases, Holds, Heads
    <2>2. PageInvs /\ UniqueButLatest
        BY DEF DInv, IInv, CopyInv
    <2> QED BY <1>2, <2>1, <2>2, EraseCopy
<1> QED BY <1>1, <1>2

LEMMA TargetKept ==
    ASSUME IInv, pc = "w_erase", UNCHANGED <<list, job>>, NEW p, NEW i, NEW from, NEW to, Erases(p, i, from, to),
           SameItems(page[p], page'[p]), NEW q \in Pages, NEW j, Target(q, j)
    PROVE  Target(q, j)'
<1>1. \A r \in Pages : HasSeq(r)' = HasSeq(r) /\ page'[r].state = page[r].state
    BY DEF Erases, Erasing, HasSeq
<1>2. \A r \in Pages : Heads(page'[r]) = Heads(page[r]) /\ \A x \in Heads(page[r]) : page'[r].ent[x] = page[r].ent[x]
    BY DEF Erases, SameItems
<1>3. PICK k : k = job.k
    OBVIOUS
<1>4. ASSUME NEW r \in Pages PROVE ItemsOf(r, k)' = ItemsOf(r, k)
    <2>1. ItemsOf(r, k) = {x \in Heads(page[r]) : HasSeq(r) /\ page[r].ent[x].k = k}
        BY DEF ItemsOf, Items, With, Heads
    <2>2. ItemsOf(r, k)' = {x \in Heads(page'[r]) : HasSeq(r)' /\ page'[r].ent[x].k = k}
        BY DEF ItemsOf, Items, With, Heads
    <2>3. \A x \in Heads(page[r]) : page'[r].ent[x].k = page[r].ent[x].k
        BY <1>2, <1>4
    <2> QED BY <1>1, <1>2, <1>4, <2>1, <2>2, <2>3
<1>5. list \in Seq(Pages) /\ \A n \in 1 .. Len(list) : list[n] \in Pages
    BY OnIs DEF IInv, PageInvs, Shape
<1>6. Holding(k)' = Holding(k)
    BY <1>4, <1>5 DEF Holding
<1>7. FindPage(k)' = FindPage(k)
    BY <1>6 DEF FindPage
<1>8. FindPage(job.k)' = FindPage(job.k)
    <2>1. FindPage(job.k) = FindPage(k) /\ Holding(job.k)' = Holding(k)'
        BY <1>3 DEF Holding, ItemsOf
    <2>2. FindPage(job.k)' = FindPage(k)'
        BY <2>1 DEF FindPage
    <2> QED BY <1>7, <2>1, <2>2
<1>9. job.was \in Pages
    BY DEF IInv, CallInv
<1>10. OldPage' = OldPage
    BY <1>1, <1>8, <1>9 DEF OldPage
<1>11. OldPage = q
    BY DEF Target
<1>12. findItem(q, job.k)' = findItem(q, job.k)
    BY <1>3, <1>4 DEF findItem, ItemsOf
<1> QED BY <1>10, <1>11, <1>12 DEF Target, findItem

LEMMA EraseOldCopies ==
    ASSUME DInv, PageInvs', EraseOld
    PROVE  CopyInv' /\ WholeInv'
<1>1. pc = "w_erase" /\ Returned /\ UNCHANGED list
    BY DEF EraseOld
<1>2. PICK p, i, k : p = OldPage /\ i = findItem(OldPage, job.k) /\ k = job.k
    OBVIOUS
<1>3. Erases(p, i, "w_erase", "idle") /\ page[p].ent[i].k = k
    BY <1>2, EraseOldEntries DEF DInv
<1>4. k \in Keys /\ UniqueBut(k)
    BY <1>1, <1>2 DEF DInv, IInv, CallInv, CopyInv
<1>5. \A q \in Pages : page[q].state = "ACTIVE" =>
          \A j \in Heads(page[q]) : (q = p /\ j = i) \/ Complete(page[q], j)
    BY <1>1, <1>2 DEF DInv, WholeInv, Is, Target
<1>6. /\ UniqueButLatest' /\ UniqueBut(k)'
      /\ Wiped(page[p], page'[p], i) => Unique'
    BY <1>1, <1>3, <1>4, ErasesCopies
<1>7. CASE pc' = "idle" /\ Wiped(page[p], page'[p], i)
    <2>1. WholeInv'
        BY <1>1, <1>3, <1>5, <1>7, ErasesDone
    <2>2. CopyInv'
        BY <1>6, <1>7 DEF CopyInv, NoneTwice, SettledPcs, AbsentPcs, MovePcs
    <2> QED BY <2>1, <2>2
<1>8. CASE pc' = "w_erase" /\ SameItems(page[p], page'[p])
    <2>1. UNCHANGED <<job, at>>
        BY <1>1, <1>8, ReturnedIs
    <2>2. UniqueBut(job.k)'
        BY <1>2, <1>6, <2>1 DEF UniqueBut
    <2>3. CopyInv'
        BY <1>6, <1>8, <2>2 DEF CopyInv, NoneTwice, SettledPcs, AbsentPcs, MovePcs
    <2>4. /\ \A q \in Pages : page'[q].state \in {"FULL", "FREEING"} =>
                 \A j \in Heads(page'[q]) : Whole(page'[q], j)
          /\ \A q \in Pages : page'[q].state = "ACTIVE" =>
                 /\ page[q].state = "ACTIVE"
                 /\ \A j \in Heads(page'[q]) :
                       /\ j \in Heads(page[q])
                       /\ Complete(page[q], j) /\ ~(q = p /\ j = i) => Complete(page'[q], j)
                       /\ Complete(page'[q], j) => Whole(page'[q], j)
        <3>1. \A q \in Pages : page'[q].state \in {"FULL", "FREEING"} =>
                 \A j \in Heads(page'[q]) : Whole(page'[q], j)
            BY <1>1, <1>3, ErasesStep
        <3>2. ASSUME NEW q \in Pages, page'[q].state = "ACTIVE", NEW j \in Heads(page'[q])
              PROVE  /\ j \in Heads(page[q])
                     /\ Complete(page[q], j) /\ ~(q = p /\ j = i) => Complete(page'[q], j)
                     /\ Complete(page'[q], j) => Whole(page'[q], j)
            BY <1>1, <1>3, <3>2, ErasesStep
        <3>3. \A q \in Pages : page'[q].state = "ACTIVE" => page[q].state = "ACTIVE"
            BY <1>1, <1>3, ErasesStep
        <3> QED BY <3>1, <3>2, <3>3
    <2>5. Target(p, i)'
        <3>1. Target(p, i) /\ p \in Pages
            BY <1>2, <1>3 DEF Target, Erases
        <3> QED BY <1>1, <1>3, <1>8, <2>1, <3>1, TargetKept DEF DInv
    <2>6. ASSUME NEW q \in Pages, page'[q].state = "ACTIVE", NEW j \in Heads(page'[q])
          PROVE  /\ Target(q, j)' \/ Complete(page'[q], j)
                 /\ Complete(page'[q], j) => Whole(page'[q], j)
        BY <1>5, <2>4, <2>5, <2>6
    <2>7. WholeInv'
        BY <1>8, <2>4, <2>6 DEF WholeInv, Is, Done, OddPcs
    <2> QED BY <2>3, <2>7
<1> QED BY <1>3, <1>7, <1>8 DEF Erases

LEMMA MoveEraseCopies ==
    ASSUME DInv, PageInvs', MoveErase
    PROVE  CopyInv' /\ WholeInv'
<1>1. pc = "mv_erase" /\ UNCHANGED job
    BY DEF MoveErase
<1>2. PICK c, f, i, n : c = Current /\ f = job.from /\ i = at.i /\ n = at.end
    OBVIOUS
<1>3. PICK d \in {"mv_free", "mv_entry"} : Erases(f, i, "mv_erase", d)
    BY <1>2, MoveEraseEntries DEF DInv
<1>4. PICK g, s, e : g = page[c] /\ s = page[f] /\ e = page[f].ent[i]
    OBVIOUS
<1>5. /\ c \in Pages /\ g.state = "ACTIVE" /\ s.state = "FREEING" /\ Sound(g) /\ Sound(s) /\ i \in Heads(s)
      /\ n = Span[e.k] /\ Phase(g, pc, at, job, s)
    BY <1>1, <1>2, <1>4, MoveContext DEF DInv
<1>6. e.k \in Keys /\ n \in 1 .. N
    BY <1>4, <1>5, HeadIs
<1>7. PICK m \in 0 .. N : Receiving(g, m, n, e)
    BY <1>1, <1>2, <1>4, <1>5 DEF Phase
<1>8. LastAt(g, m - n, e)
    BY <1>6, <1>7 DEF Receiving, Begun
<1>9. UniqueBut(e.k)
    <2>1. m - n \in Heads(g) /\ LastHead(g, m - n) /\ g.ent[m - n] = e
        BY <1>5, <1>8, LastAtIs
    <2>2. PICK a : a = m - n
        OBVIOUS
    <2>3. PageInvs /\ UniqueButLatest
        BY <1>1 DEF DInv, IInv, CopyInv
    <2> QED BY <1>4, <1>5, <2>1, <2>2, <2>3, LatestKey
<1>10. /\ UniqueButLatest' /\ (Wiped(page[f], page'[f], i) => Unique')
       /\ \A x \in Keys : Absent(x) => Absent(x)'
    BY <1>1, <1>3, <1>4, <1>6, <1>9, ErasesCopies
<1>11. job.k \in Keys /\ job.was = NoPage => Absent(job.k)'
    <2>1. job.k \in Keys /\ job.was = NoPage => Absent(job.k)
        BY <1>1 DEF DInv, CopyInv, AbsentPcs, MovePcs
    <2> QED BY <1>1, <1>10, <2>1 DEF Absent
<1>12. pc' = "mv_erase" \/ Unique'
    BY <1>3, <1>10 DEF Erases
<1>13. CopyInv'
    BY <1>1, <1>3, <1>10, <1>11, <1>12 DEF CopyInv, NoneTwice, SettledPcs, Erases
<1>14. WholeInv'
    <2>1. AllDone
        BY <1>1, DoneIs DEF DInv, OddPcs
    <2>2. \A q \in Pages : page[q].state = "ACTIVE" => \A j \in Heads(page[q]) : Complete(page[q], j)
        BY <2>1 DEF AllDone, AllWhole, InUse
    <2> QED BY <1>1, <1>3, <1>4, <1>5, <2>2, ErasesDone
<1> QED BY <1>13, <1>14

\* The last item of the last page.
LEMMA LastItemIs ==
    ASSUME NEW c, c = Current, HasSeq(c), Items(c) # {}
    PROVE  \E a \in Heads(page[c]) : LastHead(page[c], a) /\ LastItem = page[c].ent[a]
<1>1. PICK S, a : S = Items(c) /\ a = Highest(Items(c))
    OBVIOUS
<1>2. S = Heads(page[c])
    BY <1>1 DEF Items, With, Heads
<1>3. N-1 \in Nat /\ S \subseteq 0 .. N-1 /\ S # {}
    BY <1>1, <1>2, IdxIs DEF Heads
<1>4. a \in S /\ \A y \in S : a >= y
    BY <1>1, <1>3, HighestIs
<1>5. \A y \in S : y <= a
    BY <1>3, <1>4, IdxIs
<1> QED BY <1>1, <1>2, <1>4, <1>5 DEF LastHead, LastItem

\* Of two items with the same key one is the last item, and the other one is
\* older.
LEMMA OlderIs ==
    ASSUME DInv, pc = "ld_old",
           NEW p \in Pages, NEW q \in Pages, NEW i \in Idx, NEW j \in Idx, NEW k \in Keys,
           Holds(p, i, k), Holds(q, j, k), Latest(p, i)
    PROVE  (p = q /\ i = j) \/ Older # {}
<1>1. Shape /\ FlashInv /\ ListOK /\ list # <<>> /\ HasSeq(Current)
    BY DEF DInv, IInv, PageInvs, ListInv, StageInv, LoadPcs
<1>2. PICK c : c = Current
    OBVIOUS
<1>3. p = c /\ page[c].state = "ACTIVE" /\ i \in Heads(page[c]) /\ i \in Nat /\ page[c].ent[i].k = k
    BY <1>1, <1>2, ActiveIsLast, IdxIs DEF Latest, Is, Holds
<1>4. CASE q = c
    <2>1. Apart(page[c], N)
        BY <1>2, <1>3 DEF DInv, CopyInv, Is
    <2>2. i < N /\ j < N /\ j \in Heads(page[c]) /\ page[c].ent[j].k = k
        BY <1>4, IdxIs DEF Holds
    <2>3. i = j
        BY <1>3, <2>1, <2>2 DEF Apart
    <2> QED BY <1>3, <1>4, <2>3
<1>5. CASE q # c
    <2>1. q \in On(list)
        BY <1>1 DEF ListOK, Holds
    <2>2. PICK n \in 1 .. Len(list) : q = list[n]
        BY <2>1 DEF On
    <2>3. n \in 1 .. Len(list)-1
        <3>1. Len(list) \in Nat /\ n # Len(list)
            BY <1>1, <1>2, <1>5, <2>2, OnIs DEF Shape, Current
        <3> QED BY <3>1
    <2>4. Items(c) # {} /\ i \in Items(c)
        BY <1>1, <1>2, <1>3 DEF Items, With, Heads
    <2>5. PICK a \in Heads(page[c]) : LastHead(page[c], a) /\ LastItem = page[c].ent[a]
        BY <1>1, <1>2, <2>4, LastItemIs
    <2>6. a = i
        <3>1. i <= a /\ a <= i
            BY <1>3, <2>5 DEF LastHead, Latest
        <3> QED BY <1>3, <2>5, <3>1, IdxIs DEF Heads
    <2>7. j \in ItemsOf(list[n], LastItem.k)
        BY <1>3, <2>2, <2>5, <2>6 DEF Holds, ItemsOf, Items, With, Heads
    <2> QED BY <1>2, <2>3, <2>4, <2>7 DEF Older
<1> QED BY <1>4, <1>5

LEMMA EraseOlderCopies ==
    ASSUME DInv, PageInvs', EraseOlder
    PROVE  CopyInv' /\ WholeInv'
<1>1. pc = "ld_old" /\ pc' \in {"ld_old", "ld_freeing"} /\ UNCHANGED job
    BY DEF EraseOlder, AlterRange
<1>2. UniqueButLatest /\ \A q \in Pages : page[q].state = "ACTIVE" => Apart(page[q], N)
    BY <1>1 DEF DInv, CopyInv, Is
<1>3. AllDone
    BY <1>1, DoneIs DEF DInv, OddPcs
<1>4. Shape /\ FlashInv /\ ListOK /\ list # <<>> /\ HasSeq(Current) /\ PageInvs
    BY <1>1 DEF DInv, IInv, PageInvs, ListInv, StageInv, LoadPcs
<1>5. CASE Older = {}
    <2>1. pc' = "ld_freeing" /\ UNCHANGED page
        BY <1>5 DEF EraseOlder
    <2>2. Unique
        BY <1>1, <1>2, <1>5, OlderIs DEF Unique, UniqueButLatest
    <2>3. Retaining
        BY <2>1, RetainSame
    <2>4. CopyInv'
        BY <2>1, <2>2, <2>3, SettledStep DEF AbsentPcs, MovePcs
    <2> QED BY <1>3, <2>3, <2>4, DoneKept, DoneWhole
<1>6. CASE Older # {}
    <2>1. PICK n \in Older : \E i : /\ Erases(list[n], i, "ld_old", "ld_freeing")
                                    /\ page[list[n]].ent[i].k = LastItem.k
        BY <1>6, EraseOlderEntries DEF DInv
    <2>2. PICK i : Erases(list[n], i, "ld_old", "ld_freeing") /\ page[list[n]].ent[i].k = LastItem.k
        BY <2>1
    <2>3. PICK p, c, k : p = list[n] /\ c = Current /\ k = LastItem.k
        OBVIOUS
    <2>4. Erases(p, i, "ld_old", "ld_freeing") /\ page[p].ent[i].k = k /\ p \in Pages /\ Sound(page[p])
        BY <2>2, <2>3 DEF Erases, DInv, IInv, EntryInv
    <2>5. page[p].state # "ACTIVE"
        <3> SUFFICES ASSUME page[p].state = "ACTIVE" PROVE FALSE
            OBVIOUS
        <3>1. p = list[Len(list)]
            BY <1>4, <2>4, ActiveIsLast DEF Is, Current
        <3>2. Len(list) \in Nat /\ n \in 1 .. Len(list)-1
            BY <1>4, OnIs DEF Shape, Older
        <3>3. n \in 1 .. Len(list) /\ Len(list) \in 1 .. Len(list) /\ n # Len(list)
            BY <3>2
        <3> QED BY <1>4, <2>3, <3>1, <3>3 DEF ListOK, Distinct
    <2>6. k \in Keys
        <3>1. i \in Heads(page[p])
            BY <2>4 DEF Erases
        <3> QED BY <2>4, <3>1, HeadIs
    <2>7. UniqueBut(k)
        <3>1. CASE page[c].state = "ACTIVE"
            <4>1. PICK a \in Heads(page[c]) : LastHead(page[c], a) /\ LastItem = page[c].ent[a]
                BY <1>4, <2>3, LastItemIs DEF Older
            <4>2. c \in Pages
                BY <1>4, <2>3, OnIs DEF Shape, Current
            <4>3. page[c].ent[a].k = k
                BY <2>3, <4>1
            <4> QED BY <1>2, <1>4, <3>1, <4>1, <4>2, <4>3, LatestKey
        <3>2. CASE page[c].state # "ACTIVE"
            <4>1. \A q \in Pages : page[q].state # "ACTIVE"
                BY <1>4, <2>3, <3>2, ActiveIsLast DEF Is
            <4>2. Unique
                BY <1>2, <4>1, NoneLatest
            <4> QED BY <4>2 DEF Unique, UniqueBut
        <3> QED BY <3>1, <3>2
    <2>8. UniqueButLatest' /\ (Wiped(page[p], page'[p], i) => Unique')
        BY <1>1, <2>4, <2>6, <2>7, ErasesCopies
    <2>9. \A q \in Pages : page'[q].state = "ACTIVE" => Apart(page'[q], N)
        <3> SUFFICES ASSUME NEW q \in Pages, page'[q].state = "ACTIVE" PROVE Apart(page'[q], N)
            OBVIOUS
        <3>1. page'[q] = page[q]
            BY <2>4, <2>5 DEF Erases, Erasing
        <3> QED BY <1>2, <3>1
    <2>10. pc' = "ld_freeing" => Unique'
        BY <2>4, <2>8 DEF Erases
    <2>11. CopyInv'
        BY <1>1, <2>8, <2>9, <2>10 DEF CopyInv, NoneTwice, SettledPcs, AbsentPcs, MovePcs, Is
    <2>12. WholeInv'
        <3>1. \A q \in Pages : page[q].state = "ACTIVE" => \A j \in Heads(page[q]) : Complete(page[q], j)
            BY <1>3 DEF AllDone, AllWhole, InUse
        <3> QED BY <1>1, <2>4, <2>5, <3>1, ErasesDone
    <2> QED BY <2>11, <2>12
<1> QED BY <1>5, <1>6

-----------------------------------------------------------------------------
(* An entry of an item that is moved is counted.                           *)

LEMMA MoveStateCopies ==
    ASSUME DInv, PageInvs', MoveState
    PROVE  CopyInv' /\ WholeInv'
<1>1. pc = "mv_state" /\ UNCHANGED job
    BY DEF MoveState
<1>2. PICK c, f, i, n : c = Current /\ f = job.from /\ i = at.i /\ n = at.end
    OBVIOUS
<1>3. PICK g, s, e : g = page[c] /\ s = page[f] /\ e = page[f].ent[i]
    OBVIOUS
<1>4. /\ EntryInv' /\ \E m \in Idx : Counts(c, m, f, i, n)
      /\ at'.i = i /\ at'.end = n + 1
      /\ pc' = IF n + 1 = Span[e.k] THEN "mv_erase" ELSE "mv_entry"
    BY <1>2, <1>3, MoveStateEntries DEF DInv
<1>5. PICK m \in Idx : Counts(c, m, f, i, n)
    BY <1>4
<1>6. /\ c \in Pages /\ g.state = "ACTIVE" /\ s.state = "FREEING" /\ Sound(g) /\ Sound(s) /\ i \in Heads(s)
      /\ n \in 0 .. Span[e.k] - 1 /\ Below(s, N) /\ f \in Pages
    BY <1>1, <1>2, <1>3, MoveContext DEF DInv
<1>7. e.k \in Keys /\ Span[e.k] \in Nat /\ n \in Nat /\ n < Span[e.k] /\ i \in Nat
    <2>1. e.k \in Keys /\ Span[e.k] \in Nat /\ i \in Nat
        BY <1>3, <1>6, HeadIs
    <2> QED BY <1>6, <2>1
<1>8. PICK h : h = page'[c]
    OBVIOUS
<1>9. /\ Counting(c) /\ page'[f] = s /\ g.ent[m] = s.ent[i + n] /\ g.tab[m] = "EMPTY" /\ h.tab[m] = "WRITTEN"
      /\ Heads(h) = IF n = 0 THEN Heads(g) \cup {m} ELSE Heads(g)
      /\ Receiving(h, m + 1, n + 1, e)
    BY <1>3, <1>5, <1>8 DEF Counts
<1>10. /\ h.state = "ACTIVE" /\ h.ent = g.ent /\ \A q \in Pages : q # c => page'[q] = page[q]
       /\ \A x \in Idx : g.tab[x] = "WRITTEN" => h.tab[x] = "WRITTEN"
    BY <1>3, <1>8, <1>9 DEF Counting
<1>11. Sound(h)
    BY <1>4, <1>6, <1>8, <1>10 DEF EntryInv, HasSeq
<1>12. PICK w : w = m - n
    OBVIOUS
<1>13. m \in Nat /\ w \in Nat /\ w + n = m
    <2>1. m \in Nat /\ m + 1 \in n + 1 .. N
        BY <1>5, <1>9, IdxIs DEF Receiving, Begun
    <2> QED BY <1>7, <1>12, <2>1
<1>14. w \in Heads(h) /\ LastHead(h, w) /\ h.ent[w] = e /\ BlankFrom(h, m + 1)
    <2>1. (m + 1) - (n + 1) = w /\ n + 1 # 0
        BY <1>7, <1>12, <1>13
    <2>2. LastAt(h, w, e) /\ BlankFrom(h, m + 1)
        BY <1>9, <2>1 DEF Receiving, Begun
    <2> QED BY <1>11, <2>2, LastAtIs
<1>15. /\ UniqueButLatest' /\ (job.k \in Keys /\ job.was = NoPage => Absent(job.k)')
    <2>1. job.k \in Keys /\ job.was = NoPage => Absent(job.k)
        BY <1>1 DEF DInv, CopyInv, AbsentPcs, MovePcs
    <2>2. CASE n = 0
        <3>1. Unique
            BY <1>1, <1>2, <2>2 DEF DInv, CopyInv, NoneTwice
        <3>2. w = m
            BY <1>13, <2>2
        <3>3. /\ UniqueButLatest'
              /\ \A x \in Keys : x # e.k /\ Absent(x) => Absent(x)'
            BY <1>3, <1>5, <1>6, <1>7, <1>8, <1>9, <1>10, <1>14, <2>2, <3>1, <3>2, AddCopy
        <3>4. ~Absent(e.k)
            BY <1>3, <1>6 DEF Absent, Holds, HasSeq, Heads
        <3>5. job.k \in Keys /\ job.was = NoPage => Absent(job.k)'
            BY <1>1, <2>1, <3>3, <3>4 DEF Absent
        <3> QED BY <3>3, <3>5
    <2>3. CASE n # 0
        <3>1. \A q \in Pages : Fewer(page[q], page'[q]) /\ StaysActive(page[q], page'[q])
            <4> TAKE q \in Pages
            <4>1. CASE q = c
                BY <1>3, <1>6, <1>8, <1>9, <1>10, <2>3, <4>1 DEF Fewer, StaysActive, InUse
            <4>2. CASE q # c
                BY <1>10, <4>2 DEF Fewer, StaysActive
            <4> QED BY <4>1, <4>2
        <3>2. UniqueButLatest' /\ \A x \in Keys : Absent(x) => Absent(x)'
            BY <1>1, <3>1, FewerCopies DEF DInv, CopyInv
        <3>3. job.k \in Keys /\ job.was = NoPage => Absent(job.k)'
            BY <1>1, <2>1, <3>2 DEF Absent
        <3> QED BY <3>2, <3>3
    <2> QED BY <2>2, <2>3
<1>16. CopyInv'
    <2>1. pc' \in {"mv_erase", "mv_entry"} /\ at'.end # 0
        BY <1>4, <1>7
    <2> QED BY <1>1, <1>15, <2>1 DEF CopyInv, NoneTwice, SettledPcs
<1>17. \A j \in Heads(g) : Complete(g, j) \/ (n > 0 /\ LastHead(g, j) /\ Copied(g, j, n, s, i))
    <2>1. \A j \in Heads(g) : Done(g, j, pc, at, s)
        BY <1>1, <1>2, <1>3, <1>6 DEF DInv, WholeInv, Is
    <2> QED BY <1>1, <1>2, <2>1 DEF Done
<1>18. Copied(h, w, n + 1, s, i)
    <2>1. n > 0 => Copied(g, w, n, s, i)
        <3> SUFFICES ASSUME n > 0 PROVE Copied(g, w, n, s, i)
            OBVIOUS
        <3>1. w \in Heads(g) /\ LastHead(g, w)
            BY <1>7, <1>9, <1>14 DEF LastHead
        <3>2. ~Complete(g, w)
            <4>1. m \in Body(g, w)
                BY <1>7, <1>10, <1>13, <1>14 DEF Body
            <4> QED BY <1>9, <4>1 DEF Complete
        <3> QED BY <1>17, <3>1, <3>2
    <2> SUFFICES ASSUME NEW x \in 0 .. (n + 1) - 1
                 PROVE  w + x \in Idx /\ h.tab[w + x] = "WRITTEN" /\ h.ent[w + x] = s.ent[i + x]
        BY DEF Copied
    <2>2. CASE x = n
        BY <1>5, <1>9, <1>10, <1>13, <2>2
    <2>3. CASE x # n
        <3>1. x \in 0 .. n - 1 /\ n > 0
            BY <1>7, <2>3
        <3> QED BY <1>10, <2>1, <3>1 DEF Copied
    <2> QED BY <2>2, <2>3
<1>19. ASSUME NEW j \in Heads(h), j # w PROVE Complete(h, j) /\ Whole(h, j)
    <2>1. j \in Heads(g)
        BY <1>7, <1>9, <1>13, <1>19
    <2>2. Complete(g, j)
        <3>1. CASE n = 0
            BY <1>17, <2>1, <3>1
        <3>2. CASE n # 0
            <4>1. w \in Heads(g) /\ w <= j => w = j
                <5>1. j <= w /\ j \in Nat
                    BY <1>14, <1>19, IdxIs DEF LastHead, Heads
                <5> QED BY <1>13, <5>1
            <4>2. w \in Heads(g)
                BY <1>9, <1>14, <3>2
            <4> QED BY <1>17, <1>19, <2>1, <4>1, <4>2 DEF LastHead
        <3> QED BY <3>1, <3>2
    <2> QED BY <1>1, <1>3, <1>8, <1>9, <2>1, <2>2, CountStep
<1>20. CASE n + 1 = Span[e.k]
    <2>1. \A x \in Body(h, w) : x - w \in 0 .. (n + 1) - 1 /\ w + (x - w) = x
        BY <1>7, <1>13, <1>14, <1>20 DEF Body
    <2>2. Complete(h, w)
        BY <1>18, <2>1 DEF Copied, Complete
    <2>3. Whole(h, w)
        <3> SUFFICES ASSUME NEW x \in Body(h, w), x # w
                     PROVE  x \in Idx /\ h.ent[x] = Data(h.ent[w].k, h.ent[w].v)
            BY DEF Whole
        <3>1. PICK y : y = x - w
            OBVIOUS
        <3>2. y \in 0 .. (n + 1) - 1 /\ w + y = x /\ y # 0
            BY <1>13, <2>1, <3>1, <1>14
        <3>3. x \in Idx /\ h.ent[x] = s.ent[i + y]
            BY <1>18, <3>2 DEF Copied
        <3>4. i + y \in Body(s, i) /\ i + y # i
            BY <1>3, <1>7, <1>20, <3>2 DEF Body
        <3>5. Whole(s, i)
            BY <1>3, <1>6 DEF DInv, WholeInv, Is
        <3>6. s.ent[i + y] = Data(e.k, e.v)
            BY <1>3, <3>4, <3>5 DEF Whole
        <3> QED BY <1>14, <3>3, <3>6
    <2>4. \A j \in Heads(page'[c]) : Complete(page'[c], j) /\ Whole(page'[c], j)
        BY <1>8, <1>19, <2>2, <2>3
    <2>5. WholeInv'
        BY <1>1, <1>9, <2>4, CountDone
    <2> QED BY <1>16, <2>5
<1>21. CASE n + 1 # Span[e.k]
    <2>1. pc' = "mv_entry"
        BY <1>4, <1>21
    <2>2. ~Complete(h, w)
        <3>1. m + 1 \in Body(h, w)
            <4>1. n + 1 < Span[e.k] /\ m + 1 = w + (n + 1)
                BY <1>7, <1>13, <1>21
            <4> QED BY <1>7, <1>13, <1>14, <4>1 DEF Body
        <3>2. m + 1 \in Idx => m + 1 \in m + 1 .. N-1
            BY <1>13, IdxIs
        <3> QED BY <1>14, <3>1, <3>2 DEF Complete, BlankFrom
    <2>3. /\ \A q \in Pages : page'[q].state \in {"FULL", "FREEING"} =>
                 \A j \in Heads(page'[q]) : Whole(page'[q], j)
          /\ \A q \in Pages : page'[q].state = "ACTIVE" => q = c
        BY <1>1, <1>9, CountStep
    <2>4. \A j \in Heads(h) : /\ Complete(h, j) \/ (n + 1 > 0 /\ LastHead(h, j) /\ Copied(h, j, n + 1, s, i))
                              /\ Complete(h, j) => Whole(h, j)
        BY <1>7, <1>14, <1>18, <1>19, <2>2
    <2>5. page'[job'.from] = s
        BY <1>1, <1>2, <1>9
    <2>6. \A j \in Heads(h) : Done(h, j, pc', at', page'[job'.from])
        BY <1>4, <2>1, <2>4, <2>5 DEF Done, OddPcs
    <2>7. WholeInv'
        BY <1>8, <2>1, <2>3, <2>4, <2>6 DEF WholeInv, Is
    <2> QED BY <1>16, <2>7
<1> QED BY <1>20, <1>21

-----------------------------------------------------------------------------
(* Loading.                                                                *)

\* Items with all their entries have all their data.
Trusty(g) == \A j \in Heads(g) : Complete(g, j) => Whole(g, j)
FullWhole == \A q \in Pages : page[q].state \in {"FULL", "FREEING"} => \A j \in Heads(page[q]) : Whole(page[q], j)

LEMMA TrustIs ==
    ASSUME DInv, pc # "abort"
    PROVE  UniqueButLatest /\ FullWhole /\ \A q \in Pages : page[q].state = "ACTIVE" => Trusty(page[q])
BY DEF DInv, CopyInv, WholeInv, FullWhole, Trusty, Is

\* While the table of page p, which is the only active one, is read.
LEMMA ScanStep ==
    ASSUME pc' \in {"ld_half", "ld_scan", "ld_dup"}, UniqueButLatest', FullWhole',
           NEW p, p = at'.p, NEW h, h = page'[p],
           \A q \in Pages : page'[q].state = "ACTIVE" => q = p,
           Trusty(h),
           pc' \in {"ld_scan", "ld_dup"} => Apart(h, at'.i),
           pc' = "ld_scan" => \A j \in Heads(h) : j < at'.i => Complete(h, j),
           pc' = "ld_dup" => \A j \in Heads(h) : j < at'.i =>
              Hash[h.ent[j].k] = Hash[h.ent[at'.i].k] \/ Complete(h, j)
    PROVE  CopyInv' /\ WholeInv'
<1>1. CopyInv'
    <2>1. ~NoneTwice' /\ pc' # "w_erase" /\ pc' \notin AbsentPcs /\ pc' \notin {"ld_lists", "ld_old"}
        BY DEF NoneTwice, SettledPcs, AbsentPcs, MovePcs
    <2>2. pc' \in {"ld_scan", "ld_dup"} => Apart(page'[at'.p], at'.i)
        OBVIOUS
    <2> QED BY <2>1, <2>2 DEF CopyInv
<1>2. WholeInv'
    <2>1. ASSUME NEW q \in Pages, page'[q].state = "ACTIVE", NEW j \in Heads(page'[q])
          PROVE  /\ Done(page'[q], j, pc', at', page'[job'.from])
                 /\ Complete(page'[q], j) => Whole(page'[q], j)
        <3>1. q = p /\ page'[q] = h /\ j \in Heads(h)
            BY <2>1
        <3>2. Done(h, j, pc', at', page'[job'.from])
            BY <3>1 DEF Done, OddPcs
        <3> QED BY <3>1, <3>2 DEF Trusty
    <2>2. pc' # "w_erase"
        OBVIOUS
    <2> QED BY <2>1, <2>2 DEF WholeInv, FullWhole, Is
<1> QED BY <1>1, <1>2

LEMMA TrustKept ==
    ASSUME DInv, pc # "abort", UNCHANGED page
    PROVE  /\ UniqueButLatest' /\ FullWhole'
           /\ \A q \in Pages : page'[q].state = "ACTIVE" => Trusty(page'[q])
<1>1. UniqueButLatest /\ FullWhole /\ \A q \in Pages : page[q].state = "ACTIVE" => Trusty(page[q])
    BY TrustIs
<1>2. UniqueButLatest'
    BY <1>1, SameCopies
<1> QED BY <1>1, <1>2 DEF FullWhole

\* All active pages are as they should be after loading.
LEMMA LoadedStep ==
    ASSUME DInv, pc # "abort", UNCHANGED page, pc' \in {"ld_lists", "ld_old"},
           \A q \in Pages : page[q].state = "ACTIVE" =>
              Apart(page[q], N) /\ \A j \in Heads(page[q]) : Complete(page[q], j)
    PROVE  CopyInv' /\ WholeInv'
<1>1. UniqueButLatest' /\ FullWhole' /\ \A q \in Pages : page'[q].state = "ACTIVE" => Trusty(page'[q])
    BY TrustKept
<1>2. CopyInv'
    <2>1. ~NoneTwice' /\ pc' # "w_erase" /\ pc' \notin AbsentPcs /\ pc' \notin {"ld_scan", "ld_dup"}
        BY DEF NoneTwice, SettledPcs, AbsentPcs, MovePcs
    <2>2. \A p \in Pages : page'[p].state = "ACTIVE" => Apart(page'[p], N)
        OBVIOUS
    <2> QED BY <1>1, <2>1, <2>2 DEF CopyInv, Is
<1>3. AllDone'
    <2> SUFFICES ASSUME NEW q \in Pages, page'[q].state \in InUse PROVE AllWhole(page'[q])
        BY DEF AllDone
    <2>1. CASE page'[q].state = "ACTIVE"
        BY <1>1, <2>1 DEF AllWhole, Trusty
    <2>2. CASE page'[q].state \in {"FULL", "FREEING"}
        BY <1>1, <2>2 DEF AllWhole, FullWhole
    <2> QED BY <2>1, <2>2 DEF InUse
<1>4. WholeInv'
    BY <1>3, DoneWhole
<1> QED BY <1>2, <1>4

LEMMA PowerOnCopies ==
    ASSUME DInv, PowerOn
    PROVE  CopyInv' /\ WholeInv'
<1>1. pc = "off" /\ LoadPage(0) /\ UNCHANGED page
    BY DEF PowerOn
<1>2. \A q \in Pages : q >= 0
    BY DEF Pages
<1>3. CASE pc' = "ld_lists" /\ \A q \in Pages : q >= 0 => page[q].state # "ACTIVE"
    BY <1>1, <1>2, <1>3, LoadedStep
<1>4. ASSUME pc' = "ld_half", NEW q \in Pages, page[q].state = "ACTIVE", at'.p = q
      PROVE  CopyInv' /\ WholeInv'
    <2>1. PICK h : h = page'[q]
        OBVIOUS
    <2>2. UniqueButLatest' /\ FullWhole' /\ Trusty(h)
        BY <1>1, <1>4, <2>1, TrustKept
    <2>3. \A r \in Pages : page'[r].state = "ACTIVE" => r = q
        BY <1>1, <1>4, OneActive DEF IInv, DInv
    <2> QED BY <1>4, <2>1, <2>2, <2>3, ScanStep
<1> QED BY <1>1, <1>3, <1>4, LoadPageAt DEF DInv, IInv, PageInvs, PlaceFor

LEMMA LoadNextPageCopies ==
    ASSUME DInv, PageInvs', LoadNextPage
    PROVE  CopyInv' /\ WholeInv'
<1>1. pc = "ld_scan" /\ UNCHANGED page
    BY DEF LoadNextPage
<1>2. PICK p, g : p = at.p /\ g = page[p]
    OBVIOUS
<1>3. p \in Pages /\ page[p].state = "ACTIVE"
    BY <1>1, <1>2, LoadContext DEF DInv
<1>4. pc' = "ld_lists" /\ \A j \in Heads(g) : j < at.i
    BY <1>2, LoadNextPageEntries DEF DInv
<1>5. Apart(g, at.i) /\ \A j \in Heads(g) : j < at.i => Complete(g, j)
    BY <1>1, <1>2, <1>3 DEF DInv, CopyInv, WholeInv, Done, Is
<1>6. Apart(g, N) /\ \A j \in Heads(g) : Complete(g, j)
    BY <1>4, <1>5 DEF Apart
<1>7. \A r \in Pages : page[r].state = "ACTIVE" => r = p
    BY <1>3, OneActive DEF IInv, DInv
<1> QED BY <1>1, <1>2, <1>4, <1>6, <1>7, LoadedStep

LEMMA BuildListsCopies ==
    ASSUME DInv, BuildLists
    PROVE  CopyInv' /\ WholeInv'
<1>1. pc = "ld_lists" /\ UNCHANGED page /\ pc' = IF Loaded = {} THEN "ld_first" ELSE "ld_old"
    BY DEF BuildLists
<1>2. CASE Loaded = {}
    <2>1. \A p \in Pages : ~HasSeq(p)
        BY <1>2 DEF Loaded
    <2>2. Unique
        BY <2>1 DEF Unique, Holds
    <2>3. Retaining
        BY <1>1, RetainSame
    <2>4. CopyInv'
        BY <1>1, <1>2, <2>2, <2>3, SettledStep DEF AbsentPcs, MovePcs
    <2>5. AllDone'
        BY <1>1, <2>3, DoneIs, DoneKept DEF DInv, OddPcs
    <2> QED BY <2>4, <2>5, DoneWhole
<1>3. CASE Loaded # {}
    <2>1. \A q \in Pages : page[q].state = "ACTIVE" => Apart(page[q], N)
        BY <1>1 DEF DInv, CopyInv, Is
    <2>2. \A q \in Pages : page[q].state = "ACTIVE" => \A j \in Heads(page[q]) : Complete(page[q], j)
        BY <1>1 DEF DInv, WholeInv, Done, OddPcs, Is
    <2> QED BY <1>1, <1>3, <2>1, <2>2, LoadedStep
<1> QED BY <1>2, <1>3

LEMMA DropTrusty ==
    ASSUME NEW g, NEW h, NEW i, SameItems(g, h), h.tab[i] = "ERASED",
           \A x \in Idx : x # i => h.tab[x] = g.tab[x] /\ h.ent[x] = g.ent[x], Trusty(g)
    PROVE  Trusty(h)
<1> SUFFICES ASSUME NEW j \in Heads(h), Complete(h, j) PROVE Whole(h, j)
    BY DEF Trusty
<1>1. j \in Heads(g) /\ h.ent[j] = g.ent[j] /\ Body(h, j) = Body(g, j)
    BY SameItemsIs DEF SameItems
<1>2. \A x \in Body(g, j) : x \in Idx /\ x # i /\ h.tab[x] = "WRITTEN"
    BY <1>1 DEF Complete
<1>3. Complete(g, j)
    BY <1>2 DEF Complete
<1>4. Whole(g, j)
    BY <1>1, <1>3 DEF Trusty
<1> QED BY <1>1, <1>2, <1>4 DEF Whole

LEMMA LoadHalfCopies ==
    ASSUME DInv, PageInvs', LoadHalf
    PROVE  CopyInv' /\ WholeInv'
<1>1. pc = "ld_half"
    BY DEF LoadHalf
<1>2. PICK p, g, h : p = at.p /\ g = page[p] /\ h = page'[p]
    OBVIOUS
<1>3. p \in Pages /\ page[p].state = "ACTIVE"
    BY <1>1, <1>2, LoadContext DEF DInv
<1>4. \A q \in Pages : page[q].state = "ACTIVE" => q = p
    BY <1>3, OneActive DEF IInv, DInv
<1>5. UniqueButLatest /\ FullWhole /\ Trusty(g)
    BY <1>1, <1>2, <1>3, TrustIs
<1>6. pc' \in {"ld_half", "ld_scan"} => at'.p \in Pages /\ page'[at'.p].state = "ACTIVE"
    BY DEF PageInvs, StageInv, Is
<1>7. CASE pc' = "ld_half" /\ Drops(p, at.i)
    <2>1. PICK i : i = at.i
        OBVIOUS
    <2>2. /\ i \in Idx /\ h.state = "ACTIVE" /\ \A q \in Pages : q # p => page'[q] = page[q]
          /\ SameItems(g, h) /\ h.tab[i] = "ERASED"
          /\ \A x \in Idx : x # i => h.tab[x] = g.tab[x] /\ h.ent[x] = g.ent[x]
        BY <1>2, <1>7, <2>1 DEF Drops
    <2>3. \A q \in Pages : page'[q].state = "ACTIVE" => q = p
        BY <1>4, <2>2
    <2>4. at'.p = p
        BY <1>6, <1>7, <2>3
    <2>5. \A q \in Pages : Fewer(page[q], page'[q]) /\ StaysActive(page[q], page'[q])
        BY <1>2, <1>3, <2>2 DEF Fewer, StaysActive, SameItems, InUse
    <2>6. UniqueButLatest'
        BY <1>5, <2>5, FewerCopies
    <2>7. FullWhole'
        BY <1>2, <1>5, <2>2 DEF FullWhole
    <2>8. Trusty(h)
        BY <1>5, <2>2, DropTrusty
    <2> QED BY <1>2, <1>7, <2>3, <2>4, <2>6, <2>7, <2>8, ScanStep
<1>8. CASE pc' = "ld_scan" /\ UNCHANGED page /\ at'.i = 0
    <2>1. UniqueButLatest' /\ FullWhole' /\ Trusty(h)
        BY <1>1, <1>2, <1>3, <1>8, TrustKept
    <2>2. \A q \in Pages : page'[q].state = "ACTIVE" => q = p
        BY <1>4, <1>8
    <2>3. at'.p = p
        BY <1>6, <1>8, <2>2
    <2>4. \A j \in Heads(h) : ~(j < 0)
        BY IdxIs DEF Heads
    <2>5. Apart(h, at'.i) /\ \A j \in Heads(h) : j < at'.i => Complete(h, j)
        BY <1>8, <2>4 DEF Apart
    <2> QED BY <1>2, <1>8, <2>1, <2>2, <2>3, <2>5, ScanStep
<1> QED BY <1>2, <1>7, <1>8, LoadHalfEntries DEF DInv

\* Between the first entry of a complete item and its end no other item begins.
LEMMA PassHeads ==
    ASSUME NEW g, Sound(g), NEW i, NEW b, Passes(g, i, b), NEW j \in Heads(g), j < b
    PROVE  j < i \/ j = i
<1>1. PICK s : s = Span[g.ent[i].k]
    OBVIOUS
<1>2. i \in Heads(g) /\ b = i + s
    BY <1>1 DEF Passes
<1>3. i \in Nat /\ s \in 1 .. N /\ \A x \in Body(g, i) \cap Idx : x # i => g.ent[x].t # "item"
    BY <1>1, <1>2, HeadIs
<1>4. j \in Idx /\ j \in Nat /\ g.ent[j].t = "item"
    BY HeadIs
<1>5. s \in Nat /\ i + s - 1 = (i + s) - 1
    BY <1>3, IdxIs
<1>6. ASSUME i < j PROVE FALSE
    <2>1. j \in i .. i + s - 1
        BY <1>2, <1>3, <1>4, <1>5, <1>6
    <2>2. j \in Body(g, i)
        BY <1>1, <2>1 DEF Body
    <2>3. j # i
        BY <1>3, <1>4, <1>6
    <2> QED BY <1>3, <1>4, <2>2, <2>3
<1> QED BY <1>3, <1>4, <1>6

LEMMA LoadScanCopies ==
    ASSUME DInv, PageInvs', LoadScan
    PROVE  CopyInv' /\ WholeInv'
<1>1. pc = "ld_scan"
    BY DEF LoadScan
<1>2. PICK p, i, g, h : p = at.p /\ i = at.i /\ g = page[p] /\ h = page'[p]
    OBVIOUS
<1>3. p \in Pages /\ page[p].state = "ACTIVE" /\ Sound(g) /\ Phase(g, pc, at, job, page[job.from])
    BY <1>1, <1>2, LoadContext DEF DInv
<1>4. \A q \in Pages : page[q].state = "ACTIVE" => q = p
    BY <1>3, OneActive DEF IInv, DInv
<1>5. Apart(g, i) /\ \A j \in Heads(g) : j < i => Complete(g, j)
    BY <1>1, <1>2, <1>3 DEF DInv, CopyInv, WholeInv, Done, Is
<1>6. i \in Nat /\ \A j \in Heads(g) : j \in Nat
    <2>1. Scanning(g, i, at.end)
        BY <1>1, <1>2, <1>3 DEF Phase
    <2>2. i \in 0 .. N
        BY <2>1 DEF Scanning
    <2> QED BY <2>2, IdxIs DEF Heads
<1>7. at'.p = p
    BY <1>2, LoadScanEntries DEF DInv
<1>8. ASSUME UNCHANGED page PROVE /\ UniqueButLatest' /\ FullWhole' /\ Trusty(h) /\ h = g
                                  /\ \A q \in Pages : page'[q].state = "ACTIVE" => q = p
    BY <1>1, <1>2, <1>3, <1>4, <1>8, TrustKept
<1>9. CASE pc' = "ld_scan" /\ UNCHANGED page /\ at'.i = i + 1 /\ g.tab[i] = "ERASED"
    <2>1. /\ UniqueButLatest' /\ FullWhole' /\ Trusty(h) /\ h = g
          /\ \A q \in Pages : page'[q].state = "ACTIVE" => q = p
        BY <1>8, <1>9
    <2>2. ASSUME NEW j \in Heads(g), j < i + 1 PROVE j < i
        <3>1. j # i
            BY <1>9 DEF Heads
        <3> QED BY <1>6, <2>2, <3>1
    <2>3. Apart(h, at'.i) /\ \A j \in Heads(h) : j < at'.i => Complete(h, j)
        BY <1>5, <1>9, <2>1, <2>2 DEF Apart
    <2> QED BY <1>2, <1>7, <1>9, <2>1, <2>3, ScanStep
<1>10. CASE Erases(p, i, "ld_scan", "ld_scan") /\ at'.i = i
    <2>1. pc' = "ld_scan"
        BY <1>10 DEF Erases
    <2>2. UniqueButLatest'
        BY <1>1, <1>10, ErasesCopies
    <2>3. /\ FullWhole' /\ \A q \in Pages : page'[q].state = "ACTIVE" => q = p
          /\ h.state = "ACTIVE"
        <3>1. h.state = g.state
            BY <1>2, <1>10 DEF Erases, Erasing
        <3> QED BY <1>1, <1>2, <1>3, <1>4, <1>10, <3>1, ErasesStep DEF FullWhole
    <2>4. ASSUME NEW j \in Heads(h)
          PROVE  /\ j \in Heads(g) /\ h.ent[j] = g.ent[j] /\ (Complete(h, j) => Whole(h, j))
                 /\ Complete(g, j) /\ j # i => Complete(h, j)
        BY <1>1, <1>2, <1>3, <1>10, <2>3, <2>4, ErasesStep
    <2>5. Trusty(h)
        BY <2>4 DEF Trusty
    <2>6. Apart(h, at'.i)
        BY <1>5, <1>10, <2>4 DEF Apart
    <2>7. ASSUME NEW j \in Heads(h), j < at'.i PROVE Complete(h, j)
        <3>1. j < i /\ j # i
            BY <1>6, <1>10, <2>4, <2>7
        <3> QED BY <1>5, <2>4, <3>1
    <2> QED BY <1>2, <1>7, <2>1, <2>2, <2>3, <2>5, <2>6, <2>7, ScanStep
<1>11. CASE /\ pc' = "ld_scan" /\ UNCHANGED page /\ Passes(g, i, at'.i)
            /\ \A d \in Heads(g) : d < i => Hash[g.ent[d].k] # Hash[g.ent[i].k]
    <2>1. /\ UniqueButLatest' /\ FullWhole' /\ Trusty(h) /\ h = g
          /\ \A q \in Pages : page'[q].state = "ACTIVE" => q = p
        BY <1>8, <1>11
    <2>2. \A j \in Heads(g) : j < at'.i => j < i \/ j = i
        BY <1>3, <1>11, PassHeads
    <2>3. \A j \in Heads(h) : j < at'.i => Complete(h, j)
        BY <1>5, <1>11, <2>1, <2>2 DEF Passes
    <2>4. Apart(h, at'.i)
        BY <1>5, <1>11, <2>1, <2>2 DEF Apart
    <2> QED BY <1>2, <1>7, <1>11, <2>1, <2>3, <2>4, ScanStep
<1>12. CASE pc' = "ld_dup" /\ UNCHANGED page /\ at'.i = i
    <2>1. /\ UniqueButLatest' /\ FullWhole' /\ Trusty(h) /\ h = g
          /\ \A q \in Pages : page'[q].state = "ACTIVE" => q = p
        BY <1>8, <1>12
    <2>2. Apart(h, at'.i) /\ \A j \in Heads(h) : j < at'.i => Complete(h, j)
        BY <1>5, <1>12, <2>1
    <2> QED BY <1>2, <1>7, <1>12, <2>1, <2>2, ScanStep
<1> QED BY <1>2, <1>9, <1>10, <1>11, <1>12, LoadScanEntries DEF DInv

LEMMA LoadDuplicateCopies ==
    ASSUME DInv, PageInvs', LoadDuplicate
    PROVE  CopyInv' /\ WholeInv'
<1>1. pc = "ld_dup"
    BY DEF LoadDuplicate
<1>2. PICK p, i, g, h : p = at.p /\ i = at.i /\ g = page[p] /\ h = page'[p]
    OBVIOUS
<1>3. p \in Pages /\ page[p].state = "ACTIVE" /\ Sound(g) /\ Phase(g, pc, at, job, page[job.from])
    BY <1>1, <1>2, LoadContext DEF DInv
<1>4. \A q \in Pages : page[q].state = "ACTIVE" => q = p
    BY <1>3, OneActive DEF IInv, DInv
<1>5. /\ Apart(g, i)
      /\ \A j \in Heads(g) : j < i => Hash[g.ent[j].k] = Hash[g.ent[i].k] \/ Complete(g, j)
    BY <1>1, <1>2, <1>3 DEF DInv, CopyInv, WholeInv, Done, Is
<1>6. i \in Heads(g) /\ Complete(g, i)
    BY <1>1, <1>2, <1>3 DEF Phase, Complete
<1>7. \A j \in Heads(g) : j \in Nat
    BY IdxIs DEF Heads
<1>8. PICK d \in Heads(g) : d < i /\ Hash[g.ent[d].k] = Hash[g.ent[i].k] /\ Erases(p, d, "ld_dup", "ld_scan")
    BY <1>2, LoadDuplicateEntries DEF DInv
<1>9. /\ at'.p = p /\ (pc' = "ld_dup" => at'.i = i)
      /\ pc' = "ld_scan" => at'.i = i + Span[g.ent[i].k]
    BY <1>2, LoadDuplicateEntries DEF DInv
<1>10. UniqueButLatest'
    BY <1>1, <1>8, ErasesCopies
<1>11. FullWhole' /\ (\A q \in Pages : page'[q].state = "ACTIVE" => q = p) /\ h.state = "ACTIVE"
    <2>1. h.state = g.state
        BY <1>2, <1>8 DEF Erases, Erasing
    <2> QED BY <1>1, <1>2, <1>3, <1>4, <1>8, <2>1, ErasesStep DEF FullWhole
<1>12. ASSUME NEW j \in Heads(h)
       PROVE  /\ j \in Heads(g) /\ h.ent[j] = g.ent[j] /\ (Complete(h, j) => Whole(h, j))
              /\ Complete(g, j) /\ j # d => Complete(h, j)
    BY <1>1, <1>2, <1>3, <1>8, <1>11, <1>12, ErasesStep
<1>13. Trusty(h)
    BY <1>12 DEF Trusty
<1>14. \A j \in Heads(g) : j < i /\ Hash[g.ent[j].k] = Hash[g.ent[i].k] => j = d
    BY <1>5, <1>8 DEF Apart
<1>15. \A j \in Heads(g) : j < i /\ j # d => Complete(g, j)
    BY <1>5, <1>14
<1>16. CASE pc' = "ld_dup"
    <2>1. SameItems(g, h)
        BY <1>2, <1>8, <1>16 DEF Erases
    <2>2. h.ent[i] = g.ent[i]
        BY <1>6, <2>1 DEF SameItems
    <2>3. Apart(h, at'.i)
        BY <1>5, <1>9, <1>12, <1>16 DEF Apart
    <2>4. \A j \in Heads(h) : j < at'.i => Hash[h.ent[j].k] = Hash[h.ent[at'.i].k] \/ Complete(h, j)
        BY <1>8, <1>9, <1>12, <1>15, <1>16, <2>2
    <2> QED BY <1>2, <1>9, <1>10, <1>11, <1>13, <1>16, <2>3, <2>4, ScanStep
<1>17. CASE pc' = "ld_scan"
    <2>1. Heads(h) = Heads(g) \ {d}
        BY <1>2, <1>8, <1>17 DEF Erases, Wiped
    <2>2. Passes(g, i, at'.i)
        BY <1>6, <1>9, <1>17 DEF Passes
    <2>3. \A j \in Heads(h) : j < at'.i => j \in Heads(g) /\ j # d /\ (j < i \/ j = i)
        BY <1>3, <2>1, <2>2, PassHeads
    <2>4. \A j \in Heads(h) : j < at'.i => Complete(h, j)
        BY <1>6, <1>12, <1>15, <2>3
    <2>5. Apart(h, at'.i)
        BY <1>5, <1>12, <1>14, <2>3 DEF Apart
    <2> QED BY <1>2, <1>9, <1>10, <1>11, <1>13, <1>17, <2>4, <2>5, ScanStep
<1>18. pc' \in {"ld_dup", "ld_scan"}
    BY <1>8 DEF Erases
<1> QED BY <1>16, <1>17, <1>18

-----------------------------------------------------------------------------
(* Nothing is stored twice.                                                *)

LEMMA DInvInit == Init => DInv
<1> SUFFICES ASSUME Init PROVE DInv
    OBVIOUS
<1>1. IInv
    BY IInvInit
<1>2. pc = "off" /\ \A p \in Pages : page[p].state = "UNINITIALIZED"
    BY DEF Init, ErasedPage
<1>3. \A p \in Pages : ~HasSeq(p) /\ ~Is(p, "ACTIVE") /\ ~Is(p, "FULL") /\ ~Is(p, "FREEING")
    BY <1>2 DEF HasSeq, Is
<1>4. UniqueButLatest
    BY <1>3 DEF UniqueButLatest, Holds
<1>5. CopyInv
    BY <1>2, <1>4 DEF CopyInv, NoneTwice, SettledPcs, AbsentPcs, MovePcs
<1>6. WholeInv
    BY <1>3 DEF WholeInv
<1> QED BY <1>1, <1>5, <1>6 DEF DInv

LEMMA CopiesStutter ==
    ASSUME DInv, UNCHANGED vars
    PROVE  CopyInv' /\ WholeInv'
<1>1. UNCHANGED page /\ UNCHANGED pc /\ UNCHANGED job /\ UNCHANGED at /\ UNCHANGED list
    BY DEF vars
<1>2. CopyInv /\ WholeInv
    BY DEF DInv
<1>3. CopyInv'
    <2>1. (UniqueButLatest => UniqueButLatest') /\ (Unique => Unique')
        BY <1>1, SameCopies
    <2>2. NoneTwice' = NoneTwice
        BY <1>1 DEF NoneTwice
    <2>3. UniqueBut(job.k) => UniqueBut(job.k)'
        BY <1>1 DEF UniqueBut, Holds, HasSeq
    <2>4. Absent(job.k) => Absent(job.k)'
        BY <1>1 DEF Absent, Holds, HasSeq
    <2> QED BY <1>1, <1>2, <2>1, <2>2, <2>3, <2>4 DEF CopyInv, Is
<1>4. WholeInv'
    <2>1. \A q, k : ItemsOf(q, k)' = ItemsOf(q, k)
        BY <1>1 DEF ItemsOf, Items, With, HasSeq
    <2>2. \A q, k : findItem(q, k)' = findItem(q, k)
        BY <2>1 DEF findItem
    <2>3. Holding(job.k)' = Holding(job.k)
        BY <1>1, <2>1 DEF Holding
    <2>4. OldPage' = OldPage
        BY <1>1, <2>3 DEF OldPage, FindPage
    <2>5. findItem(OldPage, job.k)' = findItem(OldPage, job.k)
        BY <1>1, <2>1, <2>4 DEF findItem
    <2>6. \A p, i : Target(p, i)' <=> Target(p, i)
        BY <2>4, <2>5 DEF Target
    <2>7. \A p, s : Is(p, s)' <=> Is(p, s)
        BY <1>1 DEF Is
    <2> QED BY <1>1, <1>2, <2>6, <2>7 DEF WholeInv
<1> QED BY <1>3, <1>4

LEMMA DInvStep == DInv /\ [Next]_vars => DInv'
<1> SUFFICES ASSUME DInv, [Next]_vars PROVE DInv'
    OBVIOUS
<1>1. IInv'
    BY IInvStep DEF DInv
<1>2. PageInvs'
    BY <1>1 DEF IInv
<1> SUFFICES CopyInv' /\ WholeInv'
    BY <1>1 DEF DInv
<1>3. CASE UNCHANGED vars
    BY <1>3, CopiesStutter
<1>4. CASE Call
    BY <1>4, SetCopies, EraseCopies DEF Call
<1>5. CASE WriteItem
    BY <1>2, <1>5, WriteQuiet, WriteEntryStateCopies, WriteDataCopies, WriteDataStateCopies,
       EraseOldCopies DEF WriteItem
<1>6. CASE Move
    BY <1>2, <1>6, MoveQuiet, MoveEntryCopies, MoveStateCopies, MoveEraseCopies DEF Move
<1>7. CASE Load
    BY <1>2, <1>7, PowerOnCopies, LoadHalfCopies, LoadScanCopies, LoadDuplicateCopies,
       LoadNextPageCopies, BuildListsCopies, EraseOlderCopies, LoadQuiet DEF Load
<1>8. CASE PowerCut
    BY <1>2, <1>8, PowerCutCopies
<1> QED BY <1>3, <1>4, <1>5, <1>6, <1>7, <1>8 DEF Next

\* Unless an assertion fails: two items with the same key exist only while one
\* replaces the other or is its copy, and then one of them is the last item of
\* the active page, where load() looks for it; an item of the active page is
\* incomplete only while it is being written, moved, erased or searched for,
\* and what is complete has all its data.
THEOREM OneCopyButTheLast == Spec => []DInv
BY DInvInit, DInvStep, PTL DEF Spec

LEMMA ItemsAre ==
    ASSUME NEW p, NEW k
    PROVE  ItemsOf(p, k) = {i \in Idx : Holds(p, i, k)}
BY DEF ItemsOf, Items, With, Holds, Heads

\* What ValueAt() and Incomplete() say of an item that is as it should be.
LEMMA ValueIs ==
    ASSUME NEW p \in Pages, NEW i \in Heads(page[p]), Whole(page[p], i)
    PROVE  /\ ValueAt(p, i) = page[p].ent[i].v
           /\ Complete(page[p], i) => ~Incomplete(p, i)
<1>1. Entries(p, i) = Body(page[p], i)
    BY EntriesAre
<1>2. PICK e : e = page[p].ent[i]
    OBVIOUS
<1>3. \A j \in Entries(p, i) \ {i} : j \in Idx /\ page[p].ent[j] = Data(e.k, e.v)
    BY <1>1, <1>2 DEF Whole
<1>4. ValueAt(p, i) = e.v
    BY <1>2, <1>3 DEF ValueAt
<1>5. Complete(page[p], i) => ~Incomplete(p, i)
    BY <1>1 DEF Complete, Incomplete, With
<1> QED BY <1>2, <1>4, <1>5

LEMMA NewestOne ==
    ASSUME NEW m \in Int, NEW v
    PROVE  Newest({<<m, v>>})[2] = v
<1> DEFINE x == <<m, v>>
<1>1. x \in {x} /\ \A y \in {x} : y[1] <= x[1]
    OBVIOUS
<1>2. Newest({x}) = x
    BY <1>1 DEF Newest
<1> QED BY <1>2

\* What is stored with key k: nothing, or one item, which findItem() finds.
LEMMA StoredOnce ==
    ASSUME DInv, pc = "idle", NEW k \in Keys, NEW p, p = FindPage(k), p \in Pages,
           NEW i, i = findItem(p, k)
    PROVE  /\ \A q \in Pages : ItemsOf(q, k) = IF q = p THEN {i} ELSE {}
           /\ Survivors(p, k) = {i} /\ ValueAt(p, i) = page[p].ent[i].v /\ i \in Idx
<1>1. Unique /\ AllDone
    BY DoneIs DEF DInv, CopyInv, NoneTwice, SettledPcs, OddPcs
<1>2. HasSeq(p) /\ KeyIn(page[p], k)
    BY FindPageHas DEF DInv, IInv, PageInvs
<1>3. i \in Heads(page[p]) /\ page[p].ent[i].k = k
    BY <1>2, FindItemIs
<1>4. i \in Idx /\ Holds(p, i, k)
    BY <1>2, <1>3 DEF Holds, Heads
<1>5. \A q \in Pages, j \in Idx : Holds(q, j, k) => q = p /\ j = i
    BY <1>1, <1>4 DEF Unique
<1>6. \A q \in Pages : ItemsOf(q, k) = IF q = p THEN {i} ELSE {}
    BY <1>4, <1>5, ItemsAre
<1>7. Whole(page[p], i) /\ (page[p].state = "ACTIVE" => Complete(page[p], i))
    BY <1>1, <1>2, <1>3 DEF AllDone, AllWhole, HasSeq, InUse
<1>8. ValueAt(p, i) = page[p].ent[i].v /\ (page[p].state = "ACTIVE" => ~Incomplete(p, i))
    BY <1>3, <1>7, ValueIs
<1>9. Survivors(p, k) = {i}
    BY <1>6, <1>8 DEF Survivors
<1> QED BY <1>4, <1>6, <1>8, <1>9

\* When no call is in progress, no key is stored twice, and what findItem() and
\* readItem() find is the one item that is stored, with all its data: whatever
\* was written, erased and moved before, and wherever power failed.
THEOREM NoKeyStoredTwice == Spec => []NoDuplicates
<1>1. DInv => NoDuplicates
    <2> SUFFICES ASSUME DInv, pc = "idle", NEW k \in Keys
                 PROVE  /\ Cardinality(UNION {{<<p, i>> : i \in ItemsOf(p, k)} : p \in Pages}) <= 1
                        /\ readItem(k) = Stored(k)
        BY DEF NoDuplicates
    <2>1. PICK p, i : p = FindPage(k) /\ i = findItem(p, k)
        OBVIOUS
    <2>2. PICK U : U = UNION {{<<q, j>> : j \in ItemsOf(q, k)} : q \in Pages}
        OBVIOUS
    <2>3. PICK C : C = UNION {{<<page[q].seq * N + j, ValueAt(q, j)>> : j \in Survivors(q, k)} : q \in Pages}
        OBVIOUS
    <2>4. Stored(k) = IF C = {} THEN NoValue ELSE Newest(C)[2]
        BY <2>3 DEF Stored
    <2>5. \A q \in Pages : Survivors(q, k) \subseteq ItemsOf(q, k)
        BY DEF Survivors
    <2>6. CASE p \notin Pages
        <3>1. Shape /\ ListOK
            BY DEF DInv, IInv, PageInvs, ListInv, LoadPcs
        <3>2. Absent(k)
            BY <2>1, <2>6, <3>1, FindNone
        <3>3. \A q \in Pages : ItemsOf(q, k) = {}
            BY <3>2, ItemsAre DEF Absent
        <3>4. \A q \in Pages : Survivors(q, k) = {}
            BY <2>5, <3>3
        <3>5. U = {} /\ C = {}
            BY <2>2, <2>3, <3>3, <3>4
        <3>6. Cardinality(U) <= 1
            BY <3>5, FS_EmptySet
        <3>7. FindPage(k) = NoPage
            BY <2>1, <2>6, <3>1, FindPageHas DEF FindPage
        <3>8. readItem(k) = NoValue
            BY <3>7 DEF readItem
        <3> QED BY <2>2, <2>4, <3>5, <3>6, <3>8
    <2>7. CASE p \in Pages
        <3>1. /\ \A q \in Pages : ItemsOf(q, k) = IF q = p THEN {i} ELSE {}
              /\ Survivors(p, k) = {i} /\ ValueAt(p, i) = page[p].ent[i].v /\ i \in Idx
            BY <2>1, <2>7, StoredOnce
        <3>2. \A q \in Pages : q # p => Survivors(q, k) = {}
            BY <2>5, <3>1
        <3>3. PICK m, v : m = page[p].seq * N + i /\ v = page[p].ent[i].v
            OBVIOUS
        <3>4. m \in Int
            <4>1. page[p].seq \in Nat
                BY <2>7, NvsAssumption DEF DInv, IInv, PageInvs, Shape, PagesOK, IsPage
            <4> QED BY <3>1, <3>3, <4>1, IdxIs, NvsAssumption
        <3>5. U = {<<p, i>>}
            BY <2>2, <2>7, <3>1
        <3>6. C = {<<m, v>>}
            BY <2>3, <2>7, <3>1, <3>2, <3>3
        <3>7. Cardinality(U) <= 1
            <4>1. PICK z : z = <<p, i>>
                OBVIOUS
            <4>2. Cardinality({z}) = 1
                BY FS_Singleton, Zenon
            <4> QED BY <3>5, <4>1, <4>2
        <3>8. Stored(k) = v
            BY <2>4, <3>4, <3>6, NewestOne
        <3>9. p # NoPage
            BY <2>7, JobIs
        <3>10. readItem(k) = v
            BY <2>1, <3>3, <3>9 DEF readItem
        <3> QED BY <2>2, <3>7, <3>8, <3>10
    <2> QED BY <2>6, <2>7
<1> QED BY <1>1, OneCopyButTheLast, PTL
=============================================================================
