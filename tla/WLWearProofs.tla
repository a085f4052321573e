---------------------------- MODULE WLWearProofs ----------------------------
(***************************************************************************)
(* The bound on wear, for every number of sectors and every update rate.   *)
(***************************************************************************)
EXTENDS WLWear, WLFlashProofs

\* Writes of one sector, no driver error, and restarts only by wl_unmount() or
\* by power cuts in wl_mount: the access count, which is in RAM only, is never
\* lost in between.
Careful ==
    /\ Budget
    /\ MaxOpCuts = 0
    /\ Restarts \subseteq {"unmount"}

\* How many relocations ago the dummy page, now p, left page w; when it is at
\* w now, the round that has ended counts.
Relocations(w, p) == IF p > w THEN p - w - 1 ELSE p + N - w

\* The erases that those relocations let through.
Quota(w, p) == MaxCount * Relocations(w, p)

\* The erases that the access count has let through since the last relocation.
Allowed ==
    CASE pc \in {"ready", "write"} -> ram.ac + 1
      [] pc = "sector_erase" -> ram.ac
      [] pc \in MovePcs -> MaxCount
      [] OTHER -> 0

\* The dummy page is what bounds the count: MaxCount erases for every
\* relocation since the watched page was free, and what the access count has
\* let through after the last of them.
WearInv ==
    /\ watched \in Pages /\ hits \in Nat
    /\ hits <= Quota(watched, Current[2]) + (IF Current[2] = watched THEN 0 ELSE Allowed)
    /\ pc \in MovePcs \ {"dummy_erase"} /\ ram.pos = watched => hits = 0

WearIInv == CtlInv /\ StateOK /\ WearInv

-----------------------------------------------------------------------------
(* The arithmetic of a round.                                              *)

LEMMA QuotaType ==
    ASSUME NEW w \in Pages, NEW p \in Pages
    PROVE  /\ Quota(w, p) \in Nat
           /\ p = w => Quota(w, p) = RoundErases
           /\ p # w => Quota(w, p) + MaxCount <= RoundErases
<1> USE NAssumption, BoundsAssumption
<1>1. Relocations(w, p) \in Nat
    BY DEF Relocations, Pages
<1>2. \A k \in Nat : MaxCount * k \in Nat
    OBVIOUS
<1>3. p = w => Relocations(w, p) = N
    BY DEF Relocations, Pages
<1>4. p # w => Relocations(w, p) \in 0 .. N-1
    BY DEF Relocations, Pages
<1>5. \A k \in 0 .. N-1 : MaxCount * k + MaxCount <= MaxCount * N
    <2> SUFFICES ASSUME NEW k \in 0 .. N-1 PROVE MaxCount * k + MaxCount <= MaxCount * N
        OBVIOUS
    <2>1. MaxCount * N = MaxCount * k + MaxCount * (N - k)
        OBVIOUS
    <2>2. MaxCount * (N - k) = MaxCount + MaxCount * (N - k - 1)
        OBVIOUS
    <2>3. MaxCount * (N - k - 1) \in Nat /\ MaxCount * k \in Nat /\ MaxCount * N \in Nat
        BY <1>2
    <2> QED BY <2>1, <2>2, <2>3
<1> QED BY <1>1, <1>2, <1>3, <1>4, <1>5 DEF Quota, RoundErases

\* One relocation adds MaxCount to the quota; the one that uses the page itself
\* starts it again.
LEMMA QuotaNext ==
    ASSUME NEW w \in Pages, NEW p \in Pages, NEW q \in Pages,
           q = IF p < N THEN p + 1 ELSE 0
    PROVE  /\ p = w => Quota(w, q) = 0
           /\ p # w => Quota(w, q) = Quota(w, p) + MaxCount
<1> USE NAssumption, BoundsAssumption
<1>1. p = w => Relocations(w, q) = 0
    BY DEF Relocations, Pages
<1>2. p # w => Relocations(w, q) = Relocations(w, p) + 1
    BY DEF Relocations, Pages
<1>3. Relocations(w, p) \in Nat
    BY DEF Relocations, Pages
<1>4. \A k \in Nat : MaxCount * (k + 1) = MaxCount * k + MaxCount
    OBVIOUS
<1> QED BY <1>1, <1>2, <1>3, <1>4 DEF Quota

-----------------------------------------------------------------------------
(* Every step keeps the bound.                                             *)

LEMMA CurrentPage == CtlInv /\ CurrentKnown => Current[2] \in Pages
<1> SUFFICES ASSUME CtlInv, CurrentKnown PROVE Current[2] \in Pages
    OBVIOUS
<1>1. 0 \in Pages /\ N \in Pages /\ ram.pos \in Pages
    BY NAssumption DEF CtlInv, TypeOK, Pages
<1>2. recoverPos(st[1].bits) \in Pages
    BY RecoverPosType
<1>3. NextMount[2] \in Pages
    BY <1>1, <1>2 DEF NextMount
<1> QED BY <1>1, <1>3 DEF CurrentKnown, CtlInv, TypeOK, Pcs, BootPcs

\* The end of a relocation, in the middle of a round, at its end, and at
\* wl_unmount(): the dummy page is the next one.
LEMMA Advances ==
    ASSUME Budget, CtlInv, StateOK, CtlInv', CurrentKnown', Mark2
    PROVE  /\ Current'[2] = IF ram.pos < N THEN ram.pos + 1 ELSE 0
           /\ pc' \notin MovePcs
<1> USE NAssumption, BoundsAssumption
<1>ty. ram \in [pos : Pages, mc : Sectors, ac : 0 .. MaxCount-1] /\ ram.pos \in Pages /\ ram.mc \in Sectors
    BY DEF CtlInv, TypeOK
<1>0. StateMark2 /\ job.kind # "format"
    BY DEF Mark2, StateOK, CtlInv, JobOK, MovePcs
<1>1. CASE ram.pos < N
    <2>1. ram'.mc = ram.mc /\ ram'.pos = ram.pos + 1 /\ pc' \in {"sector_erase", "off"}
          /\ st' = [st EXCEPT ![2].bits = @ \cup {ram.pos}]
        BY <1>ty, <1>1 DEF Mark2, LeaveUpdateWL
    <2>2. CASE pc' = "sector_erase"
        BY <1>1, <2>1, <2>2 DEF CurrentKnown, MovePcs
    <2>3. CASE pc' = "off"
        <3>1. PICK m \in Sectors, p \in Pages : m = ram.mc /\ p = ram.pos + 1
            BY <1>ty, <1>1 DEF Pages
        <3>2. st \in [Copies -> [hdr : Headers, bits : SUBSET Pages]]
            BY DEF CtlInv, TypeOK
        <3>3. /\ st'[1] = st[1] /\ st'[2].hdr = st[2].hdr
              /\ st'[2].bits = st[2].bits \cup {ram.pos} /\ opCuts' = opCuts
            BY <2>1, <3>2 DEF Mark2, Copies
        <3>4. Stands(0 .. ram.pos, p)
            BY <1>ty, <1>1, <3>1 DEF Stands, Pages
        <3>5. Stored(m, p)'
            BY <1>0, <3>1, <3>3, <3>4 DEF Stored, StateMark2
        <3>6. Current' = <<m, p>>
            BY <2>3, <3>5, NextMountIsPrime DEF CurrentKnown, NextMountKnown
        <3> QED BY <1>1, <2>3, <3>1, <3>6 DEF MovePcs
    <2> QED BY <2>1, <2>2, <2>3
<1>2. CASE ram.pos = N
    <2>1. ram'.pos = 0 /\ pc' = "save_erase1" /\ job' = job
        <3>1. /\ ram' = [ram EXCEPT !.pos = 0, !.mc = NextMoveCount(ram.mc)]
              /\ pc' = "save_erase1" /\ job' = job
            BY <1>2 DEF Mark2
        <3> QED BY <1>ty, <3>1
    <2>2. Current' = <<ram'.mc, ram'.pos>>
        BY <1>0, <2>1 DEF CurrentKnown, SavePcs
    <2> QED BY <1>2, <2>1, <2>2 DEF MovePcs
<1> QED BY <1>ty, <1>1, <1>2 DEF Pages

LEMMA WearStep ==
    ASSUME Careful, CtlInv, StateOK, CtlInv', StateOK', CurrentKnown, CurrentKnown',
           WearInv, WearNext
    PROVE  WearInv'
<1> USE NAssumption, BoundsAssumption
<1>ty. /\ ram \in [pos : Pages, mc : Sectors, ac : 0 .. MaxCount-1]
       /\ ram.pos \in Pages /\ ram.mc \in Sectors /\ ram.ac \in 0 .. MaxCount-1
       /\ ram.pos' \in Pages /\ ram.ac' \in 0 .. MaxCount-1
       /\ watched \in Pages /\ watched' = watched /\ hits \in Nat
    BY DEF CtlInv, TypeOK, WearInv, WearNext, Count
<1>q. /\ Quota(watched, ram.pos) \in Nat /\ RoundErases \in Nat
      /\ ram.pos = watched => Quota(watched, ram.pos) = RoundErases
    BY <1>ty, QuotaType DEF RoundErases
<1>cnt. hits' \in Nat /\ hits' <= hits + 1 /\ (pc \notin {"dummy_erase", "sector_erase"} => hits' = hits)
    BY <1>ty DEF WearNext, Count
<1>1. CASE Mount \/ Save \/ (PowerCut /\ (pc = "ready" \/ InBoot))
    <2>1. Current' = Current
        BY <1>1, MappingKept DEF Careful
    <2>2. /\ pc \notin {"dummy_erase", "sector_erase"}
          /\ pc' \notin MovePcs
        BY <1>1 DEF Mount, Save, PowerCut, InBoot, Boot, BootWith, RepairErase, RepairHeader, RepairBit,
                    RepairDone, FormatConfig, Mounted, SaveErase1, SaveWrite1, SaveErase2, SaveWrite2,
                    LeaveUpdateWL, MovePcs, BootPcs, SavePcs
    <2>3. hits' = hits
        BY <1>cnt, <2>2
    <2>4. pc = "ready" \/ Allowed = 0
        BY <1>1 DEF Mount, Save, PowerCut, InBoot, Boot, BootWith, RepairErase, RepairHeader, RepairBit,
                    RepairDone, FormatConfig, SaveErase1, SaveWrite1, SaveErase2, SaveWrite2,
                    MovePcs, BootPcs, SavePcs, Allowed
    <2>5. pc # "ready"
        BY <1>1 DEF Mount, Save, PowerCut, InBoot, Boot, BootWith, RepairErase, RepairHeader, RepairBit,
                    RepairDone, FormatConfig, SaveErase1, SaveWrite1, SaveErase2, SaveWrite2,
                    BootPcs, SavePcs, Careful
    <2>6. Allowed' \in Nat
        BY <1>ty DEF Allowed
    <2>7. Current[2] \in Pages
        BY CurrentPage
    <2>8. hits <= Quota(watched, Current[2])
        BY <1>ty, <2>4, <2>5, <2>7, QuotaType DEF WearInv
    <2> QED BY <1>ty, <2>1, <2>2, <2>3, <2>6, <2>7, <2>8, QuotaType DEF WearInv
<1>2. CASE Client
    <2>1. pc = "ready" /\ Current = <<ram.mc, ram.pos>> /\ hits' = hits
        BY <1>2, <1>cnt DEF Client, EraseRange, Write, Unmount, CurrentKnown
    <2>2. pc' \in {"write", "sector_erase", "dummy_erase"} /\ ram'.pos = ram.pos
        BY <1>2, <1>ty DEF Client, EraseRange, Write, Unmount, EnterUpdateWL
    <2>3. Current' = <<ram'.mc, ram'.pos>>
        BY <2>2 DEF CurrentKnown, MovePcs
    <2>4. Allowed = ram.ac + 1
        BY <2>1 DEF Allowed, MovePcs
    <2>5. ram.ac + 1 <= Allowed' /\ Allowed' \in Nat
        <3>1. CASE pc' = "write"
            <4>1. ram' = ram
                BY <1>2, <3>1 DEF Client, EraseRange, Write, Unmount, EnterUpdateWL
            <4> QED BY <1>ty, <3>1, <4>1 DEF Allowed
        <3>2. CASE pc' = "sector_erase"
            <4>1. ram'.ac = ram.ac + 1
                BY <1>2, <1>ty, <3>2 DEF Client, EraseRange, Write, Unmount, EnterUpdateWL
            <4> QED BY <1>ty, <3>2, <4>1 DEF Allowed
        <3>3. CASE pc' = "dummy_erase"
            BY <1>ty, <3>3 DEF Allowed, MovePcs
        <3> QED BY <2>2, <3>1, <3>2, <3>3
    <2>6. hits <= Quota(watched, ram.pos) + (IF ram.pos = watched THEN 0 ELSE ram.ac + 1)
        BY <2>1, <2>4 DEF WearInv
    <2>7. pc' \notin MovePcs \ {"dummy_erase"}
        BY <2>2 DEF MovePcs
    <2> QED BY <1>ty, <1>q, <2>1, <2>2, <2>3, <2>5, <2>6, <2>7 DEF WearInv
<1>3. CASE SectorErase
    <2>1. pc = "sector_erase" /\ Current = <<ram.mc, ram.pos>>
        BY <1>3 DEF SectorErase, CurrentKnown
    <2>2. pc' \in {"ready", "sector_erase", "dummy_erase"} /\ ram'.pos = ram.pos
        BY <1>3, <1>ty DEF SectorErase, EnterUpdateWL
    <2>3. Current' = <<ram'.mc, ram'.pos>>
        BY <2>2 DEF CurrentKnown, MovePcs
    <2>4. Allowed = ram.ac
        BY <2>1 DEF Allowed, MovePcs
    <2>5. ram.ac + 1 <= Allowed' /\ Allowed' \in Nat
        <3>1. CASE pc' = "ready"
            <4>1. ram' = ram
                BY <1>3, <3>1 DEF SectorErase, EnterUpdateWL
            <4> QED BY <1>ty, <3>1, <4>1 DEF Allowed
        <3>2. CASE pc' = "sector_erase"
            <4>1. ram'.ac = ram.ac + 1
                BY <1>3, <1>ty, <3>2 DEF SectorErase, EnterUpdateWL
            <4> QED BY <1>ty, <3>2, <4>1 DEF Allowed
        <3>3. CASE pc' = "dummy_erase"
            BY <1>ty, <3>3 DEF Allowed, MovePcs
        <3> QED BY <2>2, <3>1, <3>2, <3>3
    <2>6. ram.pos = watched => hits' = hits
        <3>1. job.at \in Sectors
            BY DEF CtlInv, TypeOK, Jobs
        <3>2. calcAddr(job.at, ram.mc, ram.pos) # ram.pos
            BY <1>ty, <3>1, AddrRange
        <3> QED BY <2>1, <3>2 DEF WearNext, Count
    <2>7. hits <= Quota(watched, ram.pos) + (IF ram.pos = watched THEN 0 ELSE ram.ac)
        BY <2>1, <2>4 DEF WearInv
    <2>8. pc' \notin MovePcs \ {"dummy_erase"}
        BY <2>2 DEF MovePcs
    <2> QED BY <1>ty, <1>q, <1>cnt, <2>2, <2>3, <2>5, <2>6, <2>7, <2>8 DEF WearInv
<1>4. CASE WriteCall
    <2>1. /\ pc = "write" /\ pc' \in {"write", "ready"} /\ ram' = ram
          /\ Current = <<ram.mc, ram.pos>> /\ hits' = hits
        BY <1>4, <1>cnt DEF WriteCall, CurrentKnown
    <2>2. Current' = <<ram'.mc, ram'.pos>>
        BY <2>1 DEF CurrentKnown
    <2>3. Allowed' = Allowed /\ pc' \notin MovePcs
        BY <2>1 DEF Allowed, MovePcs
    <2> QED BY <1>ty, <2>1, <2>2, <2>3 DEF WearInv
<1>5. CASE DummyErase
    <2>1. /\ pc = "dummy_erase" /\ pc' = "copy" /\ ram' = ram
          /\ Current = <<ram.mc, ram.pos>> /\ Current' = <<ram.mc, ram.pos>>
        BY <1>5 DEF DummyErase, CurrentKnown, MovePcs
    <2>2. hits' = IF ram.pos = watched THEN 0 ELSE hits
        BY <2>1 DEF WearNext, Count
    <2>3. Allowed' = Allowed /\ Allowed = MaxCount
        BY <2>1 DEF Allowed, MovePcs
    <2> QED BY <1>ty, <1>q, <2>1, <2>2, <2>3 DEF WearInv
<1>6. CASE CopyStart \/ CopyEnd \/ Mark1
    <2>1. /\ pc \in MovePcs \ {"dummy_erase"} /\ pc' \in MovePcs \ {"dummy_erase"} /\ ram' = ram
          /\ pc \notin {"dummy_erase", "sector_erase"}
        BY <1>6 DEF CopyStart, CopyEnd, Mark1, MovePcs
    <2>2. Current = <<ram.mc, ram.pos>> /\ Current' = <<ram.mc, ram.pos>>
        BY <2>1 DEF CurrentKnown
    <2>3. Allowed' = Allowed
        BY <2>1 DEF Allowed, MovePcs
    <2> QED BY <1>ty, <1>cnt, <2>1, <2>2, <2>3 DEF WearInv
<1>7. CASE Mark2
    <2>1. /\ pc = "mark2" /\ hits' = hits /\ Current = <<ram.mc, ram.pos>> /\ Allowed = MaxCount
          /\ pc \in MovePcs \ {"dummy_erase"}
        BY <1>7, <1>cnt DEF Mark2, CurrentKnown, Allowed, MovePcs
    <2>2. PICK p \in Pages : p = IF ram.pos < N THEN ram.pos + 1 ELSE 0
        BY <1>ty DEF Pages
    <2>3. Current'[2] = p /\ pc' \notin MovePcs
        BY <1>7, <2>2, Advances DEF Careful
    <2>4. Allowed' \in Nat
        BY <1>ty DEF Allowed
    <2>5. hits <= Quota(watched, p)
        <3>1. CASE ram.pos = watched
            BY <1>ty, <2>1, <2>2, <3>1, QuotaNext DEF WearInv
        <3>2. CASE ram.pos # watched
            BY <1>ty, <2>1, <2>2, <3>2, QuotaNext DEF WearInv
        <3> QED BY <3>1, <3>2
    <2>6. Quota(watched, p) \in Nat
        BY <1>ty, QuotaType
    <2> QED BY <1>ty, <2>1, <2>3, <2>4, <2>5, <2>6 DEF WearInv
<1>8. ~(PowerCut /\ ~(pc = "ready" \/ InBoot))
    BY DEF PowerCut, Careful, CtlInv, TypeOK
<1> QED BY <1>1, <1>2, <1>3, <1>4, <1>5, <1>6, <1>7, <1>8 DEF WearNext, DriverStep, Relocate

LEMMA WearInductive ==
    ASSUME Careful
    PROVE  WearSpec => []WearIInv
<1>1. WearInit => WearIInv
    <2> SUFFICES ASSUME WearInit PROVE WearIInv
        OBVIOUS
    <2>1. CtlInv /\ StateOK
        BY CtlInit, StateInit DEF WearInit
    <2>2. CurrentKnown
        BY <2>1, CurrentIs
    <2>3. Current[2] \in Pages /\ Quota(watched, Current[2]) \in Nat
        BY <2>1, <2>2, CurrentPage, QuotaType DEF WearInit
    <2>4. pc \notin MovePcs /\ Allowed = 0
        BY DEF WearInit, Init, Allowed, MovePcs
    <2> QED BY <2>1, <2>3, <2>4 DEF WearIInv, WearInv, WearInit
<1>2. WearIInv /\ [WearNext]_wearVars => WearIInv'
    <2> SUFFICES ASSUME WearIInv, [WearNext]_wearVars PROVE WearIInv'
        OBVIOUS
    <2>1. [Next]_vars
        BY DEF WearNext, wearVars, Next
    <2>2. CtlInv' /\ StateOK'
        <3>1. CtlInv'
            BY <2>1, CtlStep DEF WearIInv
        <3> QED BY <2>1, <3>1, StateStep, StateStutter DEF WearIInv, Careful
    <2>3. CurrentKnown /\ CurrentKnown'
        <3>1. (CtlInv /\ StateOK)' => CurrentKnown'
            BY CurrentIs, PTL
        <3> QED BY <2>2, <3>1, CurrentIs DEF WearIInv
    <2>4. CASE WearNext
        BY <2>2, <2>3, <2>4, WearStep DEF WearIInv
    <2>5. CASE UNCHANGED wearVars
        <3>1. Current' = Current /\ Allowed' = Allowed
            BY <2>5 DEF wearVars, vars, Current, NextMount, Allowed
        <3>2. UNCHANGED <<watched, hits, pc, ram>>
            BY <2>5 DEF wearVars, vars
        <3>3. WearInv'
            BY <3>1, <3>2 DEF WearIInv, WearInv
        <3> QED BY <2>2, <3>3 DEF WearIInv
    <2> QED BY <2>4, <2>5
<1> QED BY <1>1, <1>2, PTL DEF WearSpec

\* For any number of sectors, any update rate and whatever sectors the client
\* erases, updateWL() lets no page take more than a round of erases before it
\* is the dummy page again.
THEOREM WearIsSpread ==
    ASSUME Careful
    PROVE  WearSpec => []WearSpread
<1>1. WearIInv => WearSpread
    <2> SUFFICES ASSUME WearIInv PROVE hits <= RoundErases
        BY DEF WearSpread
    <2>1. Current[2] \in Pages
        BY CurrentPage, CurrentIs DEF WearIInv
    <2>2. Allowed \in 0 .. MaxCount
        <3>1. ram.ac \in 0 .. MaxCount-1
            BY DEF WearIInv, CtlInv, TypeOK
        <3> QED BY <3>1, BoundsAssumption DEF Allowed
    <2>3. RoundErases \in Nat /\ MaxCount \in Nat
        BY NAssumption, BoundsAssumption DEF RoundErases
    <2> QED BY <2>1, <2>2, <2>3, QuotaType DEF WearIInv, WearInv
<1> QED BY <1>1, WearInductive, PTL
=============================================================================
