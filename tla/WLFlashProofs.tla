--------------------------- MODULE WLFlashProofs ----------------------------
(***************************************************************************)
(* Theorems about WLFlash, for every number of sectors.                    *)
(***************************************************************************)
EXTENDS WLFlash, WellFoundedInduction, TLAPS

-----------------------------------------------------------------------------
(* The control invariant: which call is in progress at which step, and     *)
(* that the rest of its range lies on the disk.                            *)

JobOK ==
    /\ pc \in {"off", "ready"} => job = NoJob
    /\ pc \in {"rep_erase", "rep_hdr", "rep_bits"} => job.kind \in {"sync", "recover1", "recover2"}
    /\ pc = "fmt_cfg" => job.kind = "format"
    /\ pc \in MovePcs => job.kind \in {"erase", "unmount"}
    /\ pc \in SavePcs => job.kind \in {"erase", "unmount", "format"}
    /\ pc = "sector_erase" => job.kind = "erase"
    /\ pc = "write" => job.kind = "write"
    /\ job.kind \in {"erase", "write"} => job.n >= 1 /\ job.at + job.n <= N
    /\ job.kind = "write" => job.i < job.n /\ \A k \in 0 .. job.n-1 : job.src[k] \in Values

-----------------------------------------------------------------------------
(* The state sectors, by the step that is due.                             *)

\* Position bytes b stand for position p.
Stands(b, p) == /\ 0 .. p-1 \subseteq b
                /\ b \subseteq 0 .. p
                /\ p \in b => p = N

\* Both copies hold move_count m, and state 1 the position p.
Stored(m, p) ==
    /\ st[1].hdr = m /\ st[2].hdr = m
    /\ Stands(st[1].bits, p)
    /\ opCuts = 0 => st[2].bits = st[1].bits

\* State 1 begins the round of move_count m.
Started(m) == st[1] = [hdr |-> m, bits |-> {}]

\* State 2 ends a round: the one before the round of move_count m.
Ended(m) ==
    /\ st[2].hdr \in Sectors
    /\ m = NextMoveCount(st[2].hdr)
    /\ opCuts = 0 => st[2].bits = Pages

\* Page 0 has been copied to page N.
Copied0 == flash[N] = flash[0]

Wrapping == job.kind # "format"

StateOff ==
    \/ st[1].hdr = BadCrc /\ st[2].hdr = BadCrc
    \/ \E m \in Sectors, p \in Pages : Stored(m, p)
    \/ /\ \E m \in Sectors : Started(m)
       /\ st[2].hdr = BadCrc \/ opCuts > 0
    \/ /\ st[1].hdr = BadCrc /\ st[2].hdr \in Sectors
       /\ st[2].bits = Pages
       /\ opCuts > 0

StateRepair2 ==
    /\ Started(ram.mc)
    /\ pc = "rep_hdr" => st[2] = Blank
    /\ pc = "rep_bits" => st[2] = [hdr |-> ram.mc, bits |-> {}]
    /\ pc = "rep_erase" => (job.kind = "recover2" <=> st[2].hdr = BadCrc)
    /\ job.kind = "sync" => opCuts > 0

StateRepair1 ==
    /\ opCuts > 0
    /\ st[2] = [hdr |-> ram.mc, bits |-> Pages]
    /\ pc = "rep_erase" => st[1].hdr = BadCrc
    /\ pc = "rep_hdr" => st[1] = Blank
    /\ pc = "rep_bits" => st[1].hdr = ram.mc

StateFormat ==
    /\ ram = ZeroRam
    /\ pc = "save_erase1" => st[1].hdr = BadCrc /\ st[2].hdr = BadCrc
    /\ pc = "save_write1" => st[1] = Blank /\ st[2].hdr = BadCrc
    /\ pc = "save_erase2" => Started(0) /\ st[2].hdr = BadCrc
    /\ pc = "save_write2" => Started(0) /\ st[2] = Blank
    /\ pc = "fmt_cfg" => Started(0) /\ st[2] = st[1]

StateWrap ==
    /\ ram.pos = 0
    /\ pc = "save_erase1" => /\ st[1].hdr = st[2].hdr /\ st[1].bits = Pages
                             /\ Ended(ram.mc) /\ Copied0
    /\ pc = "save_write1" => st[1] = Blank /\ Ended(ram.mc) /\ Copied0
    /\ pc = "save_erase2" => Started(ram.mc) /\ st[2].hdr \in Sectors
    /\ pc = "save_write2" => Started(ram.mc) /\ st[2] = Blank

StateMark2 ==
    /\ st[1].hdr = ram.mc /\ st[2].hdr = ram.mc
    /\ st[1].bits = 0 .. ram.pos
    /\ opCuts = 0 => st[1].bits = st[2].bits \cup {ram.pos}

StateOK ==
    /\ pc = "off" => StateOff
    /\ pc \in {"rep_erase", "rep_hdr", "rep_bits"} =>
          IF job.kind = "recover1" THEN StateRepair1 ELSE StateRepair2
    /\ pc = "fmt_cfg" => StateFormat
    /\ pc \in SavePcs => IF job.kind = "format" THEN StateFormat ELSE StateWrap
    /\ pc = "mark2" => StateMark2
    /\ pc \in {"ready", "sector_erase", "write", "dummy_erase", "copy", "copying", "mark1"}
          => Stored(ram.mc, ram.pos)
    /\ pc \in {"mark1", "mark2"} => flash[ram.pos] = flash[DataPage]

IInv == TypeOK /\ JobOK /\ StateOK
-----------------------------------------------------------------------------
(* Address arithmetic.                                                     *)

\* Subtracting move_count modulo flash_size, without the modulus.
LEMMA ModFact ==
    ASSUME NEW v \in Sectors, NEW m \in Sectors
    PROVE  (N - m + v) % N = IF v < m THEN N - m + v ELSE v - m
<1>1. ASSUME NEW x \in 0 .. N-1 PROVE x % N = x
    BY <1>1, NAssumption, SMT
<1>2. ASSUME NEW x \in N .. 2*N-1 PROVE x % N = x - N
    BY <1>2, NAssumption, SMT
<1>3. CASE v < m
    <2>1. N - m + v \in 0 .. N-1
        BY <1>3, NAssumption DEF Sectors
    <2> QED BY <2>1, <1>1, <1>3
<1>4. CASE ~(v < m)
    <2>1. N - m + v \in N .. 2*N-1
        BY <1>4, NAssumption DEF Sectors
    <2>2. (N - m + v) - N = v - m
        BY NAssumption DEF Sectors
    <2> QED BY <2>1, <2>2, <1>2, <1>4
<1> QED BY <1>3, <1>4

\* calcAddr(): a sector lies in a page, never in the dummy page.
LEMMA AddrRange ==
    ASSUME NEW v \in Sectors, NEW m \in Sectors, NEW p \in Pages
    PROVE  calcAddr(v, m, p) \in Pages /\ calcAddr(v, m, p) # p
BY ModFact, NAssumption DEF calcAddr, Sectors, Pages

\* calcAddr(): two sectors never share a page.
LEMMA AddrInjective ==
    ASSUME NEW v \in Sectors, NEW w \in Sectors, v # w,
           NEW m \in Sectors, NEW p \in Pages
    PROVE  calcAddr(v, m, p) # calcAddr(w, m, p)
<1> DEFINE r(x) == (N - m + x) % N
<1>1. r(v) # r(w) /\ r(v) \in Sectors /\ r(w) \in Sectors
    BY ModFact, NAssumption DEF Sectors
<1> HIDE DEF r
<1>2. \A x : calcAddr(x, m, p) = IF r(x) < p THEN r(x) ELSE r(x) + 1
    BY Zenon DEF calcAddr, r
<1> QED BY <1>1, <1>2, NAssumption DEF Sectors, Pages

\* calcAddr() after pos++: only the sector behind the dummy page moves, into it.
LEMMA AddrStep ==
    ASSUME NEW v \in Sectors, NEW m \in Sectors, NEW p \in Pages, p < N
    PROVE  calcAddr(v, m, p + 1) = IF calcAddr(v, m, p) = p + 1 THEN p
                                   ELSE calcAddr(v, m, p)
BY ModFact, NAssumption DEF calcAddr, Sectors, Pages

\* calcAddr() after the end of a round: only the sector in page 0 moves, to page N.
LEMMA AddrWrap ==
    ASSUME NEW v \in Sectors, NEW m \in Sectors
    PROVE  /\ NextMoveCount(m) \in Sectors
           /\ calcAddr(v, NextMoveCount(m), 0) = IF calcAddr(v, m, N) = 0 THEN N
                                                 ELSE calcAddr(v, m, N)
<1>1. NextMoveCount(m) \in Sectors
    BY NAssumption DEF NextMoveCount, Sectors
<1>2. (N - NextMoveCount(m) + v) % N = IF v < NextMoveCount(m) THEN N - NextMoveCount(m) + v
                                        ELSE v - NextMoveCount(m)
    BY <1>1, ModFact
<1> QED BY <1>1, <1>2, ModFact, NAssumption DEF calcAddr, Sectors, NextMoveCount

\* recoverPos() finds the position that the position bytes stand for.
LEMMA RecoverPosIs ==
    ASSUME NEW b, NEW p \in Pages, 0 .. p-1 \subseteq b, p \notin b \/ p = N
    PROVE  recoverPos(b) = p
<1>1. ASSUME NEW q \in Pages, 0 .. q-1 \subseteq b, q \notin b \/ q = N
      PROVE  q = p
    BY <1>1, NAssumption DEF Pages
<1> QED BY <1>1 DEF recoverPos

\* recoverPos() always finds a page.
LEMMA RecoverPosType ==
    ASSUME NEW b
    PROVE  recoverPos(b) \in Pages
<1> DEFINE T == {p \in Pages : p \notin b \/ p = N}
           R == OpToRel(<, Nat)
<1>1. T \subseteq Nat /\ T # {}
    BY NAssumption DEF Pages
<1>2. PICK p \in T : \A q \in T : ~(<<q, p>> \in R)
    <2> HIDE DEF T
    <2> QED BY <1>1, WFMin, NatLessThanWellFounded
<1>3. \A q \in T : ~(q < p)
    <2>1. \A q \in Nat : q < p => <<q, p>> \in R
        BY <1>1, Zenon DEF OpToRel
    <2> HIDE DEF R
    <2> QED BY <1>1, <1>2, <2>1
<1>4. 0 .. p-1 \subseteq b
    BY <1>3, NAssumption DEF Pages
<1> QED BY <1>4 DEF recoverPos
-----------------------------------------------------------------------------
(* Type correctness and control, with any number of cuts and errors.       *)

CtlInv == TypeOK /\ JobOK

LEMMA NoJobType ==
    /\ NoJob \in Jobs
    /\ NoJob.kind = "none"
    /\ ZeroRam \in [pos : Pages, mc : Sectors, ac : 0 .. MaxCount-1]
    /\ Blank \in [hdr : Headers, bits : SUBSET Pages]
BY NAssumption, BoundsAssumption
   DEF NoJob, NewJob, Jobs, NoSrc, Kinds, Booting, Sectors, Pages, ZeroRam, Blank, Headers, BadCrc

LEMMA NewJobType ==
    ASSUME NEW kind \in Kinds, NEW v \in Sectors, NEW n \in 0 .. MaxRun,
           NEW src \in [0 .. MaxRun-1 -> Values \cup {Junk}]
    PROVE  /\ NewJob(kind, v, n, src) \in Jobs
           /\ NewJob(kind, v, n, src).kind = kind
           /\ NewJob(kind, v, n, src).at = v
           /\ NewJob(kind, v, n, src).n = n
           /\ NewJob(kind, v, n, src).i = 0
           /\ NewJob(kind, v, n, src).src = src
BY BoundsAssumption DEF NewJob, Jobs

LEMMA NoSrcType == NoSrc \in [0 .. MaxRun-1 -> Values \cup {Junk}] /\ 0 \in Sectors /\ 0 \in 0 .. MaxRun
BY BoundsAssumption, NAssumption DEF NoSrc, Sectors

LEMMA NoSrcJobType ==
    ASSUME NEW kind \in Kinds, NEW v \in Sectors, NEW n \in 0 .. MaxRun
    PROVE  /\ NewJob(kind, v, n, NoSrc) \in Jobs
           /\ NewJob(kind, v, n, NoSrc).kind = kind
           /\ NewJob(kind, v, n, NoSrc).at = v
           /\ NewJob(kind, v, n, NoSrc).n = n
BY NoSrcType, BoundsAssumption DEF NewJob, Jobs

LEMMA NextSectorType ==
    ASSUME NEW j \in Jobs, j.at + 1 \in Sectors, j.n - 1 \in 0 .. MaxRun
    PROVE  /\ [j EXCEPT !.at = @ + 1, !.n = @ - 1] \in Jobs
           /\ [j EXCEPT !.at = @ + 1, !.n = @ - 1].kind = j.kind
           /\ [j EXCEPT !.at = @ + 1, !.n = @ - 1].at = j.at + 1
           /\ [j EXCEPT !.at = @ + 1, !.n = @ - 1].n = j.n - 1
           /\ [j EXCEPT !.at = @ + 1, !.n = @ - 1].i = j.i
BY DEF Jobs

LEMMA NextCallType ==
    ASSUME NEW j \in Jobs, j.i + 1 \in 0 .. MaxRun-1
    PROVE  /\ [j EXCEPT !.i = @ + 1] \in Jobs
           /\ [j EXCEPT !.i = @ + 1].kind = j.kind
           /\ [j EXCEPT !.i = @ + 1].at = j.at
           /\ [j EXCEPT !.i = @ + 1].n = j.n
           /\ [j EXCEPT !.i = @ + 1].i = j.i + 1
           /\ [j EXCEPT !.i = @ + 1].src = j.src
BY DEF Jobs

LEMMA CtlInit == Init => CtlInv
BY NoJobType, NAssumption, BoundsAssumption
   DEF Init, CtlInv, TypeOK, JobOK, Contents, Copies, Pcs, BootPcs, MovePcs, SavePcs

LEMMA CtlStep == CtlInv /\ [Next]_vars => CtlInv'
<1> SUFFICES ASSUME CtlInv, [Next]_vars PROVE CtlInv'
    OBVIOUS
<1> USE NAssumption, BoundsAssumption
<1>pcs. pc \in Pcs /\ Pcs = {"off", "ready", "sector_erase", "write", "rep_erase", "rep_hdr",
            "rep_bits", "fmt_cfg", "dummy_erase", "copy", "copying", "mark1", "mark2",
            "save_erase1", "save_write1", "save_erase2", "save_write2"}
    BY DEF CtlInv, TypeOK, Pcs, BootPcs, MovePcs, SavePcs
<1>boot. ASSUME NEW h1 \in Headers, BootWith(h1), faults' \in 0 .. MaxFaults PROVE CtlInv'
    <2>1. recoverPos(st[1].bits) \in Pages
        BY RecoverPosType
    <2>2. BootKind(h1) \in Booting \cup {"none"}
        BY DEF BootKind, Booting
    <2>3. st[2].hdr \in Headers
        BY DEF CtlInv, TypeOK, Copies
    <2>4. CASE BootKind(h1) = "none"
        <3>1. h1 \in Sectors
            BY <2>4 DEF BootKind, Headers, BadCrc, Sectors
        <3>2. ram' \in [pos : Pages, mc : Sectors, ac : 0 .. MaxCount-1]
            BY <1>boot, <2>1, <2>4, <3>1, NoJobType DEF BootWith
        <3> QED BY <1>boot, <2>4, <3>2, NoJobType
                DEF BootWith, CtlInv, TypeOK, JobOK, Pcs, BootPcs, MovePcs, SavePcs
    <2>5. CASE BootKind(h1) # "none"
        <3>1. ASSUME BootKind(h1) = "recover1" PROVE st[2].hdr \in Sectors
            BY <2>3, <3>1 DEF BootKind, Headers, BadCrc, Sectors
        <3>2. ASSUME BootKind(h1) \in {"sync", "recover2"} PROVE h1 \in Sectors
            BY <3>2 DEF BootKind, Headers, BadCrc, Sectors
        <3>3. 0 \in Sectors
            BY DEF Sectors
        <3>4. ram'.mc \in Sectors /\ ram' = [ZeroRam EXCEPT !.mc = ram'.mc]
            BY <1>boot, <2>2, <2>5, <3>1, <3>2, <3>3 DEF BootWith, ZeroRam, Booting
        <3>5. ram' \in [pos : Pages, mc : Sectors, ac : 0 .. MaxCount-1]
            BY <3>4, NoJobType
        <3>6. job' = NewJob(BootKind(h1), 0, 0, NoSrc) /\ BootKind(h1) \in Kinds
            BY <1>boot, <2>2, <2>5 DEF BootWith, Kinds
        <3>7. job' \in Jobs /\ job'.kind = BootKind(h1)
            BY <3>6, NoSrcJobType, NoSrcType
        <3> QED BY <1>boot, <2>2, <2>5, <3>5, <3>6, <3>7
                DEF BootWith, CtlInv, TypeOK, JobOK, Booting, Pcs, BootPcs, MovePcs, SavePcs
    <2> QED BY <2>4, <2>5
<1>1. CASE Boot
    <2>1. st[1].hdr \in Headers
        BY DEF CtlInv, TypeOK, Copies
    <2> QED BY <1>1, <1>boot, <2>1 DEF Boot, CtlInv, TypeOK
<1>2. CASE BootMisread
    BY <1>2, <1>boot DEF BootMisread, CtlInv, TypeOK, Headers
<1>3. CASE RepairErase \/ RepairHeader \/ RepairBit
    <2>1. Target \in Copies /\ Source \in Copies
        BY DEF Target, Source, Copies
    <2>2. Blank \in [hdr : Headers, bits : SUBSET Pages]
        BY NoJobType
    <2>3. st' \in [Copies -> [hdr : Headers, bits : SUBSET Pages]]
        <3> HIDE DEF Target, Source
        <3>1. CASE RepairErase
            BY <3>1, <2>1, <2>2 DEF RepairErase, CtlInv, TypeOK
        <3>2. CASE RepairHeader
            BY <3>2, <2>1 DEF RepairHeader, CtlInv, TypeOK
        <3>3. CASE RepairBit
            BY <3>3, <2>1 DEF RepairBit, Missing, CtlInv, TypeOK
        <3> QED BY <1>3, <3>1, <3>2, <3>3
    <2>4. pc \in {"rep_erase", "rep_hdr", "rep_bits"} /\ pc' \in {"rep_hdr", "rep_bits"}
          /\ UNCHANGED <<flash, ram, job, opCuts, bootCuts, faults>>
        BY <1>3 DEF RepairErase, RepairHeader, RepairBit
    <2> QED BY <2>3, <2>4 DEF CtlInv, TypeOK, JobOK, Pcs, BootPcs, MovePcs, SavePcs
<1>4. CASE RepairDone \/ FormatConfig
    <2>1. recoverPos(st[1].bits) \in Pages
        BY RecoverPosType
    <2>2. RepairedPos \in Pages
        BY <2>1 DEF RepairedPos, Pages
    <2> QED BY <1>4, <2>1, <2>2, NoJobType
            DEF RepairDone, FormatConfig, Mounted, CtlInv, TypeOK, JobOK, Pcs, MovePcs, SavePcs
<1>5. CASE DummyErase \/ CopyStart \/ CopyEnd \/ Mark1
    <2>1. DataPage \in Pages /\ ram.pos \in Pages
        BY DEF DataPage, CtlInv, TypeOK, Pages
    <2> QED BY <1>5, <1>pcs, <2>1
            DEF DummyErase, CopyStart, CopyEnd, Mark1, CtlInv, TypeOK, JobOK, Contents, Copies,
                MovePcs, SavePcs
<1>6. CASE Mark2
    <2>1. ram.pos \in Pages /\ ram.mc \in Sectors /\ NextMoveCount(ram.mc) \in Sectors
        BY AddrWrap DEF CtlInv, TypeOK
    <2>2. st' \in [Copies -> [hdr : Headers, bits : SUBSET Pages]]
        BY <1>6, <2>1 DEF Mark2, CtlInv, TypeOK, Copies
    <2>3. ram' \in [pos : Pages, mc : Sectors, ac : 0 .. MaxCount-1]
        <3>1. CASE ram.pos < N
            BY <1>6, <2>1, <3>1 DEF Mark2, CtlInv, TypeOK, Pages
        <3>2. CASE ram.pos = N
            <4>1. ram' = [ram EXCEPT !.pos = 0, !.mc = NextMoveCount(ram.mc)] /\ 0 \in Pages
                BY <1>6, <3>2 DEF Mark2, Pages
            <4> QED BY <2>1, <4>1 DEF CtlInv, TypeOK
        <3> QED BY <2>1, <3>1, <3>2 DEF Pages
    <2>4. job.kind \in {"erase", "unmount"}
        BY <1>6 DEF Mark2, CtlInv, JobOK, MovePcs
    <2>5. \/ pc' = "sector_erase" /\ job.kind = "erase" /\ job' = job
          \/ pc' = "off" /\ job' = NoJob
          \/ pc' = "save_erase1" /\ job' = job
        BY <1>6 DEF Mark2, LeaveUpdateWL
    <2> QED BY <1>6, <2>2, <2>3, <2>4, <2>5, NoJobType
            DEF Mark2, CtlInv, TypeOK, JobOK, Pcs, BootPcs, MovePcs, SavePcs
<1>7. CASE Save
    <2>1. ram.mc \in Headers
        BY DEF CtlInv, TypeOK, Headers, Sectors
    <2>2. st' \in [Copies -> [hdr : Headers, bits : SUBSET Pages]]
        BY <1>7, <2>1, NoJobType
           DEF Save, SaveErase1, SaveWrite1, SaveErase2, SaveWrite2, CtlInv, TypeOK, Copies
    <2>3. UNCHANGED <<flash, ram, opCuts, bootCuts, faults>> /\ pc \in SavePcs
        BY <1>7 DEF Save, SaveErase1, SaveWrite1, SaveErase2, SaveWrite2, SavePcs
    <2>4. \/ pc' \in SavePcs /\ job' = job
          \/ pc' = "fmt_cfg" /\ job.kind = "format" /\ job' = job
          \/ pc' = "sector_erase" /\ job.kind = "erase" /\ job' = job
          \/ pc' = "off" /\ job' = NoJob
        BY <1>7 DEF Save, SaveErase1, SaveWrite1, SaveErase2, SaveWrite2, LeaveUpdateWL, SavePcs
    <2> QED BY <2>2, <2>3, <2>4, NoJobType
            DEF CtlInv, TypeOK, JobOK, Pcs, BootPcs, MovePcs, SavePcs
<1>enter. ASSUME NEW ac \in 0 .. MaxCount-1, EnterUpdateWL(ac)
          PROVE  /\ ram' \in [pos : Pages, mc : Sectors, ac : 0 .. MaxCount-1]
                 /\ pc' \in {"sector_erase", "dummy_erase"}
                 /\ ac = MaxCount - 1 => pc' = "dummy_erase"
                 /\ ram'.pos = ram.pos /\ ram'.mc = ram.mc
    BY <1>enter DEF EnterUpdateWL, CtlInv, TypeOK
<1>8. ASSUME NEW v \in Sectors, NEW n \in 1 .. MaxRun, EraseRange(v, n) PROVE CtlInv'
    <2>1. job' \in Jobs
          /\ job'.kind = "erase" /\ job'.at = v /\ job'.n = n
        <3>1. "erase" \in Kinds /\ n \in 0 .. MaxRun /\ job' = NewJob("erase", v, n, NoSrc)
            BY <1>8 DEF EraseRange, Kinds
        <3>2. /\ NewJob("erase", v, n, NoSrc) \in Jobs
              /\ NewJob("erase", v, n, NoSrc).kind = "erase"
              /\ NewJob("erase", v, n, NoSrc).at = v
              /\ NewJob("erase", v, n, NoSrc).n = n
            BY <3>1, NoSrcJobType
        <3> QED BY <3>1, <3>2
    <2> QED BY <1>8, <1>enter, <2>1
            DEF EraseRange, CtlInv, TypeOK, JobOK, Pcs, MovePcs, SavePcs
<1>9. CASE SectorErase
    <2>0. job.kind = "erase" /\ job.at \in Sectors /\ job.n \in 1 .. MaxRun /\ job.at + job.n <= N
        BY <1>9 DEF SectorErase, CtlInv, TypeOK, JobOK, Jobs
    <2>1. flash' \in [Pages -> Contents]
        BY <1>9 DEF SectorErase, CtlInv, TypeOK, Contents
    <2>2. CASE job.n = 1
        BY <1>9, <2>1, <2>2, NoJobType
           DEF SectorErase, CtlInv, TypeOK, JobOK, Pcs, MovePcs, SavePcs
    <2>3. CASE job.n > 1
        <3>1. job' \in Jobs
              /\ job'.kind = "erase" /\ job'.at = job.at + 1 /\ job'.n = job.n - 1
            <4>1. job \in Jobs /\ job.at + 1 \in Sectors /\ job.n - 1 \in 0 .. MaxRun
                BY <2>0, <2>3 DEF CtlInv, TypeOK, Sectors
            <4>2. job' = [job EXCEPT !.at = @ + 1, !.n = @ - 1]
                BY <1>9, <2>3 DEF SectorErase
            <4> QED BY <4>1, <4>2, <2>0, NextSectorType
        <3>2. ram.ac \in 0 .. MaxCount-1 /\ EnterUpdateWL(ram.ac)
            BY <1>9, <2>3 DEF SectorErase, CtlInv, TypeOK
        <3>3. pc' \in {"sector_erase", "dummy_erase"}
              /\ ram' \in [pos : Pages, mc : Sectors, ac : 0 .. MaxCount-1]
            BY <3>2, <1>enter
        <3>4. UNCHANGED <<st, opCuts, bootCuts, faults>>
            BY <1>9 DEF SectorErase
        <3>5. job'.n >= 1 /\ job'.at + job'.n <= N
            BY <2>0, <2>3, <3>1 DEF Sectors
        <3> QED BY <2>1, <3>1, <3>3, <3>4, <3>5
                DEF CtlInv, TypeOK, JobOK, Pcs, MovePcs, SavePcs
    <2> QED BY <1>9, <2>2, <2>3 DEF SectorErase
<1>10. ASSUME NEW v \in Sectors, NEW n \in 1 .. MaxRun, NEW src \in [0 .. n-1 -> Values],
              Write(v, n, src)
       PROVE  CtlInv'
    <2>1. [k \in 0 .. MaxRun-1 |-> IF k < n THEN src[k] ELSE Junk]
             \in [0 .. MaxRun-1 -> Values \cup {Junk}]
        OBVIOUS
    <2>2. job' \in Jobs
          /\ job'.kind = "write" /\ job'.at = v /\ job'.n = n /\ job'.i = 0
          /\ \A k \in 0 .. n-1 : job'.src[k] \in Values
        BY <1>10, <2>1, NewJobType DEF Write, Kinds
    <2>3. pc' = "write" /\ UNCHANGED <<flash, st, ram, opCuts, bootCuts, faults>> /\ v + n <= N
        BY <1>10 DEF Write
    <2>4. TypeOK'
        BY <2>2, <2>3 DEF CtlInv, TypeOK, Pcs
    <2>5. JobOK'
        BY <2>2, <2>3 DEF JobOK, MovePcs, SavePcs
    <2> QED BY <2>4, <2>5 DEF CtlInv
<1>11. CASE WriteCall
    <2>1. job.kind = "write" /\ job.n \in 1 .. MaxRun /\ job.i \in 0 .. job.n-1
        BY <1>11 DEF WriteCall, CtlInv, TypeOK, JobOK, Jobs
    <2>2. flash' \in [Pages -> Contents]
        <3>1. \A q \in Int : job.src[q] \in Contents \/ q \notin 0 .. MaxRun-1
            BY DEF CtlInv, TypeOK, Jobs, Contents
        <3>2. \A old, new : old \in Contents /\ new \in Contents => Programmed(old, new) \in Contents
            BY DEF Programmed, Contents
        <3>3. calcAddr(job.at + job.i, ram.mc, ram.pos) \in Pages
            <4>1. job.at + job.i \in Sectors
                <5>1. job.at \in Sectors /\ job.at + job.n <= N
                    BY <2>1 DEF CtlInv, TypeOK, JobOK, Jobs
                <5> QED BY <2>1, <5>1 DEF Sectors
            <4> QED BY <4>1, AddrRange DEF CtlInv, TypeOK
        <3>4. Junk \in Contents /\ flash \in [Pages -> Contents]
            BY DEF CtlInv, TypeOK, Contents
        <3> DEFINE first == calcAddr(job.at + job.i, ram.mc, ram.pos)
                   touched == first .. first + WriteLen - 1
                   data(q) == IF job.i + q - first < job.n THEN job.src[job.i + q - first] ELSE Junk
        <3>5. flash' = [q \in Pages |-> IF q \in touched THEN Programmed(flash[q], data(q))
                                                         ELSE flash[q]]
            BY <1>11 DEF WriteCall
        <3>6. first \in Pages
            BY <3>3
        <3> HIDE DEF first
        <3>7. \A q \in Pages : q \in touched => data(q) \in Contents
            <4>1. WriteLen \in Int
                BY <2>1 DEF WriteLen
            <4> QED BY <2>1, <3>1, <3>4, <3>6, <4>1 DEF Pages
        <3> HIDE DEF touched, data
        <3> QED BY <3>2, <3>4, <3>5, <3>7
    <2>3. st' \in [Copies -> [hdr : Headers, bits : SUBSET Pages]]
        BY <1>11 DEF WriteCall, CtlInv, TypeOK, Headers
    <2>4. CASE job.i = job.n - 1
        BY <1>11, <2>2, <2>3, <2>4, NoJobType
           DEF WriteCall, CtlInv, TypeOK, JobOK, Pcs, MovePcs, SavePcs
    <2>5. CASE job.i # job.n - 1
        <3>1. job' \in Jobs
              /\ job'.kind = "write" /\ job'.at = job.at /\ job'.n = job.n /\ job'.i = job.i + 1
              /\ job'.src = job.src
            <4>1. job \in Jobs /\ job.i + 1 \in 0 .. MaxRun-1
                BY <2>1, <2>5 DEF CtlInv, TypeOK
            <4>2. job' = [job EXCEPT !.i = @ + 1]
                BY <1>11, <2>5 DEF WriteCall
            <4> QED BY <4>1, <4>2, <2>1, NextCallType
        <3>2. UNCHANGED <<ram, pc, opCuts, bootCuts, faults>> /\ pc = "write"
            BY <1>11, <2>5 DEF WriteCall
        <3>3. job'.n >= 1 /\ job'.at + job'.n <= N /\ job'.i < job'.n
              /\ \A k \in 0 .. job'.n-1 : job'.src[k] \in Values
            BY <2>1, <2>5, <3>1 DEF CtlInv, JobOK
        <3> QED BY <2>2, <2>3, <3>1, <3>2, <3>3 DEF CtlInv, TypeOK, JobOK, MovePcs, SavePcs
    <2> QED BY <2>4, <2>5
<1>12. CASE Unmount
    <2>1. job' \in Jobs
          /\ job'.kind = "unmount"
        <3>1. "unmount" \in Kinds /\ job' = NewJob("unmount", 0, 0, NoSrc)
            BY <1>12 DEF Unmount, Kinds
        <3>2. NewJob("unmount", 0, 0, NoSrc) \in Jobs
              /\ NewJob("unmount", 0, 0, NoSrc).kind = "unmount"
            BY <3>1, NoSrcType DEF NewJob, Jobs
        <3> QED BY <3>1, <3>2
    <2>2. MaxCount - 1 \in 0 .. MaxCount-1 /\ EnterUpdateWL(MaxCount - 1)
        BY <1>12 DEF Unmount
    <2>3. pc' = "dummy_erase" /\ ram' \in [pos : Pages, mc : Sectors, ac : 0 .. MaxCount-1]
        BY <2>2, <1>enter
    <2> QED BY <1>12, <2>1, <2>3 DEF Unmount, CtlInv, TypeOK, JobOK, Pcs, MovePcs, SavePcs
<1>13. CASE PowerCut
    BY <1>13, NoJobType DEF PowerCut, CtlInv, TypeOK, JobOK, Pcs, MovePcs, SavePcs
<1>14. CASE DriverError
    <2>1. ram' \in [pos : Pages, mc : Sectors, ac : 0 .. MaxCount-1]
        BY <1>14 DEF DriverError, CtlInv, TypeOK
    <2> QED BY <1>14, <2>1, NoJobType DEF DriverError, CtlInv, TypeOK, JobOK, Pcs, MovePcs, SavePcs
<1>15. CASE UNCHANGED vars
    BY <1>15 DEF vars, CtlInv, TypeOK, JobOK
<1> QED BY <1>1, <1>2, <1>3, <1>4, <1>5, <1>6, <1>7, <1>8, <1>9, <1>10, <1>11, <1>12, <1>13,
           <1>14, <1>15 DEF Next, DriverStep, Mount, Relocate, Client

\* Every value that WL_Flash computes stays in its range: positions and
\* move_count index pages and sectors, a range never runs off the disk, with
\* any number of power cuts and driver errors.
THEOREM TypeCorrect == Spec => []TypeOK
<1>1. CtlInv => TypeOK
    BY DEF CtlInv
<1> QED BY <1>1, CtlInit, CtlStep, PTL DEF Spec
-----------------------------------------------------------------------------
(* Recovery, within the budget of cuts and errors that the code survives.  *)

\* No driver error, writes of one sector, and either power cuts in wl_mount
\* only or one power cut, not in wl_mount.
Budget ==
    /\ MaxFaults = 0
    /\ MaxRun = 1
    /\ MaxOpCuts = 0 \/ (MaxOpCuts = 1 /\ MaxBootCuts = 0)

LEMMA RecoverEmpty == recoverPos({}) = 0
<1>1. 0 \in Pages /\ 0 .. 0-1 \subseteq {} /\ (0 \notin {} \/ 0 = N)
    BY NAssumption DEF Pages
<1> QED BY <1>1, RecoverPosIs

LEMMA RecoverStands ==
    ASSUME NEW b, NEW p \in Pages, Stands(b, p)
    PROVE  recoverPos(b) = p
BY RecoverPosIs DEF Stands

\* What the next mount will find when power is off.
NextMountKnown ==
    /\ st[1].hdr = BadCrc /\ st[2].hdr = BadCrc => NextMount = <<0, 0>>
    /\ \A m \in Sectors, p \in Pages : Stored(m, p) => NextMount = <<m, p>>
    /\ \A m \in Sectors : Started(m) => NextMount = <<m, 0>>
    /\ st[1].hdr = BadCrc /\ st[2].hdr \in Sectors => NextMount = <<st[2].hdr, N>>

LEMMA NextMountIs == NextMountKnown
<1>0. \A m \in Sectors : m # BadCrc
    BY NAssumption DEF Sectors, BadCrc
<1>1. st[1].hdr = BadCrc /\ st[2].hdr = BadCrc => NextMount = <<0, 0>>
    BY DEF NextMount
<1>2. ASSUME NEW m \in Sectors, NEW p \in Pages, Stored(m, p) PROVE NextMount = <<m, p>>
    <2>1. recoverPos(st[1].bits) = p
        BY <1>2, RecoverStands DEF Stored
    <2> QED BY <1>0, <1>2, <2>1 DEF NextMount, Stored
<1>3. ASSUME NEW m \in Sectors, Started(m) PROVE NextMount = <<m, 0>>
    <2>1. st[1].hdr = m /\ recoverPos(st[1].bits) = 0
        BY <1>3, RecoverEmpty DEF Started
    <2> QED BY <1>0, <2>1 DEF NextMount
<1>4. st[1].hdr = BadCrc /\ st[2].hdr \in Sectors => NextMount = <<st[2].hdr, N>>
    BY <1>0 DEF NextMount
<1> QED BY <1>1, <1>2, <1>3, <1>4 DEF NextMountKnown

LEMMA StateInit == Init => StateOK
BY DEF Init, StateOK, StateOff, Blank, Copies, SavePcs

LEMMA StateStep ==
    ASSUME Budget, CtlInv, StateOK, Next, CtlInv'
    PROVE  StateOK'
<1> USE NAssumption, BoundsAssumption
<1>ty. /\ st \in [Copies -> [hdr : Headers, bits : SUBSET Pages]]
       /\ flash \in [Pages -> Contents]
       /\ ram \in [pos : Pages, mc : Sectors, ac : 0 .. MaxCount-1]
       /\ opCuts \in Nat /\ opCuts <= MaxOpCuts
       /\ 1 \in Copies /\ 2 \in Copies /\ 0 \in Pages /\ N \in Pages
    BY DEF CtlInv, TypeOK, Copies, Pages
<1>mc. \A m \in Sectors : m # BadCrc
    BY DEF Sectors, BadCrc
<1>nof. ~DriverError /\ ~BootMisread
    BY DEF Budget, DriverError, BootMisread, CtlInv, TypeOK
<1>1. CASE Boot
    <2>0. pc = "off" /\ StateOff /\ UNCHANGED <<flash, st, opCuts, bootCuts>>
        BY <1>1 DEF Boot, BootWith, StateOK
    <2>1. CASE st[1].hdr = BadCrc /\ st[2].hdr = BadCrc
        <3>1. BootKind(st[1].hdr) = "format"
            BY <2>1 DEF BootKind
        <3>2. pc' = "save_erase1" /\ ram' = ZeroRam /\ job'.kind = "format"
            BY <1>1, <3>1 DEF Boot, BootWith, ZeroRam, NewJob
        <3>3. StateFormat'
            BY <2>0, <2>1, <3>2 DEF StateFormat
        <3> QED BY <3>2, <3>3 DEF StateOK, SavePcs
    <2>2. CASE \E m \in Sectors, p \in Pages : Stored(m, p)
        <3>1. PICK m \in Sectors, p \in Pages : Stored(m, p)
            BY <2>2
        <3>2. BootKind(st[1].hdr) = "none" /\ st[1].hdr = m /\ recoverPos(st[1].bits) = p
            BY <3>1, <1>mc, RecoverStands DEF BootKind, Stored
        <3>3. pc' = "ready" /\ ram'.mc = m /\ ram'.pos = p
            BY <1>1, <3>2 DEF Boot, BootWith, ZeroRam
        <3>4. Stored(ram.mc, ram.pos)'
            BY <3>1, <3>3, <2>0 DEF Stored
        <3> QED BY <3>3, <3>4 DEF StateOK, SavePcs
    <2>3. CASE (\E m \in Sectors : Started(m)) /\ (st[2].hdr = BadCrc \/ opCuts > 0)
        <3>1. PICK m \in Sectors : Started(m)
            BY <2>3
        <3>2. st[1].hdr = m /\ st[1].bits = {} /\ m # BadCrc
            BY <3>1, <1>mc DEF Started
        <3>3. CASE st[2].hdr = m
            <4>1. BootKind(st[1].hdr) = "none" /\ recoverPos(st[1].bits) = 0
                BY <3>2, <3>3, RecoverEmpty DEF BootKind
            <4>2. pc' = "ready" /\ ram'.mc = m /\ ram'.pos = 0
                BY <1>1, <3>2, <4>1 DEF Boot, BootWith, ZeroRam
            <4>3. Stored(ram.mc, ram.pos)'
                BY <2>0, <2>3, <3>2, <3>3, <4>2, <1>ty DEF Stored, Stands
            <4> QED BY <4>2, <4>3 DEF StateOK, SavePcs
        <3>4. CASE st[2].hdr # m
            <4>1. /\ BootKind(st[1].hdr) = IF st[2].hdr = BadCrc THEN "recover2" ELSE "sync"
                BY <3>2, <3>4 DEF BootKind
            <4>2. pc' = "rep_erase" /\ ram'.mc = m /\ job'.kind = BootKind(st[1].hdr)
                BY <1>1, <3>2, <4>1 DEF Boot, BootWith, ZeroRam, NewJob
            <4>3. StateRepair2'
                BY <2>0, <2>3, <3>1, <4>1, <4>2 DEF StateRepair2, Started
            <4> QED BY <4>1, <4>2, <4>3 DEF StateOK, SavePcs
        <3> QED BY <3>3, <3>4
    <2>4. CASE st[1].hdr = BadCrc /\ st[2].hdr \in Sectors /\ st[2].bits = Pages /\ opCuts > 0
        <3>1. BootKind(st[1].hdr) = "recover1"
            BY <2>4, <1>mc DEF BootKind
        <3>2. pc' = "rep_erase" /\ ram'.mc = st[2].hdr /\ job'.kind = "recover1"
            BY <1>1, <3>1 DEF Boot, BootWith, ZeroRam, NewJob
        <3>3. st[2] = [hdr |-> st[2].hdr, bits |-> Pages]
            BY <1>ty, <2>4
        <3>4. StateRepair1'
            BY <2>0, <2>4, <3>2, <3>3 DEF StateRepair1
        <3> QED BY <3>2, <3>4 DEF StateOK, SavePcs
    <2> QED BY <2>0, <2>1, <2>2, <2>3, <2>4 DEF StateOff
<1>2. CASE RepairErase \/ RepairHeader \/ RepairBit
    <2>0. /\ pc \in {"rep_erase", "rep_hdr", "rep_bits"} /\ pc' \in {"rep_hdr", "rep_bits"}
          /\ UNCHANGED <<flash, ram, job, opCuts, bootCuts, faults>>
        BY <1>2 DEF RepairErase, RepairHeader, RepairBit
    <2>1. CASE job.kind = "recover1"
        <3>1. StateRepair1 /\ Target = 1 /\ Source = 2
            BY <2>0, <2>1 DEF StateOK, Target, Source
        <3>2. StateRepair1'
            <4>1. CASE RepairErase
                <5>1. pc' = "rep_hdr" /\ st'[1] = Blank /\ st'[2] = st[2]
                    BY <1>ty, <3>1, <4>1 DEF RepairErase
                <5> QED BY <2>0, <3>1, <5>1 DEF StateRepair1
            <4>2. CASE RepairHeader
                <5>1. pc' = "rep_bits" /\ st'[1].hdr = st[2].hdr /\ st'[2] = st[2]
                    BY <1>ty, <3>1, <4>2 DEF RepairHeader
                <5> QED BY <2>0, <3>1, <5>1 DEF StateRepair1
            <4>3. CASE RepairBit
                <5>1. pc = "rep_bits" /\ pc' = "rep_bits" /\ st'[1].hdr = st[1].hdr /\ st'[2] = st[2]
                    BY <1>ty, <3>1, <4>3 DEF RepairBit
                <5> QED BY <2>0, <3>1, <5>1 DEF StateRepair1
            <4> QED BY <1>2, <4>1, <4>2, <4>3
        <3> QED BY <2>0, <2>1, <3>2 DEF StateOK, SavePcs
    <2>2. CASE job.kind # "recover1"
        <3>1. StateRepair2 /\ Target = 2 /\ Source = 1
            BY <2>0, <2>2 DEF StateOK, Target, Source
        <3>2. StateRepair2'
            <4>0. st[1].hdr = ram.mc /\ st[1].bits = {}
                BY <3>1 DEF StateRepair2, Started
            <4>1. CASE RepairErase
                <5>1. pc' = "rep_hdr" /\ st'[2] = Blank /\ st'[1] = st[1]
                    BY <1>ty, <3>1, <4>1 DEF RepairErase
                <5> QED BY <2>0, <3>1, <5>1 DEF StateRepair2, Started
            <4>2. CASE RepairHeader
                <5>0. st[2] = Blank
                    BY <3>1, <4>2 DEF StateRepair2, RepairHeader
                <5>1. pc' = "rep_bits" /\ st'[2] = [Blank EXCEPT !.hdr = ram.mc] /\ st'[1] = st[1]
                    BY <1>ty, <3>1, <4>0, <4>2, <5>0 DEF RepairHeader
                <5>2. [Blank EXCEPT !.hdr = ram.mc] = [hdr |-> ram.mc, bits |-> {}]
                    BY DEF Blank
                <5> QED BY <2>0, <3>1, <5>1, <5>2 DEF StateRepair2, Started
            <4>3. CASE RepairBit
                BY <3>1, <4>0, <4>3 DEF RepairBit, Missing
            <4> QED BY <1>2, <4>1, <4>2, <4>3
        <3> QED BY <2>0, <2>2, <3>2 DEF StateOK, SavePcs
    <2> QED BY <2>1, <2>2
<1>3. CASE RepairDone
    <2>0. pc = "rep_bits" /\ pc' = "ready" /\ UNCHANGED <<flash, st, opCuts>>
          /\ ram' = [ram EXCEPT !.pos = RepairedPos]
          /\ job.kind \in {"sync", "recover1", "recover2"} /\ Missing = {}
        BY <1>3 DEF RepairDone, Mounted, CtlInv, JobOK
    <2>1. CASE job.kind = "recover1"
        <3>1. StateRepair1 /\ Target = 1 /\ Source = 2 /\ RepairedPos = N
            BY <2>0, <2>1 DEF StateOK, Target, Source, RepairedPos
        <3>2. st[1].hdr = ram.mc /\ st[2].hdr = ram.mc /\ st[1].bits = Pages /\ opCuts > 0
            BY <1>ty, <2>0, <3>1 DEF StateRepair1, Missing
        <3>3. ram'.mc = ram.mc /\ ram'.pos = N
            BY <1>ty, <2>0, <3>1
        <3>4. Stored(ram.mc, ram.pos)'
            BY <2>0, <3>2, <3>3 DEF Stored, Stands, Pages
        <3> QED BY <2>0, <3>4 DEF StateOK, SavePcs
    <2>2. CASE job.kind # "recover1"
        <3>1. StateRepair2
            BY <2>0, <2>2 DEF StateOK
        <3>2. st[1].hdr = ram.mc /\ st[2].hdr = ram.mc /\ st[1].bits = {} /\ st[2].bits = {}
            BY <2>0, <3>1 DEF StateRepair2, Started
        <3>3. RepairedPos = 0
            BY <2>0, <2>2, <3>2, RecoverEmpty DEF RepairedPos
        <3>4. ram'.mc = ram.mc /\ ram'.pos = 0
            BY <1>ty, <2>0, <3>3
        <3>5. Stored(ram.mc, ram.pos)'
            BY <2>0, <3>2, <3>4 DEF Stored, Stands
        <3> QED BY <2>0, <3>5 DEF StateOK, SavePcs
    <2> QED BY <2>1, <2>2
<1>4. CASE FormatConfig
    <2>0. pc = "fmt_cfg" /\ pc' = "ready" /\ UNCHANGED <<flash, st, opCuts>>
          /\ ram' = [ram EXCEPT !.pos = recoverPos(st[1].bits)] /\ StateFormat
        BY <1>4 DEF FormatConfig, Mounted, StateOK
    <2>1. st[1].hdr = 0 /\ st[1].bits = {} /\ st[2] = st[1] /\ ram = ZeroRam
        BY <2>0 DEF StateFormat, Started
    <2>2. ram'.mc = 0 /\ ram'.pos = 0
        BY <2>0, <2>1, RecoverEmpty DEF ZeroRam
    <2>3. Stored(ram.mc, ram.pos)'
        BY <2>0, <2>1, <2>2 DEF Stored, Stands
    <2> QED BY <2>0, <2>3 DEF StateOK, SavePcs
<1>5. CASE DummyErase \/ CopyStart \/ CopyEnd
    <2>0. /\ pc \in {"dummy_erase", "copy", "copying"} /\ pc' \in {"copy", "copying", "mark1"}
          /\ UNCHANGED <<st, ram, job, opCuts>>
          /\ Stored(ram.mc, ram.pos)
          /\ pc' = "mark1" => flash' = [flash EXCEPT ![ram.pos] = flash[DataPage]]
        BY <1>5 DEF DummyErase, CopyStart, CopyEnd, StateOK
    <2>1. Stored(ram.mc, ram.pos)'
        BY <2>0 DEF Stored
    <2>2. DataPage \in Pages /\ DataPage # ram.pos /\ ram.pos \in Pages /\ DataPage' = DataPage
        BY <1>ty, <2>0 DEF DataPage, Pages
    <2>3. pc' = "mark1" => flash'[ram'.pos] = flash'[DataPage']
        BY <1>ty, <2>0, <2>2
    <2> QED BY <2>0, <2>1, <2>3 DEF StateOK, SavePcs
<1>6. CASE Mark1
    <2>0. pc = "mark1" /\ pc' = "mark2" /\ UNCHANGED <<flash, ram, opCuts>>
          /\ st' = [st EXCEPT ![1].bits = @ \cup {ram.pos}]
          /\ Stored(ram.mc, ram.pos) /\ flash[ram.pos] = flash[DataPage]
        BY <1>6 DEF Mark1, StateOK
    <2>1. st'[1].hdr = st[1].hdr /\ st'[2] = st[2] /\ st'[1].bits = st[1].bits \cup {ram.pos}
        BY <1>ty, <2>0
    <2>2. st[1].bits \cup {ram.pos} = 0 .. ram.pos
        BY <1>ty, <2>0 DEF Stored, Stands, Pages
    <2>3. StateMark2'
        BY <2>0, <2>1, <2>2 DEF StateMark2, Stored
    <2>4. flash'[ram'.pos] = flash'[DataPage']
        BY <2>0 DEF DataPage
    <2> QED BY <2>0, <2>3, <2>4 DEF StateOK, SavePcs
<1>7. CASE Mark2
    <2>0. pc = "mark2" /\ UNCHANGED <<flash, opCuts>> /\ StateMark2
          /\ st' = [st EXCEPT ![2].bits = @ \cup {ram.pos}] /\ flash[ram.pos] = flash[DataPage]
        BY <1>7 DEF Mark2, StateOK
    <2>1. st'[1] = st[1] /\ st'[2].hdr = st[2].hdr /\ st'[2].bits = st[2].bits \cup {ram.pos}
        BY <1>ty, <2>0
    <2>2. CASE ram.pos < N
        <3>1. ram'.mc = ram.mc /\ ram'.pos = ram.pos + 1
              /\ pc' \in {"sector_erase", "off"}
            BY <1>7, <1>ty, <2>2 DEF Mark2, LeaveUpdateWL
        <3>2. Stored(ram.mc, ram.pos)'
            BY <1>ty, <2>0, <2>1, <2>2, <3>1 DEF Stored, Stands, StateMark2, Pages
        <3>3. ram'.mc \in Sectors /\ ram'.pos \in Pages
            BY <1>ty, <2>2, <3>1 DEF Pages
        <3>4. StateOff'
            BY <3>2, <3>3 DEF StateOff
        <3> QED BY <3>1, <3>2, <3>4 DEF StateOK, SavePcs
    <2>3. CASE ram.pos = N
        <3>1. ram'.mc = NextMoveCount(ram.mc) /\ ram'.pos = 0 /\ pc' = "save_erase1" /\ job' = job
            <4>1. /\ ram' = [ram EXCEPT !.pos = 0, !.mc = NextMoveCount(ram.mc)]
                  /\ pc' = "save_erase1" /\ job' = job
                BY <1>7, <2>3 DEF Mark2
            <4> QED BY <1>ty, <4>1
        <3>2. st'[1].bits = Pages /\ (opCuts' = 0 => st'[2].bits = Pages)
            BY <2>0, <2>1, <2>3 DEF StateMark2, Pages
        <3>3. Ended(ram.mc)'
            BY <1>ty, <2>0, <2>1, <3>1, <3>2 DEF Ended, StateMark2
        <3>4. Copied0'
            BY <1>ty, <2>0, <2>3 DEF Copied0, DataPage
        <3>5. StateWrap'
            BY <2>0, <2>1, <3>1, <3>2, <3>3, <3>4 DEF StateWrap, StateMark2
        <3>6. job.kind # "format"
            BY <2>0 DEF CtlInv, JobOK, MovePcs
        <3> QED BY <3>1, <3>5, <3>6 DEF StateOK, SavePcs
    <2> QED BY <1>ty, <2>2, <2>3 DEF Pages
<1>8. CASE Save
    <2>0. UNCHANGED <<flash, ram, opCuts, bootCuts>> /\ pc \in SavePcs
        BY <1>8 DEF Save, SaveErase1, SaveWrite1, SaveErase2, SaveWrite2, SavePcs
    <2>1. CASE job.kind = "format"
        <3>1. StateFormat
            BY <2>0, <2>1 DEF StateOK
        <3>2. job' = job /\ pc' \in SavePcs \cup {"fmt_cfg"}
            BY <1>8, <2>1 DEF Save, SaveErase1, SaveWrite1, SaveErase2, SaveWrite2, SavePcs
        <3>3. StateFormat'
            <4>0. ram = ZeroRam /\ ram.mc = 0 /\ [Blank EXCEPT !.hdr = 0] = [hdr |-> 0, bits |-> {}]
                BY <3>1 DEF StateFormat, ZeroRam, Blank
            <4>1. CASE SaveErase1
                <5>1. pc' = "save_write1" /\ st'[1] = Blank /\ st'[2] = st[2] /\ st[2].hdr = BadCrc
                    BY <1>ty, <3>1, <4>1 DEF SaveErase1, StateFormat
                <5> QED BY <2>0, <4>0, <5>1 DEF StateFormat
            <4>2. CASE SaveWrite1
                <5>1. /\ pc' = "save_erase2" /\ st'[1] = [st[1] EXCEPT !.hdr = 0]
                      /\ st'[2] = st[2] /\ st[2].hdr = BadCrc /\ st[1] = Blank
                    BY <1>ty, <3>1, <4>0, <4>2 DEF SaveWrite1, StateFormat
                <5> QED BY <2>0, <4>0, <5>1 DEF StateFormat, Started
            <4>3. CASE SaveErase2
                <5>1. pc' = "save_write2" /\ st'[2] = Blank /\ st'[1] = st[1] /\ Started(0)
                    BY <1>ty, <3>1, <4>3 DEF SaveErase2, StateFormat
                <5> QED BY <2>0, <4>0, <5>1 DEF StateFormat, Started
            <4>4. CASE SaveWrite2
                <5>1. /\ pc' = "fmt_cfg" /\ st'[2] = [st[2] EXCEPT !.hdr = 0]
                      /\ st'[1] = st[1] /\ st[2] = Blank /\ Started(0)
                    BY <1>ty, <2>1, <3>1, <4>0, <4>4 DEF SaveWrite2, StateFormat
                <5> QED BY <2>0, <4>0, <5>1 DEF StateFormat, Started
            <4> QED BY <1>8, <4>1, <4>2, <4>3, <4>4 DEF Save
        <3> QED BY <2>1, <3>2, <3>3 DEF StateOK, SavePcs
    <2>2. CASE job.kind # "format"
        <3>1. StateWrap
            BY <2>0, <2>2 DEF StateOK
        <3>2. CASE SaveErase1 \/ SaveWrite1 \/ SaveErase2
            <4>1. job' = job /\ pc' \in SavePcs
                BY <3>2 DEF SaveErase1, SaveWrite1, SaveErase2, SavePcs
            <4>2. StateWrap'
                <5>1. CASE SaveErase1
                    <6>1. pc' = "save_write1" /\ st'[1] = Blank /\ st'[2] = st[2]
                          /\ Ended(ram.mc) /\ Copied0 /\ ram.pos = 0
                        BY <1>ty, <3>1, <5>1 DEF SaveErase1, StateWrap
                    <6> QED BY <2>0, <6>1 DEF StateWrap, Ended, Copied0
                <5>2. CASE SaveWrite1
                    <6>1. /\ pc' = "save_erase2" /\ st'[1] = [st[1] EXCEPT !.hdr = ram.mc]
                          /\ st'[2] = st[2] /\ st[1] = Blank /\ Ended(ram.mc) /\ ram.pos = 0
                        BY <1>ty, <3>1, <5>2 DEF SaveWrite1, StateWrap
                    <6>2. [Blank EXCEPT !.hdr = ram.mc] = [hdr |-> ram.mc, bits |-> {}]
                        BY DEF Blank
                    <6> QED BY <2>0, <6>1, <6>2 DEF StateWrap, Started, Ended
                <5>3. CASE SaveErase2
                    <6>1. pc' = "save_write2" /\ st'[2] = Blank /\ st'[1] = st[1]
                          /\ Started(ram.mc) /\ ram.pos = 0
                        BY <1>ty, <3>1, <5>3 DEF SaveErase2, StateWrap
                    <6> QED BY <2>0, <6>1 DEF StateWrap, Started
                <5> QED BY <3>2, <5>1, <5>2, <5>3
            <4> QED BY <2>2, <4>1, <4>2 DEF StateOK, SavePcs
        <3>3. CASE SaveWrite2
            <4>1. pc' \in {"off", "sector_erase"}
                BY <2>2, <3>3 DEF SaveWrite2, LeaveUpdateWL
            <4>2. st'[1] = st[1] /\ st'[2].hdr = ram.mc /\ st'[2].bits = {} /\ Started(ram.mc)
                  /\ ram'.pos = 0 /\ ram' = ram
                BY <1>ty, <2>0, <3>1, <3>3 DEF SaveWrite2, StateWrap, Blank
            <4>3. Stored(ram.mc, ram.pos)'
                BY <1>ty, <4>2 DEF Stored, Stands, Started
            <4>4. StateOff'
                BY <1>ty, <4>2, <4>3 DEF StateOff
            <4> QED BY <4>1, <4>3, <4>4 DEF StateOK, SavePcs
        <3> QED BY <1>8, <3>2, <3>3 DEF Save
    <2> QED BY <2>1, <2>2
<1>enter. ASSUME NEW ac \in 0 .. MaxCount-1, EnterUpdateWL(ac)
          PROVE  /\ pc' \in {"sector_erase", "dummy_erase"}
                 /\ ram'.pos = ram.pos /\ ram'.mc = ram.mc
    BY <1>enter, <1>ty DEF EnterUpdateWL
<1>9. CASE Client \/ SectorErase \/ WriteCall
    <2>1. /\ pc \in {"ready", "sector_erase", "write"}
          /\ pc' \in {"ready", "sector_erase", "dummy_erase", "write"}
          /\ ram'.pos = ram.pos /\ ram'.mc = ram.mc /\ opCuts' = opCuts
        <3>1. ram.ac \in 0 .. MaxCount-1 /\ MaxCount - 1 \in 0 .. MaxCount-1
            BY <1>ty
        <3> QED BY <1>9, <1>enter, <3>1 DEF Client, EraseRange, Write, Unmount, SectorErase, WriteCall
    <2>2. st' = st
        <3>1. CASE WriteCall
            <4>1. job.at \in Sectors /\ job.n = 1 /\ job.i = 0
                BY <3>1 DEF WriteCall, CtlInv, TypeOK, JobOK, Jobs, Budget
            <4>2. calcAddr(job.at + job.i, ram.mc, ram.pos) \in Pages
                <5>1. job.at + job.i = job.at
                    BY <4>1 DEF Sectors
                <5> QED BY <1>ty, <4>1, <5>1, AddrRange
            <4>3. WriteLen = 1
                BY <4>1 DEF WriteLen
            <4>4. st' = [k \in Copies |-> st[k]]
                BY <3>1, <4>2, <4>3 DEF WriteCall, Copies, Pages
            <4> QED BY <1>ty, <4>4
        <3> QED BY <1>9, <3>1 DEF Client, EraseRange, Write, Unmount, SectorErase
    <2>3. Stored(ram.mc, ram.pos)'
        BY <2>1, <2>2 DEF StateOK, Stored
    <2> QED BY <2>1, <2>3 DEF StateOK, SavePcs
<1>10. CASE PowerCut
    <2>0. pc' = "off" /\ st' = st /\ opCuts' \in Nat /\ opCuts' >= opCuts
        BY <1>10, <1>ty DEF PowerCut
    <2>off. ASSUME StateOff' PROVE StateOK'
        BY <2>0, <2>off DEF StateOK, SavePcs
    <2>1. CASE pc \in {"ready", "sector_erase", "write", "dummy_erase", "copy", "copying", "mark1"}
        <3>1. Stored(ram.mc, ram.pos)
            BY <2>1 DEF StateOK
        <3>2. PICK m \in Sectors, p \in Pages : m = ram.mc /\ p = ram.pos
            BY <1>ty
        <3>3. Stored(m, p)
            BY <3>1, <3>2
        <3>4. Stored(m, p)'
            BY <1>ty, <2>0, <3>3 DEF Stored
        <3> QED BY <2>off, <3>4 DEF StateOff
    <2>2. CASE pc = "mark2"
        <3>1. StateMark2 /\ opCuts' > 0
            BY <1>10, <1>ty, <2>2 DEF StateOK, PowerCut, InBoot, BootPcs, SavePcs
        <3>2. PICK p \in Pages : p = IF ram.pos < N THEN ram.pos + 1 ELSE N
            BY <1>ty DEF Pages
        <3>3. Stands(0 .. ram.pos, p)
            BY <1>ty, <3>2 DEF Stands, Pages
        <3>4. ram.mc \in Sectors /\ st'[1].hdr = ram.mc /\ st'[2].hdr = ram.mc
              /\ st'[1].bits = 0 .. ram.pos
            BY <1>ty, <2>0, <3>1 DEF StateMark2
        <3>5. \E m \in Sectors : Stored(m, p)'
            BY <3>1, <3>3, <3>4 DEF Stored
        <3> QED BY <2>off, <3>5 DEF StateOff
    <2>3. CASE InBoot
        <3>0. bootCuts < MaxBootCuts /\ opCuts' = opCuts
            BY <1>10, <2>3 DEF PowerCut, InBoot, BootPcs, SavePcs
        <3>1. opCuts = 0
            BY <1>ty, <3>0 DEF Budget, CtlInv, TypeOK
        <3>2. CASE pc \in {"rep_erase", "rep_hdr", "rep_bits"}
            <4>1. StateRepair2
                BY <3>1, <3>2 DEF StateOK, StateRepair1
            <4>2. job.kind \in {"sync", "recover2"} /\ Started(ram.mc)
                BY <3>1, <3>2, <4>1 DEF CtlInv, JobOK, StateOK, StateRepair1, StateRepair2
            <4>3. PICK m \in Sectors : m = ram.mc /\ Started(m)
                BY <1>ty, <4>2
            <4>4. Started(m)'
                BY <2>0, <4>3 DEF Started
            <4>5. CASE st[2].hdr = BadCrc
                BY <2>0, <2>off, <4>4, <4>5 DEF StateOff
            <4>6. CASE pc = "rep_bits"
                <5>1. st[1] = [hdr |-> m, bits |-> {}] /\ st[2] = [hdr |-> m, bits |-> {}]
                    BY <4>1, <4>3, <4>6 DEF StateRepair2, Started
                <5>2. Stored(m, 0)'
                    BY <2>0, <5>1 DEF Stored, Stands
                <5> QED BY <1>ty, <2>off, <5>2 DEF StateOff
            <4>7. pc = "rep_bits" \/ st[2].hdr = BadCrc
                <5>1. CASE pc = "rep_erase"
                    <6>1. job.kind = "recover2"
                        BY <3>1, <4>1, <4>2 DEF StateRepair2
                    <6> QED BY <4>1, <5>1, <6>1 DEF StateRepair2
                <5> QED BY <3>2, <4>1, <5>1 DEF StateRepair2, Blank
            <4> QED BY <4>5, <4>6, <4>7
        <3>3. CASE pc = "fmt_cfg" \/ (pc \in SavePcs /\ job.kind = "format")
            <4>1. StateFormat
                BY <3>3 DEF StateOK
            <4>2. 0 \in Sectors
                BY DEF Sectors
            <4>3. CASE pc \in {"save_erase1", "save_write1"}
                BY <2>0, <2>off, <4>1, <4>3 DEF StateFormat, StateOff, Blank
            <4>4. CASE pc \in {"save_erase2", "save_write2"}
                <5>1. Started(0)' /\ st'[2].hdr = BadCrc
                    BY <2>0, <4>1, <4>4 DEF StateFormat, Started, Blank
                <5> QED BY <2>off, <4>2, <5>1 DEF StateOff
            <4>5. CASE pc = "fmt_cfg"
                <5>1. st[1] = [hdr |-> 0, bits |-> {}] /\ st[2] = st[1]
                    BY <4>1, <4>5 DEF StateFormat, Started
                <5>2. Stored(0, 0)'
                    BY <2>0, <5>1 DEF Stored, Stands
                <5> QED BY <1>ty, <2>off, <4>2, <5>2 DEF StateOff
            <4> QED BY <3>3, <4>3, <4>4, <4>5 DEF SavePcs
        <3> QED BY <2>3, <3>2, <3>3 DEF InBoot, BootPcs
    <2>4. CASE pc \in SavePcs /\ job.kind # "format"
        <3>1. StateWrap /\ opCuts = 0 /\ opCuts' > 0
            BY <1>10, <1>ty, <2>4 DEF StateOK, PowerCut, InBoot, BootPcs, SavePcs, Budget
        <3>2. CASE pc = "save_erase1"
            <4>1. st'[1].hdr = st'[2].hdr /\ st'[1].bits = Pages /\ st'[2].hdr \in Sectors
                BY <2>0, <3>1, <3>2 DEF StateWrap, Ended
            <4>2. Stands(Pages, N)
                BY DEF Stands, Pages
            <4>3. Stored(st[2].hdr, N)'
                BY <3>1, <4>1, <4>2 DEF Stored
            <4> QED BY <1>ty, <2>off, <4>1, <4>3 DEF StateOff
        <3>3. CASE pc = "save_write1"
            BY <2>0, <2>off, <3>1, <3>3 DEF StateWrap, Ended, StateOff, Blank
        <3>4. CASE pc \in {"save_erase2", "save_write2"}
            <4>1. ram.mc \in Sectors /\ Started(ram.mc)
                BY <1>ty, <3>1, <3>4 DEF StateWrap
            <4>2. \E m \in Sectors : Started(m)'
                BY <2>0, <4>1 DEF Started
            <4> QED BY <2>off, <3>1, <4>2 DEF StateOff
        <3> QED BY <2>4, <3>2, <3>3, <3>4 DEF SavePcs
    <2> QED BY <1>10, <2>1, <2>2, <2>3, <2>4
            DEF PowerCut, CtlInv, TypeOK, Pcs, BootPcs, MovePcs, SavePcs, InBoot
<1> QED BY <1>nof, <1>1, <1>2, <1>3, <1>4, <1>5, <1>6, <1>7, <1>8, <1>9, <1>10
        DEF Next, DriverStep, Mount, Relocate
LEMMA NextMountIsPrime == NextMountKnown'
BY NextMountIs, PTL

\* Which mapping is in force at which step.
CurrentKnown ==
    /\ pc = "off" => Current = NextMount
    /\ pc \in {"rep_erase", "rep_hdr", "rep_bits"} =>
          Current = IF job.kind = "recover1" THEN <<ram.mc, N>> ELSE <<ram.mc, 0>>
    /\ pc = "fmt_cfg" \/ (pc \in SavePcs /\ job.kind = "format") => Current = <<0, 0>>
    /\ pc \in SavePcs /\ job.kind # "format" => Current = <<ram.mc, ram.pos>>
    /\ pc \in {"ready", "sector_erase", "write"} \cup MovePcs => Current = <<ram.mc, ram.pos>>

LEMMA CurrentIs == CtlInv /\ StateOK => CurrentKnown
<1> SUFFICES ASSUME CtlInv, StateOK PROVE CurrentKnown
    OBVIOUS
<1>1. CASE pc = "off"
    BY <1>1 DEF CurrentKnown, Current, SavePcs, MovePcs
<1>2. CASE pc \in {"rep_erase", "rep_hdr", "rep_bits"}
    <2>0. job.kind \in {"sync", "recover1", "recover2"} /\ pc # "off"
        BY <1>2 DEF CtlInv, JobOK
    <2>1. CASE job.kind = "recover1"
        <3>1. st[2].hdr = ram.mc
            BY <1>2, <2>1 DEF StateOK, StateRepair1
        <3> QED BY <1>2, <2>0, <2>1, <3>1 DEF CurrentKnown, Current, SavePcs, MovePcs
    <2>2. CASE job.kind # "recover1"
        <3>1. st[1].hdr = ram.mc /\ recoverPos(st[1].bits) = 0
            BY <1>2, <2>2, RecoverEmpty DEF StateOK, StateRepair2, Started
        <3> QED BY <1>2, <2>0, <2>2, <3>1 DEF CurrentKnown, Current, SavePcs, MovePcs
    <2> QED BY <2>1, <2>2
<1>3. CASE pc = "fmt_cfg" \/ (pc \in SavePcs /\ job.kind = "format")
    <2>1. job.kind = "format" /\ pc # "off"
        BY <1>3 DEF CtlInv, JobOK, SavePcs
    <2> QED BY <1>3, <2>1 DEF CurrentKnown, Current, SavePcs, MovePcs
<1>4. CASE \/ pc \in SavePcs /\ job.kind # "format"
           \/ pc \in {"ready", "sector_erase", "write"} \cup MovePcs
    <2>1. job.kind \in {"none", "erase", "write", "unmount"} /\ pc # "off"
        BY <1>4, NoJobType DEF CtlInv, JobOK, SavePcs, MovePcs
    <2>2. Current = <<ram.mc, ram.pos>>
        BY <2>1 DEF Current
    <2> QED BY <1>4, <2>1, <2>2 DEF CurrentKnown, SavePcs, MovePcs
<1> QED BY <1>1, <1>2, <1>3, <1>4 DEF CtlInv, TypeOK, Pcs, BootPcs

\* wl_read() through the mapping <<m, p>> of a flash with the contents f.
VW(f, m, p) == [v \in Sectors |-> f[calcAddr(v, m, p)]]

\* What the dummy page holds does not matter.
LEMMA ViewDummy ==
    ASSUME NEW f \in [Pages -> Contents], NEW m \in Sectors, NEW p \in Pages, NEW x
    PROVE  VW([f EXCEPT ![p] = x], m, p) = VW(f, m, p)
<1>1. \A v \in Sectors : [f EXCEPT ![p] = x][calcAddr(v, m, p)] = f[calcAddr(v, m, p)]
    BY AddrRange
<1> QED BY <1>1 DEF VW

\* pos++ after a copy.
LEMMA ViewMove ==
    ASSUME NEW f, NEW m \in Sectors, NEW p \in Pages, p < N, f[p] = f[p + 1]
    PROVE  VW(f, m, p + 1) = VW(f, m, p)
<1>1. \A v \in Sectors : f[calcAddr(v, m, p + 1)] = f[calcAddr(v, m, p)]
    BY AddrStep
<1> QED BY <1>1 DEF VW

\* The end of a round after a copy of page 0 to page N.
LEMMA ViewWrap ==
    ASSUME NEW f, NEW m \in Sectors, f[N] = f[0]
    PROVE  VW(f, NextMoveCount(m), 0) = VW(f, m, N)
<1>1. \A v \in Sectors : f[calcAddr(v, NextMoveCount(m), 0)] = f[calcAddr(v, m, N)]
    BY AddrWrap
<1> QED BY <1>1 DEF VW

Upd(f, a, x) == [f EXCEPT ![a] = x]

\* A change of one sector's page changes that sector only.
LEMMA ViewUpdate ==
    ASSUME NEW f \in [Pages -> Contents], NEW m \in Sectors, NEW p \in Pages,
           NEW v \in Sectors, NEW x
    PROVE  VW(Upd(f, calcAddr(v, m, p), x), m, p) = Upd(VW(f, m, p), v, x)
<1>1. \A w \in Sectors : /\ calcAddr(w, m, p) \in Pages
                         /\ calcAddr(w, m, p) = calcAddr(v, m, p) <=> w = v
    BY AddrRange, AddrInjective
<1>2. \A w \in Sectors : Upd(f, calcAddr(v, m, p), x)[calcAddr(w, m, p)]
                           = IF w = v THEN x ELSE f[calcAddr(w, m, p)]
    BY <1>1 DEF Upd
<1> QED BY <1>2 DEF VW, Upd

-----------------------------------------------------------------------------
(* Every step keeps what the client sees, or is a step of the disk.        *)

\* Mounts, with their repairs, the rewriting of the state sectors and cuts
\* outside an operation leave the mapping in force as it is.
LEMMA MappingKept ==
    ASSUME Budget, CtlInv, StateOK, CtlInv', StateOK', CurrentKnown, CurrentKnown',
           Mount \/ Save \/ (PowerCut /\ (pc = "ready" \/ InBoot))
    PROVE  Current' = Current /\ flash' = flash
<1> USE NAssumption, BoundsAssumption
<1>ty. /\ ram \in [pos : Pages, mc : Sectors, ac : 0 .. MaxCount-1]
       /\ ram.pos \in Pages /\ ram.mc \in Sectors /\ 0 \in Pages /\ N \in Pages
    BY DEF CtlInv, TypeOK, Pages
<1>nm. NextMountKnown /\ NextMountKnown'
    BY NextMountIs, NextMountIsPrime
<1>1. CASE Boot
    <2>0. pc = "off" /\ StateOff /\ UNCHANGED <<flash, st, opCuts, bootCuts>> /\ Current = NextMount
        BY <1>1 DEF Boot, BootWith, StateOK, CurrentKnown
    <2>mc. \A m \in Sectors : m # BadCrc
        BY DEF Sectors, BadCrc
    <2>1. CASE st[1].hdr = BadCrc /\ st[2].hdr = BadCrc
        <3>1. pc' = "save_erase1" /\ job'.kind = "format" /\ NextMount = <<0, 0>>
            BY <1>1, <1>nm, <2>1 DEF Boot, BootWith, BootKind, NewJob, NextMountKnown
        <3>2. Current' = <<0, 0>>
            BY <3>1 DEF CurrentKnown, SavePcs
        <3> QED BY <2>0, <3>1, <3>2
    <2>2. CASE \E m \in Sectors, p \in Pages : Stored(m, p)
        <3>1. PICK m \in Sectors, p \in Pages : Stored(m, p)
            BY <2>2
        <3>2. BootKind(st[1].hdr) = "none" /\ st[1].hdr = m /\ recoverPos(st[1].bits) = p
            BY <3>1, <2>mc, RecoverStands DEF BootKind, Stored
        <3>3. pc' = "ready" /\ ram'.mc = m /\ ram'.pos = p
            BY <1>1, <3>2 DEF Boot, BootWith, ZeroRam
        <3>4. Current' = <<m, p>> /\ NextMount = <<m, p>>
            BY <1>nm, <3>1, <3>3 DEF CurrentKnown, NextMountKnown
        <3> QED BY <2>0, <3>4
    <2>3. CASE \E m \in Sectors : Started(m)
        <3>1. PICK m \in Sectors : Started(m)
            BY <2>3
        <3>2. st[1].hdr = m /\ recoverPos(st[1].bits) = 0 /\ m # BadCrc /\ NextMount = <<m, 0>>
            BY <1>nm, <3>1, <2>mc, RecoverEmpty DEF Started, NextMountKnown
        <3>3. CASE st[2].hdr = m
            <4>1. pc' = "ready" /\ ram'.mc = m /\ ram'.pos = 0
                BY <1>1, <3>2, <3>3 DEF Boot, BootWith, BootKind, ZeroRam
            <4>2. Current' = <<m, 0>>
                BY <4>1 DEF CurrentKnown
            <4> QED BY <2>0, <3>2, <4>2
        <3>4. CASE st[2].hdr # m
            <4>1. BootKind(st[1].hdr) \in {"recover2", "sync"}
                BY <3>2, <3>4 DEF BootKind
            <4>2. pc' = "rep_erase" /\ ram'.mc = m /\ job'.kind # "recover1"
                BY <1>1, <3>2, <4>1 DEF Boot, BootWith, ZeroRam, NewJob
            <4>3. Current' = <<m, 0>>
                BY <4>2 DEF CurrentKnown
            <4> QED BY <2>0, <3>2, <4>3
        <3> QED BY <3>3, <3>4
    <2>4. CASE st[1].hdr = BadCrc /\ st[2].hdr \in Sectors
        <3>1. BootKind(st[1].hdr) = "recover1" /\ NextMount = <<st[2].hdr, N>>
            BY <1>nm, <2>4, <2>mc DEF BootKind, NextMountKnown
        <3>2. pc' = "rep_erase" /\ ram'.mc = st[2].hdr /\ job'.kind = "recover1"
            BY <1>1, <3>1 DEF Boot, BootWith, ZeroRam, NewJob
        <3>3. Current' = <<st[2].hdr, N>>
            BY <3>2 DEF CurrentKnown
        <3> QED BY <2>0, <3>1, <3>3
    <2> QED BY <2>0, <2>1, <2>2, <2>3, <2>4 DEF StateOff
<1>2. CASE RepairErase \/ RepairHeader \/ RepairBit
    <2>1. /\ pc \in {"rep_erase", "rep_hdr", "rep_bits"} /\ pc' \in {"rep_hdr", "rep_bits"}
          /\ UNCHANGED <<flash, ram, job>>
        BY <1>2 DEF RepairErase, RepairHeader, RepairBit
    <2>2. Current' = Current
        BY <2>1 DEF CurrentKnown
    <2> QED BY <2>1, <2>2
<1>3. CASE RepairDone
    <2>1. pc = "rep_bits" /\ pc' = "ready" /\ flash' = flash
          /\ ram'.pos = RepairedPos /\ ram'.mc = ram.mc
        BY <1>3, <1>ty DEF RepairDone, Mounted
    <2>2. RepairedPos = IF job.kind = "recover1" THEN N ELSE 0
        <3>1. job.kind \in {"sync", "recover1", "recover2"}
            BY <2>1 DEF CtlInv, JobOK
        <3>2. job.kind # "recover1" => recoverPos(st[1].bits) = 0
            BY <2>1, RecoverEmpty DEF StateOK, StateRepair2, Started
        <3> QED BY <3>1, <3>2 DEF RepairedPos
    <2>3. Current' = Current
        BY <2>1, <2>2 DEF CurrentKnown
    <2> QED BY <2>1, <2>3
<1>4. CASE FormatConfig
    <2>1. pc = "fmt_cfg" /\ pc' = "ready" /\ flash' = flash
          /\ ram'.pos = recoverPos(st[1].bits) /\ ram'.mc = ram.mc
        BY <1>4, <1>ty DEF FormatConfig, Mounted
    <2>2. ram.mc = 0 /\ recoverPos(st[1].bits) = 0
        BY <2>1, RecoverEmpty DEF StateOK, StateFormat, Started, ZeroRam
    <2>3. Current' = Current
        BY <2>1, <2>2 DEF CurrentKnown
    <2> QED BY <2>1, <2>3
<1>5. CASE Save
    <2>0. UNCHANGED <<flash, ram, opCuts, bootCuts>> /\ pc \in SavePcs
        BY <1>5 DEF Save, SaveErase1, SaveWrite1, SaveErase2, SaveWrite2, SavePcs
    <2>1. CASE job.kind = "format"
        <3>1. job' = job /\ pc' \in SavePcs \cup {"fmt_cfg"}
            BY <1>5, <2>1 DEF Save, SaveErase1, SaveWrite1, SaveErase2, SaveWrite2, SavePcs
        <3>2. Current' = Current
            BY <2>0, <2>1, <3>1 DEF CurrentKnown
        <3> QED BY <2>0, <3>2
    <2>2. CASE job.kind # "format"
        <3>1. Current = <<ram.mc, ram.pos>> /\ StateWrap
            BY <2>0, <2>2 DEF CurrentKnown, StateOK
        <3>2. CASE pc' # "off"
            <4>1. pc' \in SavePcs \cup {"sector_erase"} /\ job' = job
                BY <1>5, <2>2, <3>2 DEF Save, SaveErase1, SaveWrite1, SaveErase2, SaveWrite2,
                                        LeaveUpdateWL, SavePcs
            <4>2. Current' = <<ram'.mc, ram'.pos>>
                BY <2>2, <4>1 DEF CurrentKnown
            <4> QED BY <2>0, <3>1, <4>2
        <3>3. CASE pc' = "off"
            <4>1. SaveWrite2
                BY <1>5, <3>3 DEF Save, SaveErase1, SaveWrite1, SaveErase2
            <4>2. st'[1] = st[1] /\ Started(ram.mc) /\ ram.pos = 0
                BY <3>1, <4>1 DEF SaveWrite2, StateWrap, CtlInv, TypeOK, Copies
            <4>3. PICK m \in Sectors : m = ram.mc /\ Started(m)
                BY <1>ty, <4>2
            <4>4. Started(m)'
                BY <4>2, <4>3 DEF Started
            <4>5. Current' = <<m, 0>>
                BY <1>nm, <3>3, <4>4 DEF CurrentKnown, NextMountKnown
            <4> QED BY <2>0, <3>1, <4>2, <4>3, <4>5
        <3> QED BY <3>2, <3>3
    <2> QED BY <2>1, <2>2
<1>6. CASE PowerCut /\ (pc = "ready" \/ InBoot)
    <2>0. pc' = "off" /\ st' = st /\ flash' = flash /\ Current' = NextMount'
        BY <1>6 DEF PowerCut, CurrentKnown
    <2>1. NextMount' = NextMount
        BY <2>0 DEF NextMount
    <2>2. CASE pc = "ready"
        <3>1. Current = <<ram.mc, ram.pos>> /\ Stored(ram.mc, ram.pos)
            BY <2>2 DEF StateOK, CurrentKnown
        <3>2. NextMount = <<ram.mc, ram.pos>>
            BY <1>nm, <1>ty, <3>1 DEF NextMountKnown
        <3> QED BY <2>0, <2>1, <3>1, <3>2
    <2>3. CASE InBoot
        <3>0. bootCuts < MaxBootCuts
            BY <1>6, <2>3 DEF PowerCut, InBoot, BootPcs, SavePcs
        <3>1. opCuts = 0
            BY <3>0 DEF Budget, CtlInv, TypeOK
        <3>2. CASE pc \in {"rep_erase", "rep_hdr", "rep_bits"}
            <4>1. StateRepair2 /\ job.kind # "recover1"
                BY <3>1, <3>2 DEF StateOK, StateRepair1
            <4>2. Started(ram.mc) /\ Current = <<ram.mc, 0>>
                BY <3>2, <4>1 DEF StateRepair2, CurrentKnown
            <4>3. NextMount = <<ram.mc, 0>>
                BY <1>nm, <1>ty, <4>2 DEF NextMountKnown
            <4> QED BY <2>0, <2>1, <4>2, <4>3
        <3>3. CASE pc = "fmt_cfg" \/ (pc \in SavePcs /\ job.kind = "format")
            <4>1. StateFormat /\ Current = <<0, 0>> /\ 0 \in Sectors
                BY <3>3 DEF StateOK, CurrentKnown, Sectors
            <4>2. Started(0) \/ (st[1].hdr = BadCrc /\ st[2].hdr = BadCrc)
                BY <3>3, <4>1 DEF StateFormat, SavePcs, Blank
            <4>3. NextMount = <<0, 0>>
                BY <1>nm, <4>1, <4>2 DEF NextMountKnown
            <4> QED BY <2>0, <2>1, <4>1, <4>3
        <3> QED BY <2>3, <3>2, <3>3 DEF InBoot, BootPcs
    <2> QED BY <1>6, <2>2, <2>3
<1> QED BY <1>1, <1>2, <1>3, <1>4, <1>5, <1>6 DEF Mount

\* No other step changes what the client reads.
LEMMA ViewKept ==
    ASSUME Budget, CtlInv, StateOK, Next, ~SectorErase, ~WriteCall,
           CtlInv', StateOK', CurrentKnown, CurrentKnown'
    PROVE  UNCHANGED View
<1> USE NAssumption, BoundsAssumption
<1>ty. /\ flash \in [Pages -> Contents]
       /\ ram \in [pos : Pages, mc : Sectors, ac : 0 .. MaxCount-1]
       /\ ram.pos \in Pages /\ ram.mc \in Sectors /\ 0 \in Pages /\ N \in Pages
    BY DEF CtlInv, TypeOK, Pages
<1>vw. View = VW(flash, Current[1], Current[2]) /\ View' = VW(flash', Current'[1], Current'[2])
    BY DEF View, ViewBy, VW
<1>same. ASSUME flash' = flash, Current' = Current PROVE UNCHANGED View
    BY <1>same, <1>vw
<1>nm. NextMountKnown /\ NextMountKnown'
    BY NextMountIs, NextMountIsPrime
<1>nof. ~DriverError /\ ~BootMisread
    BY DEF Budget, DriverError, BootMisread, CtlInv, TypeOK
<1>1. CASE Mount \/ Save
    BY <1>1, <1>same, MappingKept
<1>2. CASE DummyErase \/ CopyStart \/ CopyEnd
    <2>1. pc \in MovePcs /\ pc' \in MovePcs /\ ram' = ram
          /\ \E x : flash' = [flash EXCEPT ![ram.pos] = x]
        BY <1>2 DEF DummyErase, CopyStart, CopyEnd, MovePcs
    <2>2. Current = <<ram.mc, ram.pos>> /\ Current' = <<ram.mc, ram.pos>>
        BY <2>1 DEF CurrentKnown
    <2>3. VW(flash', ram.mc, ram.pos) = VW(flash, ram.mc, ram.pos)
        <3>1. PICK x : flash' = [flash EXCEPT ![ram.pos] = x]
            BY <2>1
        <3>2. VW([flash EXCEPT ![ram.pos] = x], ram.mc, ram.pos) = VW(flash, ram.mc, ram.pos)
            BY <1>ty, ViewDummy, Zenon
        <3> QED BY <3>1, <3>2
    <2> QED BY <1>vw, <2>2, <2>3
<1>3. CASE Mark1
    <2>1. pc \in MovePcs /\ pc' \in MovePcs /\ ram' = ram /\ flash' = flash
        BY <1>3 DEF Mark1, MovePcs
    <2>2. Current' = Current
        BY <2>1 DEF CurrentKnown
    <2> QED BY <1>same, <2>1, <2>2
<1>4. CASE Mark2
    <2>0. pc = "mark2" /\ flash' = flash /\ flash[ram.pos] = flash[DataPage]
          /\ Current = <<ram.mc, ram.pos>> /\ StateMark2
        BY <1>4 DEF Mark2, StateOK, CurrentKnown, MovePcs
    <2>1. CASE ram.pos < N
        <3>1. ram'.mc = ram.mc /\ ram'.pos = ram.pos + 1 /\ pc' \in {"sector_erase", "off"}
              /\ st' = [st EXCEPT ![2].bits = @ \cup {ram.pos}]
            BY <1>4, <1>ty, <2>1 DEF Mark2, LeaveUpdateWL
        <3>2. PICK m \in Sectors, p \in Pages : m = ram.mc /\ p = ram.pos + 1
            BY <1>ty, <2>1 DEF Pages
        <3>3. Current' = <<m, p>>
            <4>1. CASE pc' = "sector_erase"
                BY <3>1, <3>2, <4>1 DEF CurrentKnown
            <4>2. CASE pc' = "off"
                <5>1. st \in [Copies -> [hdr : Headers, bits : SUBSET Pages]]
                    BY DEF CtlInv, TypeOK
                <5>2. /\ st'[1] = st[1] /\ st'[2].hdr = st[2].hdr
                      /\ st'[2].bits = st[2].bits \cup {ram.pos} /\ opCuts' = opCuts
                    BY <1>4, <3>1, <5>1 DEF Mark2, Copies
                <5>3. Stands(0 .. ram.pos, p)
                    BY <1>ty, <2>1, <3>2 DEF Stands, Pages
                <5>4. Stored(m, p)'
                    BY <2>0, <3>2, <5>2, <5>3 DEF Stored, StateMark2
                <5> QED BY <1>nm, <4>2, <5>4 DEF CurrentKnown, NextMountKnown
            <4> QED BY <3>1, <4>1, <4>2
        <3>4. flash[ram.pos] = flash[ram.pos + 1]
            BY <1>ty, <2>0, <2>1 DEF DataPage, Pages
        <3>5. VW(flash, ram.mc, ram.pos + 1) = VW(flash, ram.mc, ram.pos)
            BY <1>ty, <2>1, <3>4, ViewMove
        <3> QED BY <1>vw, <2>0, <3>2, <3>3, <3>5
    <2>2. CASE ram.pos = N
        <3>1. ram'.mc = NextMoveCount(ram.mc) /\ ram'.pos = 0 /\ pc' = "save_erase1" /\ job' = job
            <4>1. /\ ram' = [ram EXCEPT !.pos = 0, !.mc = NextMoveCount(ram.mc)]
                  /\ pc' = "save_erase1" /\ job' = job
                BY <1>4, <2>2 DEF Mark2
            <4> QED BY <1>ty, <4>1
        <3>2. job.kind # "format"
            BY <2>0 DEF CtlInv, JobOK, MovePcs
        <3>3. Current' = <<NextMoveCount(ram.mc), 0>>
            BY <3>1, <3>2 DEF CurrentKnown, SavePcs
        <3>4. flash[N] = flash[0]
            BY <1>ty, <2>0, <2>2 DEF DataPage
        <3>5. VW(flash, NextMoveCount(ram.mc), 0) = VW(flash, ram.mc, N)
            BY <1>ty, <3>4, ViewWrap
        <3> QED BY <1>vw, <2>0, <2>2, <3>3, <3>5
    <2> QED BY <1>ty, <2>1, <2>2 DEF Pages
<1>enter. ASSUME NEW ac, EnterUpdateWL(ac)
          PROVE  /\ pc' \in {"sector_erase", "dummy_erase"}
                 /\ ram'.pos = ram.pos /\ ram'.mc = ram.mc
    BY <1>enter, <1>ty DEF EnterUpdateWL
<1>5. CASE Client
    <2>1. /\ pc = "ready" /\ pc' \in {"sector_erase", "dummy_erase", "write"}
          /\ ram'.pos = ram.pos /\ ram'.mc = ram.mc /\ flash' = flash
        BY <1>5, <1>enter DEF Client, EraseRange, Write, Unmount
    <2>2. Current' = Current
        BY <2>1 DEF CurrentKnown, MovePcs
    <2> QED BY <1>same, <2>1, <2>2
<1>8. CASE PowerCut
    <2>0. pc' = "off" /\ st' = st /\ flash' = flash /\ opCuts' \in Nat /\ opCuts' >= opCuts
          /\ Current' = NextMount'
        BY <1>8 DEF PowerCut, CurrentKnown, CtlInv, TypeOK
    <2>1. NextMount' = NextMount
        BY <2>0 DEF NextMount
    <2>2. CASE pc \in {"ready", "sector_erase", "write", "dummy_erase", "copy", "copying", "mark1"}
        <3>1. Current = <<ram.mc, ram.pos>> /\ Stored(ram.mc, ram.pos)
            BY <2>2 DEF StateOK, CurrentKnown, MovePcs
        <3>2. NextMount = <<ram.mc, ram.pos>>
            BY <1>nm, <1>ty, <3>1 DEF NextMountKnown
        <3> QED BY <1>same, <2>0, <2>1, <3>1, <3>2
    <2>3. CASE pc = "mark2"
        <3>1. StateMark2 /\ flash[ram.pos] = flash[DataPage] /\ Current = <<ram.mc, ram.pos>>
            BY <2>3 DEF StateOK, CurrentKnown, MovePcs
        <3>2. PICK p \in Pages : p = IF ram.pos < N THEN ram.pos + 1 ELSE N
            BY <1>ty DEF Pages
        <3>3. recoverPos(st[1].bits) = p
            <4>1. Stands(0 .. ram.pos, p)
                BY <1>ty, <3>2 DEF Stands, Pages
            <4> QED BY <3>1, <4>1, RecoverStands DEF StateMark2
        <3>4. NextMount = <<ram.mc, p>>
            <4>1. ram.mc # BadCrc
                BY <1>ty DEF Sectors, BadCrc
            <4> QED BY <3>1, <3>3, <4>1 DEF NextMount, StateMark2
        <3>5. VW(flash, ram.mc, p) = VW(flash, ram.mc, ram.pos)
            <4>1. CASE ram.pos < N
                <5>1. flash[ram.pos] = flash[ram.pos + 1]
                    BY <1>ty, <3>1, <4>1 DEF DataPage, Pages
                <5> QED BY <1>ty, <3>2, <4>1, <5>1, ViewMove
            <4>2. CASE ram.pos = N
                BY <3>2, <4>2
            <4> QED BY <1>ty, <4>1, <4>2 DEF Pages
        <3> QED BY <1>vw, <2>0, <2>1, <3>1, <3>4, <3>5
    <2>4. CASE InBoot
        BY <1>8, <1>same, <2>4, MappingKept
    <2>5. CASE pc \in SavePcs /\ job.kind # "format"
        <3>1. StateWrap /\ Current = <<ram.mc, 0>>
            BY <2>5 DEF StateOK, CurrentKnown, StateWrap
        <3>2. CASE pc \in {"save_erase1", "save_write1"}
            <4>1. st[2].hdr \in Sectors /\ ram.mc = NextMoveCount(st[2].hdr) /\ flash[N] = flash[0]
                BY <3>1, <3>2 DEF StateWrap, Ended, Copied0
            <4>2. NextMount = <<st[2].hdr, N>>
                <5>1. CASE pc = "save_erase1"
                    <6>1. st[1].hdr = st[2].hdr /\ st[1].bits = Pages
                        BY <3>1, <5>1 DEF StateWrap
                    <6>2. recoverPos(st[1].bits) = N
                        <7>1. Stands(Pages, N)
                            BY DEF Stands, Pages
                        <7> QED BY <1>ty, <6>1, <7>1, RecoverStands
                    <6>3. st[2].hdr # BadCrc
                        BY <4>1 DEF Sectors, BadCrc
                    <6> QED BY <6>1, <6>2, <6>3 DEF NextMount
                <5>2. CASE pc = "save_write1"
                    <6>1. st[1].hdr = BadCrc
                        BY <3>1, <5>2 DEF StateWrap, Blank
                    <6> QED BY <1>nm, <4>1, <6>1 DEF NextMountKnown
                <5> QED BY <3>2, <5>1, <5>2
            <4>3. VW(flash, ram.mc, 0) = VW(flash, st[2].hdr, N)
                BY <4>1, ViewWrap
            <4> QED BY <1>vw, <2>0, <2>1, <3>1, <4>2, <4>3
        <3>3. CASE pc \in {"save_erase2", "save_write2"}
            <4>1. Started(ram.mc)
                BY <3>1, <3>3 DEF StateWrap
            <4>2. NextMount = <<ram.mc, 0>>
                BY <1>nm, <1>ty, <4>1 DEF NextMountKnown
            <4> QED BY <1>same, <2>0, <2>1, <3>1, <4>2
        <3> QED BY <2>5, <3>2, <3>3 DEF SavePcs
    <2> QED BY <1>8, <2>2, <2>3, <2>4, <2>5
            DEF PowerCut, CtlInv, TypeOK, Pcs, BootPcs, MovePcs, SavePcs, InBoot
<1> QED BY <1>nof, <1>1, <1>2, <1>3, <1>4, <1>5, <1>8
        DEF Next, DriverStep, Relocate

\* The erase of erase_sector() reaches the sector it is meant for, and no other.
LEMMA ViewErased ==
    ASSUME CtlInv, SectorErase, CurrentKnown, CurrentKnown'
    PROVE  View' = [View EXCEPT ![job.at] = Erased]
<1> USE NAssumption, BoundsAssumption
<1>ty. /\ flash \in [Pages -> Contents]
       /\ ram \in [pos : Pages, mc : Sectors, ac : 0 .. MaxCount-1]
       /\ ram.pos \in Pages /\ ram.mc \in Sectors /\ 0 \in Pages /\ N \in Pages
    BY DEF CtlInv, TypeOK, Pages
<1>vw. View = VW(flash, Current[1], Current[2]) /\ View' = VW(flash', Current'[1], Current'[2])
    BY DEF View, ViewBy, VW
<1>enter. ASSUME NEW ac, EnterUpdateWL(ac)
          PROVE  /\ pc' \in {"sector_erase", "dummy_erase"}
                 /\ ram'.pos = ram.pos /\ ram'.mc = ram.mc
    BY <1>enter, <1>ty DEF EnterUpdateWL
<1>1. /\ pc = "sector_erase" /\ pc' \in {"ready", "sector_erase", "dummy_erase"}
      /\ ram'.pos = ram.pos /\ ram'.mc = ram.mc
      /\ flash' = [flash EXCEPT ![calcAddr(job.at, ram.mc, ram.pos)] = Erased]
    BY <1>enter DEF SectorErase
<1>2. Current = <<ram.mc, ram.pos>> /\ Current' = <<ram.mc, ram.pos>>
    BY <1>1 DEF CurrentKnown, MovePcs
<1>3. job.at \in Sectors
    BY DEF CtlInv, TypeOK, Jobs
<1>4. View' = [View EXCEPT ![job.at] = Erased]
    <2>1. PICK m \in Sectors, p \in Pages : m = ram.mc /\ p = ram.pos
        BY <1>ty
    <2>f. PICK f \in [Pages -> Contents] : f = flash
        BY <1>ty
    <2>2. PICK g : g = flash'
        OBVIOUS
    <2>3. PICK v \in Sectors : v = job.at
        BY <1>3
    <2>4. g = Upd(f, calcAddr(v, m, p), Erased)
        BY <1>1, <2>1, <2>2, <2>3, <2>f DEF Upd
    <2>5. VW(g, m, p) = Upd(VW(f, m, p), v, Erased)
        BY <2>4, ViewUpdate
    <2> QED BY <1>vw, <1>2, <2>1, <2>2, <2>3, <2>f, <2>5 DEF Upd
<1> QED BY <1>4

\* And so does the driver call of a write of one sector.
LEMMA ViewWritten ==
    ASSUME Budget, CtlInv, WriteCall, CurrentKnown, CurrentKnown'
    PROVE  /\ job.n = 1 /\ job.i = 0 /\ job.at \in Sectors
           /\ View' = [s \in Sectors |-> IF s = job.at THEN Programmed(View[s], job.src[0])
                                                       ELSE View[s]]
<1> USE NAssumption, BoundsAssumption
<1>ty. /\ flash \in [Pages -> Contents]
       /\ ram \in [pos : Pages, mc : Sectors, ac : 0 .. MaxCount-1]
       /\ ram.pos \in Pages /\ ram.mc \in Sectors /\ 0 \in Pages /\ N \in Pages
    BY DEF CtlInv, TypeOK, Pages
<1>vw. View = VW(flash, Current[1], Current[2]) /\ View' = VW(flash', Current'[1], Current'[2])
    BY DEF View, ViewBy, VW
<1>1. job.at \in Sectors /\ job.n = 1 /\ job.i = 0 /\ MaxRun = 1 /\ job.src[0] \in Values
    BY DEF WriteCall, CtlInv, TypeOK, JobOK, Jobs, Budget
<1>2. PICK a \in Pages : a = calcAddr(job.at, ram.mc, ram.pos)
    BY <1>ty, <1>1, AddrRange
<1>3. flash' = [flash EXCEPT ![a] = Programmed(flash[a], job.src[0])]
    <2>1. WriteLen = 1 /\ job.at + job.i = job.at
        BY <1>1 DEF WriteLen, Sectors
    <2>2. flash' = [q \in Pages |-> IF q \in a .. a + 1 - 1
                                   THEN Programmed(flash[q], IF job.i + q - a < job.n
                                                             THEN job.src[job.i + q - a] ELSE Junk)
                                   ELSE flash[q]]
        BY <1>2, <2>1 DEF WriteCall
    <2>3. \A q \in Pages : q \in a .. a + 1 - 1 <=> q = a
        BY DEF Pages
    <2>4. job.i + a - a < job.n /\ job.i + a - a = 0
        BY <1>1 DEF Pages
    <2> QED BY <1>ty, <2>2, <2>3, <2>4
<1>4. pc = "write" /\ pc' = "ready" /\ ram' = ram
    BY <1>1 DEF WriteCall
<1>5. Current = <<ram.mc, ram.pos>> /\ Current' = <<ram.mc, ram.pos>>
    BY <1>4 DEF CurrentKnown
<1>6. View' = [View EXCEPT ![job.at] = Programmed(flash[a], job.src[0])]
    <2>1. PICK m \in Sectors, p \in Pages : m = ram.mc /\ p = ram.pos
        BY <1>ty
    <2>f. PICK f \in [Pages -> Contents] : f = flash
        BY <1>ty
    <2>2. PICK g : g = flash'
        OBVIOUS
    <2>3. PICK v \in Sectors : v = job.at
        BY <1>1
    <2>x. PICK x : x = Programmed(flash[a], job.src[0])
        OBVIOUS
    <2>4. g = Upd(f, calcAddr(v, m, p), x)
        BY <1>2, <1>3, <2>1, <2>2, <2>3, <2>f, <2>x DEF Upd
    <2>5. VW(g, m, p) = Upd(VW(f, m, p), v, x)
        BY <2>4, ViewUpdate
    <2> QED BY <1>vw, <1>5, <2>1, <2>2, <2>3, <2>f, <2>x, <2>5 DEF Upd
<1>7. View[job.at] = flash[a]
    BY <1>vw, <1>1, <1>2, <1>5 DEF VW
<1>9. View = [s \in Sectors |-> View[s]]
    BY <1>vw DEF VW
<1> QED BY <1>1, <1>6, <1>7, <1>9

-----------------------------------------------------------------------------
(* The client's call.                                                      *)

\* Mounts, relocations and the rewriting of the state sectors go on behind the
\* client's call, or without one.
LEMMA CallKept ==
    ASSUME CtlInv, Mount \/ Relocate \/ Save
    PROVE  ClientCall' = ClientCall /\ UNCHANGED <<opCuts, faults>>
<1>1. CASE job' = job
    BY <1>1 DEF ClientCall, Mount, Boot, BootWith, RepairErase, RepairHeader, RepairBit,
                RepairDone, FormatConfig, Relocate, DummyErase, CopyStart, CopyEnd, Mark1, Mark2,
                Save, SaveErase1, SaveWrite1, SaveErase2, SaveWrite2
<1>2. CASE Boot
    <2>1. job = NoJob /\ UNCHANGED <<opCuts, faults>>
        BY <1>2 DEF Boot, BootWith, CtlInv, JobOK
    <2>2. job'.kind \notin {"erase", "write"}
        <3>1. job' = NoJob \/ job' = NewJob(BootKind(st[1].hdr), 0, 0, NoSrc)
            BY <1>2 DEF Boot, BootWith
        <3>2. NewJob(BootKind(st[1].hdr), 0, 0, NoSrc).kind = BootKind(st[1].hdr)
            BY DEF NewJob
        <3>3. BootKind(st[1].hdr) \in {"none", "sync", "format", "recover1", "recover2"}
            BY DEF BootKind
        <3> QED BY <3>1, <3>2, <3>3, NoJobType
    <2> QED BY <2>1, <2>2, NoJobType DEF ClientCall
<1>3. CASE (RepairDone \/ FormatConfig) /\ ~Boot
    <2>1. job.kind \notin {"erase", "write"} /\ job' = NoJob /\ UNCHANGED <<opCuts, faults>>
        BY <1>3 DEF RepairDone, FormatConfig, Mounted, CtlInv, JobOK
    <2> QED BY <2>1, NoJobType DEF ClientCall
<1>4. CASE (Mark2 \/ SaveWrite2) /\ job' # job
    <2>1. job.kind \notin {"erase", "write"} /\ job' = NoJob /\ UNCHANGED <<opCuts, faults>>
        BY <1>4 DEF Mark2, SaveWrite2, LeaveUpdateWL, CtlInv, JobOK, MovePcs, SavePcs
    <2> QED BY <2>1, NoJobType DEF ClientCall
<1> QED BY <1>1, <1>2, <1>3, <1>4
        DEF Mount, RepairErase, RepairHeader, RepairBit, Relocate, DummyErase, CopyStart, CopyEnd,
            Mark1, Save, SaveErase1, SaveWrite1, SaveErase2

\* A call of the client begins, or wl_unmount(), which is none.
LEMMA CallBegins ==
    ASSUME CtlInv, Client
    PROVE  /\ UNCHANGED <<opCuts, faults>>
           /\ \/ ClientCall' = ClientCall
              \/ /\ ClientCall = NoJob
                 /\ ClientCall' \in VD!Calls
                 /\ ClientCall'.at + ClientCall'.n - 1 \in Sectors
<1> USE NAssumption, BoundsAssumption
<1>0. ClientCall = NoJob
    BY NoJobType DEF ClientCall, CtlInv, JobOK, Client, EraseRange, Write, Unmount
<1>1. CASE Unmount
    <2>1. job' = NewJob("unmount", 0, 0, NoSrc) /\ UNCHANGED <<opCuts, faults>>
        BY <1>1 DEF Unmount
    <2>2. job'.kind = "unmount"
        BY <2>1 DEF NewJob
    <2> QED BY <1>0, <2>1, <2>2 DEF ClientCall
<1>2. ASSUME NEW kind \in {"erase", "write"}, NEW v \in Sectors, NEW n \in 1 .. MaxRun,
             NEW src \in [0 .. MaxRun-1 -> Values \cup {Junk}],
             v + n <= N, job' = NewJob(kind, v, n, src)
      PROVE  ClientCall' \in VD!Calls /\ ClientCall'.at + ClientCall'.n - 1 \in Sectors
    <2>1. /\ job'.kind = kind /\ job'.at = v /\ job'.n = n
          /\ job' \in [kind : {"erase", "write"}, at : Sectors, n : 1 .. MaxRun, i : {0},
                       src : [0 .. MaxRun-1 -> Values \cup {Junk}]]
        BY <1>2 DEF NewJob
    <2>2. ClientCall' = job'
        BY <2>1 DEF ClientCall
    <2>3. v + n - 1 \in Sectors
        BY <1>2 DEF Sectors
    <2> QED BY <2>1, <2>2, <2>3 DEF VD!Calls
<1>3. CASE \E v \in Sectors, n \in 1 .. MaxRun : EraseRange(v, n)
    <2>1. PICK v \in Sectors, n \in 1 .. MaxRun : EraseRange(v, n)
        BY <1>3
    <2>2. v + n <= N /\ job' = NewJob("erase", v, n, NoSrc) /\ UNCHANGED <<opCuts, faults>>
        BY <2>1 DEF EraseRange
    <2> QED BY <1>0, <1>2, <2>2, NoSrcType
<1>4. CASE \E v \in Sectors, n \in 1 .. MaxRun : \E src \in [0 .. n-1 -> Values] : Write(v, n, src)
    <2>1. PICK v \in Sectors, n \in 1 .. MaxRun :
                  \E src \in [0 .. n-1 -> Values] : Write(v, n, src)
        BY <1>4
    <2>2. PICK src \in [0 .. n-1 -> Values] : Write(v, n, src)
        BY <2>1
    <2> DEFINE full == [k \in 0 .. MaxRun-1 |-> IF k < n THEN src[k] ELSE Junk]
    <2>3. full \in [0 .. MaxRun-1 -> Values \cup {Junk}]
        OBVIOUS
    <2>4. v + n <= N /\ job' = NewJob("write", v, n, full) /\ UNCHANGED <<opCuts, faults>>
        BY <2>2 DEF Write
    <2> HIDE DEF full
    <2> QED BY <1>0, <1>2, <2>3, <2>4
<1> QED BY <1>1, <1>3, <1>4 DEF Client

\* A cut ends the client's call and counts as a failure of it.
LEMMA CallCut ==
    ASSUME CtlInv, PowerCut
    PROVE  \/ ClientCall' = ClientCall /\ UNCHANGED <<opCuts, faults>>
           \/ ClientCall' = NoJob /\ opCuts' = opCuts + 1 /\ faults' = faults
<1>1. ClientCall' = NoJob
    BY NoJobType DEF PowerCut, ClientCall
<1>2. CASE pc = "ready" \/ InBoot
    <2>1. job.kind \notin {"erase", "write"}
        BY <1>2, NoJobType DEF InBoot, CtlInv, JobOK, BootPcs, SavePcs
    <2>2. UNCHANGED <<opCuts, faults>>
        BY <1>2 DEF PowerCut
    <2> QED BY <1>1, <2>1, <2>2 DEF ClientCall
<1>3. CASE pc # "ready" /\ ~InBoot
    BY <1>1, <1>3 DEF PowerCut
<1> QED BY <1>2, <1>3

\* Every step is a step of the disk, or leaves it alone.
LEMMA DiskStep ==
    ASSUME Budget, CtlInv, StateOK, Next, CtlInv', StateOK', CurrentKnown, CurrentKnown'
    PROVE  VD!DiskNext \/ UNCHANGED <<View, ClientCall, opCuts + faults>>
<1> USE NAssumption, BoundsAssumption
<1>ty. /\ job \in Jobs /\ job.n \in 0 .. MaxRun /\ job.at \in Sectors /\ opCuts \in Nat /\ faults \in Nat
    BY DEF CtlInv, TypeOK, Jobs
<1>nof. ~DriverError /\ ~BootMisread
    BY DEF Budget, DriverError, BootMisread, CtlInv, TypeOK
<1>1. CASE (Mount \/ Relocate \/ Save) /\ ~SectorErase /\ ~WriteCall
    BY <1>1, CallKept, ViewKept
<1>2. CASE Client /\ ~SectorErase /\ ~WriteCall
    BY <1>2, CallBegins, ViewKept DEF VD!DiskNext, VD!Begin
<1>3. CASE PowerCut /\ ~SectorErase /\ ~WriteCall
    <2>1. UNCHANGED View
        BY <1>3, ViewKept
    <2>2. CASE ClientCall' = NoJob /\ opCuts' = opCuts + 1 /\ faults' = faults
        <3>1. (opCuts + faults)' = (opCuts + faults) + 1
            BY <1>ty, <2>2
        <3> QED BY <2>1, <2>2, <3>1 DEF VD!DiskNext, VD!Fail
    <2> QED BY <1>3, <2>1, <2>2, CallCut
<1>4. CASE SectorErase
    <2>1. View' = [View EXCEPT ![job.at] = Erased]
        BY <1>4, ViewErased
    <2>2. ClientCall = job /\ job.kind = "erase" /\ UNCHANGED <<opCuts, faults>> /\ job.n >= 1
        BY <1>4 DEF SectorErase, ClientCall, CtlInv, JobOK
    <2>3. ClientCall' = IF job.n = 1 THEN NoJob ELSE [job EXCEPT !.at = @ + 1, !.n = @ - 1]
        <3>1. CASE job.n = 1
            <4>1. job' = NoJob
                BY <1>4, <3>1 DEF SectorErase
            <4> QED BY <3>1, <4>1, NoJobType DEF ClientCall
        <3>2. CASE job.n # 1
            <4>1. job' = [job EXCEPT !.at = @ + 1, !.n = @ - 1]
                BY <1>4, <3>2 DEF SectorErase
            <4>2. job'.kind = "erase"
                BY <1>ty, <2>2, <4>1 DEF Jobs
            <4> QED BY <3>2, <4>1, <4>2 DEF ClientCall
        <3> QED BY <3>1, <3>2
    <2>4. VD!EraseSector
        BY <2>1, <2>2, <2>3 DEF VD!EraseSector
    <2> QED BY <2>4 DEF VD!DiskNext
<1>5. CASE WriteCall
    <2>1. /\ job.n = 1 /\ job.i = 0 /\ job.at \in Sectors
          /\ View' = [s \in Sectors |-> IF s = job.at THEN Programmed(View[s], job.src[0])
                                                      ELSE View[s]]
        BY <1>5, ViewWritten
    <2>2. ClientCall = job /\ job.kind = "write" /\ UNCHANGED <<opCuts, faults>>
        BY <1>5 DEF WriteCall, ClientCall, CtlInv, JobOK
    <2>3. ClientCall' = NoJob
        <3>1. job' = NoJob
            BY <1>5, <2>1 DEF WriteCall
        <3> QED BY <3>1, NoJobType DEF ClientCall
    <2>4. View' = [s \in Sectors |-> IF s - job.at \in job.i .. job.i + (1 - 1)
                                     THEN Programmed(View[s], job.src[s - job.at]) ELSE View[s]]
        <3>1. \A s \in Sectors : /\ s - job.at \in job.i .. job.i + (1 - 1) <=> s = job.at
                                 /\ s = job.at => s - job.at = 0
            BY <2>1 DEF Sectors
        <3> QED BY <2>1, <3>1
    <2>5. job.i = job.n - 1 /\ 1 \in 1 .. job.n - job.i
        BY <2>1
    <2>6. VD!Program(1)
        BY <2>2, <2>3, <2>4, <2>5 DEF VD!Program, VD!Programmed, Programmed
    <2> QED BY <2>2, <2>5, <2>6 DEF VD!DiskNext
<1> QED BY <1>nof, <1>1, <1>2, <1>3, <1>4, <1>5 DEF Next, DriverStep

-----------------------------------------------------------------------------
LEMMA StateStutter == StateOK /\ UNCHANGED vars => StateOK'
<1> SUFFICES ASSUME StateOK, UNCHANGED vars PROVE StateOK'
    OBVIOUS
<1>1. UNCHANGED <<flash, st, ram, pc, job, opCuts>>
    BY DEF vars
<1>2. StateOff' = StateOff
    BY <1>1 DEF StateOff, Stored, Started
<1>3. StateRepair1' = StateRepair1 /\ StateRepair2' = StateRepair2
    BY <1>1 DEF StateRepair1, StateRepair2, Started
<1>4. StateFormat' = StateFormat /\ StateWrap' = StateWrap
    BY <1>1 DEF StateFormat, StateWrap, Started, Ended, Copied0
<1>5. StateMark2' = StateMark2 /\ Stored(ram.mc, ram.pos)' = Stored(ram.mc, ram.pos)
      /\ DataPage' = DataPage
    BY <1>1 DEF StateMark2, Stored, DataPage
<1> QED BY <1>1, <1>2, <1>3, <1>4, <1>5 DEF StateOK

LEMMA InvInductive ==
    ASSUME Budget
    PROVE  Spec => [](CtlInv /\ StateOK)
<1>1. Init => CtlInv /\ StateOK
    BY CtlInit, StateInit
<1>2. CtlInv /\ StateOK /\ [Next]_vars => (CtlInv /\ StateOK)'
    <2>1. CtlInv /\ [Next]_vars => CtlInv'
        BY CtlStep
    <2>2. CASE UNCHANGED vars
        BY <2>1, <2>2, StateStutter
    <2> QED BY <2>1, <2>2, StateStep
<1> QED BY <1>1, <1>2, PTL DEF Spec

\* For any number of sectors, the two state sectors always agree with RAM when
\* a call has returned: a restart finds what the client sees.
THEOREM DurableCorrect ==
    ASSUME Budget
    PROVE  Spec => []Durable
<1>1. CtlInv /\ StateOK => Durable
    <2> SUFFICES ASSUME CtlInv, StateOK, pc = "ready" PROVE View = ViewBy(NextMount)
        BY DEF Durable
    <2>1. Current = <<ram.mc, ram.pos>> /\ Stored(ram.mc, ram.pos)
        BY CurrentIs DEF CurrentKnown, StateOK
    <2>2. ram.mc \in Sectors /\ ram.pos \in Pages
        BY DEF CtlInv, TypeOK
    <2>3. NextMount = <<ram.mc, ram.pos>>
        BY <2>1, <2>2, NextMountIs DEF NextMountKnown
    <2> QED BY <2>1, <2>3 DEF View
<1> QED BY <1>1, InvInductive, PTL

\* For any number of sectors, WL_Flash implements the virtual disk: the client's
\* sectors change by its own calls, as far as each has come, and neither a
\* relocation nor a power cut nor the mount that follows changes any of them.
THEOREM RefinesVirtualDisk ==
    ASSUME Budget
    PROVE  Spec => ImplementsVirtualDisk
<1>1. Init /\ CtlInv /\ StateOK => VD!DiskInit
    <2> SUFFICES ASSUME Init, CtlInv, StateOK
                 PROVE  View \in [Sectors -> VD!Contents] /\ ClientCall = NoJob /\ opCuts + faults = 0
        BY DEF VD!DiskInit
    <2>1. Current = <<0, 0>>
        BY CurrentIs, NextMountIs DEF Init, Blank, Copies, CurrentKnown, NextMountKnown
    <2>2. 0 \in Pages /\ 0 \in Sectors
        BY NAssumption DEF Pages, Sectors
    <2>3. \A v \in Sectors : flash[calcAddr(v, 0, 0)] \in Contents
        BY <2>2, AddrRange DEF CtlInv, TypeOK
    <2>4. Contents = VD!Contents
        BY DEF Contents, VD!Contents
    <2>5. ClientCall = NoJob /\ opCuts + faults = 0
        BY NoJobType DEF Init, ClientCall
    <2> QED BY <2>1, <2>3, <2>4, <2>5 DEF View, ViewBy
<1>2. /\ CtlInv /\ StateOK /\ (CtlInv /\ StateOK)' /\ [Next]_vars
      => [VD!DiskNext]_<<View, ClientCall, opCuts + faults>>
    <2> SUFFICES ASSUME CtlInv, StateOK, CtlInv', StateOK', [Next]_vars
                 PROVE  [VD!DiskNext]_<<View, ClientCall, opCuts + faults>>
        OBVIOUS
    <2>1. CurrentKnown /\ CurrentKnown'
        <3>1. (CtlInv /\ StateOK)' => CurrentKnown'
            BY CurrentIs, PTL
        <3> QED BY <3>1, CurrentIs
    <2>2. CASE Next
        BY <2>1, <2>2, DiskStep
    <2>3. CASE UNCHANGED vars
        BY <2>3 DEF vars, View, ViewBy, Current, NextMount, ClientCall
    <2> QED BY <2>2, <2>3
<1> QED BY <1>1, <1>2, InvInductive, PTL DEF Spec, ImplementsVirtualDisk, VD!DiskSpec, VD!diskVars
=============================================================================
