------------------------------ MODULE WLFlash -------------------------------
(***************************************************************************)
(* WL_Flash (components/wear_levelling): N virtual sectors kept in N + 1   *)
(* flash pages, one of which, the dummy page, is free.  Every MaxCount-th  *)
(* erase moves the page behind the dummy page into it, so that the dummy   *)
(* page walks through the flash and takes the data with it.  Where it is   *)
(* now is stored twice, in the sectors state 1 and state 2, each a header  *)
(* with a CRC followed by one position byte per page.                      *)
(*                                                                         *)
(* A step is one call of the flash driver (Flash_Access).  Power may fail  *)
(* between two calls, as in test_wl_host/TestPowerDown.cpp, and a call may *)
(* return an error without having changed the flash.                       *)
(***************************************************************************)
EXTENDS NorFlash, Integers

CONSTANTS
    N,             \* virtual sectors: flash_size / page_size; max_pos = N + 1
    MaxCount,      \* erases per relocation: cfg.updaterate
    MaxRun,        \* sectors one wl_erase_range or wl_write call may cover
    MaxOpCuts,     \* power cuts in the middle of an operation
    MaxBootCuts,   \* power cuts in the middle of wl_mount
    MaxFaults,     \* driver calls that return an error
    Restarts       \* how an idle device may be restarted: "unmount", "idle" (power off)

ASSUME NAssumption == N \in Nat \ {0}
ASSUME BoundsAssumption ==
    /\ MaxCount \in Nat \ {0}
    /\ MaxRun \in 1..3
    /\ MaxOpCuts \in Nat /\ MaxBootCuts \in Nat /\ MaxFaults \in Nat
    /\ Restarts \subseteq {"unmount", "idle"}

Sectors == 0 .. N-1
Pages == 0 .. N
Copies == {1, 2}
BadCrc == -1                       \* a header whose CRC does not match
Headers == {BadCrc} \cup 0 .. N-1  \* else move_count; pos and access_count are 0 in it

VARIABLES
    flash,    \* the N + 1 data pages
    st,       \* the two state sectors: header, set of position bytes written
    ram,      \* this->state: pos, move_count, access_count
    pc,       \* the driver call that comes next
    job,      \* the call of wl_* in progress
    opCuts, bootCuts, faults

vars == <<flash, st, ram, pc, job, opCuts, bootCuts, faults>>

Blank == [hdr |-> BadCrc, bits |-> {}]          \* an erased state sector
ZeroRam == [pos |-> 0, mc |-> 0, ac |-> 0]
NoSrc == [k \in 0 .. MaxRun-1 |-> Junk]
NewJob(kind, at, n, src) == [kind |-> kind, at |-> at, n |-> n, i |-> 0, src |-> src]
NoJob == NewJob("none", 0, 0, NoSrc)

BootPcs == {"rep_erase", "rep_hdr", "rep_bits", "fmt_cfg"}
MovePcs == {"dummy_erase", "copy", "copying", "mark1", "mark2"}
SavePcs == {"save_erase1", "save_write1", "save_erase2", "save_write2"}
Pcs == {"off", "ready", "sector_erase", "write"} \cup BootPcs \cup MovePcs \cup SavePcs
Booting == {"sync", "recover1", "recover2", "format"}
Kinds == {"none", "erase", "write", "unmount"} \cup Booting
Jobs == [kind : Kinds, at : Sectors, n : 0 .. MaxRun, i : 0 .. MaxRun-1,
         src : [0 .. MaxRun-1 -> Values \cup {Junk}]]

TypeOK ==
    /\ flash \in [Pages -> Contents]
    /\ st \in [Copies -> [hdr : Headers, bits : SUBSET Pages]]
    /\ ram \in [pos : Pages, mc : Sectors, ac : 0 .. MaxCount-1]
    /\ pc \in Pcs
    /\ job \in Jobs
    /\ opCuts \in 0 .. MaxOpCuts
    /\ bootCuts \in 0 .. MaxBootCuts
    /\ faults \in 0 .. MaxFaults

\* A chip from the factory: nothing is written anywhere.
Init ==
    /\ flash = [p \in Pages |-> Erased]
    /\ st = [k \in Copies |-> Blank]
    /\ ram = ZeroRam
    /\ pc = "off"
    /\ job = NoJob
    /\ opCuts = 0 /\ bootCuts = 0 /\ faults = 0

-----------------------------------------------------------------------------
(* Address translation.                                                    *)

\* The page of virtual sector v when move_count is m and the dummy page is p.
calcAddr(v, m, p) ==
    LET r == (N - m + v) % N IN IF r < p THEN r ELSE r + 1

\* The position that the position bytes b stand for: the first blank one, or
\* the last page when all are written.
recoverPos(b) ==
    CHOOSE p \in Pages : /\ 0 .. p-1 \subseteq b
                         /\ p \notin b \/ p = N

-----------------------------------------------------------------------------
(* Mounting: init(), initSections() and the repair of a state sector.      *)

\* What init() decides from the two CRCs; h1 is the header it read of state 1.
BootKind(h1) ==
    IF h1 # BadCrc /\ st[2].hdr # BadCrc
    THEN IF h1 = st[2].hdr THEN "none" ELSE "sync"
    ELSE IF h1 = BadCrc /\ st[2].hdr = BadCrc THEN "format"
    ELSE IF h1 # BadCrc THEN "recover2" ELSE "recover1"

\* init() has returned ESP_OK: the instance serves calls.
Mounted(pos) ==
    /\ ram' = [ram EXCEPT !.pos = pos]
    /\ pc' = "ready"
    /\ job' = NoJob

\* Read both headers and start what they call for.
BootWith(h1) ==
    LET kind == BootKind(h1) IN
    /\ pc = "off"
    /\ \/ /\ kind = "none"
          /\ ram' = [ZeroRam EXCEPT !.mc = h1, !.pos = recoverPos(st[1].bits)]
          /\ pc' = "ready"
          /\ job' = NoJob
       \/ /\ kind # "none"
          /\ ram' = [ZeroRam EXCEPT !.mc = CASE kind = "format" -> 0
                                             [] kind = "recover1" -> st[2].hdr
                                             [] OTHER -> h1]
          /\ pc' = IF kind = "format" THEN "save_erase1" ELSE "rep_erase"
          /\ job' = NewJob(kind, 0, 0, NoSrc)
    /\ UNCHANGED <<flash, st, opCuts, bootCuts>>

Boot == BootWith(st[1].hdr) /\ UNCHANGED faults

\* The result of reading state 1 is not looked at: a failed read leaves
\* this->state uninitialised, which its CRC shows.
BootMisread ==
    /\ faults < MaxFaults
    /\ BootWith(BadCrc)
    /\ faults' = faults + 1

\* The copy that is rewritten, and the one it is rewritten from.
Target == IF job.kind = "recover1" THEN 1 ELSE 2
Source == 3 - Target

RepairErase ==
    /\ pc = "rep_erase"
    /\ st' = [st EXCEPT ![Target] = Blank]
    /\ pc' = "rep_hdr"
    /\ UNCHANGED <<flash, ram, job, opCuts, bootCuts, faults>>

RepairHeader ==
    /\ pc = "rep_hdr"
    /\ st' = [st EXCEPT ![Target].hdr = st[Source].hdr]
    /\ pc' = "rep_bits"
    /\ UNCHANGED <<flash, ram, job, opCuts, bootCuts, faults>>

\* The position bytes still to be copied; the loop takes them in order.
Missing == st[Source].bits \ st[Target].bits

RepairBit ==
    /\ pc = "rep_bits"
    /\ \E b \in Missing :
          /\ \A c \in Missing : b <= c
          /\ st' = [st EXCEPT ![Target].bits = @ \cup {b}]
    /\ UNCHANGED <<flash, ram, pc, job, opCuts, bootCuts, faults>>

\* The position after a repair: only a state 2 that was out of date ends in
\* recoverPos(); a lost state 2 leaves the position of the header, which is 0,
\* a lost state 1 the last page.
RepairedPos_HeaderOnly == IF job.kind = "sync" THEN recoverPos(st[1].bits) ELSE 0
RepairedPos == CASE job.kind = "sync" -> recoverPos(st[1].bits)
                 [] job.kind = "recover2" -> 0
                 [] OTHER -> N

\* The end of init() after a repair.
RepairDone ==
    /\ pc = "rep_bits"
    /\ Missing = {}
    /\ Mounted(RepairedPos)
    /\ UNCHANGED <<flash, st, opCuts, bootCuts, faults>>

\* The configuration sector is written last, and never read back.
FormatConfig ==
    /\ pc = "fmt_cfg"
    /\ Mounted(recoverPos(st[1].bits))
    /\ UNCHANGED <<flash, st, opCuts, bootCuts, faults>>

-----------------------------------------------------------------------------
(* updateWL(): the relocation of one page.                                 *)

\* The head of updateWL(), called with access_count = ac: count the erase, and
\* go on either to the caller's own erase or to the relocation.
EnterUpdateWL(ac) ==
    IF ac + 1 < MaxCount
    THEN ram' = [ram EXCEPT !.ac = ac + 1] /\ pc' = "sector_erase"
    ELSE ram' = [ram EXCEPT !.ac = 0] /\ pc' = "dummy_erase"

\* updateWL() has returned ESP_OK to erase_sector() or to flush().
LeaveUpdateWL ==
    IF job.kind = "erase"
    THEN pc' = "sector_erase" /\ UNCHANGED job
    ELSE pc' = "off" /\ job' = NoJob

DataPage == IF ram.pos + 1 > N THEN 0 ELSE ram.pos + 1

DummyErase ==
    /\ pc = "dummy_erase"
    /\ flash' = [flash EXCEPT ![ram.pos] = Erased]
    /\ pc' = "copy"
    /\ UNCHANGED <<st, ram, job, opCuts, bootCuts, faults>>

\* The first of the page_size / temp_buff_size writes that copy a page ...
CopyStart_MarkFirst ==
    /\ pc = "copy"
    /\ flash' = [flash EXCEPT ![ram.pos] = Junk]
    /\ st' = [st EXCEPT ![1].bits = @ \cup {ram.pos}]
    /\ pc' = "copying"
    /\ UNCHANGED <<ram, job, opCuts, bootCuts, faults>>
CopyStart ==
    /\ pc = "copy"
    /\ flash' = [flash EXCEPT ![ram.pos] = Junk]
    /\ pc' = "copying"
    /\ UNCHANGED <<st, ram, job, opCuts, bootCuts, faults>>

\* ... and the last of them.
CopyEnd ==
    /\ pc = "copying"
    /\ flash' = [flash EXCEPT ![ram.pos] = flash[DataPage]]
    /\ pc' = "mark1"
    /\ UNCHANGED <<st, ram, job, opCuts, bootCuts, faults>>

Mark1 ==
    /\ pc = "mark1"
    /\ st' = [st EXCEPT ![1].bits = @ \cup {ram.pos}]
    /\ pc' = "mark2"
    /\ UNCHANGED <<flash, ram, job, opCuts, bootCuts, faults>>

\* After N rounds every sector is back where it started.
NextMoveCount_NoReset(m) == m + 1
NextMoveCount(m) == IF m + 1 >= N THEN 0 ELSE m + 1

Mark2_WrapEarly ==
    /\ pc = "mark2"
    /\ st' = [st EXCEPT ![2].bits = @ \cup {ram.pos}]
    /\ \/ /\ ram.pos < N - 1
          /\ ram' = [ram EXCEPT !.pos = @ + 1]
          /\ LeaveUpdateWL
       \/ /\ ram.pos >= N - 1
          /\ ram' = [ram EXCEPT !.pos = 0, !.mc = NextMoveCount(@)]
          /\ pc' = "save_erase1"
          /\ UNCHANGED job
    /\ UNCHANGED <<flash, opCuts, bootCuts, faults>>

\* The position byte of state 2, then pos++ and, at the end of a round, the
\* next move_count, which goes into both state sectors.
Mark2 ==
    /\ pc = "mark2"
    /\ st' = [st EXCEPT ![2].bits = @ \cup {ram.pos}]
    /\ \/ /\ ram.pos < N
          /\ ram' = [ram EXCEPT !.pos = @ + 1]
          /\ LeaveUpdateWL
       \/ /\ ram.pos = N
          /\ ram' = [ram EXCEPT !.pos = 0,
                                !.mc = NextMoveCount(@)]
          /\ pc' = "save_erase1"
          /\ UNCHANGED job
    /\ UNCHANGED <<flash, opCuts, bootCuts, faults>>

\* Both initSections() and the end of a round rewrite state 1, then state 2.
SaveErase1 ==
    /\ pc = "save_erase1"
    /\ st' = [st EXCEPT ![1] = Blank]
    /\ pc' = "save_write1"
    /\ UNCHANGED <<flash, ram, job, opCuts, bootCuts, faults>>

SaveWrite1 ==
    /\ pc = "save_write1"
    /\ st' = [st EXCEPT ![1].hdr = ram.mc]
    /\ pc' = "save_erase2"
    /\ UNCHANGED <<flash, ram, job, opCuts, bootCuts, faults>>

SaveErase2 ==
    /\ pc = "save_erase2"
    /\ st' = [st EXCEPT ![2] = Blank]
    /\ pc' = "save_write2"
    /\ UNCHANGED <<flash, ram, job, opCuts, bootCuts, faults>>

SaveWrite2 ==
    /\ pc = "save_write2"
    /\ st' = [st EXCEPT ![2].hdr = ram.mc]
    /\ IF job.kind = "format" THEN pc' = "fmt_cfg" /\ UNCHANGED job
                              ELSE LeaveUpdateWL
    /\ UNCHANGED <<flash, ram, opCuts, bootCuts, faults>>

-----------------------------------------------------------------------------
(* The calls of the client.                                                *)

\* wl_erase_range(): erase_sector() for one sector after the other.
EraseRange(v, n) ==
    /\ pc = "ready"
    /\ v + n <= N
    /\ job' = NewJob("erase", v, n, NoSrc)
    /\ EnterUpdateWL(ram.ac)
    /\ UNCHANGED <<flash, st, opCuts, bootCuts, faults>>

\* The erase of erase_sector() itself, then the next sector of the range.
SectorErase ==
    /\ pc = "sector_erase"
    /\ flash' = [flash EXCEPT ![calcAddr(job.at, ram.mc, ram.pos)] = Erased]
    /\ \/ /\ job.n = 1
          /\ pc' = "ready"
          /\ job' = NoJob
          /\ UNCHANGED ram
       \/ /\ job.n > 1
          /\ job' = [job EXCEPT !.at = @ + 1, !.n = @ - 1]
          /\ EnterUpdateWL(ram.ac)
    /\ UNCHANGED <<st, opCuts, bootCuts, faults>>

\* wl_write() of n whole sectors with the data src.
Write(v, n, src) ==
    /\ pc = "ready"
    /\ v + n <= N
    /\ pc' = "write"
    /\ job' = NewJob("write", v, n, [k \in 0 .. MaxRun-1 |-> IF k < n THEN src[k] ELSE Junk])
    /\ UNCHANGED <<flash, st, ram, opCuts, bootCuts, faults>>

\* How many pages the i-th driver call of write() programs: each call of the
\* loop passes the whole size, the call after the loop what is left of it.
WriteLen == IF job.i < job.n - 1 THEN job.n ELSE 1

\* The i-th driver call of write().  The pages behind the last data page are
\* the two state sectors; the bytes behind src are whatever follows the buffer.
WriteCall ==
    LET first == calcAddr(job.at + job.i, ram.mc, ram.pos)
        touched == first .. first + WriteLen - 1
        data(q) == IF job.i + q - first < job.n THEN job.src[job.i + q - first] ELSE Junk
    IN
    /\ pc = "write"
    /\ flash' = [q \in Pages |-> IF q \in touched THEN Programmed(flash[q], data(q))
                                                  ELSE flash[q]]
    /\ st' = [k \in Copies |-> IF N + k \in touched THEN [hdr |-> BadCrc, bits |-> Pages]
                                                    ELSE st[k]]
    /\ IF job.i = job.n - 1 THEN pc' = "ready" /\ job' = NoJob
                            ELSE UNCHANGED pc /\ job' = [job EXCEPT !.i = @ + 1]
    /\ UNCHANGED <<ram, opCuts, bootCuts, faults>>

\* wl_unmount(): flush() forces a relocation, then the instance is deleted.
Unmount ==
    /\ pc = "ready"
    /\ "unmount" \in Restarts
    /\ job' = NewJob("unmount", 0, 0, NoSrc)
    /\ EnterUpdateWL(MaxCount - 1)
    /\ UNCHANGED <<flash, st, opCuts, bootCuts, faults>>

-----------------------------------------------------------------------------
(* Power and driver errors.                                                *)

InBoot == pc \in BootPcs \/ (pc \in SavePcs /\ job.kind = "format")

PowerCut ==
    /\ pc # "off"
    /\ \/ pc = "ready" /\ "idle" \in Restarts /\ UNCHANGED <<opCuts, bootCuts>>
       \/ /\ InBoot
          /\ bootCuts < MaxBootCuts
          /\ bootCuts' = bootCuts + 1
          /\ UNCHANGED opCuts
       \/ /\ pc # "ready" /\ ~InBoot
          /\ opCuts < MaxOpCuts
          /\ opCuts' = opCuts + 1
          /\ UNCHANGED bootCuts
    /\ pc' = "off"
    /\ job' = NoJob
    /\ ram' = ZeroRam
    /\ UNCHANGED <<flash, st, faults>>

\* The driver call that is due returns an error.  A mount fails, and so does
\* the client's call; a relocation that has not reached the end of its round
\* asks for another attempt at the next erase ("we will update next time").
DriverError_Advance ==
    /\ pc \in MovePcs
    /\ faults < MaxFaults
    /\ faults' = faults + 1
    /\ pc' = IF job.kind = "unmount" THEN "off" ELSE "ready"
    /\ ram' = [ram EXCEPT !.pos = IF @ < N THEN @ + 1 ELSE @]
    /\ job' = NoJob
    /\ UNCHANGED <<flash, st, opCuts, bootCuts>>
DriverError ==
    /\ pc \notin {"off", "ready"}
    /\ faults < MaxFaults
    /\ faults' = faults + 1
    /\ pc' = IF InBoot \/ job.kind = "unmount" THEN "off" ELSE "ready"
    /\ ram' = IF pc \in MovePcs THEN [ram EXCEPT !.ac = MaxCount - 1] ELSE ram
    /\ job' = NoJob
    /\ UNCHANGED <<flash, st, opCuts, bootCuts>>

-----------------------------------------------------------------------------
Mount == Boot \/ RepairErase \/ RepairHeader \/ RepairBit \/ RepairDone \/ FormatConfig
Relocate == DummyErase \/ CopyStart \/ CopyEnd \/ Mark1 \/ Mark2
Save == SaveErase1 \/ SaveWrite1 \/ SaveErase2 \/ SaveWrite2
DriverStep == Mount \/ Relocate \/ Save \/ SectorErase \/ WriteCall

Client ==
    \/ \E v \in Sectors, n \in 1 .. MaxRun : EraseRange(v, n)
    \/ \E v \in Sectors, n \in 1 .. MaxRun : \E src \in [0 .. n-1 -> Values] : Write(v, n, src)
    \/ Unmount

Next == DriverStep \/ Client \/ PowerCut \/ DriverError \/ BootMisread

Spec == Init /\ [][Next]_vars
-----------------------------------------------------------------------------
(* What the client sees.                                                   *)

\* <<move_count, pos>> as the next mount will find them.
NextMount ==
    CASE st[1].hdr # BadCrc /\ st[2].hdr # BadCrc -> <<st[1].hdr, recoverPos(st[1].bits)>>
      [] st[1].hdr # BadCrc /\ st[2].hdr = BadCrc -> <<st[1].hdr, 0>>
      [] st[1].hdr = BadCrc /\ st[2].hdr # BadCrc -> <<st[2].hdr, N>>
      [] OTHER -> <<0, 0>>

\* <<move_count, pos>> that are in force, or that the mount in progress will
\* end with.
Current ==
    CASE pc = "off" -> NextMount
      [] pc # "off" /\ job.kind = "recover1" -> <<st[2].hdr, N>>
      [] pc # "off" /\ job.kind = "recover2" -> <<st[1].hdr, 0>>
      [] pc # "off" /\ job.kind = "sync" -> <<st[1].hdr, recoverPos(st[1].bits)>>
      [] pc # "off" /\ job.kind = "format" -> <<0, 0>>
      [] OTHER -> <<ram.mc, ram.pos>>

\* What wl_read() returns for each sector, by the mapping <<m, p>>.
ViewBy(map) == [v \in Sectors |-> flash[calcAddr(v, map[1], map[2])]]
View == ViewBy(Current)

\* The client's own call, if one is in progress: neither a mount nor the forced
\* relocation of wl_unmount().
ClientCall == IF job.kind \in {"erase", "write"} THEN job ELSE NoJob

VD == INSTANCE VirtualDisk WITH
          disk <- View, call <- ClientCall, failures <- opCuts + faults, NoCall <- NoJob

\* The client's sectors change only by the call it has in progress, in the
\* order and the place that call says, and a call that returns ESP_OK has done
\* all of it: relocations, power cuts, failed driver calls and mounts, with
\* their repairs, leave what wl_read() returns alone (wear_levelling.h; the
\* crossing of updateWL() with init()).
ImplementsVirtualDisk == VD!DiskSpec

\* When a call has returned, what wl_read() returns is what it will return
\* after a restart ("flash contents is consistent when the function returns",
\* components/wear_levelling/README.rst).
Durable == pc = "ready" => View = ViewBy(NextMount)
=============================================================================
