------------------------------ MODULE OtaBoot -------------------------------
(***************************************************************************)
(* Over-the-air update: the OTA data partition (two sectors, each with a   *)
(* sequence number and its CRC), the second-stage bootloader that picks    *)
(* the app to boot from it, and the calls of esp_ota_ops.c by which the    *)
(* running app writes a new image and selects the next app to boot.        *)
(*                                                                         *)
(* A step of a rewrite is one call of the flash driver.  Power may fail    *)
(* inside such a call, which leaves the sector as it was, erased, written, *)
(* or with a CRC that does not match; a call may also return an error.     *)
(***************************************************************************)
EXTENDS Integers

CONSTANTS
    NOta,          \* OTA app partitions ota_0, ota_1, ..., without a gap
    HasTest,       \* whether there is a test app partition
    NHandles,      \* updates that may be open at a time
    Careful,       \* whether clients leave the app alone that is to be booted next
    Interrupts,    \* the rewrites of OTA data that cuts and errors may hit
    MaxInterrupts, \* how many of them
    MaxSeq         \* sequence numbers stay below it

ASSUME OtaAssumption ==
    /\ NOta \in Nat \ {0}
    /\ HasTest \in BOOLEAN /\ Careful \in BOOLEAN
    /\ NHandles \in Nat
    /\ Interrupts \subseteq {"select", "reset", "format"}
    /\ MaxInterrupts \in Nat
    /\ MaxSeq \in Nat \ {0}

Slots == 0 .. NOta-1
Factory == -1
Test == -2
None == -3
AllParts == Slots \cup {Factory} \cup (IF HasTest THEN {Test} ELSE {})

Blank == -1                          \* ota_seq is 0xffffffff
BadCrc == -2                         \* any other ota_seq whose CRC does not match
Entries == {Blank, BadCrc} \cup 0 .. MaxSeq
Handles == 1 .. NHandles

VARIABLES
    factory,   \* whether the partition table has a factory app
    otadata,   \* the entries of the two sectors
    valid,     \* the partitions whose image verifies (esp_image_basic_verify)
    running,   \* the app that runs
    pc,        \* the driver call that comes next
    job,       \* the call of esp_ota_set_boot_partition() in progress
    ret,       \* what the last call of it returned
    updates,   \* open handles: partition, whether anything was written to it, and
               \* whether part of a 16-byte block waits in the handle
    hits       \* interrupts so far

vars == <<factory, otadata, valid, running, pc, job, ret, updates, hits>>

Updates == [part : Slots, wrote : BOOLEAN, partial : BOOLEAN]
NoUpdate == [part |-> None, wrote |-> FALSE, partial |-> FALSE]
NoJob == [target |-> None, old |-> None, seq |-> 0, sec |-> 0, err |-> FALSE]

FormatPcs == {"fmt_erase0", "fmt_erase1", "fmt_write0", "fmt_write1"}
SelectPcs == {"sel_erase", "sel_write"}
ResetPcs == {"rst_erase0", "rst_erase1"}
Rewriting == FormatPcs \cup SelectPcs \cup ResetPcs

TypeOK ==
    /\ factory \in BOOLEAN
    /\ otadata \in [{0, 1} -> Entries]
    /\ valid \subseteq AllParts
    /\ running \in AllParts \cup {None}
    /\ pc \in {"off", "app", "halt"} \cup Rewriting
    /\ job \in [target : AllParts \cup {None}, old : AllParts \cup {None}, seq : 0 .. MaxSeq,
                sec : {0, 1}, err : BOOLEAN]
    /\ ret \in {"none", "ESP_OK", "error"}
    /\ updates \in [Handles -> {NoUpdate} \cup Updates]
    /\ hits \in 0 .. MaxInterrupts

Parts == {p \in AllParts : p = Factory => factory}

\* A device as it leaves the factory: OTA data is erased, and the app that is
\* booted without it has been flashed.
DefaultApp == IF factory THEN Factory ELSE 0

Init ==
    /\ factory \in BOOLEAN
    /\ otadata = [s \in {0, 1} |-> Blank]
    /\ valid = {DefaultApp} \cup (IF HasTest THEN {Test} ELSE {})
    /\ running = None
    /\ pc = "off"
    /\ job = NoJob
    /\ ret = "none"
    /\ updates = [h \in Handles |-> NoUpdate]
    /\ hits = 0

-----------------------------------------------------------------------------
(* The sequence numbers.                                                   *)

ota_select_valid(s) == otadata[s] >= 0

MaxOf(a, b) == IF a >= b THEN a ELSE b

\* (seq - 1) % count in 32 bits; 2^32 - 1 = 65535 * 65537.
SlotOf_NoWrap(seq) == seq - 1
SlotOf(seq) ==
    IF seq = 0 THEN ((65535 % NOta) * (65537 % NOta)) % NOta ELSE (seq - 1) % NOta

\* The largest valid sequence number.
LatestSeq ==
    IF ota_select_valid(0) /\ ota_select_valid(1) THEN MaxOf(otadata[0], otadata[1])
    ELSE IF ota_select_valid(0) THEN otadata[0] ELSE otadata[1]

AnyValid == ota_select_valid(0) \/ ota_select_valid(1)
BothBlank == otadata[0] = Blank /\ otadata[1] = Blank

\* The app that bootloader_main() will load, None when it gives up.
NextBoot ==
    CASE BothBlank -> DefaultApp
      [] ~BothBlank /\ AnyValid -> SlotOf(LatestSeq)
      [] OTHER -> IF factory THEN Factory ELSE None

\* esp_ota_get_boot_partition(), the same decision made by the app.
esp_ota_get_boot_partition_First ==
    IF ~BothBlank /\ AnyValid
    THEN SlotOf(IF ota_select_valid(0) THEN otadata[0] ELSE otadata[1])
    ELSE IF factory THEN Factory ELSE None
esp_ota_get_boot_partition ==
    IF ~BothBlank /\ AnyValid THEN SlotOf(LatestSeq)
    ELSE IF factory THEN Factory ELSE None

\* SUB_TYPE_ID(): the low four bits of the subtype (test is 0x20).
SUB_TYPE_ID(p) == IF p = Test THEN 0 ELSE p

\* The least number of the form (sub + 1) % count + i * count that is not
\* smaller than seq.
NextSeq_TooLow(sub, seq) == (sub + 1) % NOta
NextSeq(sub, seq) ==
    LET r == (sub + 1) % NOta
        i == CHOOSE j \in 0 .. seq : /\ seq <= r + j * NOta
                                     /\ \A k \in 0 .. j-1 : seq > r + k * NOta
    IN  r + i * NOta

\* esp_rewrite_ota_data(): the number to write for sub, and the sector for it.
RewriteSeq(sub) == IF AnyValid THEN NextSeq(sub, LatestSeq) ELSE sub + 1
RewriteSector_Newer ==
    IF ota_select_valid(0) /\ ota_select_valid(1)
    THEN IF otadata[0] >= otadata[1] THEN 0 ELSE 1
    ELSE IF ota_select_valid(0) THEN 1 ELSE 0
RewriteSector ==
    IF ota_select_valid(0) /\ ota_select_valid(1)
    THEN IF otadata[0] >= otadata[1] THEN 1 ELSE 0
    ELSE IF ota_select_valid(0) THEN 1 ELSE 0

-----------------------------------------------------------------------------
(* The bootloader.                                                         *)

\* unpack_load_app(): there is no other choice when the image does not verify.
Load(p) ==
    IF p \in valid THEN running' = p /\ pc' = "app"
                   ELSE running' = None /\ pc' = "halt"

PowerOn ==
    /\ pc = "off"
    /\ IF BothBlank /\ ~factory THEN pc' = "fmt_erase0" /\ UNCHANGED running
                                   ELSE Load(NextBoot)
    /\ UNCHANGED <<otadata, valid, job, ret, updates, hits>>

\* Without a factory app, blank OTA data is initialised before ota_0 is loaded:
\* both sectors are erased, then both are written.
Format(at, s, e, next) ==
    /\ pc = at
    /\ otadata' = [otadata EXCEPT ![s] = e]
    /\ pc' = next
    /\ UNCHANGED <<valid, running, job, ret, updates, hits>>

FmtErase0 == Format("fmt_erase0", 0, Blank, "fmt_erase1")
FmtErase1 == Format("fmt_erase1", 1, Blank, "fmt_write0")
FmtWrite0 == Format("fmt_write0", 0, 1, "fmt_write1")

FmtWrite1 ==
    /\ pc = "fmt_write1"
    /\ otadata' = [otadata EXCEPT ![1] = 0]
    /\ IF job.err THEN pc' = "halt" /\ UNCHANGED running ELSE Load(0)
    /\ job' = NoJob
    /\ UNCHANGED <<valid, ret, updates, hits>>

-----------------------------------------------------------------------------
(* esp_ota_set_boot_partition().                                           *)

SetBoot(p) ==
    /\ pc = "app"
    /\ p \in valid
    /\ IF p = Factory
       THEN /\ job' = [NoJob EXCEPT !.target = p, !.old = NextBoot]
            /\ pc' = "rst_erase0"
       ELSE /\ RewriteSeq(SUB_TYPE_ID(p)) <= MaxSeq
            /\ job' = [target |-> p, old |-> NextBoot, seq |-> RewriteSeq(SUB_TYPE_ID(p)),
                       sec |-> RewriteSector, err |-> FALSE]
            /\ pc' = "sel_erase"
    /\ ret' = "none"
    /\ UNCHANGED <<otadata, valid, running, updates, hits>>

\* rewrite_ota_seq() erases the sector, then writes it.
SelErase ==
    /\ pc = "sel_erase"
    /\ otadata' = [otadata EXCEPT ![job.sec] = Blank]
    /\ pc' = "sel_write"
    /\ UNCHANGED <<valid, running, job, ret, updates, hits>>

SelWrite ==
    /\ pc = "sel_write"
    /\ otadata' = [otadata EXCEPT ![job.sec] = job.seq]
    /\ pc' = "app"
    /\ job' = NoJob
    /\ ret' = "ESP_OK"
    /\ UNCHANGED <<valid, running, updates, hits>>

\* For the factory app the OTA data is erased, one sector after the other.
ResetErase0 ==
    /\ pc = "rst_erase0"
    /\ otadata' = [otadata EXCEPT ![0] = Blank]
    /\ pc' = "rst_erase1"
    /\ UNCHANGED <<valid, running, job, ret, updates, hits>>

ResetErase1 ==
    /\ pc = "rst_erase1"
    /\ otadata' = [otadata EXCEPT ![1] = Blank]
    /\ pc' = "app"
    /\ job' = NoJob
    /\ ret' = "ESP_OK"
    /\ UNCHANGED <<valid, running, updates, hits>>

-----------------------------------------------------------------------------
(* esp_ota_begin(), esp_ota_write() and esp_ota_end().                     *)

OtaBegin(h, p) ==
    /\ pc = "app"
    /\ updates[h] = NoUpdate
    /\ p # running
    /\ Careful => p # NextBoot
    /\ valid' = valid \ {p}
    /\ updates' = [updates EXCEPT ![h] = [part |-> p, wrote |-> FALSE, partial |-> FALSE]]
    /\ UNCHANGED <<otadata, running, pc, job, ret, hits>>

\* Some of the image of p is written: with its last part it may verify.
Programs(p) ==
    /\ Careful => p # NextBoot
    /\ \E v \in {valid \ {p}, valid \cup {p}} : valid' = v

\* Some of the image arrives.  Under flash encryption only whole blocks of 16
\* bytes are written; the rest waits in the handle, and may be all there is.
OtaWrite(h) ==
    /\ pc = "app"
    /\ updates[h] # NoUpdate
    /\ \/ /\ Programs(updates[h].part)
          /\ \E rest \in BOOLEAN :
                updates' = [updates EXCEPT ![h] = [@ EXCEPT !.wrote = TRUE, !.partial = rest]]
       \/ /\ updates' = [updates EXCEPT ![h] = [@ EXCEPT !.partial = TRUE]]
          /\ UNCHANGED valid
    /\ UNCHANGED <<otadata, running, pc, job, ret, hits>>

\* The last block is written, if one waits behind others; the write may fail.
\* The handle is gone whatever that or the verification says.
OtaEnd(h) ==
    /\ pc = "app"
    /\ updates[h] # NoUpdate
    /\ IF updates[h].wrote /\ updates[h].partial
       THEN Programs(updates[h].part)
       ELSE UNCHANGED valid
    /\ updates' = [updates EXCEPT ![h] = NoUpdate]
    /\ UNCHANGED <<otadata, running, pc, job, ret, hits>>

-----------------------------------------------------------------------------
(* Restarts, power cuts and driver errors.                                 *)

Restarted ==
    /\ running' = None
    /\ job' = NoJob
    /\ ret' = "none"
    /\ updates' = [h \in Handles |-> NoUpdate]
    /\ pc' = "off"

\* esp_restart(), or power off and on while OTA data is not being written.
Restart ==
    /\ pc \in {"app", "halt"}
    /\ Restarted
    /\ UNCHANGED <<otadata, valid, hits>>

MayInterrupt ==
    /\ hits < MaxInterrupts
    /\ \/ pc \in FormatPcs /\ "format" \in Interrupts
       \/ pc \in SelectPcs /\ "select" \in Interrupts
       \/ pc \in ResetPcs /\ "reset" \in Interrupts
    /\ hits' = hits + 1

\* The sector that the next driver call works on.
Sector ==
    CASE pc \in {"fmt_erase0", "fmt_write0", "rst_erase0"} -> 0
      [] pc \in {"fmt_erase1", "fmt_write1", "rst_erase1"} -> 1
      [] OTHER -> job.sec

\* Power fails in a driver call.
PowerCut ==
    /\ MayInterrupt
    /\ \E e \in {otadata[Sector], Blank, BadCrc} : otadata' = [otadata EXCEPT ![Sector] = e]
    /\ Restarted
    /\ UNCHANGED valid

\* A driver call returns an error.  esp_ota_set_boot_partition() passes it on;
\* the bootloader looks at the results of two erases, and of two writes, at a
\* time, and then does not load anything.
DriverError ==
    /\ MayInterrupt
    /\ pc' = CASE pc \in SelectPcs \cup ResetPcs -> "app"
               [] pc = "fmt_write0" -> "fmt_write1"
               [] OTHER -> "halt"
    /\ ret' = IF pc \in SelectPcs \cup ResetPcs THEN "error" ELSE ret
    /\ job' = IF pc = "fmt_write0" THEN [job EXCEPT !.err = TRUE] ELSE NoJob
    /\ UNCHANGED <<otadata, valid, running, updates>>

-----------------------------------------------------------------------------
Bootloader == PowerOn \/ FmtErase0 \/ FmtErase1 \/ FmtWrite0 \/ FmtWrite1
Rewrite == SelErase \/ SelWrite \/ ResetErase0 \/ ResetErase1
App ==
    \/ \E p \in Parts : SetBoot(p)
    \/ \E h \in Handles, p \in Slots : OtaBegin(h, p)
    \/ \E h \in Handles : OtaWrite(h) \/ OtaEnd(h)
Next ==
    /\ Bootloader \/ Rewrite \/ App \/ Restart \/ PowerCut \/ DriverError
    /\ UNCHANGED factory

Spec == Init /\ [][Next]_vars
-----------------------------------------------------------------------------
Selecting == pc \in SelectPcs \cup ResetPcs

BC == INSTANCE BootChoice WITH Parts <- AllParts,
                               chosen <- IF Selecting THEN job.old ELSE NextBoot,
                               wanted <- job.target,
                               result <- ret

\* Selecting a boot app is atomic: a call of esp_ota_set_boot_partition() that
\* returns ESP_OK has made the app that was asked for the one the bootloader
\* will load, a call that returns an error has left the choice as it was, and
\* after a call that is cut off a restart boots the one or the other
\* (rewrite_ota_seq() and bootloader_main()).
ImplementsBootChoice == BC!Spec

\* The app is told the truth: what esp_ota_get_boot_partition() returns is
\* what the bootloader is going to load, although each has its own code for it.
BootPartitionAgrees == pc = "app" => esp_ota_get_boot_partition = NextBoot

\* The device is never left without an app that it can boot
\* (unpack_load_app() has no second choice).
NeverHalted == pc # "halt"
=============================================================================
