-------------------------- MODULE FirstBootProofs ---------------------------
(***************************************************************************)
(* Theorems about FirstBoot, for any partition table, any number of        *)
(* sectors, cuts, errors and times the host flashes the device.            *)
(***************************************************************************)
EXTENDS FirstBoot, SequenceTheorems, TLAPS

-----------------------------------------------------------------------------
(* The inductive invariant.                                                *)

Once == [ok |-> TRUE, times |-> 1]      \* encrypted
Contents == [ok : BOOLEAN, times : 0..2]

\* Of the sectors that the host makes plaintext again when it flashes the device.
AllPlain(r) == \A s \in Restored(r) : flash[r][s] = Plain
AllOnce(r) == \A s \in Restored(r) : flash[r][s] = Once

\* What a pass encrypts whatever it finds.
Needs(r) ==
    \/ r \in {"boot", "table"}
    \/ r = "iv" /\ fuse.abs_done
    \/ r \in Names /\ Kind[r] \in {"app", "ota", "flag"}
IsSlot(r) == r \in Names /\ Kind[r] = "slot"

ShapeInv ==
    /\ flash = [r \in Regions |-> flash[r]]
    /\ at \in [reg : Nat, sec : Nat, buf : Contents]
    /\ hits \in [cuts : Nat, errors : Nat, flashes : Nat]

SbPcs == {"sb_key", "sb_lock", "sb_erase", "sb_write", "sb_done"}
KeyPcs == {"fe_key", "fe_lock", "fe_config", "fe_dl"}
PassPcs == {"fe_region", "fe_erase", "fe_write"}

\* What the bootloader has found out about the efuses, and done to them.
StageInv ==
    /\ pc \in SbPcs => ~fuse.abs_done
    /\ pc \in KeyPcs => fuse.cnt = 0
    /\ pc \in KeyPcs \cup PassPcs => fuse.cnt < CntWidth /\ ~esp_flash_encryption_enabled
    /\ pc \in {"fe_config", "fe_dl"} \cup PassPcs => fuse.key1 = "locked"
    /\ pc \in {"fe_dl"} \cup PassPcs => fuse.config
    /\ pc \in PassPcs => fuse.dl
    /\ pc \in {"app_load", "app"} => esp_flash_encryption_enabled
    /\ pc \notin PassPcs => at.reg = 1
    /\ pc \notin {"fe_erase", "fe_write"} => at.sec = 1
    /\ pc = "sb_done" => Reads("iv", 1)

\* The ROM has read the bootloader, and nothing has changed it since.
BootInv == pc \notin {"off", "halt"} \cup PassPcs => esp_image_basic_verify("boot")

\* With a plaintext bootloader everything is plaintext: it is encrypted first.
Fresh == AllPlain("boot") => \A r \in Regions : Needs(r) => AllPlain(r)

\* Encryption is on: a pass came to its end, or the host has flashed since.
Done == esp_flash_encryption_enabled =>
           AllPlain("boot") \/ \A r \in Regions : Needs(r) => AllOnce(r)

\* How far a pass has come.
PassInv ==
    pc \in PassPcs =>
      /\ \A j \in 1..Len(Order) : Needs(Order[j]) =>
            /\ j < at.reg => AllOnce(Order[j])
            /\ j > at.reg \/ (j = at.reg /\ pc = "fe_region") => AllPlain(Order[j])
      /\ pc \in {"fe_erase", "fe_write"} /\ Needs(Region) =>
            /\ \A s \in Restored(Region) :
                  /\ s < at.sec => flash[Region][s] = Once
                  /\ s > at.sec \/ (s = at.sec /\ pc = "fe_erase") => flash[Region][s] = Plain
            /\ pc = "fe_write" /\ at.sec \in Restored(Region) =>
                  flash[Region][at.sec] = Lost /\ at.buf = Plain

\* An OTA slot is encrypted from its first sector on.
SlotInv ==
    /\ \A r \in Regions : IsSlot(r) /\ flash[r][1] = Plain =>
          \A s \in Restored(r) : flash[r][s].times = 0
    /\ pc \in {"fe_erase", "fe_write"} =>
          /\ Needs(Region) \/ IsSlot(Region)
          /\ IsSlot(Region) =>
                /\ \A s \in Restored(Region) : s >= at.sec => flash[Region][s].times = 0
                /\ at.sec > 1 \/ pc = "fe_write" => flash[Region][1] # Plain
                /\ pc = "fe_write" /\ at.sec \in Restored(Region) => at.buf.times = 0
OnceInv == EncryptedOnce /\ SlotInv

IInv ==
    /\ TypeOK /\ ShapeInv /\ StageInv /\ KeysProtected
    /\ BootInv /\ Fresh /\ Done /\ PassInv
    /\ OnceInv

-----------------------------------------------------------------------------
(* The order of a pass.                                                    *)

LEMMA OrderFacts ==
    /\ Len(Order) = Len(Partitions) + 3 /\ Len(Partitions) \in Nat
    /\ Order[1] = "boot" /\ Order[2] = "iv" /\ Order[3] = "table"
    /\ \A j \in 1..Len(Partitions) : Order[j + 3] = Partitions[j] /\ Partitions[j] \in Names
<1>1. Partitions \in Seq(Names) /\ Len(Partitions) \in Nat
    BY FirstBootAssumption
<1>2. <<"boot", "iv", "table">> \in Seq({"boot", "iv", "table"}) /\ Len(<<"boot", "iv", "table">>) = 3
    OBVIOUS
<1> QED BY <1>1, <1>2 DEF Order

\* Every region has one place in the order.
LEMMA OrderRegions ==
    /\ \A j \in 1..Len(Order) : Order[j] \in Regions
    /\ \A r \in Regions : \E j \in 1..Len(Order) : Order[j] = r
    /\ \A i, j \in 1..Len(Order) : Order[i] = Order[j] => i = j
<1>1. \A j \in 1..Len(Order) : j \in {1, 2, 3} \/ j - 3 \in 1..Len(Partitions)
    BY OrderFacts
<1>2. \A j \in 1..Len(Order) : j > 3 => Order[j] = Partitions[j - 3] /\ Order[j] \in Names
    BY OrderFacts
<1>3. \A j \in 1..Len(Order) : Order[j] \in Regions
    BY <1>1, <1>2, OrderFacts DEF Regions
<1>4. ASSUME NEW r \in Regions PROVE \E j \in 1..Len(Order) : Order[j] = r
  <2>1. CASE r \in {"boot", "iv", "table"}
    BY <2>1, OrderFacts
  <2>2. CASE r \in Names
    <3>1. PICK i \in DOMAIN Partitions : Partitions[i] = r
      BY <2>2 DEF Names
    <3>2. i \in 1..Len(Partitions)
      BY FirstBootAssumption
    <3>3. i + 3 \in 1..Len(Order) /\ Order[i + 3] = r
      BY <3>1, <3>2, OrderFacts
    <3> QED BY <3>3
  <2> QED BY <2>1, <2>2 DEF Regions
<1>5. ASSUME NEW i \in 1..Len(Order), NEW j \in 1..Len(Order), Order[i] = Order[j]
      PROVE  i = j
  <2>1. CASE i > 3 /\ j > 3
    <3>1. i - 3 \in DOMAIN Partitions /\ j - 3 \in DOMAIN Partitions
      BY <2>1, OrderFacts, FirstBootAssumption
    <3>2. Partitions[i - 3] = Partitions[j - 3]
      BY <1>2, <1>5, <2>1
    <3>3. i - 3 = j - 3
      BY <3>1, <3>2, FirstBootAssumption
    <3> QED BY <3>3
  <2>2. CASE i <= 3 /\ j <= 3
    BY <1>5, <2>2, OrderFacts
  <2>0. "boot" \notin Names /\ "iv" \notin Names /\ "table" \notin Names
    BY FirstBootAssumption
  <2>3. CASE i <= 3 /\ j > 3
    BY <1>2, <1>5, <2>0, <2>3, OrderFacts
  <2>4. CASE i > 3 /\ j <= 3
    BY <1>2, <1>5, <2>0, <2>4, OrderFacts
  <2> QED BY <2>1, <2>2, <2>3, <2>4
<1> QED BY <1>3, <1>4, <1>5

-----------------------------------------------------------------------------
(* What the host makes plaintext again.                                    *)

LEMMA RestoredSectors ==
    ASSUME NEW r \in Regions
    PROVE  /\ Restored(r) \subseteq 1..Sectors[r]
           /\ r \in {"boot", "iv", "table"} \/ Kind[r] \in {"app", "slot"} =>
                 1..Image[r] \subseteq Restored(r) /\ 1 \in Restored(r)
           /\ r = "boot" => Restored(r) = 1..Sectors[r]
           /\ Sectors[r] \in Nat \ {0}
<1>1. Sectors[r] \in Nat \ {0} /\ Image[r] \in Nat \ {0} /\ Image[r] <= Sectors[r]
    BY FirstBootAssumption
<1>2. r = "boot" => Image[r] = Sectors[r]
    BY FirstBootAssumption
<1>3. r \in Names \/ r \in {"boot", "iv", "table"}
    BY DEF Regions
<1> QED BY <1>1, <1>2, <1>3 DEF Restored

-----------------------------------------------------------------------------
(* Steps that change no sector, and neither ABS_DONE_0 nor FLASH_CRYPT_CNT. *)

Quiet == setup' = setup /\ flash' = flash /\ fuse'.abs_done = fuse.abs_done /\ fuse'.cnt = fuse.cnt

LEMMA QuietReads ==
    ASSUME Quiet
    PROVE  /\ esp_flash_encryption_enabled' <=> esp_flash_encryption_enabled
           /\ \A r, s : Reads(r, s)' <=> Reads(r, s)
           /\ \A r : esp_image_basic_verify(r)' <=> esp_image_basic_verify(r)
           /\ \A r : Needs(r)' <=> Needs(r)
           /\ \A r : AllPlain(r)' <=> AllPlain(r)
           /\ \A r : AllOnce(r)' <=> AllOnce(r)
           /\ \A r : Restored(r)' = Restored(r)
BY DEF Quiet, esp_flash_encryption_enabled, Mode, Reads, esp_image_basic_verify, Needs,
       AllPlain, AllOnce, Restored

LEMMA QuietStep ==
    ASSUME IInv, Quiet, TypeOK', ShapeInv', StageInv', KeysProtected', BootInv', PassInv',
           pc' \notin {"fe_erase", "fe_write"}
    PROVE  IInv'
<1>1. Fresh' /\ Done'
    BY QuietReads DEF IInv, Fresh, Done
<1>2. OnceInv'
    BY QuietReads DEF IInv, OnceInv, EncryptedOnce, SlotInv, Quiet
<1> QED BY <1>1, <1>2 DEF IInv

\* A pass begins with a plaintext bootloader, so everything is plaintext.
LEMMA PassBegins ==
    ASSUME IInv, Quiet, pc' = "fe_region", at'.reg = 1, ~esp_flash_encryption_enabled,
           esp_image_basic_verify("boot")
    PROVE  PassInv'
<1>1. AllPlain("boot")
  <2>1. Restored("boot") = 1..Image["boot"]
    BY RestoredSectors, FirstBootAssumption DEF Regions
  <2> QED BY <2>1 DEF esp_image_basic_verify, Reads, Mode, AllPlain, Plain
<1>2. \A r \in Regions : Needs(r)' => AllPlain(r)'
    BY <1>1, QuietReads DEF IInv, Fresh
<1>3. \A j \in 1..Len(Order) : Needs(Order[j])' => AllPlain(Order[j])' /\ ~(j < at'.reg)
    BY <1>2, OrderRegions
<1> QED BY <1>3 DEF PassInv

LEMMA PowerOnStep ==
    ASSUME IInv, PowerOn
    PROVE  IInv'
<1> USE DEF PowerOn, Goto, Keep, IInv, TypeOK, ShapeInv
<1>1. Quiet
    BY DEF Quiet
<1>2. TypeOK'
    OBVIOUS
<1>3. ShapeInv'
    OBVIOUS
<1>4. StageInv'
    BY <1>1, QuietReads DEF StageInv, SbPcs, KeyPcs, PassPcs
<1>5. KeysProtected'
    BY <1>1 DEF KeysProtected, Quiet
<1>6. BootInv'
    BY <1>1, QuietReads DEF BootInv, PassPcs, RomBoots
<1>7. PassInv'
    BY DEF PassInv, PassPcs
<1>8. pc' \notin {"fe_erase", "fe_write"}
    OBVIOUS
<1> QED BY <1>1, <1>2, <1>3, <1>4, <1>5, <1>6, <1>7, <1>8, QuietStep

LEMMA LoadTableStep ==
    ASSUME IInv, LoadTable
    PROVE  IInv'
<1> USE DEF LoadTable, Goto, Keep, IInv, TypeOK, ShapeInv
<1>1. Quiet
    BY DEF Quiet
<1>2. TypeOK'
    OBVIOUS
<1>3. ShapeInv'
    OBVIOUS
<1>4. StageInv'
    BY <1>1, QuietReads DEF StageInv, SbPcs, KeyPcs, PassPcs
<1>5. KeysProtected'
    BY <1>1 DEF KeysProtected, Quiet
<1>6. BootInv'
    BY <1>1, QuietReads DEF BootInv, PassPcs
<1>7. PassInv'
    BY DEF PassInv, PassPcs
<1>8. pc' \notin {"fe_erase", "fe_write"}
    OBVIOUS
<1> QED BY <1>1, <1>2, <1>3, <1>4, <1>5, <1>6, <1>7, <1>8, QuietStep

LEMMA SbCheckStep ==
    ASSUME IInv, SbCheck
    PROVE  IInv'
<1> USE DEF SbCheck, Goto, Keep, IInv, TypeOK, ShapeInv
<1>1. Quiet
    BY DEF Quiet
<1>2. TypeOK'
    OBVIOUS
<1>3. ShapeInv'
    OBVIOUS
<1>4. StageInv'
    BY <1>1, QuietReads DEF StageInv, SbPcs, KeyPcs, PassPcs
<1>5. KeysProtected'
    BY <1>1 DEF KeysProtected, Quiet
<1>6. BootInv'
    BY <1>1, QuietReads DEF BootInv, PassPcs
<1>7. PassInv'
    BY DEF PassInv, PassPcs
<1>8. pc' \notin {"fe_erase", "fe_write"}
    OBVIOUS
<1> QED BY <1>1, <1>2, <1>3, <1>4, <1>5, <1>6, <1>7, <1>8, QuietStep

LEMMA SbKeyStep ==
    ASSUME IInv, SbKey
    PROVE  IInv'
<1> USE DEF SbKey, Goto, Keep, Burn, IInv, TypeOK, ShapeInv
<1>1. Quiet
    BY DEF Quiet
<1>2. TypeOK'
    BY DEF Keys
<1>3. ShapeInv'
    OBVIOUS
<1>4. StageInv'
    BY <1>1, QuietReads DEF StageInv, SbPcs, KeyPcs, PassPcs
<1>5. KeysProtected'
    BY <1>1 DEF KeysProtected, Quiet, StageInv, SbPcs, KeyPcs
<1>6. BootInv'
    BY <1>1, QuietReads DEF BootInv, PassPcs
<1>7. PassInv'
    BY DEF PassInv, PassPcs
<1>8. pc' \notin {"fe_erase", "fe_write"}
    OBVIOUS
<1> QED BY <1>1, <1>2, <1>3, <1>4, <1>5, <1>6, <1>7, <1>8, QuietStep

LEMMA SbLockStep ==
    ASSUME IInv, SbLock
    PROVE  IInv'
<1> USE DEF SbLock, Goto, Keep, Burn, IInv, TypeOK, ShapeInv
<1>1. Quiet
    BY DEF Quiet
<1>2. TypeOK'
    BY DEF Keys
<1>3. ShapeInv'
    OBVIOUS
<1>4. StageInv'
    BY <1>1, QuietReads DEF StageInv, SbPcs, KeyPcs, PassPcs
<1>5. KeysProtected'
    BY <1>1 DEF KeysProtected, Quiet, StageInv, SbPcs, KeyPcs
<1>6. BootInv'
    BY <1>1, QuietReads DEF BootInv, PassPcs
<1>7. PassInv'
    BY DEF PassInv, PassPcs
<1>8. pc' \notin {"fe_erase", "fe_write"}
    OBVIOUS
<1> QED BY <1>1, <1>2, <1>3, <1>4, <1>5, <1>6, <1>7, <1>8, QuietStep

LEMMA FeCheckStep ==
    ASSUME IInv, FeCheck
    PROVE  IInv'
<1> USE DEF FeCheck, Goto, Keep, IInv, TypeOK, ShapeInv
<1>0. /\ pc' \in {"app_load", "halt", "fe_region", "fe_key", "fe_config"}
      /\ pc' = "app_load" => esp_flash_encryption_enabled
      /\ pc' \in {"fe_region", "fe_key", "fe_config"} =>
            ~esp_flash_encryption_enabled /\ fuse.cnt < CntWidth
      /\ pc' = "fe_region" => fuse.cnt > 0
      /\ pc' \in {"fe_key", "fe_config"} => fuse.cnt = 0
      /\ pc' = "fe_config" => fuse.key1 = "locked"
  <2>1. fuse.cnt \in Nat /\ fuse.cnt <= CntWidth /\ CntWidth \in Nat
    BY FirstBootAssumption
  <2>2. CASE fuse.key1 = "unset"
    BY <2>1, <2>2
  <2>3. CASE fuse.key1 = "open"
    BY <2>1, <2>3
  <2>4. CASE fuse.key1 = "locked"
    BY <2>1, <2>4
  <2> QED BY <2>2, <2>3, <2>4 DEF Keys
<1>1. Quiet
    BY DEF Quiet
<1>2. TypeOK'
    BY <1>0
<1>3. ShapeInv'
    OBVIOUS
<1>4. StageInv'
    BY <1>0, <1>1, QuietReads DEF StageInv, KeysProtected, SbPcs, KeyPcs, PassPcs, Quiet
<1>5. KeysProtected'
    BY <1>1 DEF KeysProtected, Quiet
<1>6. BootInv'
    BY <1>1, QuietReads DEF BootInv, PassPcs
<1>7. PassInv'
  <2>1. CASE pc' = "fe_region"
    <3>1. at'.reg = 1 /\ ~esp_flash_encryption_enabled /\ esp_image_basic_verify("boot")
      BY <1>0, <2>1 DEF StageInv, KeyPcs, PassPcs, BootInv
    <3> QED BY <1>1, <2>1, <3>1, PassBegins
  <2>2. CASE pc' # "fe_region"
    BY <1>0, <2>2 DEF PassInv, PassPcs
  <2> QED BY <2>1, <2>2
<1>8. pc' \notin {"fe_erase", "fe_write"}
    BY <1>0
<1> QED BY <1>1, <1>2, <1>3, <1>4, <1>5, <1>6, <1>7, <1>8, QuietStep

LEMMA FeKeyStep ==
    ASSUME IInv, FeKey
    PROVE  IInv'
<1> USE DEF FeKey, Goto, Keep, Burn, IInv, TypeOK, ShapeInv
<1>1. Quiet
    BY DEF Quiet
<1>2. TypeOK'
    BY DEF Keys
<1>3. ShapeInv'
    OBVIOUS
<1>4. StageInv'
    BY <1>1, QuietReads DEF StageInv, SbPcs, KeyPcs, PassPcs
<1>5. KeysProtected'
    BY <1>1 DEF KeysProtected, Quiet, StageInv, SbPcs, KeyPcs
<1>6. BootInv'
    BY <1>1, QuietReads DEF BootInv, PassPcs
<1>7. PassInv'
    BY DEF PassInv, PassPcs
<1>8. pc' \notin {"fe_erase", "fe_write"}
    OBVIOUS
<1> QED BY <1>1, <1>2, <1>3, <1>4, <1>5, <1>6, <1>7, <1>8, QuietStep

LEMMA FeLockStep ==
    ASSUME IInv, FeLock
    PROVE  IInv'
<1> USE DEF FeLock, Goto, Keep, Burn, IInv, TypeOK, ShapeInv
<1>1. Quiet
    BY DEF Quiet
<1>2. TypeOK'
    BY DEF Keys
<1>3. ShapeInv'
    OBVIOUS
<1>4. StageInv'
    BY <1>1, QuietReads DEF StageInv, SbPcs, KeyPcs, PassPcs
<1>5. KeysProtected'
    BY <1>1 DEF KeysProtected, Quiet, StageInv, SbPcs, KeyPcs
<1>6. BootInv'
    BY <1>1, QuietReads DEF BootInv, PassPcs
<1>7. PassInv'
    BY DEF PassInv, PassPcs
<1>8. pc' \notin {"fe_erase", "fe_write"}
    OBVIOUS
<1> QED BY <1>1, <1>2, <1>3, <1>4, <1>5, <1>6, <1>7, <1>8, QuietStep

LEMMA FeConfigStep ==
    ASSUME IInv, FeConfig
    PROVE  IInv'
<1> USE DEF FeConfig, Goto, Keep, Burn, IInv, TypeOK, ShapeInv
<1>1. Quiet
    BY DEF Quiet
<1>2. TypeOK'
    BY DEF Keys
<1>3. ShapeInv'
    OBVIOUS
<1>4. StageInv'
    BY <1>1, QuietReads DEF StageInv, SbPcs, KeyPcs, PassPcs
<1>5. KeysProtected'
    BY <1>1 DEF KeysProtected, Quiet, StageInv, SbPcs, KeyPcs
<1>6. BootInv'
    BY <1>1, QuietReads DEF BootInv, PassPcs
<1>7. PassInv'
    BY DEF PassInv, PassPcs
<1>8. pc' \notin {"fe_erase", "fe_write"}
    OBVIOUS
<1> QED BY <1>1, <1>2, <1>3, <1>4, <1>5, <1>6, <1>7, <1>8, QuietStep

LEMMA FeDlStep ==
    ASSUME IInv, FeDl
    PROVE  IInv'
<1> USE DEF FeDl, Goto, Keep, Burn, IInv, TypeOK, ShapeInv
<1>1. Quiet
    BY DEF Quiet
<1>2. TypeOK'
    BY DEF Keys
<1>3. ShapeInv'
    OBVIOUS
<1>4. StageInv'
    BY <1>1, QuietReads DEF StageInv, SbPcs, KeyPcs, PassPcs
<1>5. KeysProtected'
    BY <1>1 DEF KeysProtected, Quiet, StageInv, SbPcs, KeyPcs
<1>6. BootInv'
    BY <1>1, QuietReads DEF BootInv, PassPcs
<1>7. PassInv'
  <2>1. CASE pc' = "fe_region"
    <3>1. at'.reg = 1 /\ ~esp_flash_encryption_enabled /\ esp_image_basic_verify("boot")
      BY <2>1 DEF StageInv, KeyPcs, PassPcs, BootInv
    <3> QED BY <1>1, <2>1, <3>1, PassBegins
  <2>2. CASE pc' # "fe_region"
    BY <2>2 DEF PassInv, PassPcs
  <2> QED BY <2>1, <2>2
<1>8. pc' \notin {"fe_erase", "fe_write"}
    OBVIOUS
<1> QED BY <1>1, <1>2, <1>3, <1>4, <1>5, <1>6, <1>7, <1>8, QuietStep

LEMMA LoadAppStep ==
    ASSUME IInv, LoadApp
    PROVE  IInv'
<1> USE DEF LoadApp, Goto, Keep, IInv, TypeOK, ShapeInv
<1>1. Quiet
    BY DEF Quiet
<1>2. TypeOK'
    OBVIOUS
<1>3. ShapeInv'
    OBVIOUS
<1>4. StageInv'
    BY <1>1, QuietReads DEF StageInv, SbPcs, KeyPcs, PassPcs
<1>5. KeysProtected'
    BY <1>1 DEF KeysProtected, Quiet
<1>6. BootInv'
    BY <1>1, QuietReads DEF BootInv, PassPcs
<1>7. PassInv'
    BY DEF PassInv, PassPcs
<1>8. pc' \notin {"fe_erase", "fe_write"}
    OBVIOUS
<1> QED BY <1>1, <1>2, <1>3, <1>4, <1>5, <1>6, <1>7, <1>8, QuietStep

LEMMA CutStep ==
    ASSUME IInv, Cut
    PROVE  IInv'
<1> USE DEF Cut, Goto, IInv, TypeOK, ShapeInv
<1>1. Quiet
    BY DEF Quiet
<1>2. TypeOK'
    BY OrderFacts DEF Start
<1>3. ShapeInv'
    BY DEF Start, Lost, Contents
<1>4. StageInv'
    BY <1>1, QuietReads DEF StageInv, SbPcs, KeyPcs, PassPcs, Start
<1>5. KeysProtected'
    BY <1>1 DEF KeysProtected, Quiet
<1>6. BootInv'
    BY <1>1, QuietReads DEF BootInv, PassPcs
<1>7. PassInv'
    BY DEF PassInv, PassPcs
<1>8. pc' \notin {"fe_erase", "fe_write"}
    OBVIOUS
<1> QED BY <1>1, <1>2, <1>3, <1>4, <1>5, <1>6, <1>7, <1>8, QuietStep

LEMMA ResetStep ==
    ASSUME IInv, Reset
    PROVE  IInv'
<1> USE DEF Reset, Goto, Keep, IInv, TypeOK, ShapeInv
<1>1. Quiet
    BY DEF Quiet
<1>2. TypeOK'
    OBVIOUS
<1>3. ShapeInv'
    OBVIOUS
<1>4. StageInv'
    BY <1>1, QuietReads DEF StageInv, SbPcs, KeyPcs, PassPcs
<1>5. KeysProtected'
    BY <1>1 DEF KeysProtected, Quiet
<1>6. BootInv'
    BY <1>1, QuietReads DEF BootInv, PassPcs
<1>7. PassInv'
    BY DEF PassInv, PassPcs
<1>8. pc' \notin {"fe_erase", "fe_write"}
    OBVIOUS
<1> QED BY <1>1, <1>2, <1>3, <1>4, <1>5, <1>6, <1>7, <1>8, QuietStep

LEMMA ProtectCntStep ==
    ASSUME IInv, ProtectCnt
    PROVE  IInv'
<1> USE DEF ProtectCnt, Goto, Keep, Burn, IInv, TypeOK, ShapeInv
<1>1. Quiet
    BY DEF Quiet
<1>2. TypeOK'
    BY DEF Keys
<1>3. ShapeInv'
    OBVIOUS
<1>4. StageInv'
    BY <1>1, QuietReads DEF StageInv, SbPcs, KeyPcs, PassPcs
<1>5. KeysProtected'
    BY <1>1 DEF KeysProtected, Quiet, StageInv, SbPcs, KeyPcs
<1>6. BootInv'
    BY <1>1, QuietReads DEF BootInv, PassPcs
<1>7. PassInv'
    BY DEF PassInv, PassPcs
<1>8. pc' \notin {"fe_erase", "fe_write"}
    OBVIOUS
<1> QED BY <1>1, <1>2, <1>3, <1>4, <1>5, <1>6, <1>7, <1>8, QuietStep

-----------------------------------------------------------------------------
(* Steps that write a sector.                                              *)

LEMMA WriteSector ==
    ASSUME TypeOK, ShapeInv, NEW r \in Regions, NEW s \in 1..Sectors[r], NEW x \in Contents,
           Write(r, s, x)
    PROVE  /\ flash' = [q \in Regions |-> flash'[q]]
           /\ \A q \in Regions : flash'[q] \in [1..Sectors[q] -> Contents]
           /\ \A q \in Regions \ {r} : flash'[q] = flash[q]
           /\ flash'[r][s] = x
           /\ \A i \in 1..Sectors[r] : i # s => flash'[r][i] = flash[r][i]
<1>1. \A q \in Regions : flash[q] \in [1..Sectors[q] -> Contents]
    BY DEF TypeOK, Contents
<1>2. flash' = [q \in Regions |-> IF q = r THEN [flash[r] EXCEPT ![s] = x] ELSE flash[q]]
    BY DEF ShapeInv, Write
<1> QED BY <1>1, <1>2

\* What a call of the flash driver may leave behind.
LEMMA DriverEffect ==
    ASSUME TypeOK, ShapeInv, NEW r \in Regions, NEW s \in 1..Sectors[r], NEW sector \in Contents,
           NEW to, NEW next, NEW failed, Driver(r, s, sector, to, next, failed)
    PROVE  /\ UNCHANGED <<setup, fuse>>
           /\ hits' \in [cuts : Nat, errors : Nat, flashes : Nat]
           /\ \E x \in Contents :
                 /\ Write(r, s, x)
                 /\ \/ x = sector /\ pc' = to /\ at' = next
                    \/ x \in {flash[r][s], Lost, sector} /\ pc' = failed /\ at' = Start
<1>1. flash[r][s] \in Contents /\ Lost \in Contents
  <2>1. flash[r] \in [1..Sectors[r] -> Contents]
    BY DEF TypeOK, Contents
  <2>2. Lost \in Contents
    BY DEF Contents, Lost
  <2> QED BY <2>1, <2>2
<1>2. hits' \in [cuts : Nat, errors : Nat, flashes : Nat]
    BY DEF Driver, ShapeInv
<1>3. CASE Write(r, s, sector) /\ pc' = to /\ at' = next
    BY <1>2, <1>3 DEF Driver
<1>4. CASE \E left \in {flash[r][s], Lost, sector} : Write(r, s, left) /\ pc' = failed /\ at' = Start
    BY <1>1, <1>2, <1>4 DEF Driver
<1> QED BY <1>3, <1>4 DEF Driver, Goto

\* The digest is written while nothing depends on it.
LEMMA DigestStep ==
    ASSUME IInv, pc \in {"sb_erase", "sb_write"}, NEW x \in Contents, Write("iv", 1, x),
           x.times <= 1, UNCHANGED <<setup, fuse>>,
           hits' \in [cuts : Nat, errors : Nat, flashes : Nat],
           pc' \in {"sb_write", "sb_done", "fe_check"}, at' = Start,
           pc' = "sb_done" => x = [ok |-> TRUE, times |-> Mode]
    PROVE  IInv'
<1>0. /\ flash' = [q \in Regions |-> flash'[q]]
      /\ \A q \in Regions : flash'[q] \in [1..Sectors[q] -> Contents]
      /\ \A q \in Regions \ {"iv"} : flash'[q] = flash[q]
      /\ flash'["iv"][1] = x
  <2>1. "iv" \in Regions /\ 1 \in 1..Sectors["iv"]
    BY FirstBootAssumption DEF Regions
  <2> QED BY <2>1, WriteSector DEF IInv
<1>1. TypeOK'
    BY <1>0, OrderFacts DEF IInv, TypeOK, Contents, Start
<1>2. ShapeInv'
    BY <1>0 DEF IInv, ShapeInv, Start, Lost, Contents
<1>3. StageInv' /\ KeysProtected'
    BY <1>0 DEF IInv, StageInv, KeysProtected, SbPcs, KeyPcs, PassPcs, Start, Reads, Mode,
                esp_flash_encryption_enabled
<1>4. \A r \in Regions \ {"iv"} :
         /\ esp_image_basic_verify(r)' <=> esp_image_basic_verify(r)
         /\ AllPlain(r)' <=> AllPlain(r)
         /\ AllOnce(r)' <=> AllOnce(r)
    BY <1>0 DEF esp_image_basic_verify, Reads, Mode, esp_flash_encryption_enabled, AllPlain, AllOnce,
                Restored
<1>5. /\ \A r : Needs(r)' <=> Needs(r)
      /\ ~Needs("iv")
      /\ "boot" \in Regions \ {"iv"}
      /\ esp_flash_encryption_enabled' <=> esp_flash_encryption_enabled
    BY FirstBootAssumption DEF IInv, StageInv, SbPcs, Needs, Regions, esp_flash_encryption_enabled
<1>6. BootInv' /\ Fresh' /\ Done'
    BY <1>4, <1>5 DEF IInv, BootInv, Fresh, Done, PassPcs
<1>7. PassInv'
    BY DEF PassInv, PassPcs
<1>8. OnceInv'
  <2>1. \A s \in Restored("iv") : flash'["iv"][s] = x
    BY <1>0, RestoredSectors, FirstBootAssumption DEF Regions
  <2>2. ~IsSlot("iv")
    BY FirstBootAssumption DEF IsSlot
  <2>3. \A r : Restored(r)' = Restored(r)
    BY DEF Restored
  <2>4. EncryptedOnce'
    BY <1>0, <2>1, <2>3 DEF IInv, OnceInv, EncryptedOnce
  <2>5. SlotInv'
    BY <1>0, <2>2, <2>3 DEF IInv, OnceInv, SlotInv, IsSlot
  <2> QED BY <2>4, <2>5 DEF OnceInv
<1> QED BY <1>1, <1>2, <1>3, <1>6, <1>7, <1>8 DEF IInv

LEMMA SbEraseStep ==
    ASSUME IInv, SbErase
    PROVE  IInv'
<1>1. "iv" \in Regions /\ 1 \in 1..Sectors["iv"] /\ Lost \in Contents
    BY FirstBootAssumption DEF Regions, Lost, Contents
<1>2. PICK x \in Contents :
         /\ Write("iv", 1, x)
         /\ \/ x = Lost /\ pc' = "sb_write" /\ at' = Start
            \/ x \in {flash["iv"][1], Lost} /\ pc' = "fe_check" /\ at' = Start
    BY <1>1, DriverEffect DEF IInv, SbErase
<1>3. UNCHANGED <<setup, fuse>> /\ hits' \in [cuts : Nat, errors : Nat, flashes : Nat]
    BY <1>1, DriverEffect DEF IInv, SbErase
<1>4. x.times <= 1
  <2>1. flash["iv"][1].times <= 1
    BY <1>1, RestoredSectors DEF IInv, OnceInv, EncryptedOnce
  <2> QED BY <1>1, <1>2, <2>1 DEF Lost
<1> QED BY <1>2, <1>3, <1>4, DigestStep DEF SbErase

LEMMA SbWriteStep ==
    ASSUME IInv, SbWrite
    PROVE  IInv'
<1> DEFINE digest == [ok |-> TRUE, times |-> Mode]
<1>1. "iv" \in Regions /\ 1 \in 1..Sectors["iv"] /\ digest \in Contents /\ digest.times <= 1
    BY FirstBootAssumption DEF Regions, Mode, Contents
<1>2. PICK x \in Contents :
         /\ Write("iv", 1, x)
         /\ \/ x = digest /\ pc' = "sb_done" /\ at' = Start
            \/ x \in {flash["iv"][1], Lost, digest} /\ pc' = "fe_check" /\ at' = Start
  <2> HIDE DEF digest
  <2>1. Driver("iv", 1, digest, "sb_done", Start, "fe_check")
    BY DEF SbWrite, digest
  <2> QED BY <1>1, <2>1, DriverEffect DEF IInv
<1>3. UNCHANGED <<setup, fuse>> /\ hits' \in [cuts : Nat, errors : Nat, flashes : Nat]
    BY <1>1, DriverEffect DEF IInv, SbWrite
<1>4. x.times <= 1
  <2>1. flash["iv"][1].times <= 1
    BY <1>1, RestoredSectors DEF IInv, OnceInv, EncryptedOnce
  <2> QED BY <1>1, <1>2, <2>1 DEF Lost
<1> QED BY <1>2, <1>3, <1>4, DigestStep DEF SbWrite

-----------------------------------------------------------------------------
(* Steps that burn ABS_DONE_0 and FLASH_CRYPT_CNT.                         *)

LEMMA PlainOrOnce == Plain # Once
<1>1. Plain.times = 0 /\ Once.times = 1
    BY DEF Plain, Once
<1> QED BY <1>1

\* What reads right has one content, by the mode of reading.
LEMMA OneContent ==
    ASSUME NEW r, NEW s, Reads(r, s)
    PROVE  /\ ~esp_flash_encryption_enabled => flash[r][s] = Plain
           /\ esp_flash_encryption_enabled => flash[r][s] = Once
<1>1. CASE esp_flash_encryption_enabled
    BY <1>1 DEF Reads, Mode, Once
<1>2. CASE ~esp_flash_encryption_enabled
    BY <1>2 DEF Reads, Mode, Plain
<1> QED BY <1>1, <1>2

\* An encrypted bootloader is not plaintext.
LEMMA BootEncrypted == AllOnce("boot") => ~AllPlain("boot")
<1>1. 1 \in Restored("boot")
    BY RestoredSectors DEF Regions
<1> QED BY <1>1, PlainOrOnce DEF AllPlain, AllOnce

LEMMA BootReadable ==
    ASSUME esp_image_basic_verify("boot")
    PROVE  /\ ~esp_flash_encryption_enabled => AllPlain("boot")
           /\ esp_flash_encryption_enabled => AllOnce("boot") /\ ~AllPlain("boot")
<1>1. Restored("boot") = 1..Image["boot"]
    BY RestoredSectors, FirstBootAssumption DEF Regions
<1> QED BY <1>1, OneContent, BootEncrypted DEF esp_image_basic_verify, AllPlain, AllOnce

LEMMA SbDoneStep ==
    ASSUME IInv, SbDone
    PROVE  IInv'
<1> USE DEF SbDone, Goto, Keep, Burn, IInv
<1>1. TypeOK' /\ ShapeInv'
    BY DEF TypeOK, ShapeInv
<1>2. /\ flash' = flash /\ fuse'.cnt = fuse.cnt
      /\ fuse'.key1 = fuse.key1 /\ fuse'.key2 = fuse.key2
      /\ fuse'.config = fuse.config /\ fuse'.dl = fuse.dl
      /\ fuse'.abs_done => fuse.key2 = "locked"
    BY DEF TypeOK, StageInv, SbPcs
<1>3. /\ esp_flash_encryption_enabled' <=> esp_flash_encryption_enabled
      /\ \A r : esp_image_basic_verify(r)' <=> esp_image_basic_verify(r)
      /\ \A r : AllPlain(r)' <=> AllPlain(r)
      /\ \A r : AllOnce(r)' <=> AllOnce(r)
      /\ \A r : Needs(r)' => Needs(r) \/ r = "iv"
    BY <1>2 DEF esp_flash_encryption_enabled, esp_image_basic_verify, Reads, Mode, AllPlain, AllOnce,
                Needs, Restored
<1>4. StageInv' /\ KeysProtected'
    BY <1>2, <1>3 DEF StageInv, KeysProtected, SbPcs, KeyPcs, PassPcs
<1>5. BootInv' /\ PassInv'
    BY <1>3 DEF BootInv, PassInv, PassPcs
<1>6. /\ ~esp_flash_encryption_enabled => AllPlain("iv")
      /\ esp_flash_encryption_enabled => AllOnce("iv")
  <2>1. Reads("iv", 1)
    BY DEF StageInv
  <2>2. Restored("iv") \subseteq {1}
    BY RestoredSectors, FirstBootAssumption DEF Regions
  <2> QED BY <2>1, <2>2, OneContent DEF AllPlain, AllOnce
<1>7. esp_image_basic_verify("boot")
    BY DEF BootInv, PassPcs
<1>8. Fresh'
    BY <1>3, <1>6, <1>7, BootReadable DEF Fresh
<1>9. Done'
    BY <1>3, <1>6, <1>7, BootReadable DEF Done
<1>10. OnceInv'
    BY <1>2 DEF OnceInv, EncryptedOnce, SlotInv, Restored
<1> QED BY <1>1, <1>4, <1>5, <1>8, <1>9, <1>10

\* The bits of FLASH_CRYPT_CNT are used in turn.
LEMMA NextBit ==
    ASSUME TypeOK, fuse' = [fuse EXCEPT !["cnt"] = fuse.cnt + 1]
    PROVE  /\ esp_flash_encryption_enabled' <=> ~esp_flash_encryption_enabled
           /\ esp_flash_encryption_enabled => fuse.cnt < CntWidth
           /\ \A f \in {"key1", "key2", "config", "dl", "wr_dis", "abs_done"} : fuse'[f] = fuse[f]
           /\ fuse'.cnt = fuse.cnt + 1
           /\ fuse.cnt < CntWidth =>
                 fuse' \in [key1 : Keys, key2 : Keys, config : BOOLEAN, dl : BOOLEAN,
                            cnt : 0..CntWidth, wr_dis : BOOLEAN, abs_done : BOOLEAN]
<1>1. fuse.cnt \in Nat /\ fuse.cnt <= CntWidth /\ CntWidth \in Nat /\ CntWidth % 2 = 0
    BY FirstBootAssumption DEF TypeOK
<1>2. fuse'.cnt = fuse.cnt + 1
    BY DEF TypeOK
<1>3. esp_flash_encryption_enabled' <=> ~esp_flash_encryption_enabled
    BY <1>1, <1>2 DEF esp_flash_encryption_enabled
<1>4. esp_flash_encryption_enabled => fuse.cnt < CntWidth
    BY <1>1 DEF esp_flash_encryption_enabled
<1>5. \A f \in {"key1", "key2", "config", "dl", "wr_dis", "abs_done"} : fuse'[f] = fuse[f]
    BY DEF TypeOK
<1>6. fuse.cnt < CntWidth =>
         fuse' \in [key1 : Keys, key2 : Keys, config : BOOLEAN, dl : BOOLEAN,
                    cnt : 0..CntWidth, wr_dis : BOOLEAN, abs_done : BOOLEAN]
    BY <1>1 DEF TypeOK
<1> QED BY <1>2, <1>3, <1>4, <1>5, <1>6

LEMMA FeCntStep ==
    ASSUME IInv, FeCnt
    PROVE  IInv'
<1> USE DEF FeCnt, Goto, Burn, IInv
<1>1. /\ ~esp_flash_encryption_enabled /\ esp_flash_encryption_enabled'
      /\ fuse.cnt < CntWidth /\ fuse.key1 = "locked" /\ fuse.config /\ fuse.dl
    BY NextBit DEF StageInv, PassPcs
<1>2. TypeOK' /\ ShapeInv'
    BY <1>1, NextBit, OrderFacts DEF TypeOK, ShapeInv, Start, Lost, Contents
<1>3. StageInv' /\ KeysProtected'
    BY <1>1, NextBit DEF StageInv, KeysProtected, SbPcs, KeyPcs, PassPcs, Start
<1>4. BootInv' /\ PassInv'
    BY DEF BootInv, PassInv, PassPcs
<1>5. ASSUME NEW r \in Regions, Needs(r)' PROVE AllOnce(r)'
  <2>1. PICK j \in 1..Len(Order) : Order[j] = r
    BY OrderRegions
  <2>2. Needs(r) /\ j < at.reg
    BY <1>5, NextBit, OrderFacts DEF Needs, TypeOK
  <2> QED BY <2>1, <2>2 DEF PassInv, PassPcs, AllOnce, Restored
<1>6. Fresh' /\ Done'
  <2>1. AllOnce("boot")'
    BY <1>5 DEF Regions, Needs
  <2>2. ~AllPlain("boot")'
    BY <2>1, BootEncrypted, PTL
  <2> QED BY <1>5, <2>2 DEF Fresh, Done
<1>7. OnceInv'
    BY DEF OnceInv, EncryptedOnce, SlotInv, Restored
<1> QED BY <1>2, <1>3, <1>4, <1>6, <1>7

LEMMA BumpCntStep ==
    ASSUME IInv, BumpCnt
    PROVE  IInv'
<1> USE DEF BumpCnt, Goto, Keep, Burn, IInv
<1>1. /\ ~esp_flash_encryption_enabled'
      /\ fuse.cnt < CntWidth /\ fuse.cnt > 0
  <2>1. fuse.cnt \in Nat /\ fuse.cnt % 2 = 1
    BY FirstBootAssumption DEF TypeOK, esp_flash_encryption_enabled
  <2> QED BY <2>1, NextBit
<1>2. TypeOK' /\ ShapeInv'
    BY <1>1, NextBit DEF TypeOK, ShapeInv
<1>3. StageInv' /\ KeysProtected'
    BY <1>1, NextBit DEF StageInv, KeysProtected, SbPcs, KeyPcs, PassPcs
<1>4. BootInv' /\ PassInv'
    BY DEF BootInv, PassInv, PassPcs
<1>5. Fresh' /\ Done'
  <2>1. \A r : Needs(r)' <=> Needs(r)
    BY NextBit DEF Needs
  <2> QED BY <1>1, <2>1 DEF Fresh, Done, AllPlain, Restored
<1>6. OnceInv'
    BY DEF OnceInv, EncryptedOnce, SlotInv, Restored
<1> QED BY <1>2, <1>3, <1>4, <1>5, <1>6

-----------------------------------------------------------------------------
(* The pass over the flash.                                                *)

\* What must be encrypted is encrypted, and of the rest only OTA slots.
LEMMA WhatIsEncrypted ==
    ASSUME IInv, NEW r \in Regions, ~esp_flash_encryption_enabled
    PROVE  /\ Needs(r) /\ AllPlain(r) => ShouldEncrypt(r)
           /\ ShouldEncrypt(r) => Needs(r) \/ IsSlot(r)
           /\ ShouldEncrypt(r) /\ IsSlot(r) => flash[r][1] = Plain
<1> USE FirstBootAssumption
<1>1. AllPlain(r) /\ (r \in {"boot", "iv", "table"} \/ Kind[r] \in {"app", "slot"}) =>
         esp_image_basic_verify(r)
    BY RestoredSectors DEF AllPlain, esp_image_basic_verify, Reads, Mode, Plain
<1>2. esp_image_basic_verify(r) => flash[r][1] = Plain
  <2>1. 1 \in 1..Image[r]
    OBVIOUS
  <2> QED BY <2>1, OneContent DEF esp_image_basic_verify
<1>3. CASE r \in {"boot", "iv", "table"}
    BY <1>1, <1>3 DEF ShouldEncrypt, Needs, IsSlot
<1>4. CASE r \in Names
  <2>1. r \notin {"boot", "iv", "table"}
    BY <1>4
  <2>2. ShouldEncrypt(r) <=> IF Kind[r] \in {"app", "slot"} THEN esp_image_basic_verify(r)
                             ELSE Kind[r] \in {"ota", "flag"}
    BY <1>4, <2>1 DEF ShouldEncrypt
  <2>3. Needs(r) <=> Kind[r] \in {"app", "ota", "flag"} 
    BY <1>4, <2>1 DEF Needs
  <2>4. IsSlot(r) <=> Kind[r] = "slot"
    BY <1>4 DEF IsSlot
  <2> QED BY <1>1, <1>2, <1>4, <2>2, <2>3, <2>4
<1> QED BY <1>3, <1>4 DEF Regions

LEMMA FeRegionStep ==
    ASSUME IInv, FeRegion
    PROVE  IInv'
<1> USE DEF FeRegion, Goto, IInv
<1>1. Quiet
    BY DEF Quiet
<1>2. Region \in Regions /\ at.reg \in 1..Len(Order) /\ at.sec = 1 /\ ~esp_flash_encryption_enabled
    BY OrderRegions, OrderFacts DEF Region, TypeOK, StageInv, PassPcs
<1>3. \/ pc' = "fe_erase" /\ at' = at /\ hits' = hits /\ ShouldEncrypt(Region)
      \/ /\ pc' = "fe_region" /\ hits' = hits /\ ~ShouldEncrypt(Region)
         /\ at' = NextRegion(IF Region = "boot" THEN 2 ELSE 1)
      \/ /\ pc' = "halt" /\ at' = Start
         /\ hits' = hits \/ hits' = [hits EXCEPT !.errors = @ + 1]
    OBVIOUS
<1>4. ~Needs(Region) \/ ShouldEncrypt(Region)
    BY <1>2, WhatIsEncrypted DEF PassInv, PassPcs, Region
<1>5. pc' = "fe_region" => at' = [reg |-> at.reg + 1, sec |-> 1, buf |-> Lost] /\ ~Needs(Region)
    BY <1>3, <1>4 DEF NextRegion, Needs
<1>6. ShapeInv'
  <2>1. at' \in [reg : Nat, sec : Nat, buf : Contents]
    <3>1. Start \in [reg : Nat, sec : Nat, buf : Contents]
      BY DEF Start, Lost, Contents
    <3>2. Lost \in Contents /\ at.reg + 1 \in Nat
      BY <1>2 DEF Lost, Contents
    <3> QED BY <1>3, <1>5, <3>1, <3>2 DEF ShapeInv
  <2>2. hits' \in [cuts : Nat, errors : Nat, flashes : Nat]
    BY <1>3 DEF ShapeInv
  <2> QED BY <2>1, <2>2 DEF ShapeInv
<1>7. TypeOK'
  <2>1. Sectors[Region] >= 1
    BY <1>2, FirstBootAssumption
  <2> QED BY <1>2, <1>3, <1>5, <2>1, OrderFacts DEF TypeOK, Start, Region
<1>8. StageInv' /\ KeysProtected'
    BY <1>1, <1>2, <1>3, <1>5, QuietReads
    DEF StageInv, KeysProtected, SbPcs, KeyPcs, PassPcs, Start
<1>9. BootInv'
    BY <1>3 DEF BootInv, PassPcs
<1>10. Fresh' /\ Done'
    BY <1>1, QuietReads DEF Fresh, Done
<1>11. PassInv'
  <2>1. CASE pc' = "fe_erase"
    <3>1. at' = at /\ Region' = Region
      BY <1>3, <2>1 DEF Region
    <3>2. Needs(Region) => AllPlain(Region)
      BY <1>2 DEF PassInv, PassPcs, Region
    <3>3. Restored(Region)' = Restored(Region) /\ (Needs(Region)' <=> Needs(Region))
      BY <1>1, <3>1 DEF Quiet, Restored, Needs
    <3>4. \A j \in 1..Len(Order) : Needs(Order[j])' =>
             /\ j < at'.reg => AllOnce(Order[j])'
             /\ j > at'.reg => AllPlain(Order[j])'
      BY <1>1, <3>1, QuietReads DEF PassInv, PassPcs
    <3>5. Needs(Region)' => \A s \in Restored(Region)' : flash'[Region][s] = Plain /\ ~(s < at'.sec)
      <4>1. \A s \in Restored(Region) : ~(s < at.sec)
        BY <1>2, RestoredSectors
      <4> QED BY <1>1, <3>1, <3>2, <3>3, <4>1 DEF Quiet, AllPlain
    <3> QED BY <2>1, <3>1, <3>4, <3>5 DEF PassInv, PassPcs
  <2>2. CASE pc' = "fe_region"
    <3>1. at'.reg = at.reg + 1
      BY <1>5, <2>2
    <3>2. ASSUME NEW j \in 1..Len(Order), Needs(Order[j])'
          PROVE  /\ j < at'.reg => AllOnce(Order[j])'
                 /\ j >= at'.reg => AllPlain(Order[j])'
      <4>1. Needs(Order[j]) /\ j # at.reg
        BY <1>1, <1>5, <2>2, <3>2, QuietReads DEF Region
      <4> QED BY <1>1, <1>2, <3>1, <4>1, QuietReads DEF PassInv, PassPcs
    <3> QED BY <1>2, <2>2, <3>1, <3>2 DEF PassInv
  <2>3. CASE pc' = "halt"
    BY <2>3 DEF PassInv, PassPcs
  <2> QED BY <1>3, <2>1, <2>2, <2>3
<1>12. OnceInv'
  <2>1. /\ EncryptedOnce'
        /\ \A r \in Regions : IsSlot(r) /\ flash'[r][1] = Plain =>
              \A s \in Restored(r)' : flash'[r][s].times = 0
    BY <1>1, QuietReads DEF OnceInv, EncryptedOnce, SlotInv
  <2>2. CASE pc' = "fe_erase"
    <3>1. at' = at /\ Region' = Region /\ ShouldEncrypt(Region)
      BY <1>3, <2>2 DEF Region
    <3>2. Needs(Region)' \/ IsSlot(Region)
      <4>1. Needs(Region)' <=> Needs(Region)
        BY <1>1, <3>1 DEF Quiet, Needs
      <4> QED BY <1>2, <3>1, <4>1, WhatIsEncrypted
    <3>3. IsSlot(Region) => \A s \in Restored(Region)' : flash[Region][s].times = 0
      <4>1. Restored(Region)' = Restored(Region)
        BY <1>1, <3>1 DEF Quiet, Restored
      <4> QED BY <1>2, <3>1, <4>1, WhatIsEncrypted DEF OnceInv, SlotInv
    <3> QED BY <1>2, <2>1, <2>2, <3>1, <3>2, <3>3 DEF OnceInv, SlotInv, IsSlot
  <2>3. CASE pc' # "fe_erase"
    BY <1>3, <2>1, <2>3 DEF OnceInv, SlotInv, IsSlot
  <2> QED BY <2>2, <2>3
<1> QED BY <1>6, <1>7, <1>8, <1>9, <1>10, <1>11, <1>12

\* A sector of the region that is being encrypted gets content x.
SectorWritten(x) ==
    /\ flash' = [q \in Regions |-> flash'[q]]
    /\ \A q \in Regions : flash'[q] \in [1..Sectors[q] -> Contents]
    /\ \A q \in Regions \ {Region} : flash'[q] = flash[q]
    /\ flash'[Region][at.sec] = x
    /\ \A i \in 1..Sectors[Region] : i # at.sec => flash'[Region][i] = flash[Region][i]
    /\ UNCHANGED <<setup, fuse>>
    /\ hits' \in [cuts : Nat, errors : Nat, flashes : Nat]

\* Where a pass is when it works on a sector.
LEMMA InPass ==
    ASSUME IInv, pc \in {"fe_erase", "fe_write"}
    PROVE  /\ at.reg \in 1..Len(Order) /\ Region = Order[at.reg] /\ Region \in Regions
           /\ at.sec \in 1..Sectors[Region] /\ Sectors[Region] \in Nat
           /\ flash[Region][at.sec] \in Contents
           /\ at.buf \in Contents
           /\ ~esp_flash_encryption_enabled
<1>1. at.reg \in 1..Len(Order) /\ Region = Order[at.reg] /\ Region \in Regions
    BY OrderRegions, OrderFacts DEF IInv, TypeOK, Region
<1>2. at.sec \in 1..Sectors[Region] /\ Sectors[Region] \in Nat
    BY <1>1, FirstBootAssumption DEF IInv, TypeOK
<1>3. flash[Region] \in [1..Sectors[Region] -> Contents]
    BY <1>1 DEF IInv, TypeOK, Contents
<1>4. at.buf \in Contents /\ ~esp_flash_encryption_enabled
    BY DEF IInv, ShapeInv, StageInv, PassPcs
<1> QED BY <1>1, <1>2, <1>3, <1>4

\* Whatever is written there, the other regions stay in order: a plaintext
\* bootloader still means that nothing has been encrypted.
LEMMA PassFrame ==
    ASSUME IInv, pc \in {"fe_erase", "fe_write"}, NEW x, SectorWritten(x)
    PROVE  /\ \A r : Needs(r)' <=> Needs(r)
           /\ esp_flash_encryption_enabled' <=> esp_flash_encryption_enabled
           /\ \A j \in 1..Len(Order) : Needs(Order[j])' =>
                 /\ j < at.reg => AllOnce(Order[j])'
                 /\ j > at.reg => AllPlain(Order[j])'
           /\ Fresh' /\ Done'
<1>0. at.reg \in 1..Len(Order) /\ Region = Order[at.reg] /\ Region \in Regions
    BY InPass
<1>1. /\ \A r : Needs(r)' <=> Needs(r)
      /\ esp_flash_encryption_enabled' <=> esp_flash_encryption_enabled
    BY DEF Needs, esp_flash_encryption_enabled, SectorWritten
<1>2. \A q \in Regions \ {Region} : (AllPlain(q)' <=> AllPlain(q)) /\ (AllOnce(q)' <=> AllOnce(q))
    BY DEF SectorWritten, AllPlain, AllOnce, Restored
<1>3. \A j \in 1..Len(Order) : j # at.reg => Order[j] \in Regions \ {Region}
    BY <1>0, OrderRegions
<1>4. ASSUME NEW j \in 1..Len(Order), Needs(Order[j])'
      PROVE  /\ j < at.reg => AllOnce(Order[j])'
             /\ j > at.reg => AllPlain(Order[j])'
    BY <1>0, <1>1, <1>2, <1>3, <1>4 DEF IInv, PassInv, PassPcs
<1>5. Done'
    BY <1>1, InPass DEF Done
<1>6. Fresh'
  <2>1. CASE at.reg = 1
    <3>1. ASSUME NEW r \in Regions, Needs(r)', r # "boot" PROVE AllPlain(r)'
      <4>1. PICK j \in 1..Len(Order) : Order[j] = r
        BY OrderRegions
      <4>2. j > 1
        BY <3>1, <4>1, OrderFacts
      <4> QED BY <1>4, <2>1, <3>1, <4>1, <4>2
    <3> QED BY <3>1 DEF Fresh
  <2>2. CASE at.reg > 1
    <3>1. 1 \in 1..Len(Order) /\ Order[1] = "boot" /\ Needs("boot")'
      BY OrderFacts DEF Needs
    <3>2. AllOnce("boot")'
      BY <1>4, <2>2, <3>1
    <3>3. ~AllPlain("boot")'
      BY <3>2, BootEncrypted, PTL
    <3> QED BY <3>3 DEF Fresh
  <2> QED BY <1>0, <2>1, <2>2
<1> QED BY <1>1, <1>4, <1>5, <1>6

\* What is known of the sectors of the region that is being encrypted.
LEMMA SectorFacts ==
    ASSUME IInv, pc \in {"fe_erase", "fe_write"}
    PROVE  /\ Needs(Region) =>
                /\ \A s \in Restored(Region) : /\ s < at.sec => flash[Region][s] = Once
                                               /\ s > at.sec => flash[Region][s] = Plain
                /\ at.sec \in Restored(Region) =>
                      /\ pc = "fe_erase" => flash[Region][at.sec] = Plain
                      /\ pc = "fe_write" => flash[Region][at.sec] = Lost /\ at.buf = Plain
           /\ EncryptedOnce
           /\ \A r \in Regions : IsSlot(r) /\ flash[r][1] = Plain =>
                 \A s \in Restored(r) : flash[r][s].times = 0
           /\ Needs(Region) \/ IsSlot(Region)
           /\ IsSlot(Region) =>
                 /\ \A s \in Restored(Region) : s >= at.sec => flash[Region][s].times = 0
                 /\ at.sec > 1 \/ pc = "fe_write" => flash[Region][1] # Plain
                 /\ pc = "fe_write" /\ at.sec \in Restored(Region) => at.buf.times = 0
<1>1. Needs(Region) =>
        /\ \A s \in Restored(Region) : /\ s < at.sec => flash[Region][s] = Once
                                       /\ s > at.sec => flash[Region][s] = Plain
        /\ at.sec \in Restored(Region) =>
              /\ pc = "fe_erase" => flash[Region][at.sec] = Plain
              /\ pc = "fe_write" => flash[Region][at.sec] = Lost /\ at.buf = Plain
    BY InPass DEF IInv, PassInv, PassPcs
<1>2. OnceInv
    BY DEF IInv
<1> QED BY <1>1, <1>2 DEF OnceInv, SlotInv

\* No sector is encrypted twice if this one is not.
LEMMA SectorIsOnce ==
    ASSUME IInv, pc \in {"fe_erase", "fe_write"}, NEW x, SectorWritten(x),
           at.sec \in Restored(Region) => x.times <= 1
    PROVE  EncryptedOnce'
<1>1. \A r : Restored(r)' = Restored(r)
    BY DEF SectorWritten, Restored
<1>2. ASSUME NEW r \in Regions, NEW s \in Restored(r) PROVE flash'[r][s].times <= 1
  <2>1. flash[r][s].times <= 1 /\ s \in 1..Sectors[r]
    BY <1>2, RestoredSectors DEF IInv, OnceInv, EncryptedOnce
  <2>2. CASE r # Region
    BY <2>1, <2>2 DEF SectorWritten
  <2>3. CASE r = Region /\ s # at.sec
    BY <2>1, <2>3 DEF SectorWritten
  <2>4. CASE r = Region /\ s = at.sec
    BY <1>2, <2>4 DEF SectorWritten
  <2> QED BY <2>2, <2>3, <2>4
<1> QED BY <1>1, <1>2 DEF EncryptedOnce

\* The pass ends in an error: the device stands still until it is reset.
LEMMA PassFails ==
    ASSUME IInv, pc \in {"fe_erase", "fe_write"}, NEW x \in Contents, SectorWritten(x),
           pc' = "halt", at' = Start,
           at.sec \in Restored(Region) => x.times <= 1
    PROVE  IInv'
<1>1. TypeOK' /\ ShapeInv'
    BY OrderFacts DEF IInv, TypeOK, ShapeInv, SectorWritten, Contents, Start, Lost
<1>2. StageInv' /\ KeysProtected'
    BY DEF IInv, StageInv, KeysProtected, SectorWritten, SbPcs, KeyPcs, PassPcs, Start
<1>3. BootInv' /\ PassInv'
    BY DEF BootInv, PassInv, PassPcs
<1>4. Fresh' /\ Done'
    BY PassFrame
<1>5. OnceInv'
  <2>0. \A r : Restored(r)' = Restored(r)
    BY DEF SectorWritten, Restored
  <2>1. EncryptedOnce'
    BY <2>0, InPass, SectorIsOnce
  <2>2. ASSUME NEW r \in Regions, IsSlot(r), flash'[r][1] = Plain,
               NEW s \in Restored(r)
        PROVE  flash'[r][s].times = 0
    <3>1. CASE r # Region
      BY <2>2, <3>1 DEF IInv, OnceInv, SlotInv, SectorWritten
    <3>2. CASE r = Region
      <4>1. 1 \in 1..Sectors[Region] /\ at.sec >= 1
        BY InPass
      <4>2. at.sec = 1 /\ x = Plain
        BY <2>2, <3>2, <4>1, InPass DEF IInv, OnceInv, SlotInv, SectorWritten
      <4>4. s \in 1..Sectors[Region] /\ s >= at.sec
        BY <2>2, <3>2, <4>2, InPass, RestoredSectors
      <4>3. flash[Region][s].times = 0 /\ x.times = 0
        BY <2>2, <3>2, <4>2, <4>4, SectorFacts DEF Plain
      <4> QED BY <2>2, <3>2, <4>2, <4>3, <4>4 DEF SectorWritten
    <3> QED BY <3>1, <3>2
  <2> QED BY <2>0, <2>1, <2>2 DEF OnceInv, SlotInv, IsSlot
<1> QED BY <1>1, <1>2, <1>3, <1>4, <1>5 DEF IInv

LEMMA FeEraseStep ==
    ASSUME IInv, FeErase
    PROVE  IInv'
<1> DEFINE next == [at EXCEPT !.buf = flash[Region][at.sec]]
<1>0. /\ pc = "fe_erase"
      /\ at.reg \in 1..Len(Order) /\ Region = Order[at.reg] /\ Region \in Regions
      /\ at.sec \in 1..Sectors[Region] /\ Sectors[Region] \in Nat
      /\ flash[Region][at.sec] \in Contents /\ Lost \in Contents
    BY InPass DEF FeErase, Lost, Contents
<1>1. PICK x \in Contents :
         /\ Write(Region, at.sec, x)
         /\ \/ x = Lost /\ pc' = "fe_write" /\ at' = next
            \/ x \in {flash[Region][at.sec], Lost} /\ pc' = "halt" /\ at' = Start
    BY <1>0, DriverEffect DEF IInv, FeErase
<1>2. SectorWritten(x)
  <2>1. UNCHANGED <<setup, fuse>> /\ hits' \in [cuts : Nat, errors : Nat, flashes : Nat]
    BY <1>0, DriverEffect DEF IInv, FeErase
  <2> QED BY <1>0, <1>1, <2>1, WriteSector DEF IInv, SectorWritten
<1>3. CASE pc' = "halt"
  <2>1. at.sec \in Restored(Region) => x.times <= 1
    BY <1>0, <1>1 DEF IInv, OnceInv, EncryptedOnce, Lost
  <2> QED BY <1>0, <1>1, <1>2, <1>3, <2>1, PassFails
<1>4. CASE pc' = "fe_write" /\ x = Lost /\ at' = next
  <2>0. /\ at'.reg = at.reg /\ at'.sec = at.sec /\ at'.buf = flash[Region][at.sec]
        /\ at' \in [reg : Nat, sec : Nat, buf : Contents]
        /\ Region' = Region /\ Restored(Region)' = Restored(Region)
    <3>1. Region' = Region
      BY <1>0, <1>4 DEF IInv, ShapeInv, Region
    <3>2. Restored(Region)' = Restored(Region)
      BY <1>2, <3>1 DEF Restored, SectorWritten
    <3> QED BY <1>0, <1>4, <3>1, <3>2 DEF IInv, ShapeInv
  <2>1. TypeOK' /\ ShapeInv'
    BY <1>0, <1>2, <1>4, <2>0 DEF IInv, TypeOK, ShapeInv, SectorWritten, Contents
  <2>2. StageInv' /\ KeysProtected'
    BY <1>0, <1>2, <1>4, PassFrame
    DEF IInv, StageInv, KeysProtected, SectorWritten, SbPcs, KeyPcs, PassPcs
  <2>3. BootInv'
    BY <1>4 DEF BootInv, PassPcs
  <2>4. PassInv'
    <3>1. Needs(Region)' => Needs(Region)
      BY <1>2, <2>0 DEF Needs, SectorWritten
    <3>2. Needs(Region) =>
             /\ \A s \in Restored(Region) : /\ s < at.sec => flash'[Region][s] = Once
                                            /\ s > at.sec => flash'[Region][s] = Plain
             /\ at.sec \in Restored(Region) => flash'[Region][at.sec] = Lost /\ at'.buf = Plain
      <4> SUFFICES ASSUME Needs(Region)
                   PROVE  /\ \A s \in Restored(Region) :
                                /\ s < at.sec => flash'[Region][s] = Once
                                /\ s > at.sec => flash'[Region][s] = Plain
                          /\ at.sec \in Restored(Region) =>
                                flash'[Region][at.sec] = Lost /\ at'.buf = Plain
        OBVIOUS
      <4>1. /\ \A s \in Restored(Region) : /\ s < at.sec => flash[Region][s] = Once
                                           /\ s > at.sec => flash[Region][s] = Plain
            /\ at.sec \in Restored(Region) => flash[Region][at.sec] = Plain
        BY <1>0, SectorFacts
      <4>2. /\ flash'[Region][at.sec] = Lost
            /\ \A s \in Restored(Region) : s # at.sec => flash'[Region][s] = flash[Region][s]
        BY <1>0, <1>2, <1>4, RestoredSectors DEF SectorWritten
      <4> QED BY <1>0, <2>0, <4>1, <4>2
    <3> QED BY <1>0, <1>2, <1>4, <2>0, <3>1, <3>2, PassFrame DEF PassInv, PassPcs
  <2>5. Fresh' /\ Done'
    BY <1>0, <1>2, PassFrame
  <2>6. OnceInv'
    <3>0. \A r : Restored(r)' = Restored(r)
      BY <1>2 DEF SectorWritten, Restored
    <3>1. EncryptedOnce'
      BY <1>0, <1>2, <1>4, SectorIsOnce DEF Lost
    <3>2. IsSlot(Region) => flash'[Region][1] # Plain
      <4>1. Lost # Plain
        BY DEF Lost, Plain
      <4>2. 1 \in 1..Sectors[Region]
        BY <1>0
      <4> QED BY <1>0, <1>2, <1>4, <4>1, <4>2, SectorFacts DEF SectorWritten
    <3>3. \A r \in Regions : IsSlot(r) /\ flash'[r][1] = Plain =>
             \A s \in Restored(r)' : flash'[r][s].times = 0
      BY <1>0, <1>2, <3>0, <3>2, SectorFacts DEF SectorWritten
    <3>4. IsSlot(Region) =>
             /\ \A s \in Restored(Region) : s >= at.sec => flash'[Region][s].times = 0
             /\ at.sec \in Restored(Region) => at'.buf.times = 0
      <4> SUFFICES ASSUME IsSlot(Region)
                   PROVE  /\ \A s \in Restored(Region) : s >= at.sec => flash'[Region][s].times = 0
                          /\ at.sec \in Restored(Region) => at'.buf.times = 0
        OBVIOUS
      <4>1. \A s \in Restored(Region) : s >= at.sec => flash[Region][s].times = 0
        BY <1>0, SectorFacts
      <4>2. Lost.times = 0
        BY DEF Lost
      <4>3. ASSUME NEW s \in Restored(Region), s >= at.sec PROVE flash'[Region][s].times = 0
        <5>0. s \in 1..Sectors[Region]
          BY <1>0, RestoredSectors
        <5>1. CASE s = at.sec
          BY <1>2, <1>4, <4>2, <5>1 DEF SectorWritten
        <5>2. CASE s # at.sec
          <6>1. flash'[Region][s] = flash[Region][s]
            BY <1>2, <5>0, <5>2 DEF SectorWritten
          <6> QED BY <4>1, <4>3, <6>1
        <5> QED BY <5>1, <5>2
      <4> QED BY <1>0, <2>0, <4>1, <4>3
    <3>5. Needs(Region)' \/ IsSlot(Region)
      <4>1. Needs(Region)' <=> Needs(Region)
        BY <1>2, <2>0 DEF Needs, SectorWritten
      <4> QED BY <1>0, <4>1, SectorFacts
    <3> QED BY <1>4, <2>0, <3>1, <3>2, <3>3, <3>4, <3>5 DEF OnceInv, SlotInv, IsSlot
  <2> QED BY <2>1, <2>2, <2>3, <2>4, <2>5, <2>6 DEF IInv
<1> QED BY <1>1, <1>3, <1>4

\* Encrypting adds one to the times a sector has been encrypted.
LEMMA EncryptedFacts ==
    ASSUME NEW b \in Contents
    PROVE  /\ Encrypted(b) \in Contents
           /\ Encrypted(Plain) = Once
           /\ b.times = 0 => Encrypted(b).times <= 1
           /\ Encrypted(b) # Plain
<1>0. Encrypted(Plain) = Once
  <2>1. Plain.ok /\ Plain.times = 0 /\ Times(0 + 1) = 1
    BY DEF Plain, Times
  <2>2. Encrypted(Plain) = [Plain EXCEPT !.times = Times(Plain.times + 1)]
    BY <2>1 DEF Encrypted
  <2> QED BY <2>1, <2>2 DEF Plain, Once
<1>1. CASE b.ok
  <2>1. Encrypted(b) = [ok |-> b.ok, times |-> Times(b.times + 1)]
    BY <1>1 DEF Encrypted, Contents
  <2>2. Times(b.times + 1) \in {1, 2} /\ (b.times = 0 => Times(b.times + 1) = 1)
    BY DEF Contents, Times
  <2> QED BY <1>0, <2>1, <2>2 DEF Contents, Plain
<1>2. CASE ~b.ok
  <2>1. Encrypted(b) = Lost
    BY <1>2 DEF Encrypted
  <2> QED BY <1>0, <2>1 DEF Contents, Lost, Plain
<1> QED BY <1>1, <1>2 DEF Contents

LEMMA FeWriteStep ==
    ASSUME IInv, FeWrite
    PROVE  IInv'
<1> DEFINE more == [at EXCEPT !.sec = @ + 1, !.buf = Lost]
           enc == Encrypted(at.buf)
<1>0. /\ pc = "fe_write"
      /\ at.reg \in 1..Len(Order) /\ Region = Order[at.reg] /\ Region \in Regions
      /\ at.sec \in 1..Sectors[Region] /\ Sectors[Region] \in Nat
      /\ flash[Region][at.sec] \in Contents /\ Lost \in Contents /\ at.buf \in Contents
    BY InPass DEF FeWrite, Lost, Contents
<1>e. enc \in Contents /\ enc # Plain /\ Lost # Plain
  <2>1. Lost # Plain
    BY DEF Lost, Plain
  <2> QED BY <1>0, <2>1, EncryptedFacts
<1> HIDE DEF enc, more
<1>1. PICK x \in Contents :
         /\ Write(Region, at.sec, x)
         /\ \/ x = enc /\ at.sec < Sectors[Region] /\ pc' = "fe_erase" /\ at' = more
            \/ x = enc /\ at.sec = Sectors[Region] /\ pc' = "fe_region" /\ at' = NextRegion(1)
            \/ x \in {flash[Region][at.sec], Lost, enc} /\ pc' = "halt" /\ at' = Start
  <2>1. CASE at.sec < Sectors[Region]
    <3>1. Driver(Region, at.sec, enc, "fe_erase", more, "halt")
      BY <2>1 DEF FeWrite, enc, more
    <3> QED BY <1>0, <1>e, <2>1, <3>1, DriverEffect DEF IInv
  <2>2. CASE at.sec = Sectors[Region]
    <3>1. Driver(Region, at.sec, enc, "fe_region", NextRegion(1), "halt")
      BY <1>0, <2>2 DEF FeWrite, enc
    <3> QED BY <1>0, <1>e, <2>2, <3>1, DriverEffect DEF IInv
  <2> QED BY <1>0, <2>1, <2>2
<1>2. SectorWritten(x)
  <2>1. \/ Driver(Region, at.sec, enc, "fe_erase", more, "halt")
        \/ Driver(Region, at.sec, enc, "fe_region", NextRegion(1), "halt")
    BY DEF FeWrite, enc, more
  <2>2. UNCHANGED <<setup, fuse>> /\ hits' \in [cuts : Nat, errors : Nat, flashes : Nat]
    BY <1>0, <1>e, <2>1, DriverEffect DEF IInv
  <2> QED BY <1>0, <1>1, <2>2, WriteSector DEF IInv, SectorWritten
<1>t. /\ at.sec \in Restored(Region) => x.times <= 1
      /\ IsSlot(Region) => flash'[Region][1] # Plain
  <2>1. at.sec \in Restored(Region) => at.buf.times = 0
    BY <1>0, SectorFacts DEF Plain
  <2>2. at.sec \in Restored(Region) => enc.times <= 1
    BY <1>0, <2>1, EncryptedFacts DEF enc
  <2>3. at.sec \in Restored(Region) => x.times <= 1
    BY <1>0, <1>1, <2>2 DEF IInv, OnceInv, EncryptedOnce, Lost
  <2>4. IsSlot(Region) => flash'[Region][1] # Plain
    <3>1. 1 \in 1..Sectors[Region]
      BY <1>0
    <3>2. IsSlot(Region) => flash[Region][1] # Plain
      BY <1>0, SectorFacts
    <3>3. IsSlot(Region) /\ at.sec = 1 => x # Plain
      BY <1>1, <1>e, <3>2
    <3> QED BY <1>0, <1>2, <3>1, <3>2, <3>3 DEF SectorWritten
  <2> QED BY <2>3, <2>4
<1>3. CASE pc' = "halt"
    BY <1>0, <1>1, <1>2, <1>3, <1>t, PassFails
<1>p. x = enc /\ Needs(Region) =>
         \A s \in Restored(Region) : /\ s <= at.sec => flash'[Region][s] = Once
                                     /\ s > at.sec => flash'[Region][s] = Plain
  <2> SUFFICES ASSUME x = enc, Needs(Region)
               PROVE  \A s \in Restored(Region) :
                         /\ s <= at.sec => flash'[Region][s] = Once
                         /\ s > at.sec => flash'[Region][s] = Plain
    OBVIOUS
  <2>1. at.sec \in Restored(Region) => x = Once
    BY <1>0, SectorFacts, EncryptedFacts DEF enc
  <2>2. \A s \in Restored(Region) :
           /\ s < at.sec => flash[Region][s] = Once
           /\ s > at.sec => flash[Region][s] = Plain
    BY <1>0, SectorFacts
  <2>3. /\ at.sec \in Restored(Region) => flash'[Region][at.sec] = Once
        /\ \A s \in Restored(Region) : s # at.sec => flash'[Region][s] = flash[Region][s]
    BY <1>0, <1>2, <2>1, RestoredSectors DEF SectorWritten
  <2>4. \A s \in Restored(Region) : s \in Nat
    BY <1>0, RestoredSectors
  <2> QED BY <1>0, <2>2, <2>3, <2>4
<1>o. /\ EncryptedOnce'
      /\ \A r \in Regions : IsSlot(r) /\ flash'[r][1] = Plain =>
            \A s \in Restored(r)' : flash'[r][s].times = 0
  <2>1. \A r : Restored(r)' = Restored(r)
    BY <1>2 DEF SectorWritten, Restored
  <2>2. EncryptedOnce'
    BY <1>0, <1>2, <1>t, SectorIsOnce
  <2> QED BY <1>0, <1>2, <1>t, <2>1, <2>2, SectorFacts DEF SectorWritten
<1>4. CASE x = enc /\ at.sec < Sectors[Region] /\ pc' = "fe_erase" /\ at' = more
  <2>0. /\ at'.reg = at.reg /\ at'.sec = at.sec + 1
        /\ at' \in [reg : Nat, sec : Nat, buf : Contents]
        /\ Region' = Region /\ Restored(Region)' = Restored(Region)
    <3>1. at.sec + 1 \in Nat
      BY <1>0
    <3>2. Region' = Region
      BY <1>0, <1>4, <3>1 DEF IInv, ShapeInv, Region, more
    <3>3. Restored(Region)' = Restored(Region)
      BY <1>2, <3>2 DEF Restored, SectorWritten
    <3> QED BY <1>0, <1>4, <3>1, <3>2, <3>3 DEF IInv, ShapeInv, more
  <2>1. TypeOK' /\ ShapeInv'
    <3>1. at'.sec \in Nat \ {0} /\ at'.sec <= Sectors[Region]
      BY <1>0, <1>4, <2>0
    <3>2. at'.reg \in 1..Len(Order) /\ at'.reg \in 1..(Len(Order) + 1)
      BY <1>0, <2>0, OrderFacts
    <3> QED BY <1>2, <1>4, <2>0, <3>1, <3>2 DEF IInv, TypeOK, ShapeInv, SectorWritten, Contents
  <2>2. StageInv' /\ KeysProtected'
    BY <1>0, <1>2, <1>4, PassFrame
    DEF IInv, StageInv, KeysProtected, SectorWritten, SbPcs, KeyPcs, PassPcs
  <2>3. BootInv'
    BY <1>4 DEF BootInv, PassPcs
  <2>4. PassInv'
    <3>1. Needs(Region)' => Needs(Region)
      BY <1>2, <2>0 DEF Needs, SectorWritten
    <3>2. Needs(Region)' =>
             \A s \in Restored(Region) : /\ s < at'.sec => flash'[Region][s] = Once
                                         /\ s >= at'.sec => flash'[Region][s] = Plain
      <4>1. \A s \in Restored(Region) : s \in Nat
        BY <1>0, RestoredSectors
      <4> QED BY <1>0, <1>4, <1>p, <2>0, <3>1, <4>1
    <3>3. \A j \in 1..Len(Order) : Needs(Order[j])' =>
             /\ j < at'.reg => AllOnce(Order[j])'
             /\ j > at'.reg => AllPlain(Order[j])'
      BY <1>0, <1>2, <2>0, PassFrame
    <3>4. \A s \in Restored(Region) : s > at'.sec \/ s = at'.sec => s >= at'.sec
      BY <1>0, <2>0, RestoredSectors
    <3> QED BY <1>4, <2>0, <3>2, <3>3, <3>4 DEF PassInv, PassPcs
  <2>5. Fresh' /\ Done'
    BY <1>0, <1>2, PassFrame
  <2>6. OnceInv'
    <3>1. IsSlot(Region) =>
             \A s \in Restored(Region) : s >= at'.sec => flash'[Region][s].times = 0
      <4>1. IsSlot(Region) =>
               \A s \in Restored(Region) : s >= at.sec => flash[Region][s].times = 0
        BY <1>0, SectorFacts
      <4>2. ASSUME NEW s \in Restored(Region), s >= at'.sec
            PROVE  s >= at.sec /\ flash'[Region][s] = flash[Region][s]
        <5>1. s >= at.sec /\ s # at.sec /\ s \in 1..Sectors[Region]
          BY <1>0, <2>0, <4>2, RestoredSectors
        <5> QED BY <1>2, <5>1 DEF SectorWritten
      <4> QED BY <4>1, <4>2
    <3>2. Needs(Region)' \/ IsSlot(Region)
      <4>1. Needs(Region)' <=> Needs(Region)
        BY <1>2, <2>0 DEF Needs, SectorWritten
      <4> QED BY <1>0, <4>1, SectorFacts
    <3> QED BY <1>4, <1>t, <1>o, <2>0, <3>1, <3>2 DEF OnceInv, SlotInv, IsSlot
  <2> QED BY <2>1, <2>2, <2>3, <2>4, <2>5, <2>6 DEF IInv
<1>5. CASE x = enc /\ at.sec = Sectors[Region] /\ pc' = "fe_region" /\ at' = NextRegion(1)
  <2>0. /\ at'.reg = at.reg + 1 /\ at'.sec = 1
        /\ at' \in [reg : Nat, sec : Nat, buf : Contents]
    BY <1>0, <1>5 DEF NextRegion
  <2>1. TypeOK' /\ ShapeInv'
    <3>1. at'.reg \in 1..(Len(Order) + 1) /\ at'.sec \in Nat \ {0}
      BY <1>0, <2>0, OrderFacts
    <3> QED BY <1>2, <1>5, <2>0, <3>1 DEF IInv, TypeOK, ShapeInv, SectorWritten, Contents
  <2>2. StageInv' /\ KeysProtected'
    BY <1>0, <1>2, <1>5, <2>0, PassFrame
    DEF IInv, StageInv, KeysProtected, SectorWritten, SbPcs, KeyPcs, PassPcs
  <2>3. BootInv'
    BY <1>5 DEF BootInv, PassPcs
  <2>4. PassInv'
    <3>1. ASSUME NEW r \in Regions, r = Region, Needs(r)' PROVE AllOnce(r)'
      <4>1. Needs(Region)
        BY <1>0, <1>2, <3>1, PassFrame
      <4>2. \A s \in Restored(Region) : flash'[Region][s] = Once
        BY <1>0, <1>5, <1>p, <4>1, RestoredSectors
      <4>3. Restored(r)' = Restored(r)
        BY <1>2 DEF SectorWritten, Restored
      <4> QED BY <3>1, <4>2, <4>3 DEF AllOnce
    <3>2. ASSUME NEW j \in 1..Len(Order), Needs(Order[j])'
          PROVE  /\ j < at'.reg => AllOnce(Order[j])'
                 /\ j >= at'.reg => AllPlain(Order[j])'
      <4>1. CASE j = at.reg
        <5>1. Order[j] \in Regions /\ Order[j] = Region
          BY <1>0, <4>1
        <5>2. AllOnce(Order[j])'
          BY <3>1, <3>2, <5>1
        <5> QED BY <1>0, <2>0, <4>1, <5>2
      <4>2. CASE j # at.reg
        BY <1>0, <1>2, <2>0, <3>2, <4>2, PassFrame
      <4> QED BY <4>1, <4>2
    <3> QED BY <1>5, <3>2, <2>0 DEF PassInv
  <2>5. Fresh' /\ Done'
    BY <1>0, <1>2, PassFrame
  <2>6. OnceInv'
    BY <1>5, <1>o DEF OnceInv, SlotInv, IsSlot
  <2> QED BY <2>1, <2>2, <2>3, <2>4, <2>5, <2>6 DEF IInv
<1> QED BY <1>1, <1>3, <1>4, <1>5

-----------------------------------------------------------------------------
(* The host and the running app.                                           *)

\* What the host leaves in a sector that it makes plaintext again.
LEMMA HostWrites ==
    ASSUME NEW images \in Images, NEW r \in Regions, NEW s \in Restored(r),
           NEW new, new = IF Writes(r, images) /\ s <= Image[r] THEN Plain
                          ELSE IF setup.erase THEN Blank(r) ELSE flash[r][s]
    PROVE  /\ Needs(r) => new = Plain
           /\ setup.erase \/ Writes(r, images) => new.times = 0
<1>1. Plain.times = 0 /\ Lost.times = 0 /\ Blank(r).times = 0
    BY DEF Plain, Lost, Blank
<1>2. ~setup.erase => s <= Image[r]
  <2>1. Image[r] \in Nat
    BY FirstBootAssumption
  <2>2. ~setup.erase => s \in 1..Image[r]
    BY DEF Restored
  <2> QED BY <2>1, <2>2
<1>3. Needs(r) /\ r # "iv" => Blank(r) = Plain
    BY FirstBootAssumption DEF Needs, Blank
<1>4. Needs(r) => Writes(r, images) \/ setup.erase
    BY FirstBootAssumption DEF Needs, Writes, Restored
<1>5. r = "iv" /\ Needs(r) => Writes(r, images) /\ s <= Image[r]
  <2>1. r = "iv" => s = 1 /\ Image[r] \in Nat \ {0}
    BY RestoredSectors, FirstBootAssumption
  <2>2. r = "iv" /\ Needs(r) => Writes(r, images)
    BY FirstBootAssumption DEF Needs, Writes
  <2> QED BY <2>1, <2>2
<1>6. Needs(r) => new = Plain
    BY <1>2, <1>3, <1>4, <1>5
<1>7. setup.erase \/ Writes(r, images) => new.times = 0
    BY <1>1, <1>2
<1> QED BY <1>6, <1>7

\* After the host has flashed it, the device is as it was when it was new.
LEMMA SerialFlashStep ==
    ASSUME IInv, SerialFlash, pc \in {"halt", "app"},
           hits' \in [cuts : Nat, errors : Nat, flashes : Nat]
    PROVE  IInv'
<1>1. PICK images \in Images : flash' =
         [r \in Regions |-> [s \in 1..Sectors[r] |->
            IF Writes(r, images) /\ s <= Image[r] THEN Plain
            ELSE IF setup.erase THEN Blank(r) ELSE flash[r][s]]]
    BY DEF SerialFlash
<1>2. pc' = "off" /\ UNCHANGED <<setup, fuse, at>>
    BY DEF SerialFlash, Goto
<1>3. \A r \in Regions : \A s \in 1..Sectors[r] : flash'[r][s] =
         IF Writes(r, images) /\ s <= Image[r] THEN Plain
         ELSE IF setup.erase THEN Blank(r) ELSE flash[r][s]
    BY <1>1
<1>4. \A r \in Regions : flash'[r] \in [1..Sectors[r] -> Contents]
  <2>1. Plain \in Contents /\ \A r : Blank(r) \in Contents
    BY DEF Plain, Lost, Blank, Contents
  <2>2. \A r \in Regions : flash[r] \in [1..Sectors[r] -> Contents]
    BY DEF IInv, TypeOK, Contents
  <2> QED BY <1>1, <2>1, <2>2
<1>5. TypeOK' /\ ShapeInv'
    BY <1>1, <1>2, <1>4 DEF IInv, TypeOK, ShapeInv, Contents
<1>6. StageInv' /\ KeysProtected'
    BY <1>2 DEF IInv, StageInv, KeysProtected, SbPcs, KeyPcs, PassPcs
<1>7. BootInv' /\ PassInv'
    BY <1>2 DEF BootInv, PassInv, PassPcs
<1>8. \A r : Restored(r)' = Restored(r) /\ (Needs(r)' <=> Needs(r))
    BY <1>2 DEF Restored, Needs
<1>9. ASSUME NEW r \in Regions, NEW s \in Restored(r)
      PROVE  /\ Needs(r) => flash'[r][s] = Plain
             /\ setup.erase \/ Writes(r, images) => flash'[r][s].times = 0
  <2>1. s \in 1..Sectors[r]
    BY RestoredSectors
  <2>2. flash'[r][s] = IF Writes(r, images) /\ s <= Image[r] THEN Plain
                       ELSE IF setup.erase THEN Blank(r) ELSE flash[r][s]
    BY <1>3, <2>1
  <2> QED BY <2>2, HostWrites
<1>10. Fresh' /\ Done'
  <2>1. \A r \in Regions : Needs(r)' => AllPlain(r)'
    BY <1>8, <1>9 DEF AllPlain
  <2>2. AllPlain("boot")'
    BY <2>1 DEF Needs, Regions
  <2> QED BY <2>1, <2>2 DEF Fresh, Done
<1>11. ASSUME NEW r \in Regions, ~setup.erase, ~Writes(r, images)
       PROVE  \A s \in 1..Sectors[r] : flash'[r][s] = flash[r][s]
    BY <1>3, <1>11
<1>12. EncryptedOnce'
  <2>1. ASSUME NEW r \in Regions, NEW s \in Restored(r) PROVE flash'[r][s].times <= 1
    <3>1. flash[r][s].times <= 1 /\ s \in 1..Sectors[r]
      BY RestoredSectors DEF IInv, OnceInv, EncryptedOnce
    <3>2. CASE setup.erase \/ Writes(r, images)
      BY <1>9, <3>2
    <3>3. CASE ~(setup.erase \/ Writes(r, images))
      BY <1>11, <3>1, <3>3
    <3> QED BY <3>2, <3>3
  <2> QED BY <1>8, <2>1 DEF EncryptedOnce
<1>13. SlotInv'
  <2>1. ASSUME NEW r \in Regions, IsSlot(r), flash'[r][1] = Plain, NEW s \in Restored(r)
        PROVE  flash'[r][s].times = 0
    <3>1. s \in 1..Sectors[r] /\ 1 \in 1..Sectors[r]
      BY RestoredSectors
    <3>2. CASE setup.erase \/ Writes(r, images)
      BY <1>9, <3>2
    <3>3. CASE ~(setup.erase \/ Writes(r, images))
      <4>1. flash'[r][s] = flash[r][s] /\ flash'[r][1] = flash[r][1]
        BY <1>11, <3>1, <3>3
      <4> QED BY <2>1, <4>1 DEF IInv, OnceInv, SlotInv
    <3> QED BY <3>2, <3>3
  <2> QED BY <1>2, <1>8, <2>1 DEF SlotInv, IsSlot
<1> QED BY <1>5, <1>6, <1>7, <1>10, <1>12, <1>13 DEF IInv, OnceInv

LEMMA RepairStep ==
    ASSUME IInv, Repair
    PROVE  IInv'
BY SerialFlashStep DEF Repair, IInv, ShapeInv

LEMMA ReflashStep ==
    ASSUME IInv, Reflash
    PROVE  IInv'
<1>1. hits' \in [cuts : Nat, errors : Nat, flashes : Nat]
    BY DEF Reflash, IInv, ShapeInv
<1> QED BY <1>1, SerialFlashStep DEF Reflash

\* A slot of which a part has been erased, and a part of that written.
LEMMA OtaUpdateStep ==
    ASSUME IInv, OtaUpdate
    PROVE  IInv'
<1>1. PICK r \in Names, n \in Nat, m \in Nat :
         /\ Kind[r] = "slot" /\ m <= n
         /\ flash' = [flash EXCEPT ![r] = [s \in 1..Sectors[r] |->
                        IF s <= m THEN [ok |-> TRUE, times |-> Mode]
                        ELSE IF s <= n THEN Lost ELSE flash[r][s]]]
  <2>1. \A r \in Names : \A n \in 0..Sectors[r] : n \in Nat /\ \A m \in 0..n : m \in Nat /\ m <= n
    BY FirstBootAssumption DEF Regions
  <2> QED BY <2>1 DEF OtaUpdate
<1>2. /\ r \in Regions /\ "boot" # r /\ pc = "app" /\ esp_flash_encryption_enabled
      /\ [ok |-> TRUE, times |-> Mode] = Once
    BY <1>1, FirstBootAssumption DEF OtaUpdate, IInv, StageInv, Regions, Mode, Once
<1>3. UNCHANGED <<setup, fuse, pc, at, hits>>
    BY DEF OtaUpdate, Keep
<1>4. /\ flash' = [q \in Regions |-> flash'[q]]
      /\ \A q \in Regions \ {r} : flash'[q] = flash[q]
      /\ flash'[r] = [s \in 1..Sectors[r] |->
                        IF s <= m THEN Once ELSE IF s <= n THEN Lost ELSE flash[r][s]]
  <2>1. flash' = [flash EXCEPT ![r] = [s \in 1..Sectors[r] |->
                    IF s <= m THEN Once ELSE IF s <= n THEN Lost ELSE flash[r][s]]]
    BY <1>1, <1>2
  <2> QED BY <1>2, <2>1 DEF IInv, ShapeInv
<1>5. TypeOK' /\ ShapeInv'
  <2>1. Once \in Contents /\ Lost \in Contents
    BY DEF Once, Lost, Contents
  <2>2. \A q \in Regions : flash[q] \in [1..Sectors[q] -> Contents]
    BY DEF IInv, TypeOK, Contents
  <2>3. \A q \in Regions : flash'[q] \in [1..Sectors[q] -> Contents]
    <3>1. flash'[r] \in [1..Sectors[r] -> Contents]
      <4>1. \A s \in 1..Sectors[r] : flash[r][s] \in Contents
        BY <1>2, <2>2
      <4> QED BY <1>4, <2>1, <4>1
    <3> QED BY <1>4, <2>2, <3>1
  <2> QED BY <1>2, <1>3, <1>4, <2>3 DEF IInv, TypeOK, ShapeInv, Contents
<1>6. /\ \A q : (Needs(q)' <=> Needs(q)) /\ Restored(q)' = Restored(q)
      /\ ~Needs(r)
      /\ esp_flash_encryption_enabled' <=> esp_flash_encryption_enabled
    BY <1>1, <1>3, FirstBootAssumption DEF Needs, Restored, esp_flash_encryption_enabled
<1>7. \A q \in Regions \ {r} :
         /\ esp_image_basic_verify(q)' <=> esp_image_basic_verify(q)
         /\ AllPlain(q)' <=> AllPlain(q)
         /\ AllOnce(q)' <=> AllOnce(q)
    BY <1>3, <1>4, <1>6 DEF esp_image_basic_verify, Reads, Mode, esp_flash_encryption_enabled, AllPlain, AllOnce
<1>8. StageInv' /\ KeysProtected'
    BY <1>2, <1>3, <1>6 DEF IInv, StageInv, KeysProtected, SbPcs, KeyPcs, PassPcs
<1>9. BootInv' /\ PassInv' /\ Fresh' /\ Done'
  <2>1. "boot" \in Regions \ {r}
    BY <1>2 DEF Regions
  <2> QED BY <1>2, <1>3, <1>6, <1>7, <2>1 DEF IInv, BootInv, PassInv, Fresh, Done, PassPcs
<1>10. Once.times = 1 /\ Lost.times = 0 /\ Once # Plain /\ Lost # Plain
  <2>1. Lost.ok = FALSE /\ Plain.ok = TRUE /\ Lost.times = 0 /\ Once.times = 1
    BY DEF Lost, Plain, Once
  <2> QED BY <2>1, PlainOrOnce
<1>11. EncryptedOnce'
  <2>1. ASSUME NEW q \in Regions, NEW s \in Restored(q) PROVE flash'[q][s].times <= 1
    <3>1. flash[q][s].times <= 1 /\ s \in 1..Sectors[q]
      BY RestoredSectors DEF IInv, OnceInv, EncryptedOnce
    <3>2. CASE q = r
      BY <1>4, <1>10, <3>1, <3>2
    <3>3. CASE q # r
      BY <1>4, <3>1, <3>3
    <3> QED BY <3>2, <3>3
  <2> QED BY <1>6, <2>1 DEF EncryptedOnce
<1>12. SlotInv'
  <2>1. ASSUME NEW q \in Regions, IsSlot(q), flash'[q][1] = Plain, NEW s \in Restored(q)
        PROVE  flash'[q][s].times = 0
    <3>1. s \in 1..Sectors[q] /\ 1 \in 1..Sectors[q]
      BY RestoredSectors
    <3>2. q = r => n < 1 /\ m < 1
      <4> SUFFICES ASSUME q = r PROVE n < 1 /\ m < 1
        OBVIOUS
      <4>1. flash'[r][1] = IF 1 <= m THEN Once ELSE IF 1 <= n THEN Lost ELSE flash[r][1]
        BY <1>4, <3>1
      <4>2. ~(1 <= m) /\ ~(1 <= n)
        BY <1>10, <2>1, <4>1
      <4> QED BY <1>1, <4>2
    <3>3. flash'[q][s] = flash[q][s] /\ flash'[q][1] = flash[q][1]
      BY <1>1, <1>4, <3>1, <3>2
    <3> QED BY <2>1, <3>3 DEF IInv, OnceInv, SlotInv
  <2> QED BY <1>2, <1>3, <1>6, <2>1 DEF SlotInv, IsSlot
<1> QED BY <1>5, <1>8, <1>9, <1>11, <1>12 DEF IInv, OnceInv

-----------------------------------------------------------------------------
(* The invariant is inductive.                                             *)

LEMMA InitInv ==
    ASSUME Init
    PROVE  IInv
<1>1. /\ fuse.cnt = 0 /\ ~fuse.abs_done /\ pc = "off" /\ at = Start
      /\ at.reg = 1 /\ at.sec = 1
    BY DEF Init, Start
<1>2. ~esp_flash_encryption_enabled
    BY <1>1 DEF esp_flash_encryption_enabled
<1>3. \A r \in Regions : \A s \in 1..Sectors[r] :
         flash[r][s] = IF r = "iv" \/ (r \in Names /\ Kind[r] = "slot") THEN Lost ELSE Plain
    BY DEF Init, Blank
<1>4. /\ flash = [r \in Regions |-> flash[r]]
      /\ \A r \in Regions : flash[r] \in [1..Sectors[r] -> Contents]
  <2>1. Lost \in Contents /\ Plain \in Contents
    BY DEF Lost, Plain, Contents
  <2> QED BY <2>1 DEF Init, Blank
<1>5. TypeOK
    <2>1. /\ setup \in Setups
          /\ fuse \in [key1 : Keys, key2 : Keys, config : BOOLEAN, dl : BOOLEAN,
                       cnt : 0..CntWidth, wr_dis : BOOLEAN, abs_done : BOOLEAN]
      BY FirstBootAssumption DEF Init
    <2> QED BY <1>1, <1>4, <2>1, OrderFacts DEF TypeOK, Contents
<1>6. ShapeInv
    BY <1>4 DEF Init, ShapeInv, Start, Lost, Contents
<1>7. StageInv /\ KeysProtected /\ BootInv /\ PassInv /\ Done
    BY <1>1, <1>2
    DEF StageInv, KeysProtected, BootInv, PassInv, Done, SbPcs, KeyPcs, PassPcs
<1>8. Fresh
  <2>1. ASSUME NEW r \in Regions, Needs(r)
        PROVE  ~(r = "iv" \/ (r \in Names /\ Kind[r] = "slot"))
    BY <1>1, <2>1, FirstBootAssumption DEF Needs
  <2> QED BY <1>3, <2>1, RestoredSectors DEF Fresh, AllPlain
<1>9. OnceInv
  <2>1. \A r \in Regions : \A s \in 1..Sectors[r] : flash[r][s].times = 0
    BY <1>3 DEF Lost, Plain
  <2>2. \A r \in Regions : \A s \in Restored(r) : flash[r][s].times = 0
    BY <2>1, RestoredSectors
  <2> QED BY <1>1, <2>2 DEF OnceInv, EncryptedOnce, SlotInv
<1> QED BY <1>5, <1>6, <1>7, <1>8, <1>9 DEF IInv

LEMMA StutterStep ==
    ASSUME IInv, UNCHANGED vars
    PROVE  IInv'
<1>0. UNCHANGED <<setup, fuse, flash, pc, at, hits>>
    BY DEF vars
<1>1. Quiet /\ Region' = Region /\ Restored(Region)' = Restored(Region)
    BY <1>0 DEF Quiet, Region, Restored
<1>2. TypeOK' /\ ShapeInv' /\ KeysProtected'
    BY <1>0, <1>1 DEF IInv, TypeOK, ShapeInv, KeysProtected
<1>3. StageInv' /\ BootInv' /\ Fresh' /\ Done'
    BY <1>0, <1>1, QuietReads DEF IInv, StageInv, BootInv, Fresh, Done
<1>4. PassInv'
  <2>1. Needs(Region)' <=> Needs(Region)
    BY <1>0, <1>1 DEF Needs
  <2> QED BY <1>0, <1>1, <2>1, QuietReads DEF IInv, PassInv
<1>5. OnceInv'
  <2>1. Needs(Region)' <=> Needs(Region)
    BY <1>0, <1>1 DEF Needs
  <2> QED BY <1>0, <1>1, <2>1, QuietReads DEF IInv, OnceInv, EncryptedOnce, SlotInv, IsSlot
<1> QED BY <1>2, <1>3, <1>4, <1>5 DEF IInv

LEMMA NextInv ==
    ASSUME IInv, [Next]_vars
    PROVE  IInv'
BY PowerOnStep, LoadTableStep, SbCheckStep, SbKeyStep, SbLockStep, SbEraseStep, SbWriteStep,
   SbDoneStep, FeCheckStep, FeKeyStep, FeLockStep, FeConfigStep, FeDlStep, FeRegionStep,
   FeEraseStep, FeWriteStep, FeCntStep, LoadAppStep, CutStep, ResetStep, RepairStep,
   ReflashStep, BumpCntStep, ProtectCntStep, OtaUpdateStep, StutterStep
DEF Next, Bootloader

LEMMA Inductive == Spec => []IInv
<1>1. Init => IInv
    BY InitInv
<1>2. IInv /\ [Next]_vars => IInv'
    BY NextInv
<1> QED BY <1>1, <1>2, PTL DEF Spec

-----------------------------------------------------------------------------
(* The theorems.                                                           *)

(* The efuses, the sectors and the place of a pass keep their types: in    *)
(* particular FLASH_CRYPT_CNT never gets a bit it does not have, neither   *)
(* at the end of encrypt_flash_contents() nor when the host burns one, and *)
(* a pass stays within the regions it encrypts.                            *)
THEOREM DeviceTypeCorrect == Spec => []TypeOK
<1>1. IInv => TypeOK
    BY DEF IInv
<1> QED BY <1>1, Inductive, PTL

(* Whenever flash encryption is on, initialise_flash_encryption() has left *)
(* a key that is protected, FLASH_CRYPT_CONFIG burned and the UART         *)
(* bootloader shut, whatever step of it power failed after; and secure     *)
(* boot is on only with a protected key.                                   *)
THEOREM KeysStayProtected == Spec => []KeysProtected
<1>1. IInv => KeysProtected
    BY DEF IInv
<1> QED BY <1>1, Inductive, PTL

(* From ABS_DONE_0 on, a bootloader that the ROM can read has a digest     *)
(* that the ROM can read, whether or not the host erases the flash before  *)
(* it writes it: encrypt_flash_contents() encrypts the two in one pass.      *)
THEOREM DigestIsNotParted == Spec => []DigestGoesWithBootloader
<1>1. ASSUME IInv, fuse.abs_done, esp_image_basic_verify("boot") PROVE Reads("iv", 1)
  <2>1. "iv" \in Regions /\ Needs("iv") /\ 1 \in Restored("iv")
    BY <1>1, RestoredSectors DEF Regions, Needs
  <2>2. CASE esp_flash_encryption_enabled
    <3>1. AllOnce("iv")
      BY <1>1, <2>1, <2>2, BootReadable DEF IInv, Done
    <3> QED BY <2>1, <2>2, <3>1 DEF AllOnce, Reads, Mode, Once
  <2>3. CASE ~esp_flash_encryption_enabled
    <3>1. AllPlain("iv")
      BY <1>1, <2>1, <2>3, BootReadable DEF IInv, Fresh
    <3> QED BY <2>1, <2>3, <3>1 DEF AllPlain, Reads, Mode, Plain
  <2> QED BY <2>2, <2>3
<1>2. IInv => DigestGoesWithBootloader
    BY <1>1 DEF DigestGoesWithBootloader
<1> QED BY <1>2, Inductive, PTL

(* Bootloader, digest, partition table and the images of apps are never    *)
(* encrypted twice by the passes of encrypt_flash_contents(), whatever cut *)
(* or error ends a pass and whatever images the host writes; and no sector *)
(* at all is, if the host erases the flash before it writes it.            *)
THEOREM NeverEncryptedTwice == Spec => []EncryptedOnce
<1>1. IInv => EncryptedOnce
    BY DEF IInv, OnceInv
<1> QED BY <1>1, Inductive, PTL

(* Whenever esp_flash_encrypt_check_and_update() lets the app start, all   *)
(* that a pass encrypts and the host makes plaintext again is encrypted    *)
(* and reads right, to its last sector.                                    *)
THEOREM AppDataIsWhole == Spec => []AppFindsItsData
<1>1. ASSUME IInv, pc = "app" PROVE esp_flash_encryption_enabled
    BY <1>1 DEF IInv, StageInv
<1>2. ASSUME IInv, pc = "app", NEW r \in Regions, Needs(r), NEW s \in Restored(r)
      PROVE  Reads(r, s)
  <2>1. esp_image_basic_verify("boot")
    BY <1>2 DEF IInv, BootInv, PassPcs
  <2>2. AllOnce(r)
    BY <1>1, <1>2, <2>1, BootReadable DEF IInv, Done
  <2> QED BY <1>1, <1>2, <2>2 DEF AllOnce, Reads, Mode, Once
<1>3. \A r \in Regions \ {"iv"} : Needs(r) \/ (r \in Names /\ Kind[r] \in {"slot", "other"})
  <2>1. \A r \in Names : Kind[r] \in {"app", "slot", "ota", "flag", "other"}
    BY FirstBootAssumption
  <2> QED BY <2>1 DEF Needs, Regions
<1>4. IInv => AppFindsItsData
    BY <1>1, <1>2, <1>3 DEF AppFindsItsData
<1> QED BY <1>4, Inductive, PTL
=============================================================================
