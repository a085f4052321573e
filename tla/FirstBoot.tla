----------------------------- MODULE FirstBoot ------------------------------
(***************************************************************************)
(* Secure boot and flash encryption in the second-stage bootloader: what   *)
(* bootloader_main() does between loading the partition table and loading  *)
(* the app when both are configured (secure_boot.c, flash_encrypt.c).  It  *)
(* burns keys and other efuses, writes the digest of the bootloader, and   *)
(* encrypts the flash in place, a sector at a time.                        *)
(*                                                                         *)
(* Power may fail between any two steps, a call of the flash driver may    *)
(* fail, and the host may flash plaintext over the serial line, which is   *)
(* what the documentation asks for after a cut, with or without erasing    *)
(* the flash first.                                                        *)
(***************************************************************************)
EXTENDS Integers, Sequences

CONSTANTS
    Partitions,   \* the entries of the partition table, in order
    Kind,         \* of an entry: "app", "slot", "ota", "flag" or "other"
    Sectors,      \* how many sectors a region has
    Image,        \* how many sectors of it an image takes
    Setups,       \* configurations of the bootloader, keys burned by the host, its recipe
    Images,       \* the partitions that the host has an image for
    CntWidth,     \* bits of the efuse FLASH_CRYPT_CNT
    MaxCuts, MaxErrors, MaxFlashes

Names == {Partitions[i] : i \in DOMAIN Partitions}

\* The order of encrypt_flash_contents().  What if the partitions came first?
Order_PartitionsFirst == Partitions \o <<"boot", "iv", "table">>
Order == <<"boot", "iv", "table">> \o Partitions

Regions == Names \cup {"boot", "iv", "table"}
Keys == {"unset", "open", "locked"}    \* open: not both read and write protected

ASSUME FirstBootAssumption ==
    /\ Partitions \in Seq(Names)
    /\ \A i, j \in DOMAIN Partitions : Partitions[i] = Partitions[j] => i = j
    /\ Names \cap {"boot", "iv", "table"} = {}
    /\ Kind \in [Names -> {"app", "slot", "ota", "flag", "other"}]
    /\ Sectors \in [Regions -> Nat \ {0}] /\ Sectors["iv"] = 1 /\ Sectors["table"] = 1
    /\ Image \in [Regions -> Nat \ {0}]
    /\ \A r \in Regions : Image[r] <= Sectors[r]
    /\ Image["boot"] = Sectors["boot"]
    /\ Setups \subseteq [secure : BOOLEAN, key1 : Keys, key2 : Keys, erase : BOOLEAN]
    /\ \A images \in Images : \A r \in Names :
         /\ Kind[r] = "app" => r \in images
         /\ r \in images => Kind[r] \in {"app", "slot"}
    /\ CntWidth \in Nat /\ CntWidth % 2 = 0
    /\ {MaxCuts, MaxErrors, MaxFlashes} \subseteq Nat

VARIABLES
    setup,   \* the configuration; erase: the host always erases the flash first
    fuse,    \* the efuses: cnt is the number of bits that are set in FLASH_CRYPT_CNT
    flash,   \* the sectors of every region: intact or not, and how often encrypted
    pc,      \* the step that comes next
    at,      \* the region of Order and the sector that is encrypted, and its content
    hits     \* cuts, errors, and times the host has flashed a working device

vars == <<setup, fuse, flash, pc, at, hits>>

Lost == [ok |-> FALSE, times |-> 0]     \* not what it should be: erased, or torn
Plain == [ok |-> TRUE, times |-> 0]     \* as the host left it
Start == [reg |-> 1, sec |-> 1, buf |-> Lost]

\* Where no image is written on erased flash: there is no digest and no app in
\* a slot; data, and the rest of an app, begin as erased sectors.
Blank(r) == IF r = "iv" \/ (r \in Names /\ Kind[r] = "slot") THEN Lost ELSE Plain

Init ==
    /\ setup \in Setups
    /\ fuse = [key1 |-> setup.key1, key2 |-> setup.key2, config |-> FALSE, dl |-> FALSE,
               cnt |-> 0, wr_dis |-> FALSE, abs_done |-> FALSE]
    /\ flash = [r \in Regions |-> [s \in 1..Sectors[r] |-> Blank(r)]]
    /\ pc = "off"
    /\ at = Start
    /\ hits = [cuts |-> 0, errors |-> 0, flashes |-> 0]

-----------------------------------------------------------------------------
(* Reading.  Through the cache everything is decrypted once, or nothing is. *)

esp_flash_encryption_enabled == fuse.cnt % 2 = 1
Mode == IF esp_flash_encryption_enabled THEN 1 ELSE 0

Reads(r, s) == flash[r][s] = [ok |-> TRUE, times |-> Mode]
esp_image_basic_verify(r) == \A s \in 1..Image[r] : Reads(r, s)
esp_partition_table_basic_verify == Reads("table", 1)

\* The ROM starts the bootloader, if its digest is right once that is required.
RomBoots == esp_image_basic_verify("boot") /\ (fuse.abs_done => Reads("iv", 1))

-----------------------------------------------------------------------------
(* The parts of a step. *)

Goto(to) == pc' = to
Keep == UNCHANGED <<setup, hits, at>>
Write(r, s, sector) == flash' = [flash EXCEPT ![r][s] = sector]
Burn(f, v) == fuse' = [fuse EXCEPT ![f] = v]
Times(n) == IF n >= 2 THEN 2 ELSE n      \* 2: more than once
Encrypted(sector) == IF sector.ok THEN [sector EXCEPT !.times = Times(@ + 1)] ELSE Lost

\* One call of the flash driver that turns a sector into another.  When it
\* fails, the sector may be what it was, what it was to be, or neither.
Driver(r, s, sector, to, next, failed) ==
    /\ UNCHANGED <<setup, fuse>>
    /\ \/ Write(r, s, sector) /\ Goto(to) /\ at' = next /\ UNCHANGED hits
       \/ /\ hits.errors < MaxErrors
          /\ hits' = [hits EXCEPT !.errors = @ + 1]
          /\ \E left \in {flash[r][s], Lost, sector} : Write(r, s, left)
          /\ Goto(failed) /\ at' = Start

-----------------------------------------------------------------------------
(* Power on: the ROM, then bootloader_main(), which loads the table. *)

PowerOn ==
    /\ pc = "off"
    /\ Goto(IF RomBoots THEN "load" ELSE "halt")
    /\ UNCHANGED <<fuse, flash>> /\ Keep

LoadTable ==
    /\ pc = "load"
    /\ Goto(IF ~esp_partition_table_basic_verify THEN "halt"
            ELSE IF setup.secure THEN "sb_check" ELSE "fe_check")
    /\ UNCHANGED <<fuse, flash>> /\ Keep

-----------------------------------------------------------------------------
(* esp_secure_boot_permanently_enable().  When it fails, the boot goes on. *)

SbCheck ==
    /\ pc = "sb_check"
    /\ Goto(IF fuse.abs_done \/ ~esp_image_basic_verify("boot") THEN "fe_check"
            ELSE IF fuse.key2 = "unset" THEN "sb_key" ELSE "sb_erase")
    /\ UNCHANGED <<fuse, flash>> /\ Keep

SbKey == pc = "sb_key" /\ Burn("key2", "open") /\ Goto("sb_lock") /\ UNCHANGED flash /\ Keep

SbLock == pc = "sb_lock" /\ Burn("key2", "locked") /\ Goto("sb_erase") /\ UNCHANGED flash /\ Keep

SbErase == pc = "sb_erase" /\ Driver("iv", 1, Lost, "sb_write", Start, "fe_check")

\* What if the digest were never written through the encryption hardware?
SbWrite_Plain == pc = "sb_write" /\ Driver("iv", 1, Plain, "sb_done", Start, "fe_check")

SbWrite ==
    /\ pc = "sb_write"
    /\ Driver("iv", 1, [ok |-> TRUE, times |-> Mode], "sb_done", Start, "fe_check")

SbDone ==
    /\ pc = "sb_done"
    /\ IF fuse.key2 = "locked" THEN Burn("abs_done", TRUE) ELSE UNCHANGED fuse
    /\ Goto("fe_check")
    /\ UNCHANGED flash /\ Keep

-----------------------------------------------------------------------------
(* esp_flash_encrypt_check_and_update(), initialise_flash_encryption().    *)
(* When they fail, bootloader_main() returns and nothing is booted.        *)

\* What if a protected key were a sign that everything is initialised?
FeCheck_KeyIsEnough ==
    /\ pc = "fe_check"
    /\ Goto(IF esp_flash_encryption_enabled THEN "app_load"
            ELSE IF fuse.wr_dis \/ fuse.cnt = CntWidth THEN "halt"
            ELSE IF fuse.cnt > 0 \/ fuse.key1 = "locked" THEN "fe_region"
            ELSE IF fuse.key1 = "unset" THEN "fe_key" ELSE "halt")
    /\ UNCHANGED <<fuse, flash>> /\ Keep

\* What if only a key made in this very boot were accepted?
FeCheck_NewKeyOnly ==
    /\ pc = "fe_check"
    /\ Goto(IF esp_flash_encryption_enabled THEN "app_load"
            ELSE IF fuse.wr_dis \/ fuse.cnt = CntWidth THEN "halt"
            ELSE IF fuse.cnt > 0 THEN "fe_region"
            ELSE IF fuse.key1 = "unset" THEN "fe_key" ELSE "halt")
    /\ UNCHANGED <<fuse, flash>> /\ Keep

\* What if a full counter were not noticed?
FeCheck_NoLimit ==
    /\ pc = "fe_check"
    /\ Goto(IF esp_flash_encryption_enabled THEN "app_load"
            ELSE IF fuse.wr_dis THEN "halt"
            ELSE IF fuse.cnt > 0 THEN "fe_region"
            ELSE CASE fuse.key1 = "unset" -> "fe_key"
                   [] fuse.key1 = "open" -> "halt"
                   [] fuse.key1 = "locked" -> "fe_config")
    /\ UNCHANGED <<fuse, flash>> /\ Keep

FeCheck ==
    /\ pc = "fe_check"
    /\ Goto(IF esp_flash_encryption_enabled THEN "app_load"
            ELSE IF fuse.wr_dis \/ fuse.cnt = CntWidth THEN "halt"
            ELSE IF fuse.cnt > 0 THEN "fe_region"
            ELSE CASE fuse.key1 = "unset" -> "fe_key"
                   [] fuse.key1 = "open" -> "halt"
                   [] fuse.key1 = "locked" -> "fe_config")
    /\ UNCHANGED <<fuse, flash>> /\ Keep

FeKey == pc = "fe_key" /\ Burn("key1", "open") /\ Goto("fe_lock") /\ UNCHANGED flash /\ Keep

FeLock == pc = "fe_lock" /\ Burn("key1", "locked") /\ Goto("fe_config") /\ UNCHANGED flash /\ Keep

FeConfig == pc = "fe_config" /\ Burn("config", TRUE) /\ Goto("fe_dl") /\ UNCHANGED flash /\ Keep

FeDl == pc = "fe_dl" /\ Burn("dl", TRUE) /\ Goto("fe_region") /\ UNCHANGED flash /\ Keep

-----------------------------------------------------------------------------
(* encrypt_flash_contents(): the bootloader and, with secure boot, its     *)
(* digest; the partition table; the partitions in the order of the table.  *)

Region == Order[at.reg]

ShouldEncrypt(r) ==
    CASE r = "iv" -> fuse.abs_done
      [] r = "table" -> TRUE
      [] r = "boot" \/ (r \in Names /\ Kind[r] \in {"app", "slot"}) -> esp_image_basic_verify(r)
      [] OTHER -> Kind[r] \in {"ota", "flag"}

NextRegion(n) == [reg |-> at.reg + n, sec |-> 1, buf |-> Lost]

\* Without a plaintext bootloader its digest is left alone as well; without a
\* table that can be read and is plaintext the pass fails.
FeRegion ==
    /\ pc = "fe_region"
    /\ at.reg <= Len(Order)
    /\ UNCHANGED <<setup, fuse, flash>>
    /\ \/ /\ Region = "table" => esp_partition_table_basic_verify
          /\ IF ShouldEncrypt(Region)
             THEN Goto("fe_erase") /\ UNCHANGED at
             ELSE UNCHANGED pc /\ at' = NextRegion(IF Region = "boot" THEN 2 ELSE 1)
          /\ UNCHANGED hits
       \/ /\ Region = "table" /\ ~esp_partition_table_basic_verify
          /\ Goto("halt") /\ at' = Start /\ UNCHANGED hits
       \/ /\ Region = "table" /\ hits.errors < MaxErrors
          /\ hits' = [hits EXCEPT !.errors = @ + 1]
          /\ Goto("halt") /\ at' = Start

\* esp_flash_encrypt_region(): a sector is read, erased, and written encrypted.
FeErase ==
    /\ pc = "fe_erase"
    /\ Driver(Region, at.sec, Lost, "fe_write",
              [at EXCEPT !.buf = flash[Region][at.sec]], "halt")

\* What if no more than the image of an app were encrypted?
FeWrite_ImageOnly ==
    /\ pc = "fe_write"
    /\ IF at.sec < Image[Region]
       THEN Driver(Region, at.sec, Encrypted(at.buf), "fe_erase",
                   [at EXCEPT !.sec = @ + 1, !.buf = Lost], "halt")
       ELSE Driver(Region, at.sec, Encrypted(at.buf), "fe_region", NextRegion(1), "halt")

FeWrite ==
    /\ pc = "fe_write"
    /\ IF at.sec < Sectors[Region]
       THEN Driver(Region, at.sec, Encrypted(at.buf), "fe_erase",
                   [at EXCEPT !.sec = @ + 1, !.buf = Lost], "halt")
       ELSE Driver(Region, at.sec, Encrypted(at.buf), "fe_region", NextRegion(1), "halt")

\* FLASH_CRYPT_CNT gets its next bit, and the system is reset.
FeCnt ==
    /\ pc = "fe_region"
    /\ at.reg > Len(Order)
    /\ Burn("cnt", fuse.cnt + 1)
    /\ Goto("off") /\ at' = Start
    /\ UNCHANGED <<setup, flash, hits>>

\* unpack_load_app(): the image of the factory app is verified and started.
LoadApp ==
    /\ pc = "app_load"
    /\ Goto(IF \A r \in Names : Kind[r] = "app" => esp_image_basic_verify(r)
            THEN "app" ELSE "halt")
    /\ UNCHANGED <<fuse, flash>> /\ Keep

-----------------------------------------------------------------------------
(* The world: power, the host at the serial line, and the running app.     *)

Cut ==
    /\ pc \notin {"off", "halt"}
    /\ hits.cuts < MaxCuts
    /\ hits' = [hits EXCEPT !.cuts = @ + 1]
    /\ Goto("off") /\ at' = Start
    /\ UNCHANGED <<setup, fuse, flash>>

Reset == pc = "halt" /\ Goto("off") /\ UNCHANGED <<fuse, flash>> /\ Keep

\* With secure boot on, only a host that has the key can make a new digest.
HostCanFlash == ~fuse.wr_dis /\ (fuse.abs_done => setup.key2 # "unset")

\* "make flash" or "make erase_flash flash": bootloader, partition table and
\* apps are written, no further than their images go.  The other partitions,
\* and what is behind an image, stay as they are unless the flash is erased.
\* With secure boot the host runs the command that "make bootloader" prints as
\* well, which writes the bootloader, after ABS_DONE_0 with its digest at 0x0.
Writes(r, images) ==
    r \in {"boot", "table"} \/ r \in images \/ (r = "iv" /\ fuse.abs_done)

SerialFlash ==
    /\ HostCanFlash
    /\ \E images \in Images : flash' =
         [r \in Regions |-> [s \in 1..Sectors[r] |->
            IF Writes(r, images) /\ s <= Image[r] THEN Plain
            ELSE IF setup.erase THEN Blank(r) ELSE flash[r][s]]]
    /\ Goto("off")
    /\ UNCHANGED <<setup, fuse, at>>

Repair == pc = "halt" /\ SerialFlash /\ UNCHANGED hits

Reflash ==
    /\ pc = "app" /\ hits.flashes < MaxFlashes
    /\ hits' = [hits EXCEPT !.flashes = @ + 1]
    /\ SerialFlash

\* espefuse.py burn_efuse FLASH_CRYPT_CNT, once plaintext has been flashed.
BumpCnt ==
    /\ pc = "halt"
    /\ esp_flash_encryption_enabled /\ ~fuse.wr_dis
    /\ \A s \in 1..Sectors["boot"] : flash["boot"][s] = Plain
    /\ Burn("cnt", fuse.cnt + 1)
    /\ Goto("off")
    /\ UNCHANGED flash /\ Keep

\* espefuse.py write_protect_efuse FLASH_CRYPT_CNT.
ProtectCnt ==
    /\ pc = "app" /\ ~fuse.wr_dis
    /\ Burn("wr_dis", TRUE)
    /\ UNCHANGED <<pc, flash>> /\ Keep

\* The app downloads an image: esp_ota_begin() has erased the first n sectors
\* of a slot and esp_ota_write() has written the first m of them, encrypted,
\* when the update ends or is broken off.
OtaUpdate ==
    /\ pc = "app"
    /\ \E r \in Names : \E n \in 0..Sectors[r] : \E m \in 0..n :
         /\ Kind[r] = "slot"
         /\ flash' = [flash EXCEPT ![r] = [s \in 1..Sectors[r] |->
                        IF s <= m THEN [ok |-> TRUE, times |-> Mode]
                        ELSE IF s <= n THEN Lost ELSE flash[r][s]]]
    /\ UNCHANGED <<fuse, pc>> /\ Keep

-----------------------------------------------------------------------------

Bootloader ==
    \/ LoadTable \/ SbCheck \/ SbKey \/ SbLock \/ SbErase \/ SbWrite \/ SbDone
    \/ FeCheck \/ FeKey \/ FeLock \/ FeConfig \/ FeDl
    \/ FeRegion \/ FeErase \/ FeWrite \/ FeCnt \/ LoadApp

Next ==
    \/ PowerOn \/ Bootloader \/ Cut \/ Reset
    \/ Repair \/ Reflash \/ BumpCnt \/ ProtectCnt \/ OtaUpdate

(* The bootloader runs on; a device that stands still is reset, and in the *)
(* end the host does what the documentation says.                          *)
Spec ==
    /\ Init /\ [][Next]_vars
    /\ WF_vars(PowerOn \/ Bootloader \/ Reset)
    /\ SF_vars(Repair) /\ SF_vars(BumpCnt)

-----------------------------------------------------------------------------

(* Types; the bits of FLASH_CRYPT_CNT never run over, and a pass stays in  *)
(* the regions it encrypts.                                                *)
TypeOK ==
    /\ setup \in Setups
    /\ fuse \in [key1 : Keys, key2 : Keys, config : BOOLEAN, dl : BOOLEAN,
                  cnt : 0..CntWidth, wr_dis : BOOLEAN, abs_done : BOOLEAN]
    /\ \A r \in Regions : flash[r] \in [1..Sectors[r] -> [ok : BOOLEAN, times : 0..2]]
    /\ pc \in {"off", "load", "sb_check", "sb_key", "sb_lock", "sb_erase", "sb_write",
               "sb_done", "fe_check", "fe_key", "fe_lock", "fe_config", "fe_dl", "fe_region",
               "fe_erase", "fe_write", "app_load", "app", "halt"}
    /\ at.reg \in 1..(Len(Order) + 1) /\ at.sec \in Nat \ {0}
    /\ pc \in {"fe_erase", "fe_write"} => at.reg <= Len(Order) /\ at.sec <= Sectors[Region]

\* The sectors of a region that are plaintext once the host has flashed the
\* device: all of them if it erases the flash first, and the images if not.
Restored(r) ==
    IF setup.erase THEN 1..Sectors[r]
    ELSE IF r \in {"boot", "iv", "table"} \/ (r \in Names /\ Kind[r] \in {"app", "slot"})
    THEN 1..Image[r] ELSE {}

(* Whatever cuts and errors there were, and however often a pass is begun  *)
(* again, bootloader, digest, partition table and the images of apps are   *)
(* never encrypted twice: once anything has been encrypted, the ROM does   *)
(* not start the bootloader again until they are all plaintext.  Of OTA    *)
(* data, data with the flag "encrypted" and what is behind an image the    *)
(* same is claimed of a host that erases the flash before it writes it     *)
(* again ("make erase_flash flash"), not of "make flash" alone.            *)
EncryptedOnce == \A r \in Regions : \A s \in Restored(r) : flash[r][s].times <= 1

(* The post-condition of esp_flash_encrypt_check_and_update(): when the    *)
(* app runs, bootloader, table and the images of apps are encrypted and    *)
(* read as they were flashed.  With a host that erases the flash first so  *)
(* are whole partitions, to the last sector, OTA data and data with the    *)
(* flag "encrypted" among them: the encryption pass was not cut short.     *)
AppFindsItsData ==
    pc = "app" =>
      /\ esp_flash_encryption_enabled
      /\ \A r \in Regions \ {"iv"} :
           \/ r \in Names /\ Kind[r] \in {"slot", "other"}
           \/ \A s \in Restored(r) : Reads(r, s)

(* Flash encryption is on only with a key that software can neither read   *)
(* nor write, with FLASH_CRYPT_CONFIG burned and the UART bootloader shut; *)
(* secure boot only with a protected key.  A cut between the efuses does   *)
(* not leave one of them out.                                              *)
KeysProtected ==
    /\ fuse.cnt > 0 => fuse.key1 = "locked" /\ fuse.config /\ fuse.dl
    /\ fuse.abs_done => fuse.key2 = "locked"

(* From the moment ABS_DONE_0 is burned, a bootloader that the ROM can     *)
(* read comes with a digest that it can read: the two are encrypted, and   *)
(* the efuses burned, in an order that never parts them.                   *)
DigestGoesWithBootloader ==
    fuse.abs_done /\ esp_image_basic_verify("boot") => Reads("iv", 1)

\* All bits of FLASH_CRYPT_CNT are used up; or the ROM waits for a digest that
\* nobody can make; or the counter cannot be changed; or power failed after the
\* flash encryption key was burned and before it was protected: from then on
\* initialise_flash_encryption() refuses the key.
BeyondRepair ==
    \/ fuse.cnt = CntWidth
    \/ ~RomBoots /\ ~HostCanFlash
    \/ fuse.cnt = 0 /\ fuse.key1 = "open"

(* After cuts and errors the app comes up again, if need be because the    *)
(* host flashes plaintext once more, as flash-encryption.rst says; unless  *)
(* the device can no longer be repaired.                                   *)
ComesUp == []<>(pc = "app") \/ <>[]BeyondRepair
=============================================================================
