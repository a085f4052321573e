---------------------------- MODULE MCFirstBoot -----------------------------
(***************************************************************************)
(* An instance of FirstBoot: a factory app, an OTA slot, the OTA data      *)
(* partition, a data partition with the flag "encrypted" and one without.  *)
(***************************************************************************)
EXTENDS FirstBoot

Table == <<"otadata", "nvs", "factory", "ota_0", "keys">>
Kinds == [otadata |-> "ota", nvs |-> "other", factory |-> "app", ota_0 |-> "slot", keys |-> "flag"]
SectorCounts == [boot |-> 2, iv |-> 1, table |-> 1, otadata |-> 2, nvs |-> 1, factory |-> 2,
                 ota_0 |-> 2, keys |-> 1]
ImageSectors == [SectorCounts EXCEPT !["factory"] = 1]

\* With and without secure boot; keys made on the device or by the host; a
\* secure boot key that the host has burned and not protected; "make flash" and
\* "make erase_flash flash".
AllSetups == [secure : BOOLEAN, key1 : {"unset", "locked"}, key2 : Keys, erase : BOOLEAN]

\* The host may have an image for the OTA slot.
FactoryAndSlot == {{"factory"}, {"factory", "ota_0"}}

\* What flash-encryption.rst says of "make flash": it flashes all partitions
\* that need to be flashed.
MakeFlashIsEnough == \A r \in Regions : \A s \in 1..Sectors[r] : flash[r][s].times <= 1
=============================================================================
