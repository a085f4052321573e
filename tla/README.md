# ESP-IDF: models and proofs of its storage, flash and system services

ESP-IDF is the SDK of the ESP32: a boot loader, a FreeRTOS port for two CPUs,
drivers, storage libraries and ported network stacks. This project models the
parts that Espressif wrote itself and that keep state which must survive power
failures or which two CPUs share. The modules are checked with TLC on small
instances; theorems are checked with TLAPS for every value of the constants.
`PROJECT.json` lists components, runs, mutants, the lines that each definition
models, hazards and theorems.

Contents: 1 inventory, 2 plan, 3 the modules and the code, 4 the runs,
5 findings and what other configurations show, 6 fairness, 7 proofs, 8 what is
not modelled.

## 1. Inventory

### Storage on flash

| Component | State | Operations | Talks to |
|---|---|---|---|
| `wear_levelling` (`WL_Flash.cpp`, `wear_levelling.cpp`) | N + 1 data pages, two state sectors (header with CRC, one position byte per page), config sector; in RAM `pos`, `move_count`, `access_count`; a table of handles | `wl_mount` (`init`, `recoverPos`, `initSections`), `wl_erase_range`, `wl_write`, `wl_read`, `wl_unmount` (`flush`), `updateWL` | `Partition` → `spi_flash`; used by FATFS |
| `nvs_flash` (`Page`, `PageManager`, `Storage`, `nvs_api`) | sectors with header, table of entry states and entries; lists of used and free pages, next sequence number, hash lists, namespaces, handles | `nvs_flash_init` (load), `nvs_set_*`, `nvs_get_*`, `nvs_erase_key`, `nvs_erase_all`, `nvs_open`, `nvs_close` | `spi_flash`; used by PHY, Wi-Fi, applications |
| `app_update` (`esp_ota_ops.c`) | OTA data (two sectors with sequence number and CRC), list of open updates | `esp_ota_begin`, `_write`, `_end`, `_set_boot_partition`, `_get_boot_partition`, `_get_next_update_partition` | `esp_partition`, read by the boot loader |
| `bootloader` (`bootloader_start.c`) | reads OTA data and the partition table | choice of the app, initialisation of blank OTA data, load | shares OTA data with `app_update`; nothing else is passed on |
| `spi_flash` (`cache_utils.c`, `flash_ops.c`) | flash mutex, flags `can_start` and `complete`, CPU of the operation, saved cache state; interrupt masks | `spi_flash_erase_range`, `_write`, `_read`, guard start and end | `esp_ipc`, FreeRTOS schedulers of both CPUs, caches |
| `bootloader_support` (`secure_boot.c`, `flash_encrypt.c`) | efuses (keys, their protection, `FLASH_CRYPT_CNT`, `ABS_DONE_0`), digest of the boot loader, plaintext or ciphertext in every sector | burning of efuses, digest, encryption of the flash in place, in every boot that finds them missing | called by `bootloader_main`; the ROM checks the result; the host may flash again |
| `spi_flash` mapping (`flash_mmap.c`, `partition.c`) | MMU pages with reference counts, list of partitions | `mmap`, `munmap`, find | caches |

### System services

| Component | State | Operations |
|---|---|---|
| `esp_ipc` (`ipc.c`) | one function slot, the kind of wait, a mutex, a semaphore per CPU, one acknowledgement | `esp_ipc_call`, `esp_ipc_call_blocking`, one task per CPU |
| FreeRTOS ring buffer (`ringbuf.c`) | read, write and free pointers, item flags, two semaphores, a mutex | send, receive, return, for three kinds of buffer, from tasks and interrupts |
| `app_trace.c` | two trace blocks exchanged with a host, a fill marker each, a block counter, a control and a status register per CPU, a spinlock with time-outs | get and put a buffer, write, flush, on either CPU; connect, read and acknowledge on the host |
| SPI master (`spi_master.c`) | per host: slots with a device each, the transaction in the hardware; per device two queues; no lock | initialise and free a bus, add and remove a device, queue a transaction, get a result, interrupt handler |
| `event_loop.c`, `task_wdt.c`, `intr_alloc.c`, `phy_init.c` | event queue; list of watched tasks; interrupt vectors; calibration data in NVS | see the sources |
| `vfs.c`, `log.c` | registered file systems and descriptors; cache of log levels | open, close, read, write; set and get a level |
| drivers | descriptors, queues to interrupt handlers | transactions of SPI slave, SD/MMC, UART, I2C, RMT, Ethernet |

### What is hard

* Power fails at any time. Every structure on flash is updated in several
  writes, a sector can only be erased as a whole, and bits can only be cleared.
  Recovery code runs at the next start and may itself be interrupted.
* A flash operation needs both CPUs to stay away from the caches, and is
  requested by tasks that are preempted and may migrate.
* Inter-processor calls share one slot and one acknowledgement.
* A driver call may fail after RAM has been changed and before flash has, or
  the other way round.
* Pointers, free space and queues are looked at without a lock and used later,
  by tasks of both CPUs and by interrupt handlers.
* A host outside the chip changes registers and flash at times of its own.
* Efuses can be burned once: a wrong order cannot be repaired.
* Counters wrap: `move_count`, the dummy page, sequence numbers.

What makes each of them correct: wear levelling is a disk (a sector changes
only when its client erases or writes it, also across restarts) and spreads
wear; NVS is a map in which each call happens entirely or not at all; a choice
of the boot app happens entirely or not at all and there is always an app to
boot; the flash chip is operated by one CPU while the other one is parked, and
every operation ends; a call to the other CPU is neither lost nor executed
twice; a ring buffer is a queue whatever the order of returning; an SPI
transaction runs with the settings of its device and its result comes back once
and in order; no image is encrypted twice and a device whose first boot was
interrupted can be brought up again; a connected host gets every trace chunk.

## 2. Plan

Modules, most important first. Items 1 to 8 are done.

1. `NorFlash`, `VirtualDisk`, `WLFlash`, `WLWear`, `WLFlashProofs`: wear
   levelling. Abstract specification: `VirtualDisk`.
2. `BootChoice`, `OtaBoot`: OTA data, boot loader and `app_update` together.
   Abstract specification: `BootChoice`.
3. `Ipc`, `FlashGuard`: inter-processor calls and, composed with them, the
   guard of flash operations.
4. `KVStore`, `Nvs`: the NVS engine. Abstract specification: `KVStore`.
5. `RingMem`, `FifoQueue`, `RingBuf`: the ring buffer. Abstract specification:
   `FifoQueue`.
6. `SpiMaster`: transactions of the SPI master.
7. `FirstBoot`: secure boot and flash encryption.
8. `AppTrace`: application tracing.
9. Handle tables and locks of `wear_levelling.cpp` (`wl_unmount` against a
   running `wl_write`); two tasks that update OTA data at once.
10. Event loop, task watchdog, PHY data on top of `KVStore`, `vfs` descriptors,
    heap regions, references of mapped flash pages.

Theorems. Done: wear levelling with the bound on wear; `FlashGuard` with `Ipc`;
`FirstBoot`; `OtaBoot` with its refinement; `SpiMaster`; `AppTrace` without its
two statements about the chunks of a block; all invariants of `Nvs`. Not
proved, with the reasons at the end of section 7: the refinement of `Nvs`,
`RingBuf`, the chunks of `AppTrace`.

## 3. The modules and the code

### NorFlash, VirtualDisk, WLFlash, WLWear

`NorFlash` gives the content of a page: `Erased`, a value, or `Junk`, and what
programming over it yields. `WLFlash` is `WL_Flash`: `flash` are the data
pages, `st` the two state sectors, `ram` is `this->state`, `pc` the driver call
that comes next, `job` the call of `wl_*` in progress. There is one action per
driver call, named after the statement: `DummyErase`, `CopyStart`, `CopyEnd`,
`Mark1`, `Mark2` are `updateWL()`; `SaveErase1` to `SaveWrite2` rewrite the
state at the end of a round and in a format; `Boot`, `RepairErase`,
`RepairHeader`, `RepairBit`, `RepairDone`, `FormatConfig` are `init()`;
`SectorErase` and `WriteCall` are the loops of `erase_range()` and `write()`.
`PowerCut` may come between two calls, as in `test_wl_host/TestPowerDown.cpp`,
and in the middle of the copy of a page. `DriverError` makes the call that is
due fail and takes the error path. `BootMisread` is a failed read of state 1,
whose result `init()` does not check; the uninitialised state is taken as one
whose CRC does not match. `VirtualDisk` is what the client may rely on. Its
state has the sectors and the client's call in progress: only that call changes
a sector, only within its range, in its order and with its own data, and it ends
when all of it is done or when a failure is counted. The refinement mapping
takes `disk` from `View`, which maps sectors through `calcAddr()` with the
position that is in force or that the next mount will recover, and the call from
`job` and `pc`; a relocation, a repair or a mount has to be a stuttering step. `WLWear` adds a history variable that counts the erases of one page.

### BootChoice, OtaBoot

`otadata` are the two sectors, an entry being blank, damaged or a sequence
number with a good CRC. `PowerOn` is `bootloader_main()`: it initialises blank
data (`FmtErase0` to `FmtWrite1`), takes the larger sequence number and loads
that slot, with no second choice when the image does not verify. `SetBoot`,
`SelErase`, `SelWrite` are `esp_ota_set_boot_partition()` for an OTA slot, and
`ResetErase0`, `ResetErase1` for the factory app. `OtaBegin`, `OtaWrite`,
`OtaEnd` change which images verify; under flash encryption `OtaEnd` writes the
last bytes when they fill no block of 16 (`partial`). `ret` is what the last
call has returned. `BootChoice` has the chosen app and, while a selection is in
progress, the wanted one: the call that returns `ESP_OK` has replaced the choice
(`Commit`), the one that returns an error has not (`Fail`), and a cut may do
either (`Restart`). `ImplementsBootChoice` says that the detailed selection is
atomic in this sense.

### Ipc, FlashGuard

`Ipc` has one action per access to shared state of `esp_ipc_call_and_wait()`
(`TakeMutex`, `PostCall`, `TakeAck`, `GiveMutex`) and of `ipc_task()`
(`WakeIpc`, `FetchFunc`, `AckStart`, `RunWork`, `AckEnd`). FreeRTOS is
external: a task runs on a CPU that its affinity allows and whose scheduler is
not suspended, and may migrate between any two steps. `FlashGuard` extends it
with `spi_flash_disable_interrupts_caches_and_other_cpu()` (`OpLock` to
`DisableOwn`), the operation itself, the way back (`RestoreOwn` to `OpUnlock`),
and with `spi_flash_op_block_func()`, which the IPC task of the other CPU runs
(`BlockSuspend` to `BlockResume`). An operation has one to `MaxChunks` guarded
sections; a section may fail and end the operation; after a write the region
is marked as modified under the guard once more (`MarkLock`, `MarkUnlock`).

### KVStore, Nvs

`page` is the flash: state, sequence number, table and entries of each sector.
One action is one flash operation. `Set` and `Erase` begin a call;
`InitPage` to `EraseOld` are `Page::writeItem()` and `Page::eraseItem()`;
`MarkFull`, `RequestNewPage`, `MarkFreeing` and `MoveInit` to `MoveFree` are
`requestNewPage()` and `moveItem()`; `PowerOn` to `LoadNextPage` are
`Page::load()` for one page after another, and `BuildLists` to
`ActivateForMove` are `PageManager::load()`. Power may fail before any flash
operation or inside it (`Broken`): then an entry is torn, part of a blob is
written, a header does not match its CRC, an erase is incomplete. A word of the
table is programmed as a whole; a range of entry states takes one write per
word, the last word first. An item is a key with a value; blobs have further
entries of data, written and marked in one pair of steps. The code writes whole
entries and a shorter tail one after the other (`nvs_page.cpp:218-234`), so that
this is exact for an item of at most two entries, as in the runs, and leaves out
a cut between the two writes of a longer one. What a `Page` object keeps in RAM is computed from the table.
`KVStore` is a map on which a call acts at one instant or, when power fails or
space runs out, not at all: `PowerFails` turns the power off, and a call that
returns `ESP_OK` has made its change. The mapping takes the newest item of each key that
will survive the next load.

Simplifications of `Nvs`: `mErasedEntryCount` is the number of erased entries
of the table (the code counts an entry that is erased twice in one load twice,
which can only change which page is freed first); an interrupted erase leaves a
page that `Page::load()` takes for corrupt; the hash list is a function `Hash`
from keys, and its search is the search of the table; an item marked as written
is complete, so the branches for items with a wrong CRC are idle, and so is the
second look at the last item of a page.

### RingMem, FifoQueue, RingBuf

`RingMem` is the memory of a buffer and what is done to it under the spinlock,
as operators: `CopyItem` for the three kinds (an item that does not fit before
the end leaves a dummy or is split), `GetItem`, `ReturnItem` with the advance of
the free pointer past everything that has been given back (`CleanUp`). Lengths
are in bytes, a cell is a word or, in a byte buffer, a byte. `RingBuf` has the
calls: `Send`, `CheckFree`, `TakeFree`, `TestFree`, `Copy`, `GiveItems` are
`xRingbufferSend()`, whose checks read the pointers without the lock; `Receive`,
`Look`, `TakeItems`, `Get` are `xRingbufferReceiveGeneric()`; `Return`,
`GiveFree` are `vRingbufferReturnItem()`; `SendFromISR` and `ReceiveFromISR` the
variants for interrupt handlers, of which an unsuccessful call changes nothing
and is left out. Time is what a call sees of it: ticks are left, none are left,
or the end has passed and the unsigned difference is huge. `FifoQueue` is the
queue that `ringbuf.h` promises; the mapping reads it off the memory between
the read and the write pointer, and what each reader holds off the memory
behind its pointer.

### SpiMaster

One host. `device` are its slots, `dev` the life of a device structure,
`trans_queue` and `ret_queue` its queues, `hw` the hardware with its pending
interrupt. `AddReserve`, `AddAlloc`, `AddQueues` are `spi_bus_add_device()`;
`RemoveCheck` (three times), `RemoveDelete`, `RemoveClear` are
`spi_bus_remove_device()`; `QueueTrans`, `Enable`, `GetResult` the calls of a
task, together `spi_device_transmit()`; `IsrReturn`, `IsrScan` (once per slot),
`IsrStart`, `IsrDisable` are `spi_intr()`. The driver takes no lock: tasks on
the CPU of the handler do not run during it, tasks on the other CPU do. A set-up
says whose task is where (`local`), when devices come and go (`plug`): once at
the beginning, while the bus is quiet, or at any time; and whether a task keeps
to `queue_size` transactions in the air by itself (`ahead`: `counted` or `free`).
The driver does not: `QueueTrans` waits for room in the transaction queue only,
and `IsrReturn` drops a result for which there is no room. `MayQueue` is
therefore an assumption about the client, and `InOrderOnce` says what it buys.

### FirstBoot

Each step of `bootloader_main()` between the partition table and the app that
burns an efuse, writes the digest, or reads, erases or writes a sector. The
state of a sector is whether it is intact and how often it has been encrypted; a
reading through the cache decrypts once or not at all, so an image verifies
exactly when its sectors have been encrypted as often as the mode says. `Cut`
comes between any two steps; a driver call may fail and leave the sector as it
was, as it was to be, or neither. The host does what `flash-encryption.rst` asks
for: `Repair` and `Reflash` write plaintext, `BumpCnt` burns the next bit of
`FLASH_CRYPT_CNT`, `ProtectCnt` ends that. A set-up has the host run
`make flash`, which writes bootloader, table and apps, no further than their
images go, or `make erase_flash flash`, which erases everything before. What
either makes plaintext again is `Restored`. `OtaUpdate` is the running app: it
has erased part of a slot and written part of that, and may stop anywhere.
Simplifications: the table has a factory app, which is what is booted;
`FLASH_CRYPT_CNT` is the number of its bits that are set, 4 instead of 8 in the
run; a torn sector counts as an erased one; a key is `open` until it is both
read and write protected; images are not longer than their partition.

### AppTrace

`in_block` and `markers` are the state of the module, `mem` the two blocks,
`ctrl` and `stat` the registers of each CPU. `Begin`, `LockTake`, `LockTimeout`
are the entry of `esp_apptrace_write()`, `_buffer_get()` and `_flush()`;
`SwitchRead`, `SwitchWrite`, `SwitchRefuse` are
`esp_apptrace_trax_block_switch()`, split where the host may halt the CPU;
`Alloc`, `Copy`, `Put` are the room, the data and the mark of a chunk, the last
two without the lock; `FlushClear` and `Unlock` the end of a flush or of a call
that gives up. A writer is on one CPU from taking the lock until it releases
it, with interrupts off; between `Alloc` and `Put` it may be held up for as long
as it takes, also until its block has been exchanged twice and belongs to
others. `book` is history: it notes for a block the chunk it began with and
whether such a late writer has written in it since (`spoiled`), and the two
statements about chunks except spoiled blocks, for which the TODO at
`app_trace.c:701` admits that nothing is ensured. The host is OpenOCD, external:
it connects and disconnects outside an update of a register, reads the block
that a CPU has exposed, and acknowledges it to both CPUs by clearing the length
and writing the block number. The comment at `app_trace.c:56-58` says that the
host should not modify the number; the check at `:586` needs it all the same,
which is the assumption `Syncs`. Lengths are in units of a header. A
write to a block that is exposed is taken to reach it.

## 4. The runs

Runs that pass:

| Run | Instance | Shows |
|---|---|---|
| `wl_cut` | 3 sectors, 4 pages, relocation at every second erase, one power cut inside an operation, any number of clean restarts and of power-offs between calls | `TypeOK`, `Durable`, `ImplementsVirtualDisk` |
| `wl_fault` | 3 sectors, ranges of up to 2 sectors, one driver error, one cut in the first mount, no later restart | `ImplementsVirtualDisk` |
| `wl_wear` | 3 sectors, relocation at every third erase, restarts by unmount | `WearSpread`: no page takes more than one round of erases before it becomes the dummy page |
| `ota_boot` | 3 slots, with and without factory app, 2 cuts or driver errors inside a selection, sequence numbers up to 8 (several rounds of all slots) | `TypeOK`, `BootPartitionAgrees`, `NeverHalted`, `ImplementsBootChoice` |
| `flash_guard` | 2 tasks, one of them free to migrate, 2 calls each, operations of 1 or 2 sections | `TypeOK`, `ChipAlone`, `NothingFromFlash`, `AssertsHold`, `HandoverKept`, `EveryCallEnds` |
| `nvs` | 3 pages of 3 entries, an integer and a blob of 2 entries, 2 values (the data of one begins with `0xffffffff`), 2 power cuts, 4 activations of a page | `TypeOK`, `NoDuplicates`, `PageInReserve`, `AppendsOnly`, `ImplementsKVStore` |
| `ringbuf` | 5 set-ups: buffers of 40 bytes without and with splitting, byte buffers of 13 bytes; up to 2 tasks and an interrupt handler that send, a task and a handler that receive; 4 items | `TypeOK`, `AssertsHold`, `ImplementsFifo`, `ReaderWoken`, `SendReturns` |
| `spi_master` | 2 devices with queues of 2 and 1, 2 slots, 3 transactions each; both tasks on the CPU of the handler with devices that come and go on a quiet bus, or one task on each CPU, with clients that keep to `queue_size` and, in one set-up, with clients that queue as much as they can | `DeviceReady`, `RightDevice`, `InOrderOnce`, `EveryTransEnds` |
| `first_boot` | 5 partitions and 12 sectors; with and without secure boot, keys burned before or on the device; a host that uses `make flash` or `make erase_flash flash`; an app shorter than its partition; 2 cuts, 1 driver error, 2 re-flashes | `TypeOK`, `EncryptedOnce`, `AppFindsItsData`, `KeysProtected`, `DigestGoesWithBootloader`, `ComesUp` |
| `app_trace` | 2 writers, one without a time-out, that move between the CPUs; and are held up as long as they like; chunks of 2 and 4 units in blocks of 5; 4 calls; a host that connects once | `TypeOK`, `NothingSkipped`, `MarkedIsComplete`, `ConnectionKept`, `EveryCallReturns` |

Why these bounds reach the interesting cases. `wl_*`: with 3 sectors the dummy
page wraps, `move_count` wraps and all state rewrites happen; the cut hits every
driver call. `ota_boot`: three slots are the least for which a sequence number
differs from a slot number modulo the count in more than one way, and 8 numbers
let both sectors be rewritten several times. `flash_guard`: two operations in a
row, from the same or from different CPUs, are what the hand-shake flags must
tell apart. `nvs`: pages are filled, moved and freed, the sequence numbers make
pages appear out of their order on the chip, a blob lies in one word of the
table or in two, and the second cut may hit the recovery from the first.
`ringbuf`: four items of 16 or 24 bytes go round a buffer of 40 more than once,
leave a dummy, split and wait for room; a byte buffer wraps in the middle of an
item. The set-ups keep away from what section 5 shows to go wrong: entries that
end within four bytes of the end, items without data, byte buffers with two
writers, with a time-out, or with an item that nearly fills them. In each of
them a single task blocks in a read, so that two tasks waiting for the one binary
semaphore are not covered, and a writer for which the free bytes are not in one
piece polls: that it gets on rests on time slicing.
`spi_master`: two slots are the least in which one device takes over the slot of
another, and three transactions fill the queues and pause in between; a queue
of one makes a client that queues ahead lose a result.
`first_boot`: the second cut may hit the boot after the first, and with 4 bits
two re-flashes use up the counter. `app_trace`: a block of two small chunks or
one large one is full, so four calls expose three blocks, each on either CPU,
before, during and after a connection, and let a block come round under a writer
that is held up; the block numbers do not wrap within them.

Deadlock is checked in the runs of `WLFlash`, `OtaBoot` and `FlashGuard`. The
other runs end when the number of calls, items or page activations is used up
or, in `nvs`, when an assertion fails. `Nvs` stops at a failed assertion: what
`nvs` shows holds up to there, and `nvs_move` shows how one fails.

Values are symmetric in the wear levelling runs, where no liveness property is
checked.

## 5. Findings and other configurations

Runs in which TLC refutes what a document or a comment says:

| Run | Property | Where | What happens |
|---|---|---|---|
| `nvs_move` | `NeverAborts` | `nvs_pagemanager.cpp:88` | A cut while a blob is moved costs entries of the new page; the rest does not fit and load() fails at every start |
| `ring_wrap` | `NoOvertaking` | `ringbuf.c:146` | An item ends within less than a header of the end: the write pointer wraps onto a read pointer at the start, and a full buffer counts as empty |

Other configurations of the same modules, checked while the models were
written and not kept as runs:

| Module and change | Result |
|---|---|
| `WLFlash`, `N = 2`, `MaxCount = 2`, `MaxRun = 1`, `MaxOpCuts = 1`, `MaxBootCuts = 1` | `ImplementsVirtualDisk` fails: a cut while a broken state 1 is rewritten, after the header and before the position bytes, and the next mount trusts it (`WL_Flash.cpp:185`), where `wl_sw_structure.rst:60` says the state is recovered |
| `WLFlash`, `N = 3`, `MaxCount = 1`, `MaxRun = 2`, no cuts | `Durable` fails: a write of two sectors passes its whole size to each driver call and reaches the state sector (`WL_Flash.cpp:434`) |
| `WLFlash`, `MaxOpCuts = 2` | `Durable` fails: a missing position byte in state 2 is never repaired (`WL_Flash.cpp:140`, `:321`, `:327`) |
| `WLFlash`, `MaxFaults = 1` with restarts | `Durable` fails: an error between the two marks, or a failed read of state 1 (`WL_Flash.cpp:327`, `:109`) |
| `WLFlash`, `N = 4`, `MaxRun = 3` | `ImplementsVirtualDisk` fails: a write programs its neighbours (`WL_Flash.cpp:434`) |
| `WLWear`, `Restarts = {"idle"}` | `WearSpread` fails: the access count is not stored (`WL_Flash.cpp:241`) |
| `OtaBoot`, `Interrupts = {"format"}` | `ImplementsBootChoice` fails: half-initialised OTA data is taken as a choice (`bootloader_start.c:331`) |
| `OtaBoot`, `NOta = 2`, `Interrupts = {"reset"}` | `NeverHalted` fails: a cut between the two erases of a return to the factory app selects an older app, which may be half written (`esp_ota_ops.c:389`), where `ota.rst:25` says the two sectors remove the problem of a power failure |
| `OtaBoot`, `Careful = FALSE` | `NeverHalted` fails: `esp_ota_begin()` refuses the running app only, not the one to be booted next (`esp_ota_ops.c:97`) |
| `OtaBoot`, `HasTest = TRUE` | `ImplementsBootChoice` fails: the test app is accepted and not selected (`esp_ota_ops.c:397`) |
| `FlashGuard`, property `BlockingWaits` | fails: the blocking call is acknowledged before its function runs (`ipc.c:101`; `esp_ipc.h:72` says it returns after) |
| `FlashGuard`, `Sources = {"ram", "flash"}`, property `SourceReadable` | fails: the copy in RAM is made and not used, so data in flash is read with the cache off (`flash_ops.c:250`, comment at `:229`) |
| `FlashGuard`, 3 tasks, 1 call each | all properties hold |
| `Nvs`, integers only, 3 entries, 1 cut | all properties hold, `NeverAborts` included |
| `Nvs`, integers only, 2 entries, 2 cuts | `NeverAborts` fails: each cut in a move costs an entry of the new page |
| `Nvs`, 2 pages of 4 entries, blob, 1 cut | `NeverAborts` fails: an item that is half erased in a full page makes the number of used entries differ (`nvs_pagemanager.cpp:172`); the other properties hold |
| `Nvs`, `Hash <- HashClash` | `ImplementsKVStore` fails: load() erases another key with the same 24-bit hash (`nvs_page.cpp:520`, `:549`), where `README.rst:230` says collisions are handled |
| `RingBuf`, `EmptyItemSetups` | `AssertsHold` fails: the pointer to an item without data may be one past the end, which the assertion on its return refuses (`ringbuf.c:343`; `ringbuf.h:88` allows a size of 0) |
| `RingBuf`, `SharedSetups` | `ImplementsFifo` fails: the copy into a byte buffer does not check for room again, contrary to the comment above it, and overwrites what another writer has just sent (`ringbuf.c:514`, comment at `:512`) |
| `RingBuf`, `TimedSetups` | `ImplementsFifo` fails: when the time is up the loop ends and the byte buffer is written without room (`ringbuf.c:508`) |
| `RingBuf`, `FullSetups` | `SendReturns` fails: the largest item that is accepted (`ringbuf.c:423`) never gets the room for a header that is asked for (`:472`) |
| `SpiMaster`, `TwoCpuSetups`, property `EnableIsEnough` | fails: the handler finds nothing, a task of the other CPU queues and enables, the handler disables (`spi_master.c:377-386`, `:576-578`; comment at `:150`) |
| `SpiMaster`, `AheadSetups`, property `QueueSizeIsTheLimit` | fails: a task that queues without looking for results has up to `2 * queue_size + 1` transactions in the air (`spi_master.c:576`), and the result for which there is no room is dropped (`:370`), so that the last conjunct of `InOrderOnce` and `EveryTransEnds` fail without `Counted`; `spi_master.h:57` says that `queue_size` is how many can be in the air |
| `SpiMaster`, `HotPlugSetups` | `DeviceReady` fails: the handler follows the dummy pointer of a reserved slot (`spi_master.c:199`) |
| `SpiMaster`, `Results = {"ok", "invalid", "nomem"}` | `DeviceReady` fails: after an error the slot keeps the dummy or a freed device (`spi_master.c:204-207`) |
| `FirstBoot`, property `MakeFlashIsEnough` | fails for a host that does not erase the flash: OTA data is encrypted unconditionally, and a second time when the host has flashed everything else (`flash_encrypt.c:290`); so is what lies behind the image of an app (`:300`). `flash-encryption.rst:154` says that `make flash` flashes all that needs it |
| `FirstBoot`, `BeyondRepair` without its third case | `ComesUp` fails: a cut between the burning of the key and its protection makes every later boot refuse the key (`flash_encrypt.c:89-93`; `flash-encryption.rst:63`) |
| `AppTrace`, without the exception for spoiled blocks | `MarkedIsComplete` and `NothingSkipped` fail: a writer that is held up until its block has come round writes into the chunks of others and over their headers (the TODO at `app_trace.c:701`) |
| `AppTrace`, `MaxCalls = 5` | the invariants hold, also of a block that has been spoiled and is the input block again |
| `AppTrace`, `Syncs = FALSE` | `EveryCallReturns` fails: a host that only clears the length, as the comment at `app_trace.c:56-58` asks, never satisfies the check of the block number on the other CPU (`:586`) |
| `AppTrace`, `IdMod = 2` | `NothingSkipped` fails: with one bit, which `app_trace.c:58` says would be enough, the stale number of the other CPU may be the right one; with two bits it holds |
| `AppTrace`, `Sizes = {1, 5}`, without the assumption that a chunk fits | `TypeOK` fails: the room is not checked again after the switch, and a chunk as long as a block reaches past it (`app_trace.c:665`) |

## 6. Fairness

`FlashGuard`: each task and each IPC task that can take a step eventually takes
one: FreeRTOS slices time among tasks of the same priority, the IPC tasks have
the highest, and a task that is parked in a busy loop is the only one of its CPU
by intent. `RingBuf`: calls in progress go on and a task that reads gives back
what it was handed and reads again; a wait for a semaphore that is given ends.
`SpiMaster`: the hardware ends transfers, an enabled and pending interrupt is
served, calls in progress go on. `AppTrace`: calls in progress go on, and a
connected host reads and acknowledges; without that a call without a time-out
waits by design. `FirstBoot`: the bootloader runs on and a device that stands
still is reset; strong fairness of `Repair` and `BumpCnt` is the user who in the
end follows the documentation, which is the recovery that the code relies on.

The beginning of another call is not fair, since the application decides on it,
and calls that begin are bounded in number: starvation by an endless stream of
calls of others is outside the models. `WLFlash`, `OtaBoot` and `Nvs` state
safety only: between two flash operations power may stay off for ever.

## 7. Proofs

Each proof module extends the module it is about; constants are arbitrary under
the assumptions that module names. A theorem with a hypothesis (`ASSUME ...
PROVE`) names the configurations in which the code keeps the property; the runs
are among them.

### Wear levelling

`WLFlashProofs` extends `WLFlash`. Constants are arbitrary under `NAssumption`
(at least one sector) and `BoundsAssumption` (bounds are numbers).

* `TypeCorrect`: `Spec => []TypeOK`, with no restriction of cuts and errors. The
  inductive invariant adds `JobOK`: which call is in progress at which step and
  that the rest of its range lies on the disk.
* `DurableCorrect`: `Spec => []Durable` under `Budget`: no driver error, writes
  of one sector, and either one cut inside operations and none inside a mount,
  or any number of cuts inside mounts only. Section 5 shows that the code does
  not keep the property beyond it.
* `RefinesVirtualDisk`: `Spec => ImplementsVirtualDisk` under the same budget,
  for every number of sectors: every step but those of the client's own call
  leaves the array as it is, and those change only the sector that is due.

The inductive invariant is `IInv == TypeOK /\ JobOK /\ StateOK`. `Durable` is
not inductive: it speaks of states between calls only. `StateOK` says for each
step what the two state sectors hold: both the same move count and, in state 1,
a set of position bytes that stands for the position in RAM; at the end of a
round, state 2 still the end of the last round while state 1 is rewritten, and
that page 0 has been copied to page N; in a repair, which copy is complete.
After a cut one position byte may be missing in state 2 (`opCuts = 0 => ...`).
The argument for the refinement: the mapping `calcAddr` is described without
its modulus (`ModFact` and the lemmas after it); a relocation changes the
mapping of one sector, from the page that was copied to the copy, at the very
step that marks state 1; the end of a round changes `move_count` and the
position together and no address; and a mount recovers the pair that was in
force (`NextMountIs`, `CurrentIs`). The call that `VirtualDisk` sees ends with
the last driver call that it asked for, or with a failure. `RecoverPosIs` says which position a set of
position bytes stands for; that every set has one follows from the least number
that is missing in it.

`WLWearProofs` extends `WLWear` and `WLFlashProofs`.

* `WearIsSpread`: `WearSpec => []WearSpread` for every number of sectors and
  every update rate, under `Careful`: the budget above with no cut inside an
  operation and no restart of an idle device without `wl_unmount()`, since the
  access count is lost there (section 5).

`WearSpread` alone is not inductive: a count of `RoundErases` is harmless only
when the dummy page is about to reach the watched page. `WearInv` bounds the
count by the position of the dummy page: `MaxCount` for every relocation since
it left the watched page, and after the last of them what the access count has
let through. That no erase of the client reaches the dummy page is `AddrRange`,
and that mounts and repairs find the position where it was is `MappingKept`.

### Flash operations on two CPUs

`FlashGuardProofs`: `GuardTypeCorrect`, `ChipIsAlone`, `NothingRunsFromFlash`,
`NoAssertFires` and `FunctionIsKept`, for any set of tasks with any affinity and
any number of calls and chunks. No hypothesis but the assumptions on the
constants; `IpcTaskAssumption` says that the two IPC tasks are two, and no
tasks of the application. The inductive invariant is `TypeOK` and six parts:
who has the two mutexes (`MutexInv`), how far the operation of each task is
(`CallInv`), that at most one call is posted or acknowledged, that of the task
which has the mutex and waits (`HandoverInv`), who has suspended a scheduler
(`SchedInv`), whose cache is off and whose interrupts are masked (`MaskInv`),
and where the other CPU is while a task goes through the guard (`ParkInv`). The
last one carries the argument: `s_flash_op_can_start` and
`s_flash_op_complete` are plain variables, and what they say is true of the
right operation only because the mutex is released after the other CPU has
left its loop or is certain to leave it before it looks at them again.

### Secure boot and flash encryption

`FirstBootProofs`: `DeviceTypeCorrect`, `KeysStayProtected`,
`DigestIsNotParted`, `NeverEncryptedTwice` and `AppDataIsWhole` for any partition
table, any sizes and any number of cuts, write errors and re-flashes, whichever
of the two recipes the host uses. The last two speak of the sectors that the
recipe makes plaintext again (`Restored`): images with `make flash`, everything
with `make erase_flash flash`. Of other sectors they are false (section 5).
`FirstBootAssumption` has the entries of the partition table distinct. The
inductive invariant says what the bootloader has found out and burned at each
step (`StageInv`), that the bootloader which runs was readable (`BootInv`), that
before encryption is on the restored sectors of what must be encrypted are
plain, or once encrypted as far as the pass in progress has come (`Fresh`,
`PassInv`), and that when it is
on a pass came to its end or the host has flashed since (`Done`). An OTA slot is
encrypted from its first sector on, so that its first sector tells whether it
was (`SlotInv`).

### OTA data

`OtaBootProofs`: `OtaTypeCorrect` and `AppIsToldTheTruth` for any number of slots
and any interrupts; `SelectingIsAtomic`, the refinement of `BootChoice`, under
`OnlySelections` (only `esp_ota_set_boot_partition()` of a slot is interrupted,
there is no test app); `AlwaysBoots` under `OnlySelections` and `Careful`. The
configurations of section 5 that violate these hypotheses refute the
statements. In the refinement a return with `ESP_OK` has to be `Commit`: the
choice is then the slot that was asked for. The inductive invariant has the
three parts that belong to them.
The first says that without a factory app there is always a valid entry. The
second orders the sequence numbers of the two sectors during a selection: the
sector that is rewritten is the older one, and the new number is the least one
above the other that stands for the slot, which is `(seq - 1) % NOta`; the
lemmas about that arithmetic are at the head of the module. The third says that
where the next boot looks, whenever it is, there is an image.

### SPI master

`SpiMasterProofs`: `HandlerFollowsOnlyDevices`, `TransfersAreForTheirDevice` and
`ResultsComeInOrderOnce` for any number of devices, slots, queue sizes and
transactions, under `CarefulUse`: no device is refused, and devices are added
once before anything is queued, with clients that queue as much as they like; or
they come and go while the tasks of the others have nothing on the bus, all are
on the CPU of the handler and have no more than `queue_size` in the air. The
driver takes no lock, and section 5 shows `DeviceReady` false for an application
that is less careful. The core of the inductive invariant is `Ordered`: return
queue, hardware, the hands of the handler and transaction queue of a device hold
rising numbers, from the next result to the last transaction queued. Hardware,
handler and transaction queue have no gap; the return queue has none either for
clients that count. Each step that moves a transaction from one place to the
next has a lemma (`OrderedQueue`, `OrderedTake`, `OrderedStart`,
`OrderedReturn`, `OrderedGet`); `JoinRising` and `PipelineRises` put the places
together.
`HwInv` and `IsrInv` say for which device the hardware is set up and when the
handler may skip the set-up; `OnceInv` and `QuietInv` are what careful use
amounts to in each state.

### Application tracing

`AppTraceProofs`: `TraceTypeCorrect` and `ConnectionIsKept` for any number of
writers, any size of the blocks and any chunks below it (`AppTraceAssumption`;
a chunk as long as a block is the last line of section 5). `RoomInv` is the
strengthening that `TypeOK` needs: at the allotment, after a switch of blocks
as well, there is room; it holds because only the call with the lock allots
(`LockInv`). Both hold whatever late writers do. `ConnectionKept` needs `UpdateInv`: while a control register is
being updated the host has been told and keeps off the bit.

### Non-volatile storage

`NvsProofs` extends `Nvs`: `AlwaysPageInReserve`, `NvsTypeCorrect`,
`NeverProgrammedTwice` and `NoKeyStoredTwice`, for any number of pages, entries and keys, any lengths,
any hashes and any number of power failures, with no hypothesis but
`NvsAssumption`. The proof is in layers.

`PageInvs` (theorem `PageInvsInvariant`) is about headers and lists. `FlashInv`
holds of the flash alone and so survives a power failure: numbers of pages in
use differ, the active page has the highest one, at most one page is being
freed, and if every page is in use one of them is being freed and the active
one takes its items. The last part is what `PageInReserve` comes from, and it is
not true of the lists alone. `ListInv` says that the two lists are the pages in
use in the order of their numbers and the rest; that `BuildLists` finds such an
order is `OrderedExists`, by the least number of pages that could not be
ordered. `StageInv` says for each step which pages are active, full or being
freed.

`IInv` (theorem `EntriesStaySound`) adds the entries. `EntryInv` has each page in
use `Sound`: items do not overlap, every written entry belongs to an item, the
first entry of an item is not erased before its last one, whatever the size of
the words in which the table is written. The active page has a `Phase` that
belongs to the step that is due: free from an entry on (`Clean`), or with an item
of `writeItem()` (`Placed`, `Opened`, `Filling`) or `moveItem()` (`Receiving`,
`Received`) under way, or somewhere in `load()` (`Loadable`, `Halving`,
`Scanning`). Lemma `PhaseLoadable` is the core of the crash argument: at
whatever step power fails, also in the middle of a write, `load()` finds a page
in which at most the last item is incomplete, and what was begun beyond the
table shows. `CallInv` has the item that a call replaces where it was, or moved
(`WasInv`). `TypeOK` needs all of this because an item that ran past its page, or
an entry taken for the head of an item that is not one, would break it.

`DInv` (theorem `OneCopyButTheLast`) adds what the items are, for `NoDuplicates`.
`NoDuplicates` speaks of the moments between calls only; `CopyInv` of all
others. A key may be stored twice, but then one of the two is the last item of
the active page (`UniqueButLatest`), because that is where `writeItem()` and
`moveItem()` put it before they erase the old one; and it is only there that
`PageManager::load()` looks for a key that is stored twice. Lemma `ThreeCopies`
draws from it that no key is ever stored three times, so that the one item that
`EraseOlder` erases was the only other one. Two copies on the active page itself
are the business of `Page::mLoadEntryTable()`: behind the entry that it has
come to, no two items have the same hash (`Apart`), hence not the same key. A
key that was not there when a call began is still absent until its item is
counted (`Absent`). `WholeInv` is about data: items of full pages have all of it;
an item of the active page is incomplete only if it is the one being written,
moved or erased, or if `load()` has not come to it yet (`Done`), and one whose
entries are all counted has all its data, since `writeEntryData()` comes before
the table is told. Without it the value that is read could be that of an item
whose data a power failure cut short. Nothing is assumed of `Hash`: with keys
whose hashes collide `load()` erases a key too many, but never leaves one twice.

### What is only model-checked

* Liveness, which is out of the prover's reach: `EveryCallEnds`, `ReaderWoken`,
  `SendReturns`, `EveryTransEnds`, `ComesUp`, `EveryCallReturns`.
* `NothingSkipped` and `MarkedIsComplete` of `AppTrace`: they speak of the chunks
  of a block, which a recursive function reads off the memory, and the prover
  does no induction over what such a function returns. They are also bounded
  statements: with as many switches of blocks as there are block numbers, an
  old number in a control register matches again.
* `ImplementsKVStore` of `Nvs`. The refinement is false for keys whose hashes
  collide, so that it would be a theorem about a hypothesis on `Hash` that the
  code does not ensure.
* `RingBuf`: `TypeOK` and `AssertsHold` are false for lengths that reach the end
  of the buffer (`ring_wrap`), and the walks over the buffer are recursive.
* `wl_fault`: `ImplementsVirtualDisk` with driver errors and two-sector calls.

## 8. What is not modelled

Within the modelled components: a change of the stored version, `WL_Flash::read`
across pages, sectors larger than pages, the handle table and its locks
(`wear_levelling`); image contents beyond whether they verify,
`esp_ota_get_next_update_partition()` (with a single OTA slot it returns the
running one, `esp_ota_ops.c:537`); single-core builds, operations before the
scheduler runs and in the panic handler, alignment, encrypted writes
(`spi_flash`); namespaces, handles, types, `nvs_erase_all`, driver errors
(`nvs_flash`); queue sets, deletion and failed allocation (`ringbuf`); pins,
clocks, DMA and callbacks (`spi_master`); signatures and other cryptography, test
mode, images longer than their partition (`bootloader_support`); formatted
output, the flush without the lock on panic, and the arithmetic of time-outs
(`app_trace`: the cycle counter wraps every 17.9 s at 240 MHz, so that a longer
time-out never expires, `app_trace.c:338-343`). Nothing is claimed of the
transactions of a client that queues ahead but that results which do come are in
order and come once (`spi_master`). A function that is run by inter-processor call and operates on
the flash itself would deadlock; no caller in the repository does that.

Other components are listed in `PROJECT.json` with the reason: third-party and
vendored code (Bluedroid, lwIP, mbedTLS, wpa_supplicant, newlib, FATFS, expat,
cJSON, nghttp2, libcoap, OpenSSL shim, AWS IoT), register-level drivers, host
tools, examples and documentation; and Espressif's own components that section
2 plans for. Most of the lines of the repository belong to the first kinds, so
the modelled lines are a small share of all of them.
