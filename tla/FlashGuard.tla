----------------------------- MODULE FlashGuard -----------------------------
(***************************************************************************)
(* The guard around every operation on the SPI flash, on two CPUs          *)
(* (spi_flash/cache_utils.c), and the loops of spi_flash/flash_ops.c that  *)
(* take it once per chunk.                                                 *)
(*                                                                         *)
(* While the chip is erased, programmed or read, neither CPU may fetch     *)
(* code or data through its cache.  The task that operates takes a mutex,  *)
(* has the IPC task of the other CPU park that CPU in                      *)
(* spi_flash_op_block_func(), and turns off its own scheduler, the         *)
(* interrupts with handlers in flash, and its cache; two flags do the      *)
(* hand-shake.                                                             *)
(***************************************************************************)
EXTENDS Ipc

CONSTANTS
    MaxChunks,   \* guarded sections of one operation
    Sources      \* where the data of a write may be: "ram" or "flash"

ASSUME GuardAssumption ==
    /\ MaxChunks \in Nat \ {0}
    /\ Sources \subseteq {"ram", "flash"}

VARIABLES
    s_flash_op_mutex,      \* the task that holds the mutex
    s_flash_op_can_start,
    s_flash_op_complete,
    s_flash_op_cpu,        \* the CPU that operates, None otherwise
    cache,                 \* whether the cache of a CPU is on
    nonIram,               \* whether interrupts with handlers in flash are enabled
    op                     \* of a task: CPU it was on, sections left, source of data

guardVars == <<s_flash_op_mutex, s_flash_op_can_start, s_flash_op_complete,
               s_flash_op_cpu, cache, nonIram, op>>
vars == <<pc, left, call, suspended, ipcVars, guardVars>>

None == 2
NoOp == [cpu |-> None, chunks |-> 0, src |-> "none"]

AppPcs == {"app", "ipc_mutex", "ipc_post", "ipc_ack", "ipc_unlock"}
GuardPcs == {"f_lock", "f_cpu", "f_claim", "f_spin", "f_suspend", "f_intr", "f_cache", "f_op",
             "f_end", "f_complete", "f_enable", "f_resume", "f_unlock", "m_lock", "m_unlock"}
BlockPcs == {"func", "b_intr", "b_cache", "b_clear", "b_start", "b_spin", "b_restore",
             "b_enable", "b_resume"}

TypeOK ==
    /\ pc \in [Tasks -> AppPcs \cup GuardPcs]
    /\ left \in [Tasks -> 0 .. MaxCalls]
    /\ call \in [Tasks -> Calls]
    /\ s_func \in Jobs
    /\ s_ipc_wait \in Waits
    /\ s_ipc_mutex \in Tasks \cup {NoOne}
    /\ s_ipc_sem \in [CPUs -> BOOLEAN]
    /\ s_ipc_ack \in BOOLEAN
    /\ ipc \in [CPUs -> [at : {"wait", "fetch", "begin", "end"} \cup BlockPcs, job : Jobs]]
    /\ suspended \in [CPUs -> Tasks \cup {NoOne} \cup {IpcTask[c] : c \in CPUs}]
    /\ s_flash_op_mutex \in Tasks \cup {NoOne}
    /\ s_flash_op_can_start \in BOOLEAN
    /\ s_flash_op_complete \in BOOLEAN
    /\ s_flash_op_cpu \in CPUs \cup {None}
    /\ cache \in [CPUs -> BOOLEAN]
    /\ nonIram \in [CPUs -> BOOLEAN]
    /\ op \in [Tasks -> [cpu : CPUs \cup {None}, chunks : 0 .. MaxChunks, src : Sources \cup {"none"}]]

Init ==
    /\ IpcInit
    /\ s_flash_op_mutex = NoOne
    /\ s_flash_op_can_start = FALSE
    /\ s_flash_op_complete = FALSE
    /\ s_flash_op_cpu = None
    /\ cache = [c \in CPUs |-> TRUE]
    /\ nonIram = [c \in CPUs |-> TRUE]
    /\ op = [t \in Tasks |-> NoOp]

-----------------------------------------------------------------------------
(* spi_flash_disable_interrupts_caches_and_other_cpu(), run by t on c.     *)

\* spi_flash_write() begins, or spi_flash_erase_range() or spi_flash_read(),
\* which have no source buffer.
FlashOp(t, c) ==
    /\ pc[t] = "app" /\ MayRun(t, c) /\ left[t] > 0
    /\ left' = [left EXCEPT ![t] = @ - 1]
    /\ \E n \in 1 .. MaxChunks, s \in Sources \cup {"none"} :
          op' = [op EXCEPT ![t] = [cpu |-> None, chunks |-> n, src |-> s]]
    /\ Goto(t, "f_lock")
    /\ UNCHANGED <<call, suspended, ipcVars, s_flash_op_mutex, s_flash_op_can_start,
                   s_flash_op_complete, s_flash_op_cpu, cache, nonIram>>

OpLock(t, c) ==
    /\ pc[t] = "f_lock" /\ MayRun(t, c)
    /\ s_flash_op_mutex = NoOne
    /\ s_flash_op_mutex' = t
    /\ Goto(t, "f_cpu")
    /\ UNCHANGED <<left, call, suspended, ipcVars, s_flash_op_can_start, s_flash_op_complete,
                   s_flash_op_cpu, cache, nonIram, op>>

\* From here on the task believes to be on c, but it may still migrate.
ReadCore(t, c) ==
    /\ pc[t] = "f_cpu" /\ MayRun(t, c)
    /\ op' = [op EXCEPT ![t].cpu = c]
    /\ Goto(t, "f_claim")
    /\ UNCHANGED <<left, call, suspended, ipcVars, s_flash_op_mutex, s_flash_op_can_start,
                   s_flash_op_complete, s_flash_op_cpu, cache, nonIram>>

ClaimOp(t, c) ==
    /\ pc[t] = "f_claim" /\ MayRun(t, c)
    /\ s_flash_op_cpu' = op[t].cpu
    /\ s_flash_op_can_start' = FALSE
    /\ Call(t, 1 - op[t].cpu, "block", "start", "f_spin")
    /\ Goto(t, "ipc_mutex")
    /\ UNCHANGED <<left, suspended, ipcVars, s_flash_op_mutex, s_flash_op_complete,
                   cache, nonIram, op>>

\* The busy loop on s_flash_op_can_start.
SpinCanStart(t, c) ==
    /\ pc[t] = "f_spin" /\ MayRun(t, c)
    /\ IF s_flash_op_can_start THEN Goto(t, "f_suspend") ELSE UNCHANGED pc
    /\ UNCHANGED <<left, call, suspended, ipcVars, guardVars>>

SuspendOwn(t, c) ==
    /\ pc[t] = "f_suspend" /\ MayRun(t, c)
    /\ suspended' = [suspended EXCEPT ![c] = t]
    /\ Goto(t, "f_intr")
    /\ UNCHANGED <<left, call, ipcVars, guardVars>>

MaskOwn(t, c) ==
    /\ pc[t] = "f_intr" /\ MayRun(t, c)
    /\ nonIram' = [nonIram EXCEPT ![c] = FALSE]
    /\ Goto(t, "f_cache")
    /\ UNCHANGED <<left, call, suspended, ipcVars, s_flash_op_mutex, s_flash_op_can_start,
                   s_flash_op_complete, s_flash_op_cpu, cache, op>>

DisableOwn(t, c) ==
    /\ pc[t] = "f_cache" /\ MayRun(t, c)
    /\ cache' = [cache EXCEPT ![op[t].cpu] = FALSE]
    /\ Goto(t, "f_op")
    /\ UNCHANGED <<left, call, suspended, ipcVars, s_flash_op_mutex, s_flash_op_can_start,
                   s_flash_op_complete, s_flash_op_cpu, nonIram, op>>

\* Where esp_rom_spiflash_write() takes its data from.  Data in flash is copied
\* to write_buf first, but the call is given the caller's buffer all the same.
WriteSource(t) == op[t].src

\* The ROM function works on the chip.  After an error no chunk follows.
Operate(t, c) ==
    /\ pc[t] = "f_op" /\ MayRun(t, c)
    /\ \E n \in {op[t].chunks - 1, 0} : op' = [op EXCEPT ![t].chunks = n]
    /\ Goto(t, "f_end")
    /\ UNCHANGED <<left, call, suspended, ipcVars, s_flash_op_mutex, s_flash_op_can_start,
                   s_flash_op_complete, s_flash_op_cpu, cache, nonIram>>

-----------------------------------------------------------------------------
(* spi_flash_enable_interrupts_caches_and_other_cpu().                     *)

RestoreOwn_KeepCpu(t, c) ==
    /\ pc[t] = "f_end" /\ MayRun(t, c)
    /\ cache' = [cache EXCEPT ![c] = TRUE]
    /\ Goto(t, "f_complete")
    /\ UNCHANGED <<left, call, suspended, ipcVars, s_flash_op_mutex, s_flash_op_can_start,
                   s_flash_op_complete, s_flash_op_cpu, nonIram, op>>
RestoreOwn(t, c) ==
    /\ pc[t] = "f_end" /\ MayRun(t, c)
    /\ s_flash_op_cpu' = None
    /\ cache' = [cache EXCEPT ![c] = TRUE]
    /\ Goto(t, "f_complete")
    /\ UNCHANGED <<left, call, suspended, ipcVars, s_flash_op_mutex, s_flash_op_can_start,
                   s_flash_op_complete, nonIram, op>>

SetComplete_Not(t, c) ==
    /\ pc[t] = "f_complete" /\ MayRun(t, c)
    /\ Goto(t, "f_enable")
    /\ UNCHANGED <<left, call, suspended, ipcVars, guardVars>>
SetComplete(t, c) ==
    /\ pc[t] = "f_complete" /\ MayRun(t, c)
    /\ s_flash_op_complete' = TRUE
    /\ Goto(t, "f_enable")
    /\ UNCHANGED <<left, call, suspended, ipcVars, s_flash_op_mutex, s_flash_op_can_start,
                   s_flash_op_cpu, cache, nonIram, op>>

UnmaskOwn(t, c) ==
    /\ pc[t] = "f_enable" /\ MayRun(t, c)
    /\ nonIram' = [nonIram EXCEPT ![c] = TRUE]
    /\ Goto(t, "f_resume")
    /\ UNCHANGED <<left, call, suspended, ipcVars, s_flash_op_mutex, s_flash_op_can_start,
                   s_flash_op_complete, s_flash_op_cpu, cache, op>>

ResumeOwn(t, c) ==
    /\ pc[t] = "f_resume" /\ MayRun(t, c)
    /\ suspended' = [suspended EXCEPT ![c] = NoOne]
    /\ Goto(t, "f_unlock")
    /\ UNCHANGED <<left, call, ipcVars, guardVars>>

\* With the mutex free again, the operation goes on with its next chunk.
OpUnlock_Again(t, c) ==
    /\ pc[t] = "f_unlock" /\ MayRun(t, c)
    /\ s_flash_op_mutex' = NoOne
    /\ Goto(t, "f_lock") /\ op' = [op EXCEPT ![t].cpu = None]
    /\ UNCHANGED <<left, call, suspended, ipcVars, s_flash_op_can_start, s_flash_op_complete,
                   s_flash_op_cpu, cache, nonIram>>
OpUnlock(t, c) ==
    /\ pc[t] = "f_unlock" /\ MayRun(t, c)
    /\ s_flash_op_mutex' = NoOne
    /\ IF op[t].chunks > 0
       THEN Goto(t, "f_lock") /\ op' = [op EXCEPT ![t].cpu = None]
       ELSE /\ Goto(t, IF op[t].src = "none" THEN "app" ELSE "m_lock")
            /\ op' = [op EXCEPT ![t] = NoOp]
    /\ UNCHANGED <<left, call, suspended, ipcVars, s_flash_op_can_start, s_flash_op_complete,
                   s_flash_op_cpu, cache, nonIram>>

\* At the end of a write spi_flash_mark_modified_region() is called, with the
\* mutex alone.
MarkLock(t, c) ==
    /\ pc[t] = "m_lock" /\ MayRun(t, c)
    /\ s_flash_op_mutex = NoOne
    /\ s_flash_op_mutex' = t
    /\ Goto(t, "m_unlock")
    /\ UNCHANGED <<left, call, suspended, ipcVars, s_flash_op_can_start, s_flash_op_complete,
                   s_flash_op_cpu, cache, nonIram, op>>

MarkUnlock(t, c) ==
    /\ pc[t] = "m_unlock" /\ MayRun(t, c)
    /\ s_flash_op_mutex' = NoOne
    /\ Goto(t, "app")
    /\ UNCHANGED <<left, call, suspended, ipcVars, s_flash_op_can_start, s_flash_op_complete,
                   s_flash_op_cpu, cache, nonIram, op>>

-----------------------------------------------------------------------------
(* spi_flash_op_block_func(), run by the IPC task of CPU c.                *)

Block(c, from, to) ==
    /\ ipc[c].at = from /\ ipc[c].job.fn = "block"
    /\ Jump(c, to)
    /\ UNCHANGED <<pc, left, call, s_func, s_ipc_wait, s_ipc_mutex, s_ipc_sem, s_ipc_ack,
                   s_flash_op_mutex, s_flash_op_cpu, op>>

BlockSuspend(c) ==
    /\ Block(c, "func", "b_intr")
    /\ suspended' = [suspended EXCEPT ![c] = IpcTask[c]]
    /\ UNCHANGED <<s_flash_op_can_start, s_flash_op_complete, cache, nonIram>>

BlockMask_Not(c) ==
    /\ Block(c, "b_intr", "b_cache")
    /\ UNCHANGED <<suspended, s_flash_op_can_start, s_flash_op_complete, cache, nonIram>>
BlockMask(c) ==
    /\ Block(c, "b_intr", "b_cache")
    /\ nonIram' = [nonIram EXCEPT ![c] = FALSE]
    /\ UNCHANGED <<suspended, s_flash_op_can_start, s_flash_op_complete, cache>>

BlockDisable(c) ==
    /\ Block(c, "b_cache", "b_clear")
    /\ cache' = [cache EXCEPT ![c] = FALSE]
    /\ UNCHANGED <<suspended, s_flash_op_can_start, s_flash_op_complete, nonIram>>

\* The flag of the last operation is cleared here, not by the task that
\* operates.
BlockClear_Not(c) ==
    /\ Block(c, "b_clear", "b_start")
    /\ UNCHANGED <<suspended, s_flash_op_can_start, s_flash_op_complete, cache, nonIram>>
BlockClear(c) ==
    /\ Block(c, "b_clear", "b_start")
    /\ s_flash_op_complete' = FALSE
    /\ UNCHANGED <<suspended, s_flash_op_can_start, cache, nonIram>>

BlockStart(c) ==
    /\ Block(c, "b_start", "b_spin")
    /\ s_flash_op_can_start' = TRUE
    /\ UNCHANGED <<suspended, s_flash_op_complete, cache, nonIram>>

\* The busy loop on s_flash_op_complete.
BlockSpin(c) ==
    /\ Block(c, "b_spin", IF s_flash_op_complete THEN "b_restore" ELSE "b_spin")
    /\ UNCHANGED <<suspended, s_flash_op_can_start, s_flash_op_complete, cache, nonIram>>

BlockRestore(c) ==
    /\ Block(c, "b_restore", "b_enable")
    /\ cache' = [cache EXCEPT ![c] = TRUE]
    /\ UNCHANGED <<suspended, s_flash_op_can_start, s_flash_op_complete, nonIram>>

BlockUnmask(c) ==
    /\ Block(c, "b_enable", "b_resume")
    /\ nonIram' = [nonIram EXCEPT ![c] = TRUE]
    /\ UNCHANGED <<suspended, s_flash_op_can_start, s_flash_op_complete, cache>>

BlockResume(c) ==
    /\ Block(c, "b_resume", "end")
    /\ suspended' = [suspended EXCEPT ![c] = NoOne]
    /\ UNCHANGED <<s_flash_op_can_start, s_flash_op_complete, cache, nonIram>>

-----------------------------------------------------------------------------
Guard(t, c) ==
    \/ OpLock(t, c) \/ ReadCore(t, c) \/ ClaimOp(t, c) \/ SpinCanStart(t, c)
    \/ SuspendOwn(t, c) \/ MaskOwn(t, c) \/ DisableOwn(t, c) \/ Operate(t, c)
    \/ RestoreOwn(t, c) \/ SetComplete(t, c) \/ UnmaskOwn(t, c) \/ ResumeOwn(t, c)
    \/ OpUnlock(t, c) \/ MarkLock(t, c) \/ MarkUnlock(t, c)

BlockFunc(c) ==
    \/ BlockSuspend(c) \/ BlockMask(c) \/ BlockDisable(c) \/ BlockClear(c) \/ BlockStart(c)
    \/ BlockSpin(c) \/ BlockRestore(c) \/ BlockUnmask(c) \/ BlockResume(c)

\* The steps of a task inside a call, and those of an IPC task.
TaskStep(t) ==
    \E c \in CPUs : Guard(t, c) \/ (IpcCaller(t, c) /\ UNCHANGED guardVars)
IpcStep(c) == BlockFunc(c) \/ (IpcServer(c) /\ UNCHANGED guardVars)

\* Every task has made its calls.
Finished ==
    /\ \A t \in Tasks : pc[t] = "app" /\ left[t] = 0
    /\ UNCHANGED vars

Next ==
    \/ \E t \in Tasks, c \in CPUs : FlashOp(t, c) \/ (CallIpc(t, c) /\ UNCHANGED guardVars)
    \/ \E t \in Tasks : TaskStep(t)
    \/ \E c \in CPUs : IpcStep(c)
    \/ Finished

Spec == Init /\ [][Next]_vars

\* A task that can go on is given a CPU sooner or later (time slices), and so is
\* an IPC task.  Whether the application makes another call is up to it.
Fairness ==
    /\ \A t \in Tasks : WF_vars(TaskStep(t))
    /\ \A c \in CPUs : WF_vars(IpcStep(c))

FairSpec == Spec /\ Fairness

-----------------------------------------------------------------------------
\* While the chip is busy, both caches are off and the other CPU spins in
\* spi_flash_op_block_func(): nothing can reach the flash through a cache.
ChipAlone ==
    \A t \in Tasks : pc[t] = "f_op" =>
        \E c \in CPUs :
            /\ suspended[c] = t
            /\ \A d \in CPUs : ~cache[d]
            /\ ipc[1-c].at = "b_spin" /\ ~s_flash_op_complete

\* A CPU without its cache executes nothing that lies in flash: its scheduler
\* is suspended by the code of the guard itself, and the interrupts whose
\* handlers are in flash are masked.
NothingFromFlash ==
    \A c \in CPUs : ~cache[c] =>
        /\ ~nonIram[c]
        /\ \/ suspended[c] = IpcTask[c] /\ ipc[c].at \in BlockPcs
           \/ \E t \in Tasks : suspended[c] = t /\ pc[t] \in {"f_op", "f_end"}

\* The assertions and abort() conditions of the guard and of
\* esp_intr_noniram_disable() and _enable() never fire: the operation ends on
\* the CPU that it began on, although tasks migrate, and no CPU masks its
\* interrupts twice.
AssertsHold ==
    /\ \A t \in Tasks, c \in CPUs : MayRun(t, c) =>
        /\ pc[t] = "f_claim" => s_flash_op_cpu = None
        /\ pc[t] = "f_intr" => c = op[t].cpu /\ nonIram[c]
        /\ pc[t] = "f_end" => c = s_flash_op_cpu
        /\ pc[t] = "f_enable" => ~nonIram[c]
    /\ \A c \in CPUs :
        /\ ipc[c].at = "b_intr" => nonIram[c]
        /\ ipc[c].at = "b_enable" => ~nonIram[c]

\* The ROM function that programs the chip reads its data from memory that is
\* accessible without the cache: "If src buffer is 4-byte aligned as well and
\* is not in a region that requires cache access to be enabled, we can write
\* directly without buffering in RAM" (spi_flash_write()).
SourceReadable ==
    \A t \in Tasks : pc[t] = "f_op" /\ WriteSource(t) = "flash" => \A c \in CPUs : cache[c]

\* Every operation ends, and so does every inter-processor call: the two busy
\* loops, the two mutexes and the semaphores never leave everyone waiting.
EveryCallEnds == \A t \in Tasks : pc[t] # "app" ~> pc[t] = "app"
=============================================================================
