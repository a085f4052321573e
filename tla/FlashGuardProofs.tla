-------------------------- MODULE FlashGuardProofs --------------------------
(***************************************************************************)
(* Theorems about FlashGuard and Ipc, for any number of tasks with any     *)
(* affinity, any number of calls, and operations of any number of chunks.  *)
(***************************************************************************)
EXTENDS FlashGuard, TLAPS

-----------------------------------------------------------------------------
(* The inductive invariant.                                                *)

IpcPcs == {"ipc_mutex", "ipc_post", "ipc_ack", "ipc_unlock"}

\* In the call by which the guard parks the other CPU.
Parking(t) == pc[t] \in IpcPcs /\ call[t].ret = "f_spin"

\* The task has claimed the flash for the CPU that it read...
Claimed(t) == Parking(t) \/ pc[t] \in {"f_spin", "f_suspend", "f_intr", "f_cache", "f_op", "f_end"}
\* ...and is still under the mutex.
HasCpu(t) == Claimed(t) \/ pc[t] \in {"f_claim", "f_complete", "f_enable", "f_resume", "f_unlock"}
InGuard(t) == HasCpu(t) \/ pc[t] \in {"f_cpu", "m_unlock"}

MutexInv ==
    \A t \in Tasks :
        /\ s_ipc_mutex = t <=> pc[t] \in {"ipc_post", "ipc_ack", "ipc_unlock"}
        /\ s_flash_op_mutex = t <=> InGuard(t)

CallInv ==
    \A t \in Tasks :
        /\ HasCpu(t) => op[t].cpu \in CPUs
        /\ pc[t] \in IpcPcs => (call[t].fn = "block" <=> call[t].ret = "f_spin")
        /\ Parking(t) => call[t].cpu = 1 - op[t].cpu
        /\ Parking(t) \/ pc[t] \in {"f_lock", "f_cpu", "f_claim", "f_spin", "f_suspend",
                                    "f_intr", "f_cache", "f_op"} => op[t].chunks > 0

\* A call that the IPC task of c has not begun to run.
Posted(c) == s_ipc_sem[c] \/ ipc[c].at \in {"fetch", "begin"}

\* At most one call is posted or acknowledged, that of the task that waits.
HandoverInv ==
    /\ s_ipc_wait = "start"
    /\ \A c \in CPUs :
        /\ Posted(c) => /\ ~s_ipc_ack /\ ~Posted(1-c)
                        /\ \E t \in Tasks : /\ pc[t] = "ipc_ack" /\ call[t].cpu = c
                                            /\ s_func.fn = call[t].fn
        /\ ~(s_ipc_sem[c] /\ ipc[c].at \in {"fetch", "begin"})
        /\ ipc[c].at = "begin" => ipc[c].job.fn = s_func.fn
        /\ ipc[c].at \in {"wait", "fetch"} => ipc[c].job.fn = "work"
        /\ ipc[c].at \in BlockPcs \ {"func"} => ipc[c].job.fn = "block"
    /\ s_ipc_ack => \E t \in Tasks : pc[t] = "ipc_ack"

OwnPcs == {"f_intr", "f_cache", "f_op", "f_end", "f_complete", "f_enable", "f_resume"}

\* Who has suspended a scheduler.
SchedInv ==
    \A c \in CPUs :
        /\ \A t \in Tasks : suspended[c] = t <=> pc[t] \in OwnPcs /\ op[t].cpu = c
        /\ \A t \in Tasks : suspended[c] = t => ipc[c].at = "wait"
        /\ suspended[c] = IpcTask[c] <=> ipc[c].at \in BlockPcs \ {"func"}
        /\ suspended[c] # IpcTask[1-c]

\* Whose cache is off and whose interrupts are masked.
MaskInv ==
    \A c \in CPUs :
        /\ ~cache[c] <=> \/ \E t \in Tasks : pc[t] \in {"f_op", "f_end"} /\ op[t].cpu = c
                         \/ ipc[c].at \in {"b_clear", "b_start", "b_spin", "b_restore"}
        /\ ~nonIram[c] <=>
              \/ \E t \in Tasks : pc[t] \in OwnPcs \ {"f_intr", "f_resume"} /\ op[t].cpu = c
              \/ ipc[c].at \in {"b_cache", "b_clear", "b_start", "b_spin", "b_restore", "b_enable"}

\* CPU c runs spi_flash_op_block_func(), in the call that is awaited now...
BlockOn(c) == ipc[c].job.fn = "block"
Arriving(c) ==
    /\ BlockOn(c)
    /\ ipc[c].at \in {"func", "b_intr", "b_cache", "b_clear", "b_start", "b_spin"}
    /\ ipc[c].at \in {"b_start", "b_spin"} => ~s_flash_op_complete
    /\ s_flash_op_can_start <=> ipc[c].at = "b_spin"
Parked(c) == ipc[c].at = "b_spin" /\ ~s_flash_op_complete
\* ...or is on its way out of an earlier one.
Leaving(c) ==
    BlockOn(c) => /\ ipc[c].at \in {"b_spin", "b_restore", "b_enable", "b_resume", "end"}
                  /\ ipc[c].at = "b_spin" => s_flash_op_complete

\* The CPU of the task in the guard runs nothing of an earlier section.
OwnCpu(t) ==
    /\ HasCpu(t) => ~BlockOn(op[t].cpu)
    /\ Claimed(t) => s_flash_op_cpu = op[t].cpu
\* The other CPU: while it has not been called, or is released...
Before(t) ==
    /\ pc[t] \in {"f_claim", "f_enable", "f_resume", "f_unlock"} => Leaving(1 - op[t].cpu)
    /\ Parking(t) /\ pc[t] \in {"ipc_mutex", "ipc_post"} =>
          Leaving(1 - op[t].cpu) /\ ~s_flash_op_can_start
\* ...while the call is under way...
Waiting(t) ==
    Parking(t) /\ pc[t] = "ipc_ack" =>
       IF s_ipc_ack THEN Arriving(1 - op[t].cpu)
       ELSE /\ ~s_flash_op_can_start
            /\ Posted(1 - op[t].cpu)
            /\ ipc[1 - op[t].cpu].at = "begin" \/ Leaving(1 - op[t].cpu)
\* ...and once the call is acknowledged.
After(t) ==
    /\ (Parking(t) /\ pc[t] = "ipc_unlock") \/ pc[t] = "f_spin" => Arriving(1 - op[t].cpu)
    /\ pc[t] \in {"f_suspend", "f_intr", "f_cache", "f_op", "f_end", "f_complete"} =>
          Parked(1 - op[t].cpu)

\* With nobody in the guard, both CPUs leave it and no CPU is claimed.
ParkIdle == (\A t \in Tasks : ~HasCpu(t)) => \A c \in CPUs : Leaving(c)
ParkFree == (\A t \in Tasks : ~Claimed(t)) => s_flash_op_cpu = None
ParkTask(t) == OwnCpu(t) /\ Before(t) /\ Waiting(t) /\ After(t)
ParkInv == ParkIdle /\ ParkFree /\ \A t \in Tasks : ParkTask(t)

IInv == TypeOK /\ MutexInv /\ CallInv /\ HandoverInv /\ SchedInv /\ MaskInv /\ ParkInv

\* CPUs are 0 and 1: the other one is 1 - c.
LEMMA OtherCpu == \A c \in CPUs : 1-c \in CPUs /\ 1-c # c /\ 1-(1-c) = c
BY DEF CPUs

\* What ParkTask(u) depends on.
LEMMA ParkFrame ==
    ASSUME NEW u \in Tasks, ParkTask(u), pc'[u] = pc[u], call'[u] = call[u], op'[u] = op[u],
           UNCHANGED <<ipc, s_ipc_ack, s_ipc_sem, s_flash_op_can_start, s_flash_op_complete,
                       s_flash_op_cpu>>
    PROVE  ParkTask(u)'
<1>1. /\ HasCpu(u)' <=> HasCpu(u)
      /\ Claimed(u)' <=> Claimed(u)
      /\ Parking(u)' <=> Parking(u)
    BY DEF HasCpu, Claimed, Parking
<1>2. ASSUME NEW c
      PROVE  /\ BlockOn(c)' <=> BlockOn(c)
             /\ Leaving(c)' <=> Leaving(c)
             /\ Arriving(c)' <=> Arriving(c)
             /\ Parked(c)' <=> Parked(c)
             /\ Posted(c)' <=> Posted(c)
    BY DEF BlockOn, Leaving, Arriving, Parked, Posted
<1>3. OwnCpu(u)' /\ Before(u)'
    BY <1>1, <1>2 DEF ParkTask, OwnCpu, Before
<1>4. Waiting(u)' /\ After(u)'
    BY <1>1, <1>2 DEF ParkTask, Waiting, After
<1> QED BY <1>3, <1>4 DEF ParkTask

\* What MaskInv depends on.
LEMMA MaskFrame ==
    ASSUME MaskInv, UNCHANGED <<cache, nonIram, ipc>>,
           \A u \in Tasks :
              /\ pc'[u] \in {"f_op", "f_end"} <=> pc[u] \in {"f_op", "f_end"}
              /\ pc'[u] \in OwnPcs \ {"f_intr", "f_resume"} <=> pc[u] \in OwnPcs \ {"f_intr", "f_resume"}
              /\ pc[u] \in OwnPcs => op'[u].cpu = op[u].cpu
    PROVE  MaskInv'
<1>1. \A u \in Tasks : pc[u] \in {"f_op", "f_end"} => pc[u] \in OwnPcs
    BY DEF OwnPcs
<1> QED BY <1>1 DEF MaskInv

\* A task without the CPU of the guard asks nothing of the other one.
LEMMA ParkNone ==
    ASSUME NEW u \in Tasks, ~HasCpu(u)'
    PROVE  ParkTask(u)'
BY DEF ParkTask, OwnCpu, Before, Waiting, After, HasCpu, Claimed, Parking

-----------------------------------------------------------------------------
(* The steps of a task in the guard.                                       *)

LEMMA FlashOpStep ==
    ASSUME IInv, NEW t \in Tasks, NEW c \in CPUs, FlashOp(t, c)
    PROVE  IInv'
<1> USE OtherCpu, NoOneAssumption, IpcTaskAssumption
    DEF FlashOp, MayRun, Goto, ipcVars, guardVars, IInv, TypeOK
<1>1. TypeOK'
    BY IpcAssumption, GuardAssumption DEF AppPcs, GuardPcs, CPUs, None
<1>2. MutexInv'
    BY DEF MutexInv, InGuard, HasCpu, Claimed, Parking, IpcPcs
<1>3. CallInv'
    BY DEF CallInv, HasCpu, Claimed, Parking, IpcPcs
<1>4. HandoverInv'
    BY DEF HandoverInv, MutexInv, Posted, CallInv, CPUs, BlockPcs, Jobs, NoJob
<1>5. SchedInv'
    BY DEF SchedInv, OwnPcs
<1>6. MaskInv'
  <2>1. \A u \in Tasks :
           /\ pc'[u] \in {"f_op", "f_end"} <=> pc[u] \in {"f_op", "f_end"}
           /\ pc'[u] \in OwnPcs \ {"f_intr", "f_resume"} <=> pc[u] \in OwnPcs \ {"f_intr", "f_resume"}
           /\ pc[u] \in OwnPcs => op'[u].cpu = op[u].cpu
    BY DEF OwnPcs
  <2> QED BY <2>1, MaskFrame
<1>7. ParkIdle'
    BY DEF ParkInv, ParkIdle, HasCpu, Claimed, Parking, IpcPcs, Leaving, BlockOn
<1>8. ParkFree'
    BY DEF ParkInv, ParkFree, Claimed, Parking, IpcPcs
<1>9. ASSUME NEW u \in Tasks PROVE ParkTask(u)'
  <2>1. CASE u = t
    <3>1. ~HasCpu(u)'
      BY <2>1 DEF HasCpu, Claimed, Parking, IpcPcs
    <3> QED BY <3>1, ParkNone
  <2>2. CASE u # t
    BY <2>2, ParkFrame DEF ParkInv
  <2> QED BY <2>1, <2>2
<1> QED BY <1>1, <1>2, <1>3, <1>4, <1>5, <1>6, <1>7, <1>8, <1>9 DEF ParkInv

LEMMA OpLockStep ==
    ASSUME IInv, NEW t \in Tasks, NEW c \in CPUs, OpLock(t, c)
    PROVE  IInv'
<1> USE OtherCpu, NoOneAssumption, IpcTaskAssumption
    DEF OpLock, MayRun, Goto, ipcVars, guardVars, IInv, TypeOK
<1>1. TypeOK'
    BY DEF AppPcs, GuardPcs
<1>2. MutexInv'
    BY DEF MutexInv, InGuard, HasCpu, Claimed, Parking, IpcPcs
<1>3. CallInv'
    BY DEF CallInv, HasCpu, Claimed, Parking, IpcPcs
<1>4. HandoverInv'
    BY DEF HandoverInv, Posted
<1>5. SchedInv'
    BY DEF SchedInv, OwnPcs
<1>6. MaskInv'
  <2>1. \A u \in Tasks :
           /\ pc'[u] \in {"f_op", "f_end"} <=> pc[u] \in {"f_op", "f_end"}
           /\ pc'[u] \in OwnPcs \ {"f_intr", "f_resume"} <=> pc[u] \in OwnPcs \ {"f_intr", "f_resume"}
           /\ pc[u] \in OwnPcs => op'[u].cpu = op[u].cpu
    BY DEF OwnPcs
  <2> QED BY <2>1, MaskFrame
<1>7. ParkIdle'
    BY DEF ParkInv, ParkIdle, HasCpu, Claimed, Parking, IpcPcs, Leaving, BlockOn
<1>8. ParkFree'
    BY DEF ParkInv, ParkFree, Claimed, Parking, IpcPcs
<1>9. ASSUME NEW u \in Tasks PROVE ParkTask(u)'
  <2>1. CASE u = t
    <3>1. ~HasCpu(u)'
      BY <2>1 DEF HasCpu, Claimed, Parking, IpcPcs
    <3> QED BY <3>1, ParkNone
  <2>2. CASE u # t
    BY <2>2, ParkFrame DEF ParkInv
  <2> QED BY <2>1, <2>2
<1> QED BY <1>1, <1>2, <1>3, <1>4, <1>5, <1>6, <1>7, <1>8, <1>9 DEF ParkInv

LEMMA ReadCoreStep ==
    ASSUME IInv, NEW t \in Tasks, NEW c \in CPUs, ReadCore(t, c)
    PROVE  IInv'
<1> USE OtherCpu, NoOneAssumption, IpcTaskAssumption
    DEF ReadCore, MayRun, Goto, ipcVars, guardVars, IInv, TypeOK
<1>1. TypeOK'
    BY DEF AppPcs, GuardPcs, CPUs
<1>2. MutexInv'
    BY DEF MutexInv, InGuard, HasCpu, Claimed, Parking, IpcPcs
<1>3. CallInv'
    BY DEF CallInv, HasCpu, Claimed, Parking, IpcPcs
<1>4. HandoverInv'
    BY DEF HandoverInv, Posted
<1>5. SchedInv'
    BY DEF SchedInv, OwnPcs
<1>6. MaskInv'
  <2>1. \A u \in Tasks :
           /\ pc'[u] \in {"f_op", "f_end"} <=> pc[u] \in {"f_op", "f_end"}
           /\ pc'[u] \in OwnPcs \ {"f_intr", "f_resume"} <=> pc[u] \in OwnPcs \ {"f_intr", "f_resume"}
           /\ pc[u] \in OwnPcs => op'[u].cpu = op[u].cpu
    BY DEF OwnPcs
  <2> QED BY <2>1, MaskFrame
<1>7. ParkIdle'
    BY DEF ParkInv, ParkIdle, HasCpu, Claimed, Parking, IpcPcs, Leaving, BlockOn
<1>8. ParkFree'
    BY DEF ParkInv, ParkFree, Claimed, Parking, IpcPcs
<1>9. ASSUME NEW u \in Tasks PROVE ParkTask(u)'
  <2>1. CASE u = t
    <3>1. ~BlockOn(c)
      BY DEF SchedInv, HandoverInv, BlockOn
    <3>2. Leaving(1 - c)
      BY DEF MutexInv, InGuard, HasCpu, Claimed, Parking, IpcPcs, ParkInv, ParkIdle
    <3> QED BY <2>1, <3>1, <3>2 DEF ParkTask, OwnCpu, Before, Waiting, After, HasCpu, Claimed,
        Parking, IpcPcs, Leaving, BlockOn
  <2>2. CASE u # t
    <3>1. ~HasCpu(u)'
      BY <2>2 DEF MutexInv, InGuard, HasCpu, Claimed, Parking, IpcPcs
    <3> QED BY <3>1, ParkNone
  <2> QED BY <2>1, <2>2
<1> QED BY <1>1, <1>2, <1>3, <1>4, <1>5, <1>6, <1>7, <1>8, <1>9 DEF ParkInv

LEMMA ClaimOpStep ==
    ASSUME IInv, NEW t \in Tasks, NEW c \in CPUs, ClaimOp(t, c)
    PROVE  IInv'
<1> USE OtherCpu, NoOneAssumption, IpcTaskAssumption
    DEF ClaimOp, MayRun, Goto, Call, ipcVars, guardVars, IInv, TypeOK
<1>1. TypeOK'
    BY DEF AppPcs, GuardPcs, CallInv, HasCpu, Calls, Waits, Funcs, CPUs
<1>2. MutexInv'
    BY DEF MutexInv, InGuard, HasCpu, Claimed, Parking, IpcPcs
<1>3. CallInv'
    BY DEF CallInv, HasCpu, Claimed, Parking, IpcPcs
<1>4. HandoverInv'
    BY DEF HandoverInv, Posted
<1>5. SchedInv'
    BY DEF SchedInv, OwnPcs
<1>6. MaskInv'
  <2>1. \A u \in Tasks :
           /\ pc'[u] \in {"f_op", "f_end"} <=> pc[u] \in {"f_op", "f_end"}
           /\ pc'[u] \in OwnPcs \ {"f_intr", "f_resume"} <=> pc[u] \in OwnPcs \ {"f_intr", "f_resume"}
           /\ pc[u] \in OwnPcs => op'[u].cpu = op[u].cpu
    BY DEF OwnPcs
  <2> QED BY <2>1, MaskFrame
<1>7. ParkIdle'
    BY DEF ParkInv, ParkIdle, HasCpu, Claimed, Parking, IpcPcs, Leaving, BlockOn
<1>8. ParkFree'
    BY DEF ParkInv, ParkFree, Claimed, Parking, IpcPcs
<1>9. ASSUME NEW u \in Tasks PROVE ParkTask(u)'
  <2>1. CASE u = t
    BY <2>1 DEF ParkInv, ParkTask, OwnCpu, Before, Waiting, After, HasCpu, Claimed, Parking,
        IpcPcs, Leaving, BlockOn, Arriving, Parked, CallInv
  <2>2. CASE u # t
    <3>1. ~HasCpu(u)'
      BY <2>2 DEF MutexInv, InGuard, HasCpu, Claimed, Parking, IpcPcs
    <3> QED BY <3>1, ParkNone
  <2> QED BY <2>1, <2>2
<1> QED BY <1>1, <1>2, <1>3, <1>4, <1>5, <1>6, <1>7, <1>8, <1>9 DEF ParkInv

LEMMA SpinCanStartStep ==
    ASSUME IInv, NEW t \in Tasks, NEW c \in CPUs, SpinCanStart(t, c)
    PROVE  IInv'
<1> USE OtherCpu, NoOneAssumption, IpcTaskAssumption
    DEF SpinCanStart, MayRun, Goto, ipcVars, guardVars, IInv, TypeOK
<1>1. TypeOK'
    BY DEF AppPcs, GuardPcs
<1>2. MutexInv'
    BY DEF MutexInv, InGuard, HasCpu, Claimed, Parking, IpcPcs
<1>3. CallInv'
    BY DEF CallInv, HasCpu, Claimed, Parking, IpcPcs
<1>4. HandoverInv'
    BY DEF HandoverInv, Posted
<1>5. SchedInv'
    BY DEF SchedInv, OwnPcs
<1>6. MaskInv'
  <2>1. \A u \in Tasks :
           /\ pc'[u] \in {"f_op", "f_end"} <=> pc[u] \in {"f_op", "f_end"}
           /\ pc'[u] \in OwnPcs \ {"f_intr", "f_resume"} <=> pc[u] \in OwnPcs \ {"f_intr", "f_resume"}
           /\ pc[u] \in OwnPcs => op'[u].cpu = op[u].cpu
    BY DEF OwnPcs
  <2> QED BY <2>1, MaskFrame
<1>7. ParkIdle'
    BY DEF ParkInv, ParkIdle, HasCpu, Claimed, Parking, IpcPcs, Leaving, BlockOn
<1>8. ParkFree'
    BY DEF ParkInv, ParkFree, Claimed, Parking, IpcPcs
<1>9. ASSUME NEW u \in Tasks PROVE ParkTask(u)'
  <2>1. CASE u = t
    BY <2>1 DEF ParkInv, ParkTask, OwnCpu, Before, Waiting, After, HasCpu, Claimed, Parking,
        IpcPcs, Leaving, BlockOn, Arriving, Parked
  <2>2. CASE u # t
    <3>1. ~HasCpu(u)'
      BY <2>2 DEF MutexInv, InGuard, HasCpu, Claimed, Parking, IpcPcs
    <3> QED BY <3>1, ParkNone
  <2> QED BY <2>1, <2>2
<1> QED BY <1>1, <1>2, <1>3, <1>4, <1>5, <1>6, <1>7, <1>8, <1>9 DEF ParkInv

LEMMA SuspendOwnStep ==
    ASSUME IInv, NEW t \in Tasks, NEW c \in CPUs, SuspendOwn(t, c)
    PROVE  IInv'
<1> USE OtherCpu, NoOneAssumption, IpcTaskAssumption
    DEF SuspendOwn, MayRun, Goto, ipcVars, guardVars, IInv, TypeOK
<1>0. op[t].cpu = c /\ suspended[c] = NoOne /\ ipc[c].at = "wait"
  <2>1. suspended[c] # t
    BY DEF SchedInv, OwnPcs
  <2>2. ipc[1 - op[t].cpu].at = "b_spin" /\ op[t].cpu \in CPUs
    BY DEF ParkInv, ParkTask, After, Parked, CallInv, HasCpu, Claimed
  <2> QED BY <2>1, <2>2 DEF CPUs
<1>1. TypeOK'
    BY DEF AppPcs, GuardPcs
<1>2. MutexInv'
    BY DEF MutexInv, InGuard, HasCpu, Claimed, Parking, IpcPcs
<1>3. CallInv'
    BY DEF CallInv, HasCpu, Claimed, Parking, IpcPcs
<1>4. HandoverInv'
    BY DEF HandoverInv, Posted
<1>5. SchedInv'
  <2>1. ASSUME NEW d \in CPUs, NEW u \in Tasks
        PROVE  /\ suspended'[d] = u <=> pc'[u] \in OwnPcs /\ op'[u].cpu = d
               /\ suspended'[d] = u => ipc'[d].at = "wait"
    BY <1>0 DEF SchedInv, OwnPcs
  <2>2. ASSUME NEW d \in CPUs
        PROVE  /\ suspended'[d] = IpcTask[d] <=> ipc'[d].at \in BlockPcs \ {"func"}
               /\ suspended'[d] # IpcTask[1-d]
    BY <1>0 DEF SchedInv, BlockPcs
  <2> QED BY <2>1, <2>2 DEF SchedInv
<1>6. MaskInv'
  <2>1. \A u \in Tasks :
           /\ pc'[u] \in {"f_op", "f_end"} <=> pc[u] \in {"f_op", "f_end"}
           /\ pc'[u] \in OwnPcs \ {"f_intr", "f_resume"} <=> pc[u] \in OwnPcs \ {"f_intr", "f_resume"}
           /\ pc[u] \in OwnPcs => op'[u].cpu = op[u].cpu
    BY DEF OwnPcs
  <2> QED BY <2>1, MaskFrame
<1>7. ParkIdle'
    BY DEF ParkInv, ParkIdle, HasCpu, Claimed, Parking, IpcPcs, Leaving, BlockOn
<1>8. ParkFree'
    BY DEF ParkInv, ParkFree, Claimed, Parking, IpcPcs
<1>9. ASSUME NEW u \in Tasks PROVE ParkTask(u)'
  <2>1. CASE u = t
    BY <2>1 DEF ParkInv, ParkTask, OwnCpu, Before, Waiting, After, HasCpu, Claimed, Parking,
        IpcPcs, Leaving, BlockOn, Arriving, Parked
  <2>2. CASE u # t
    <3>1. ~HasCpu(u)'
      BY <2>2 DEF MutexInv, InGuard, HasCpu, Claimed, Parking, IpcPcs
    <3> QED BY <3>1, ParkNone
  <2> QED BY <2>1, <2>2
<1> QED BY <1>1, <1>2, <1>3, <1>4, <1>5, <1>6, <1>7, <1>8, <1>9 DEF ParkInv

LEMMA MaskOwnStep ==
    ASSUME IInv, NEW t \in Tasks, NEW c \in CPUs, MaskOwn(t, c)
    PROVE  IInv'
<1> USE OtherCpu, NoOneAssumption, IpcTaskAssumption
    DEF MaskOwn, MayRun, Goto, ipcVars, guardVars, IInv, TypeOK
<1>0. op[t].cpu = c
    BY DEF SchedInv, OwnPcs, CallInv, HasCpu, Claimed, CPUs
<1>1. TypeOK'
    BY DEF AppPcs, GuardPcs
<1>2. MutexInv'
    BY DEF MutexInv, InGuard, HasCpu, Claimed, Parking, IpcPcs
<1>3. CallInv'
    BY DEF CallInv, HasCpu, Claimed, Parking, IpcPcs
<1>4. HandoverInv'
    BY DEF HandoverInv, Posted
<1>5. SchedInv'
    BY DEF SchedInv, OwnPcs
<1>6. MaskInv'
  <2> SUFFICES ASSUME NEW d \in CPUs
               PROVE  /\ ~cache'[d] <=> \/ \E u \in Tasks : pc'[u] \in {"f_op", "f_end"} /\ op'[u].cpu = d
                                        \/ ipc'[d].at \in {"b_clear", "b_start", "b_spin", "b_restore"}
                      /\ ~nonIram'[d] <=>
                            \/ \E u \in Tasks : pc'[u] \in OwnPcs \ {"f_intr", "f_resume"} /\ op'[u].cpu = d
                            \/ ipc'[d].at \in {"b_cache", "b_clear", "b_start", "b_spin", "b_restore", "b_enable"}
    BY DEF MaskInv
  <2>1. CASE d = c
    BY <1>0, <2>1 DEF MaskInv, OwnPcs
  <2>2. CASE d # c
    BY <1>0, <2>2 DEF MaskInv, OwnPcs
  <2> QED BY <2>1, <2>2
<1>7. ParkIdle'
    BY DEF ParkInv, ParkIdle, HasCpu, Claimed, Parking, IpcPcs, Leaving, BlockOn
<1>8. ParkFree'
    BY DEF ParkInv, ParkFree, Claimed, Parking, IpcPcs
<1>9. ASSUME NEW u \in Tasks PROVE ParkTask(u)'
  <2>1. CASE u = t
    BY <2>1 DEF ParkInv, ParkTask, OwnCpu, Before, Waiting, After, HasCpu, Claimed, Parking,
        IpcPcs, Leaving, BlockOn, Arriving, Parked
  <2>2. CASE u # t
    <3>1. ~HasCpu(u)'
      BY <2>2 DEF MutexInv, InGuard, HasCpu, Claimed, Parking, IpcPcs
    <3> QED BY <3>1, ParkNone
  <2> QED BY <2>1, <2>2
<1> QED BY <1>1, <1>2, <1>3, <1>4, <1>5, <1>6, <1>7, <1>8, <1>9 DEF ParkInv

LEMMA DisableOwnStep ==
    ASSUME IInv, NEW t \in Tasks, NEW c \in CPUs, DisableOwn(t, c)
    PROVE  IInv'
<1> USE OtherCpu, NoOneAssumption, IpcTaskAssumption
    DEF DisableOwn, MayRun, Goto, ipcVars, guardVars, IInv, TypeOK
<1>1. TypeOK'
    BY DEF AppPcs, GuardPcs
<1>2. MutexInv'
    BY DEF MutexInv, InGuard, HasCpu, Claimed, Parking, IpcPcs
<1>3. CallInv'
    BY DEF CallInv, HasCpu, Claimed, Parking, IpcPcs
<1>4. HandoverInv'
    BY DEF HandoverInv, Posted
<1>5. SchedInv'
    BY DEF SchedInv, OwnPcs
<1>6. MaskInv'
    BY DEF MaskInv, OwnPcs
<1>7. ParkIdle'
    BY DEF ParkInv, ParkIdle, HasCpu, Claimed, Parking, IpcPcs, Leaving, BlockOn
<1>8. ParkFree'
    BY DEF ParkInv, ParkFree, Claimed, Parking, IpcPcs
<1>9. ASSUME NEW u \in Tasks PROVE ParkTask(u)'
  <2>1. CASE u = t
    BY <2>1 DEF ParkInv, ParkTask, OwnCpu, Before, Waiting, After, HasCpu, Claimed, Parking,
        IpcPcs, Leaving, BlockOn, Arriving, Parked
  <2>2. CASE u # t
    <3>1. ~HasCpu(u)'
      BY <2>2 DEF MutexInv, InGuard, HasCpu, Claimed, Parking, IpcPcs
    <3> QED BY <3>1, ParkNone
  <2> QED BY <2>1, <2>2
<1> QED BY <1>1, <1>2, <1>3, <1>4, <1>5, <1>6, <1>7, <1>8, <1>9 DEF ParkInv

\* The sections left of an operation, within the bound.
LEMMA ChunksLeft ==
    ASSUME NEW C, NEW N, NEW R, NEW f \in [Tasks -> [cpu : C, chunks : N, src : R]],
           NEW t \in Tasks, NEW n \in N
    PROVE  [f EXCEPT ![t].chunks = n] \in [Tasks -> [cpu : C, chunks : N, src : R]]
OBVIOUS

LEMMA OperateStep ==
    ASSUME IInv, NEW t \in Tasks, NEW c \in CPUs, Operate(t, c)
    PROVE  IInv'
<1> USE OtherCpu, NoOneAssumption, IpcTaskAssumption
    DEF Operate, MayRun, Goto, ipcVars, guardVars, IInv, TypeOK
<1>1. TypeOK'
  <2>1. op[t].chunks \in 1 .. MaxChunks
    BY GuardAssumption DEF CallInv
  <2>2. \A n \in {op[t].chunks - 1, 0} : n \in 0 .. MaxChunks
    BY <2>1, GuardAssumption
  <2>3. op' \in [Tasks -> [cpu : CPUs \cup {None}, chunks : 0 .. MaxChunks, src : Sources \cup {"none"}]]
    <3>1. PICK n \in {op[t].chunks - 1, 0} : op' = [op EXCEPT ![t].chunks = n]
      OBVIOUS
    <3> QED BY <2>2, <3>1, ChunksLeft
  <2> QED BY <2>3 DEF AppPcs, GuardPcs
<1>2. MutexInv'
    BY DEF MutexInv, InGuard, HasCpu, Claimed, Parking, IpcPcs
<1>3. CallInv'
    BY DEF CallInv, HasCpu, Claimed, Parking, IpcPcs
<1>4. HandoverInv'
    BY DEF HandoverInv, Posted
<1>5. SchedInv'
    BY DEF SchedInv, OwnPcs
<1>6. MaskInv'
  <2>1. \A u \in Tasks :
           /\ pc'[u] \in {"f_op", "f_end"} <=> pc[u] \in {"f_op", "f_end"}
           /\ pc'[u] \in OwnPcs \ {"f_intr", "f_resume"} <=> pc[u] \in OwnPcs \ {"f_intr", "f_resume"}
           /\ pc[u] \in OwnPcs => op'[u].cpu = op[u].cpu
    BY DEF OwnPcs
  <2> QED BY <2>1, MaskFrame
<1>7. ParkIdle'
    BY DEF ParkInv, ParkIdle, HasCpu, Claimed, Parking, IpcPcs, Leaving, BlockOn
<1>8. ParkFree'
    BY DEF ParkInv, ParkFree, Claimed, Parking, IpcPcs
<1>9. ASSUME NEW u \in Tasks PROVE ParkTask(u)'
  <2>1. CASE u = t
    BY <2>1, SMTT(20) DEF ParkInv, ParkTask, OwnCpu, Before, Waiting, After, HasCpu, Claimed,
        Parking, IpcPcs, Leaving, BlockOn, Arriving, Parked
  <2>2. CASE u # t
    <3>1. ~HasCpu(u)'
      BY <2>2 DEF MutexInv, InGuard, HasCpu, Claimed, Parking, IpcPcs
    <3> QED BY <3>1, ParkNone
  <2> QED BY <2>1, <2>2
<1> QED BY <1>1, <1>2, <1>3, <1>4, <1>5, <1>6, <1>7, <1>8, <1>9 DEF ParkInv

LEMMA RestoreOwnStep ==
    ASSUME IInv, NEW t \in Tasks, NEW c \in CPUs, RestoreOwn(t, c)
    PROVE  IInv'
<1> USE OtherCpu, NoOneAssumption, IpcTaskAssumption
    DEF RestoreOwn, MayRun, Goto, ipcVars, guardVars, IInv, TypeOK
<1>1. TypeOK'
    BY DEF AppPcs, GuardPcs
<1>2. MutexInv'
    BY DEF MutexInv, InGuard, HasCpu, Claimed, Parking, IpcPcs
<1>3. CallInv'
    BY DEF CallInv, HasCpu, Claimed, Parking, IpcPcs
<1>4. HandoverInv'
    BY DEF HandoverInv, Posted
<1>5. SchedInv'
    BY DEF SchedInv, OwnPcs
<1>6. MaskInv'
    BY DEF MaskInv, SchedInv, MutexInv, InGuard, HasCpu, Claimed, Parking, IpcPcs, ParkInv,
        ParkTask, OwnCpu, After, OwnPcs, CPUs, BlockPcs, Parked
<1>7. ParkIdle'
    BY DEF ParkInv, ParkIdle, HasCpu, Claimed, Parking, IpcPcs, Leaving, BlockOn
<1>8. ParkFree'
    BY DEF ParkInv, ParkFree, Claimed, Parking, IpcPcs
<1>9. ASSUME NEW u \in Tasks PROVE ParkTask(u)'
  <2>1. CASE u = t
    BY <2>1 DEF ParkInv, ParkTask, OwnCpu, Before, Waiting, After, HasCpu, Claimed, Parking,
        IpcPcs, Leaving, BlockOn, Arriving, Parked
  <2>2. CASE u # t
    <3>1. ~HasCpu(u)'
      BY <2>2 DEF MutexInv, InGuard, HasCpu, Claimed, Parking, IpcPcs
    <3> QED BY <3>1, ParkNone
  <2> QED BY <2>1, <2>2
<1> QED BY <1>1, <1>2, <1>3, <1>4, <1>5, <1>6, <1>7, <1>8, <1>9 DEF ParkInv

LEMMA SetCompleteStep ==
    ASSUME IInv, NEW t \in Tasks, NEW c \in CPUs, SetComplete(t, c)
    PROVE  IInv'
<1> USE OtherCpu, NoOneAssumption, IpcTaskAssumption
    DEF SetComplete, MayRun, Goto, ipcVars, guardVars, IInv, TypeOK
<1>1. TypeOK'
    BY DEF AppPcs, GuardPcs
<1>2. MutexInv'
    BY DEF MutexInv, InGuard, HasCpu, Claimed, Parking, IpcPcs
<1>3. CallInv'
    BY DEF CallInv, HasCpu, Claimed, Parking, IpcPcs
<1>4. HandoverInv'
    BY DEF HandoverInv, Posted
<1>5. SchedInv'
    BY DEF SchedInv, OwnPcs
<1>6. MaskInv'
  <2>1. \A u \in Tasks :
           /\ pc'[u] \in {"f_op", "f_end"} <=> pc[u] \in {"f_op", "f_end"}
           /\ pc'[u] \in OwnPcs \ {"f_intr", "f_resume"} <=> pc[u] \in OwnPcs \ {"f_intr", "f_resume"}
           /\ pc[u] \in OwnPcs => op'[u].cpu = op[u].cpu
    BY DEF OwnPcs
  <2> QED BY <2>1, MaskFrame
<1>7. ParkIdle'
    BY DEF ParkInv, ParkIdle, HasCpu, Claimed, Parking, IpcPcs, Leaving, BlockOn
<1>8. ParkFree'
    BY DEF ParkInv, ParkFree, Claimed, Parking, IpcPcs
<1>9. ASSUME NEW u \in Tasks PROVE ParkTask(u)'
  <2>1. CASE u = t
    BY <2>1 DEF ParkInv, ParkTask, OwnCpu, Before, Waiting, After, HasCpu, Claimed, Parking,
        IpcPcs, Leaving, BlockOn, Arriving, Parked
  <2>2. CASE u # t
    <3>1. ~HasCpu(u)'
      BY <2>2 DEF MutexInv, InGuard, HasCpu, Claimed, Parking, IpcPcs
    <3> QED BY <3>1, ParkNone
  <2> QED BY <2>1, <2>2
<1> QED BY <1>1, <1>2, <1>3, <1>4, <1>5, <1>6, <1>7, <1>8, <1>9 DEF ParkInv

LEMMA UnmaskOwnStep ==
    ASSUME IInv, NEW t \in Tasks, NEW c \in CPUs, UnmaskOwn(t, c)
    PROVE  IInv'
<1> USE OtherCpu, NoOneAssumption, IpcTaskAssumption
    DEF UnmaskOwn, MayRun, Goto, ipcVars, guardVars, IInv, TypeOK
<1>1. TypeOK'
    BY DEF AppPcs, GuardPcs
<1>2. MutexInv'
    BY DEF MutexInv, InGuard, HasCpu, Claimed, Parking, IpcPcs
<1>3. CallInv'
    BY DEF CallInv, HasCpu, Claimed, Parking, IpcPcs
<1>4. HandoverInv'
    BY DEF HandoverInv, Posted
<1>5. SchedInv'
    BY DEF SchedInv, OwnPcs
<1>6. MaskInv'
    BY DEF MaskInv, SchedInv, MutexInv, InGuard, HasCpu, Claimed, Parking, IpcPcs, ParkInv,
        ParkTask, OwnCpu, After, OwnPcs, CPUs, BlockPcs, Parked
<1>7. ParkIdle'
    BY DEF ParkInv, ParkIdle, HasCpu, Claimed, Parking, IpcPcs, Leaving, BlockOn
<1>8. ParkFree'
    BY DEF ParkInv, ParkFree, Claimed, Parking, IpcPcs
<1>9. ASSUME NEW u \in Tasks PROVE ParkTask(u)'
  <2>1. CASE u = t
    BY <2>1 DEF ParkInv, ParkTask, OwnCpu, Before, Waiting, After, HasCpu, Claimed, Parking,
        IpcPcs, Leaving, BlockOn, Arriving, Parked
  <2>2. CASE u # t
    <3>1. ~HasCpu(u)'
      BY <2>2 DEF MutexInv, InGuard, HasCpu, Claimed, Parking, IpcPcs
    <3> QED BY <3>1, ParkNone
  <2> QED BY <2>1, <2>2
<1> QED BY <1>1, <1>2, <1>3, <1>4, <1>5, <1>6, <1>7, <1>8, <1>9 DEF ParkInv

LEMMA ResumeOwnStep ==
    ASSUME IInv, NEW t \in Tasks, NEW c \in CPUs, ResumeOwn(t, c)
    PROVE  IInv'
<1> USE OtherCpu, NoOneAssumption, IpcTaskAssumption
    DEF ResumeOwn, MayRun, Goto, ipcVars, guardVars, IInv, TypeOK
<1>1. TypeOK'
    BY DEF AppPcs, GuardPcs
<1>2. MutexInv'
    BY DEF MutexInv, InGuard, HasCpu, Claimed, Parking, IpcPcs
<1>3. CallInv'
    BY DEF CallInv, HasCpu, Claimed, Parking, IpcPcs
<1>4. HandoverInv'
    BY DEF HandoverInv, Posted
<1>5. SchedInv'
    BY DEF SchedInv, OwnPcs
<1>6. MaskInv'
  <2>1. \A u \in Tasks :
           /\ pc'[u] \in {"f_op", "f_end"} <=> pc[u] \in {"f_op", "f_end"}
           /\ pc'[u] \in OwnPcs \ {"f_intr", "f_resume"} <=> pc[u] \in OwnPcs \ {"f_intr", "f_resume"}
           /\ pc[u] \in OwnPcs => op'[u].cpu = op[u].cpu
    BY DEF OwnPcs
  <2> QED BY <2>1, MaskFrame
<1>7. ParkIdle'
    BY DEF ParkInv, ParkIdle, HasCpu, Claimed, Parking, IpcPcs, Leaving, BlockOn
<1>8. ParkFree'
    BY DEF ParkInv, ParkFree, Claimed, Parking, IpcPcs
<1>9. ASSUME NEW u \in Tasks PROVE ParkTask(u)'
  <2>1. CASE u = t
    BY <2>1 DEF ParkInv, ParkTask, OwnCpu, Before, Waiting, After, HasCpu, Claimed, Parking,
        IpcPcs, Leaving, BlockOn, Arriving, Parked
  <2>2. CASE u # t
    <3>1. ~HasCpu(u)'
      BY <2>2 DEF MutexInv, InGuard, HasCpu, Claimed, Parking, IpcPcs
    <3> QED BY <3>1, ParkNone
  <2> QED BY <2>1, <2>2
<1> QED BY <1>1, <1>2, <1>3, <1>4, <1>5, <1>6, <1>7, <1>8, <1>9 DEF ParkInv

LEMMA OpUnlockStep ==
    ASSUME IInv, NEW t \in Tasks, NEW c \in CPUs, OpUnlock(t, c)
    PROVE  IInv'
<1> USE OtherCpu, NoOneAssumption, IpcTaskAssumption
    DEF OpUnlock, MayRun, Goto, ipcVars, guardVars, IInv, TypeOK
<1>1. TypeOK'
  <2>1. CASE op[t].chunks > 0
    <3>1. op' = [op EXCEPT ![t].cpu = None] /\ pc' \in [Tasks -> AppPcs \cup GuardPcs]
      BY <2>1 DEF AppPcs, GuardPcs
    <3> QED BY <3>1
  <2>2. CASE ~(op[t].chunks > 0)
    <3>1. op' = [op EXCEPT ![t] = NoOp] /\ pc' \in [Tasks -> AppPcs \cup GuardPcs]
      BY <2>2 DEF AppPcs, GuardPcs
    <3>2. NoOp \in [cpu : CPUs \cup {None}, chunks : 0 .. MaxChunks, src : Sources \cup {"none"}]
      BY GuardAssumption DEF NoOp
    <3> QED BY <3>1, <3>2
  <2> QED BY <2>1, <2>2
<1>2. MutexInv'
    BY DEF MutexInv, InGuard, HasCpu, Claimed, Parking, IpcPcs
<1>3. CallInv'
    BY DEF CallInv, MutexInv, InGuard, HasCpu, Claimed, Parking, IpcPcs, CPUs
<1>4. HandoverInv'
    BY DEF HandoverInv, Posted
<1>5. SchedInv'
    BY DEF SchedInv, MutexInv, InGuard, HasCpu, Claimed, Parking, IpcPcs, ParkInv, ParkTask,
        OwnCpu, After, Parked, OwnPcs, CPUs, BlockPcs
<1>6. MaskInv'
  <2>1. \A u \in Tasks :
           /\ pc'[u] \in {"f_op", "f_end"} <=> pc[u] \in {"f_op", "f_end"}
           /\ pc'[u] \in OwnPcs \ {"f_intr", "f_resume"} <=> pc[u] \in OwnPcs \ {"f_intr", "f_resume"}
           /\ pc[u] \in OwnPcs => op'[u].cpu = op[u].cpu
    BY DEF OwnPcs
  <2> QED BY <2>1, MaskFrame
<1>7. ParkIdle'
  <2>1. op[t].cpu \in CPUs /\ ~BlockOn(op[t].cpu)
    BY DEF CallInv, HasCpu, ParkInv, ParkTask, OwnCpu
  <2>2. Leaving(op[t].cpu) /\ Leaving(1 - op[t].cpu)
    BY <2>1 DEF ParkInv, ParkTask, Before, Leaving
  <2>3. \A d \in CPUs : Leaving(d)
    BY <2>1, <2>2 DEF CPUs
  <2> QED BY <2>3 DEF ParkIdle, Leaving, BlockOn
<1>8. ParkFree'
    BY DEF ParkInv, ParkFree, Claimed, Parking, IpcPcs
<1>9. ASSUME NEW u \in Tasks PROVE ParkTask(u)'
  <2>1. CASE u = t
    <3>1. ~HasCpu(u)'
      BY <2>1 DEF HasCpu, Claimed, Parking, IpcPcs
    <3> QED BY <3>1, ParkNone
  <2>2. CASE u # t
    <3>1. ~HasCpu(u)'
      BY <2>2 DEF MutexInv, InGuard, HasCpu, Claimed, Parking, IpcPcs
    <3> QED BY <3>1, ParkNone
  <2> QED BY <2>1, <2>2
<1> QED BY <1>1, <1>2, <1>3, <1>4, <1>5, <1>6, <1>7, <1>8, <1>9 DEF ParkInv

LEMMA MarkLockStep ==
    ASSUME IInv, NEW t \in Tasks, NEW c \in CPUs, MarkLock(t, c)
    PROVE  IInv'
<1> USE OtherCpu, NoOneAssumption, IpcTaskAssumption
    DEF MarkLock, MayRun, Goto, ipcVars, guardVars, IInv, TypeOK
<1>1. TypeOK'
    BY DEF AppPcs, GuardPcs
<1>2. MutexInv'
    BY DEF MutexInv, InGuard, HasCpu, Claimed, Parking, IpcPcs
<1>3. CallInv'
    BY DEF CallInv, HasCpu, Claimed, Parking, IpcPcs
<1>4. HandoverInv'
    BY DEF HandoverInv, Posted
<1>5. SchedInv'
    BY DEF SchedInv, OwnPcs
<1>6. MaskInv'
  <2>1. \A u \in Tasks :
           /\ pc'[u] \in {"f_op", "f_end"} <=> pc[u] \in {"f_op", "f_end"}
           /\ pc'[u] \in OwnPcs \ {"f_intr", "f_resume"} <=> pc[u] \in OwnPcs \ {"f_intr", "f_resume"}
           /\ pc[u] \in OwnPcs => op'[u].cpu = op[u].cpu
    BY DEF OwnPcs
  <2> QED BY <2>1, MaskFrame
<1>7. ParkIdle'
    BY DEF ParkInv, ParkIdle, HasCpu, Claimed, Parking, IpcPcs, Leaving, BlockOn
<1>8. ParkFree'
    BY DEF ParkInv, ParkFree, Claimed, Parking, IpcPcs
<1>9. ASSUME NEW u \in Tasks PROVE ParkTask(u)'
  <2>1. CASE u = t
    <3>1. ~HasCpu(u)'
      BY <2>1 DEF HasCpu, Claimed, Parking, IpcPcs
    <3> QED BY <3>1, ParkNone
  <2>2. CASE u # t
    BY <2>2, ParkFrame DEF ParkInv
  <2> QED BY <2>1, <2>2
<1> QED BY <1>1, <1>2, <1>3, <1>4, <1>5, <1>6, <1>7, <1>8, <1>9 DEF ParkInv

LEMMA MarkUnlockStep ==
    ASSUME IInv, NEW t \in Tasks, NEW c \in CPUs, MarkUnlock(t, c)
    PROVE  IInv'
<1> USE OtherCpu, NoOneAssumption, IpcTaskAssumption
    DEF MarkUnlock, MayRun, Goto, ipcVars, guardVars, IInv, TypeOK
<1>1. TypeOK'
    BY DEF AppPcs, GuardPcs
<1>2. MutexInv'
    BY DEF MutexInv, InGuard, HasCpu, Claimed, Parking, IpcPcs
<1>3. CallInv'
    BY DEF CallInv, HasCpu, Claimed, Parking, IpcPcs
<1>4. HandoverInv'
    BY DEF HandoverInv, Posted
<1>5. SchedInv'
    BY DEF SchedInv, OwnPcs
<1>6. MaskInv'
  <2>1. \A u \in Tasks :
           /\ pc'[u] \in {"f_op", "f_end"} <=> pc[u] \in {"f_op", "f_end"}
           /\ pc'[u] \in OwnPcs \ {"f_intr", "f_resume"} <=> pc[u] \in OwnPcs \ {"f_intr", "f_resume"}
           /\ pc[u] \in OwnPcs => op'[u].cpu = op[u].cpu
    BY DEF OwnPcs
  <2> QED BY <2>1, MaskFrame
<1>7. ParkIdle'
    BY DEF ParkInv, ParkIdle, HasCpu, Claimed, Parking, IpcPcs, Leaving, BlockOn
<1>8. ParkFree'
    BY DEF ParkInv, ParkFree, Claimed, Parking, IpcPcs
<1>9. ASSUME NEW u \in Tasks PROVE ParkTask(u)'
  <2>1. CASE u = t
    <3>1. ~HasCpu(u)'
      BY <2>1 DEF HasCpu, Claimed, Parking, IpcPcs
    <3> QED BY <3>1, ParkNone
  <2>2. CASE u # t
    BY <2>2, ParkFrame DEF ParkInv
  <2> QED BY <2>1, <2>2
<1> QED BY <1>1, <1>2, <1>3, <1>4, <1>5, <1>6, <1>7, <1>8, <1>9 DEF ParkInv

-----------------------------------------------------------------------------
(* The steps of a task in esp_ipc_call_and_wait().                         *)

LEMMA CallIpcStep ==
    ASSUME IInv, NEW t \in Tasks, NEW c \in CPUs, CallIpc(t, c), UNCHANGED guardVars
    PROVE  IInv'
<1> USE OtherCpu, NoOneAssumption, IpcTaskAssumption
    DEF CallIpc, MayRun, Goto, Call, ipcVars, guardVars, IInv, TypeOK
<1>1. TypeOK'
    BY IpcAssumption, GuardAssumption DEF AppPcs, GuardPcs, Calls, Waits, Funcs
<1>2. MutexInv'
    BY DEF MutexInv, InGuard, HasCpu, Claimed, Parking, IpcPcs
<1>3. CallInv'
    BY DEF CallInv, HasCpu, Claimed, Parking, IpcPcs
<1>4. HandoverInv'
    BY DEF HandoverInv, MutexInv, Posted, CallInv, CPUs, BlockPcs, Jobs, NoJob
<1>5. SchedInv'
    BY DEF SchedInv, OwnPcs
<1>6. MaskInv'
  <2>1. \A u \in Tasks :
           /\ pc'[u] \in {"f_op", "f_end"} <=> pc[u] \in {"f_op", "f_end"}
           /\ pc'[u] \in OwnPcs \ {"f_intr", "f_resume"} <=> pc[u] \in OwnPcs \ {"f_intr", "f_resume"}
           /\ pc[u] \in OwnPcs => op'[u].cpu = op[u].cpu
    BY DEF OwnPcs
  <2> QED BY <2>1, MaskFrame
<1>7. ParkIdle'
    BY DEF ParkInv, ParkIdle, HasCpu, Claimed, Parking, IpcPcs, Leaving, BlockOn
<1>8. ParkFree'
    BY DEF ParkInv, ParkFree, Claimed, Parking, IpcPcs
<1>9. ASSUME NEW u \in Tasks PROVE ParkTask(u)'
  <2>1. CASE u = t
    <3>1. ~HasCpu(u)'
      BY <2>1 DEF HasCpu, Claimed, Parking, IpcPcs
    <3> QED BY <3>1, ParkNone
  <2>2. CASE u # t
    BY <2>2, ParkFrame DEF ParkInv
  <2> QED BY <2>1, <2>2
<1> QED BY <1>1, <1>2, <1>3, <1>4, <1>5, <1>6, <1>7, <1>8, <1>9 DEF ParkInv

LEMMA TakeMutexStep ==
    ASSUME IInv, NEW t \in Tasks, NEW c \in CPUs, TakeMutex(t, c), UNCHANGED guardVars
    PROVE  IInv'
<1> USE OtherCpu, NoOneAssumption, IpcTaskAssumption
    DEF TakeMutex, MayRun, Goto, ipcVars, guardVars, IInv, TypeOK
<1>1. TypeOK'
    BY DEF AppPcs, GuardPcs
<1>2. MutexInv'
    BY DEF MutexInv, InGuard, HasCpu, Claimed, Parking, IpcPcs
<1>3. CallInv'
    BY DEF CallInv, HasCpu, Claimed, Parking, IpcPcs
<1>4. HandoverInv'
    BY DEF HandoverInv, Posted
<1>5. SchedInv'
    BY DEF SchedInv, OwnPcs
<1>6. MaskInv'
  <2>1. \A u \in Tasks :
           /\ pc'[u] \in {"f_op", "f_end"} <=> pc[u] \in {"f_op", "f_end"}
           /\ pc'[u] \in OwnPcs \ {"f_intr", "f_resume"} <=> pc[u] \in OwnPcs \ {"f_intr", "f_resume"}
           /\ pc[u] \in OwnPcs => op'[u].cpu = op[u].cpu
    BY DEF OwnPcs
  <2> QED BY <2>1, MaskFrame
<1>7. ParkIdle'
    BY DEF ParkInv, ParkIdle, HasCpu, Claimed, Parking, IpcPcs, Leaving, BlockOn
<1>8. ParkFree'
    BY DEF ParkInv, ParkFree, Claimed, Parking, IpcPcs
<1>9. ASSUME NEW u \in Tasks PROVE ParkTask(u)'
  <2>1. CASE u = t
    BY <2>1 DEF ParkInv, ParkTask, OwnCpu, Before, Waiting, After, HasCpu, Claimed, Parking,
        IpcPcs, Leaving, BlockOn, Arriving, Parked
  <2>2. CASE u # t
    BY <2>2, ParkFrame DEF ParkInv
  <2> QED BY <2>1, <2>2
<1> QED BY <1>1, <1>2, <1>3, <1>4, <1>5, <1>6, <1>7, <1>8, <1>9 DEF ParkInv

LEMMA PostCallStep ==
    ASSUME IInv, NEW t \in Tasks, NEW c \in CPUs, PostCall(t, c), UNCHANGED guardVars
    PROVE  IInv'
<1> USE OtherCpu, NoOneAssumption, IpcTaskAssumption
    DEF PostCall, MayRun, Goto, ipcVars, guardVars, IInv, TypeOK
<1>1. TypeOK'
    BY DEF AppPcs, GuardPcs, Calls, Jobs, Waits
<1>2. MutexInv'
    BY DEF MutexInv, InGuard, HasCpu, Claimed, Parking, IpcPcs
<1>3. CallInv'
    BY DEF CallInv, HasCpu, Claimed, Parking, IpcPcs
<1>4. HandoverInv'
    BY DEF HandoverInv, MutexInv, Posted, CallInv, CPUs, BlockPcs, Jobs, NoJob
<1>5. SchedInv'
    BY DEF SchedInv, OwnPcs
<1>6. MaskInv'
  <2>1. \A u \in Tasks :
           /\ pc'[u] \in {"f_op", "f_end"} <=> pc[u] \in {"f_op", "f_end"}
           /\ pc'[u] \in OwnPcs \ {"f_intr", "f_resume"} <=> pc[u] \in OwnPcs \ {"f_intr", "f_resume"}
           /\ pc[u] \in OwnPcs => op'[u].cpu = op[u].cpu
    BY DEF OwnPcs
  <2> QED BY <2>1, MaskFrame
<1>7. ParkIdle'
    BY DEF ParkInv, ParkIdle, HasCpu, Claimed, Parking, IpcPcs, Leaving, BlockOn
<1>8. ParkFree'
    BY DEF ParkInv, ParkFree, Claimed, Parking, IpcPcs
<1>9. ASSUME NEW u \in Tasks PROVE ParkTask(u)'
  <2>1. CASE u = t
    <3>1. ~s_ipc_ack
      BY DEF HandoverInv, MutexInv
    <3>2. Parking(t) => s_ipc_sem'[1 - op[t].cpu]
      BY DEF CallInv, HasCpu, Claimed
    <3> QED BY <2>1, <3>1, <3>2 DEF ParkInv, ParkTask, OwnCpu, Before, Waiting, After, HasCpu,
        Claimed, Parking, IpcPcs, Posted, Leaving, BlockOn
  <2>2. CASE u # t
    <3>1. pc[u] # "ipc_ack"
      BY <2>2 DEF MutexInv
    <3> QED BY <2>2, <3>1 DEF ParkInv, ParkTask, OwnCpu, Before, Waiting, After, HasCpu, Claimed,
        Parking, IpcPcs, Leaving, BlockOn, Arriving, Parked
  <2> QED BY <2>1, <2>2
<1> QED BY <1>1, <1>2, <1>3, <1>4, <1>5, <1>6, <1>7, <1>8, <1>9 DEF ParkInv

LEMMA TakeAckStep ==
    ASSUME IInv, NEW t \in Tasks, NEW c \in CPUs, TakeAck(t, c), UNCHANGED guardVars
    PROVE  IInv'
<1> USE OtherCpu, NoOneAssumption, IpcTaskAssumption
    DEF TakeAck, MayRun, Goto, ipcVars, guardVars, IInv, TypeOK
<1>1. TypeOK'
    BY DEF AppPcs, GuardPcs
<1>2. MutexInv'
    BY DEF MutexInv, InGuard, HasCpu, Claimed, Parking, IpcPcs
<1>3. CallInv'
    BY DEF CallInv, HasCpu, Claimed, Parking, IpcPcs
<1>4. HandoverInv'
    BY DEF HandoverInv, Posted
<1>5. SchedInv'
    BY DEF SchedInv, OwnPcs
<1>6. MaskInv'
  <2>1. \A u \in Tasks :
           /\ pc'[u] \in {"f_op", "f_end"} <=> pc[u] \in {"f_op", "f_end"}
           /\ pc'[u] \in OwnPcs \ {"f_intr", "f_resume"} <=> pc[u] \in OwnPcs \ {"f_intr", "f_resume"}
           /\ pc[u] \in OwnPcs => op'[u].cpu = op[u].cpu
    BY DEF OwnPcs
  <2> QED BY <2>1, MaskFrame
<1>7. ParkIdle'
    BY DEF ParkInv, ParkIdle, HasCpu, Claimed, Parking, IpcPcs, Leaving, BlockOn
<1>8. ParkFree'
    BY DEF ParkInv, ParkFree, Claimed, Parking, IpcPcs
<1>9. ASSUME NEW u \in Tasks PROVE ParkTask(u)'
  <2>1. CASE u = t
    BY <2>1, SMTT(20) DEF ParkInv, ParkTask, OwnCpu, Before, Waiting, After, HasCpu, Claimed,
        Parking, IpcPcs, Leaving, BlockOn, Arriving, Parked, Posted, CallInv, HandoverInv
  <2>2. CASE u # t
    <3>1. pc[u] # "ipc_ack"
      BY <2>2 DEF MutexInv
    <3> QED BY <2>2, <3>1 DEF ParkInv, ParkTask, OwnCpu, Before, Waiting, After, HasCpu, Claimed,
        Parking, IpcPcs, Leaving, BlockOn, Arriving, Parked
  <2> QED BY <2>1, <2>2
<1> QED BY <1>1, <1>2, <1>3, <1>4, <1>5, <1>6, <1>7, <1>8, <1>9 DEF ParkInv

LEMMA GiveMutexStep ==
    ASSUME IInv, NEW t \in Tasks, NEW c \in CPUs, GiveMutex(t, c), UNCHANGED guardVars
    PROVE  IInv'
<1> USE OtherCpu, NoOneAssumption, IpcTaskAssumption
    DEF GiveMutex, MayRun, Goto, ipcVars, guardVars, IInv, TypeOK
<1>0. /\ call[t].ret \in {"app", "f_spin"}
      /\ pc'[t] = call[t].ret /\ call'[t] = NoCall
      /\ \A u \in Tasks \ {t} : pc'[u] = pc[u] /\ call'[u] = call[u]
    BY DEF Calls
<1>a. \A u \in Tasks : /\ Claimed(u)' <=> Claimed(u)
                       /\ HasCpu(u)' <=> HasCpu(u)
                       /\ InGuard(u)' <=> InGuard(u)
                       /\ u # t => (Parking(u)' <=> Parking(u))
                       /\ pc'[u] \in OwnPcs <=> pc[u] \in OwnPcs
    BY <1>0 DEF InGuard, HasCpu, Claimed, Parking, IpcPcs, OwnPcs
<1>1. TypeOK'
    BY DEF AppPcs, GuardPcs, NoCall, Calls, Waits, Funcs, CPUs
<1>2. MutexInv'
    BY <1>0, <1>a DEF MutexInv
<1>3. CallInv'
    BY <1>0, <1>a DEF CallInv, Parking, IpcPcs
<1>4. HandoverInv'
    BY DEF HandoverInv, Posted
<1>5. SchedInv'
    BY <1>a DEF SchedInv
<1>6. MaskInv'
    BY <1>0 DEF MaskInv, OwnPcs
<1>7. ParkIdle'
    BY DEF ParkInv, ParkIdle, HasCpu, Claimed, Parking, IpcPcs, Leaving, BlockOn
<1>8. ParkFree'
    BY <1>a DEF ParkInv, ParkFree
<1>9. ASSUME NEW u \in Tasks PROVE ParkTask(u)'
  <2>1. /\ OwnCpu(u)'
        /\ Leaving(1 - op[u].cpu)' <=> Leaving(1 - op[u].cpu)
        /\ Arriving(1 - op[u].cpu)' <=> Arriving(1 - op[u].cpu)
    BY <1>a DEF ParkInv, ParkTask, OwnCpu, BlockOn, Leaving, Arriving
  <2>2. CASE u # t
    BY <2>1, <2>2, <1>0, <1>a DEF ParkInv, ParkTask, Before, Waiting, After, Posted, Parked
  <2>3. CASE u = t
    BY <2>1, <2>3, <1>0 DEF ParkInv, ParkTask, Before, Waiting, After, Parking, IpcPcs
  <2> QED BY <2>2, <2>3
<1> QED BY <1>1, <1>2, <1>3, <1>4, <1>5, <1>6, <1>7, <1>8, <1>9 DEF ParkInv

-----------------------------------------------------------------------------
(* The steps of ipc_task().                                                *)

LEMMA WakeIpcStep ==
    ASSUME IInv, NEW c \in CPUs, WakeIpc(c), UNCHANGED guardVars
    PROVE  IInv'
<1> USE OtherCpu, NoOneAssumption, IpcTaskAssumption
    DEF WakeIpc, Jump, ipcVars, guardVars, IInv, TypeOK
<1>1. TypeOK'
    BY DEF BlockPcs
<1>2. MutexInv'
    BY DEF MutexInv, InGuard, HasCpu, Claimed, Parking, IpcPcs
<1>3. CallInv'
    BY DEF CallInv, HasCpu, Claimed, Parking, IpcPcs
<1>4. HandoverInv'
    BY DEF HandoverInv, MutexInv, Posted, CallInv, CPUs, BlockPcs, Jobs, NoJob
<1>5. SchedInv'
    BY DEF SchedInv, OwnPcs, BlockPcs
<1>6. MaskInv'
    BY DEF MaskInv, OwnPcs
<1>7. ParkIdle'
    BY DEF ParkInv, ParkIdle, HasCpu, Claimed, Parking, IpcPcs, Leaving, BlockOn
<1>8. ParkFree'
    BY DEF ParkInv, ParkFree, Claimed, Parking, IpcPcs
<1>9. ASSUME NEW u \in Tasks PROVE ParkTask(u)'
  <2>1. CASE ~HasCpu(u)
    BY <2>1, ParkNone DEF HasCpu, Claimed, Parking
  <2>2. CASE HasCpu(u)
    <3>1. op[u].cpu \in CPUs /\ 1 - op[u].cpu \in CPUs
      BY <2>2 DEF CallInv
    <3>2. ~BlockOn(c)
      BY DEF HandoverInv, BlockOn
    <3>3. ASSUME NEW d \in CPUs
          PROVE  /\ BlockOn(d)' <=> BlockOn(d)
                 /\ Leaving(d) => Leaving(d)'
                 /\ Arriving(d) => Arriving(d)'
                 /\ Parked(d) => Parked(d)'
                 /\ Posted(d) => Posted(d)'
                 /\ ipc[d].at = "begin" => ipc'[d].at = "begin"
      BY <3>2 DEF BlockOn, Leaving, Arriving, Parked, Posted, HandoverInv
    <3> QED BY <3>1, <3>3 DEF WakeIpc, ParkInv, ParkTask, OwnCpu, Before, Waiting, After, HasCpu,
        Claimed, Parking
  <2> QED BY <2>1, <2>2
<1> QED BY <1>1, <1>2, <1>3, <1>4, <1>5, <1>6, <1>7, <1>8, <1>9 DEF ParkInv

\* The call that the IPC task of c is about to run is that of a task that waits.
LEMMA PostedBy ==
    ASSUME IInv, NEW c \in CPUs, ipc[c].at \in {"fetch", "begin"}
    PROVE  \E t \in Tasks :
              /\ pc[t] = "ipc_ack" /\ call[t].cpu = c /\ s_func.fn = call[t].fn
              /\ \A u \in Tasks \ {t} : HasCpu(u) => s_func.fn = "work" /\ ~Parking(t)
              /\ \A u \in Tasks \ {t} : pc[u] # "ipc_ack"
              /\ Parking(t) <=> s_func.fn = "block"
<1> USE DEF IInv, TypeOK
<1>1. PICK t \in Tasks : pc[t] = "ipc_ack" /\ call[t].cpu = c /\ s_func.fn = call[t].fn
    BY DEF HandoverInv, Posted
<1>2. Parking(t) <=> s_func.fn = "block"
    BY <1>1 DEF CallInv, Parking, IpcPcs
<1>3. \A u \in Tasks \ {t} : pc[u] # "ipc_ack"
    BY <1>1 DEF MutexInv
<1>4. \A u \in Tasks \ {t} : HasCpu(u) => s_func.fn = "work" /\ ~Parking(t)
    BY <1>2 DEF MutexInv, InGuard, HasCpu, Claimed, Jobs, Funcs
<1> QED BY <1>1, <1>2, <1>3, <1>4

LEMMA FetchFuncStep ==
    ASSUME IInv, NEW c \in CPUs, FetchFunc(c), UNCHANGED guardVars
    PROVE  IInv'
<1> USE OtherCpu, NoOneAssumption, IpcTaskAssumption
    DEF FetchFunc, Jump, ipcVars, guardVars, IInv, TypeOK
<1>1. TypeOK'
    BY DEF BlockPcs
<1>2. MutexInv'
    BY DEF MutexInv, InGuard, HasCpu, Claimed, Parking, IpcPcs
<1>3. CallInv'
    BY DEF CallInv, HasCpu, Claimed, Parking, IpcPcs
<1>4. HandoverInv'
    BY DEF HandoverInv, MutexInv, Posted, CallInv, CPUs, BlockPcs, Jobs, NoJob
<1>5. SchedInv'
    BY DEF SchedInv, OwnPcs, BlockPcs
<1>6. MaskInv'
    BY DEF MaskInv, OwnPcs
<1>7. ParkIdle'
  <2>1. PICK t \in Tasks : Parking(t) <=> s_func.fn = "block"
    BY PostedBy
  <2> QED BY <2>1 DEF ParkInv, ParkIdle, HasCpu, Claimed, Parking, Leaving, BlockOn
<1>8. ParkFree'
    BY DEF ParkInv, ParkFree, Claimed, Parking, IpcPcs
<1>9. ASSUME NEW u \in Tasks PROVE ParkTask(u)'
  <2>1. PICK t \in Tasks :
              /\ pc[t] = "ipc_ack" /\ call[t].cpu = c /\ s_func.fn = call[t].fn
              /\ \A v \in Tasks \ {t} : HasCpu(v) => s_func.fn = "work" /\ ~Parking(t)
              /\ \A v \in Tasks \ {t} : pc[v] # "ipc_ack"
              /\ Parking(t) <=> s_func.fn = "block"
    BY PostedBy
  <2>2. CASE u = t
    BY <2>1, <2>2, SMTT(20) DEF ParkInv, ParkTask, OwnCpu, Before, Waiting, After, HasCpu,
        Claimed, Parking, CallInv, Leaving, BlockOn, Posted, Arriving
  <2>3. CASE u # t
    <3>1. HasCpu(u) => s_func.fn # "block"
      BY <2>1, <2>3
    <3> QED BY <2>1, <2>3, <3>1, SMTT(20) DEF ParkInv, ParkTask, OwnCpu, Before, Waiting, After,
        HasCpu, Claimed, Parking, Leaving, BlockOn, Arriving, Parked
  <2> QED BY <2>2, <2>3
<1> QED BY <1>1, <1>2, <1>3, <1>4, <1>5, <1>6, <1>7, <1>8, <1>9 DEF ParkInv

LEMMA AckStartStep ==
    ASSUME IInv, NEW c \in CPUs, AckStart(c), UNCHANGED guardVars
    PROVE  IInv'
<1> USE OtherCpu, NoOneAssumption, IpcTaskAssumption
    DEF AckStart, Jump, ipcVars, guardVars, IInv, TypeOK
<1>1. TypeOK'
    BY DEF BlockPcs
<1>2. MutexInv'
    BY DEF MutexInv, InGuard, HasCpu, Claimed, Parking, IpcPcs
<1>3. CallInv'
    BY DEF CallInv, HasCpu, Claimed, Parking, IpcPcs
<1>4. HandoverInv'
    BY DEF HandoverInv, MutexInv, Posted, CallInv, CPUs, BlockPcs, Jobs, NoJob
<1>5. SchedInv'
    BY DEF SchedInv, OwnPcs, BlockPcs
<1>6. MaskInv'
    BY DEF MaskInv, OwnPcs
<1>7. ParkIdle'
    BY DEF ParkInv, ParkIdle, HasCpu, Claimed, Parking, IpcPcs, Leaving, BlockOn
<1>8. ParkFree'
    BY DEF ParkInv, ParkFree, Claimed, Parking, IpcPcs
<1>9. ASSUME NEW u \in Tasks PROVE ParkTask(u)'
  <2>1. PICK t \in Tasks :
              /\ pc[t] = "ipc_ack" /\ call[t].cpu = c /\ s_func.fn = call[t].fn
              /\ \A v \in Tasks \ {t} : HasCpu(v) => s_func.fn = "work" /\ ~Parking(t)
              /\ \A v \in Tasks \ {t} : pc[v] # "ipc_ack"
              /\ Parking(t) <=> s_func.fn = "block"
    BY PostedBy
  <2>2. ipc[c].job.fn = s_func.fn /\ s_ipc_ack' /\ ~s_ipc_ack
    BY DEF HandoverInv, Posted
  <2>3. CASE u = t
    BY <2>1, <2>2, <2>3, SMTT(20) DEF ParkInv, ParkTask, OwnCpu, Before, Waiting, After, HasCpu,
        Claimed, Parking, CallInv, BlockOn, Arriving
  <2>4. CASE u # t
    BY <2>1, <2>2, <2>4, SMTT(20) DEF ParkInv, ParkTask, OwnCpu, Before, Waiting, After, HasCpu,
        Claimed, Parking, Leaving, BlockOn, Arriving, Parked
  <2> QED BY <2>3, <2>4
<1> QED BY <1>1, <1>2, <1>3, <1>4, <1>5, <1>6, <1>7, <1>8, <1>9 DEF ParkInv

LEMMA RunWorkStep ==
    ASSUME IInv, NEW c \in CPUs, RunWork(c), UNCHANGED guardVars
    PROVE  IInv'
<1> USE OtherCpu, NoOneAssumption, IpcTaskAssumption
    DEF RunWork, Jump, ipcVars, guardVars, IInv, TypeOK
<1>1. TypeOK'
    BY DEF BlockPcs
<1>2. MutexInv'
    BY DEF MutexInv, InGuard, HasCpu, Claimed, Parking, IpcPcs
<1>3. CallInv'
    BY DEF CallInv, HasCpu, Claimed, Parking, IpcPcs
<1>4. HandoverInv'
    BY DEF HandoverInv, MutexInv, Posted, CallInv, CPUs, BlockPcs, Jobs, NoJob
<1>5. SchedInv'
    BY DEF SchedInv, OwnPcs, BlockPcs
<1>6. MaskInv'
    BY DEF MaskInv, OwnPcs
<1>7. ParkIdle'
    BY DEF ParkInv, ParkIdle, HasCpu, Claimed, Parking, IpcPcs, Leaving, BlockOn
<1>8. ParkFree'
    BY DEF ParkInv, ParkFree, Claimed, Parking, IpcPcs
<1>9. ASSUME NEW u \in Tasks PROVE ParkTask(u)'
  <2>1. CASE ~HasCpu(u)
    BY <2>1, ParkNone DEF HasCpu, Claimed, Parking
  <2>2. CASE HasCpu(u)
    <3>1. op[u].cpu \in CPUs /\ 1 - op[u].cpu \in CPUs
      BY <2>2 DEF CallInv
    <3>2. ~BlockOn(c)
      BY DEF HandoverInv, BlockOn
    <3>3. ASSUME NEW d \in CPUs
          PROVE  /\ BlockOn(d)' <=> BlockOn(d)
                 /\ Leaving(d) => Leaving(d)'
                 /\ Arriving(d) => Arriving(d)'
                 /\ Parked(d) => Parked(d)'
                 /\ Posted(d) => Posted(d)'
                 /\ ipc[d].at = "begin" => ipc'[d].at = "begin"
      BY <3>2 DEF BlockOn, Leaving, Arriving, Parked, Posted, HandoverInv
    <3> QED BY <3>1, <3>3 DEF RunWork, ParkInv, ParkTask, OwnCpu, Before, Waiting, After, HasCpu,
        Claimed, Parking
  <2> QED BY <2>1, <2>2
<1> QED BY <1>1, <1>2, <1>3, <1>4, <1>5, <1>6, <1>7, <1>8, <1>9 DEF ParkInv

LEMMA AckEndStep ==
    ASSUME IInv, NEW c \in CPUs, AckEnd(c), UNCHANGED guardVars
    PROVE  IInv'
<1> USE OtherCpu, NoOneAssumption, IpcTaskAssumption
    DEF AckEnd, Jump, ipcVars, guardVars, IInv, TypeOK
<1>0. s_ipc_ack' = s_ipc_ack
    BY DEF HandoverInv
<1>1. TypeOK'
    BY DEF NoJob, Jobs, Funcs, Waits
<1>2. MutexInv'
    BY DEF MutexInv, InGuard, HasCpu, Claimed, Parking, IpcPcs
<1>3. CallInv'
    BY DEF CallInv, HasCpu, Claimed, Parking, IpcPcs
<1>4. HandoverInv'
    BY DEF HandoverInv, MutexInv, Posted, CallInv, CPUs, BlockPcs, Jobs, NoJob
<1>5. SchedInv'
    BY DEF SchedInv, OwnPcs, BlockPcs
<1>6. MaskInv'
    BY DEF MaskInv, OwnPcs
<1>7. ParkIdle'
    BY DEF MutexInv, InGuard, HasCpu, Claimed, Parking, IpcPcs, CallInv, ParkInv, ParkTask,
        ParkIdle, Before, Leaving, BlockOn, CPUs, HandoverInv, NoJob, BlockPcs, Posted
<1>8. ParkFree'
    BY DEF ParkInv, ParkFree, Claimed, Parking, IpcPcs
<1>9. ASSUME NEW u \in Tasks PROVE ParkTask(u)'
  <2>1. OwnCpu(u)' /\ Before(u)' /\ After(u)'
    BY DEF ParkInv, ParkTask, OwnCpu, Before, After, HasCpu, Claimed, Parking, Leaving, BlockOn,
        Arriving, Parked, NoJob
  <2>2. Waiting(u)'
    BY <1>0 DEF ParkInv, ParkTask, Waiting, Parking, Leaving, BlockOn, Arriving, Posted, NoJob
  <2> QED BY <2>1, <2>2 DEF ParkTask
<1> QED BY <1>1, <1>2, <1>3, <1>4, <1>5, <1>6, <1>7, <1>8, <1>9 DEF ParkInv

-----------------------------------------------------------------------------
(* The steps of spi_flash_op_block_func().                                 *)

LEMMA BlockSuspendStep ==
    ASSUME IInv, NEW c \in CPUs, BlockSuspend(c)
    PROVE  IInv'
<1> USE OtherCpu, NoOneAssumption, IpcTaskAssumption
    DEF BlockSuspend, Jump, Block, ipcVars, guardVars, IInv, TypeOK
<1>1. TypeOK'
  <2>1. ipc' \in [CPUs -> [at : {"wait", "fetch", "begin", "end"} \cup BlockPcs, job : Jobs]]
    BY DEF BlockPcs
  <2>2. suspended' \in [CPUs -> Tasks \cup {NoOne} \cup {IpcTask[d] : d \in CPUs}]
    OBVIOUS
  <2> QED BY <2>1, <2>2
<1>2. MutexInv'
    BY DEF MutexInv, InGuard, HasCpu, Claimed, Parking, IpcPcs
<1>3. CallInv'
    BY DEF CallInv, HasCpu, Claimed, Parking, IpcPcs
<1>4. HandoverInv'
    BY DEF HandoverInv, Posted
<1>5. SchedInv'
  <2>0. \A u \in Tasks : suspended[c] # u
    BY DEF SchedInv
  <2>1. ASSUME NEW d \in CPUs, NEW u \in Tasks
        PROVE  /\ suspended'[d] = u <=> pc'[u] \in OwnPcs /\ op'[u].cpu = d
               /\ suspended'[d] = u => ipc'[d].at = "wait"
    BY <2>0 DEF SchedInv, OwnPcs
  <2>2. ASSUME NEW d \in CPUs
        PROVE  /\ suspended'[d] = IpcTask[d] <=> ipc'[d].at \in BlockPcs \ {"func"}
               /\ suspended'[d] # IpcTask[1-d]
    BY DEF SchedInv, BlockPcs, IpcTask
  <2> QED BY <2>1, <2>2 DEF SchedInv
<1>6. MaskInv'
    BY DEF MaskInv, OwnPcs
<1>7. ParkIdle'
    BY DEF ParkInv, ParkIdle, HasCpu, Claimed, Parking, IpcPcs, Leaving, BlockOn
<1>8. ParkFree'
    BY DEF ParkInv, ParkFree, Claimed, Parking, IpcPcs
<1>9. ASSUME NEW u \in Tasks PROVE ParkTask(u)'
  <2>1. CASE ~HasCpu(u)
    BY <2>1, ParkNone DEF HasCpu, Claimed, Parking
  <2>2. CASE HasCpu(u)
    <3>1. op[u].cpu \in CPUs /\ c = 1 - op[u].cpu
      BY <2>2 DEF CallInv, ParkInv, ParkTask, OwnCpu, BlockOn, CPUs
    <3>2. OwnCpu(u)' /\ Before(u)'
      BY <3>1 DEF ParkInv, ParkTask, OwnCpu, Before, HasCpu, Claimed, Parking, Leaving, BlockOn
    <3>3. Waiting(u)'
      <4>1. Parking(u) /\ pc[u] = "ipc_ack" => s_ipc_ack /\ Arriving(c)
        BY <3>1 DEF ParkInv, ParkTask, Waiting, Leaving, BlockOn
      <4> QED BY <3>1, <4>1 DEF Waiting, Parking, Arriving, BlockOn
    <3>4. After(u)'
      BY <3>1 DEF ParkInv, ParkTask, After, Parking, Arriving, Parked, BlockOn
    <3> QED BY <3>2, <3>3, <3>4 DEF ParkTask
  <2> QED BY <2>1, <2>2
<1> QED BY <1>1, <1>2, <1>3, <1>4, <1>5, <1>6, <1>7, <1>8, <1>9 DEF ParkInv

LEMMA BlockMaskStep ==
    ASSUME IInv, NEW c \in CPUs, BlockMask(c)
    PROVE  IInv'
<1> USE OtherCpu, NoOneAssumption, IpcTaskAssumption
    DEF BlockMask, Jump, Block, ipcVars, guardVars, IInv, TypeOK
<1>1. TypeOK'
    BY DEF BlockPcs
<1>2. MutexInv'
    BY DEF MutexInv, InGuard, HasCpu, Claimed, Parking, IpcPcs
<1>3. CallInv'
    BY DEF CallInv, HasCpu, Claimed, Parking, IpcPcs
<1>4. HandoverInv'
    BY DEF HandoverInv, Posted
<1>5. SchedInv'
    BY DEF SchedInv, OwnPcs, BlockPcs
<1>6. MaskInv'
    BY DEF MaskInv, OwnPcs
<1>7. ParkIdle'
    BY DEF ParkInv, ParkIdle, HasCpu, Claimed, Parking, IpcPcs, Leaving, BlockOn
<1>8. ParkFree'
    BY DEF ParkInv, ParkFree, Claimed, Parking, IpcPcs
<1>9. ASSUME NEW u \in Tasks PROVE ParkTask(u)'
  <2>1. CASE ~HasCpu(u)
    BY <2>1, ParkNone DEF HasCpu, Claimed, Parking
  <2>2. CASE HasCpu(u)
    <3>1. op[u].cpu \in CPUs /\ c = 1 - op[u].cpu
      BY <2>2 DEF CallInv, ParkInv, ParkTask, OwnCpu, BlockOn, CPUs
    <3>2. OwnCpu(u)' /\ Before(u)'
      BY <3>1 DEF ParkInv, ParkTask, OwnCpu, Before, HasCpu, Claimed, Parking, Leaving, BlockOn
    <3>3. Waiting(u)'
      <4>1. Parking(u) /\ pc[u] = "ipc_ack" => s_ipc_ack /\ Arriving(c)
        BY <3>1 DEF ParkInv, ParkTask, Waiting, Leaving, BlockOn
      <4> QED BY <3>1, <4>1 DEF Waiting, Parking, Arriving, BlockOn
    <3>4. After(u)'
      BY <3>1 DEF ParkInv, ParkTask, After, Parking, Arriving, Parked, BlockOn
    <3> QED BY <3>2, <3>3, <3>4 DEF ParkTask
  <2> QED BY <2>1, <2>2
<1> QED BY <1>1, <1>2, <1>3, <1>4, <1>5, <1>6, <1>7, <1>8, <1>9 DEF ParkInv

LEMMA BlockDisableStep ==
    ASSUME IInv, NEW c \in CPUs, BlockDisable(c)
    PROVE  IInv'
<1> USE OtherCpu, NoOneAssumption, IpcTaskAssumption
    DEF BlockDisable, Jump, Block, ipcVars, guardVars, IInv, TypeOK
<1>1. TypeOK'
    BY DEF BlockPcs
<1>2. MutexInv'
    BY DEF MutexInv, InGuard, HasCpu, Claimed, Parking, IpcPcs
<1>3. CallInv'
    BY DEF CallInv, HasCpu, Claimed, Parking, IpcPcs
<1>4. HandoverInv'
    BY DEF HandoverInv, Posted
<1>5. SchedInv'
    BY DEF SchedInv, OwnPcs, BlockPcs
<1>6. MaskInv'
    BY DEF MaskInv, OwnPcs
<1>7. ParkIdle'
    BY DEF ParkInv, ParkIdle, HasCpu, Claimed, Parking, IpcPcs, Leaving, BlockOn
<1>8. ParkFree'
    BY DEF ParkInv, ParkFree, Claimed, Parking, IpcPcs
<1>9. ASSUME NEW u \in Tasks PROVE ParkTask(u)'
  <2>1. CASE ~HasCpu(u)
    BY <2>1, ParkNone DEF HasCpu, Claimed, Parking
  <2>2. CASE HasCpu(u)
    <3>1. op[u].cpu \in CPUs /\ c = 1 - op[u].cpu
      BY <2>2 DEF CallInv, ParkInv, ParkTask, OwnCpu, BlockOn, CPUs
    <3>2. OwnCpu(u)' /\ Before(u)'
      BY <3>1 DEF ParkInv, ParkTask, OwnCpu, Before, HasCpu, Claimed, Parking, Leaving, BlockOn
    <3>3. Waiting(u)'
      <4>1. Parking(u) /\ pc[u] = "ipc_ack" => s_ipc_ack /\ Arriving(c)
        BY <3>1 DEF ParkInv, ParkTask, Waiting, Leaving, BlockOn
      <4> QED BY <3>1, <4>1 DEF Waiting, Parking, Arriving, BlockOn
    <3>4. After(u)'
      BY <3>1 DEF ParkInv, ParkTask, After, Parking, Arriving, Parked, BlockOn
    <3> QED BY <3>2, <3>3, <3>4 DEF ParkTask
  <2> QED BY <2>1, <2>2
<1> QED BY <1>1, <1>2, <1>3, <1>4, <1>5, <1>6, <1>7, <1>8, <1>9 DEF ParkInv

LEMMA BlockClearStep ==
    ASSUME IInv, NEW c \in CPUs, BlockClear(c)
    PROVE  IInv'
<1> USE OtherCpu, NoOneAssumption, IpcTaskAssumption
    DEF BlockClear, Jump, Block, ipcVars, guardVars, IInv, TypeOK
<1>1. TypeOK'
  <2>1. ipc' \in [CPUs -> [at : {"wait", "fetch", "begin", "end"} \cup BlockPcs, job : Jobs]]
    BY DEF BlockPcs
  <2> QED BY <2>1
<1>2. MutexInv'
    BY DEF MutexInv, InGuard, HasCpu, Claimed, Parking, IpcPcs
<1>3. CallInv'
    BY DEF CallInv, HasCpu, Claimed, Parking, IpcPcs
<1>4. HandoverInv'
    BY DEF HandoverInv, Posted
<1>5. SchedInv'
    BY DEF SchedInv, OwnPcs, BlockPcs
<1>6. MaskInv'
    BY DEF MaskInv, OwnPcs
<1>7. ParkIdle'
    BY DEF ParkInv, ParkIdle, HasCpu, Claimed, Parking, IpcPcs, Leaving, BlockOn
<1>8. ParkFree'
    BY DEF ParkInv, ParkFree, Claimed, Parking, IpcPcs
<1>9. ASSUME NEW u \in Tasks PROVE ParkTask(u)'
  <2>1. CASE ~HasCpu(u)
    BY <2>1, ParkNone DEF HasCpu, Claimed, Parking
  <2>2. CASE HasCpu(u)
    <3>1. op[u].cpu \in CPUs /\ c = 1 - op[u].cpu
      BY <2>2 DEF CallInv, ParkInv, ParkTask, OwnCpu, BlockOn, CPUs
    <3>2. OwnCpu(u)' /\ Before(u)'
      BY <3>1 DEF ParkInv, ParkTask, OwnCpu, Before, HasCpu, Claimed, Parking, Leaving, BlockOn
    <3>3. Waiting(u)'
      <4>1. Parking(u) /\ pc[u] = "ipc_ack" => s_ipc_ack /\ Arriving(c)
        BY <3>1 DEF ParkInv, ParkTask, Waiting, Leaving, BlockOn
      <4> QED BY <3>1, <4>1 DEF Waiting, Parking, Arriving, BlockOn
    <3>4. After(u)'
      BY <3>1 DEF ParkInv, ParkTask, After, Parking, Arriving, Parked, BlockOn
    <3> QED BY <3>2, <3>3, <3>4 DEF ParkTask
  <2> QED BY <2>1, <2>2
<1> QED BY <1>1, <1>2, <1>3, <1>4, <1>5, <1>6, <1>7, <1>8, <1>9 DEF ParkInv

LEMMA BlockStartStep ==
    ASSUME IInv, NEW c \in CPUs, BlockStart(c)
    PROVE  IInv'
<1> USE OtherCpu, NoOneAssumption, IpcTaskAssumption
    DEF BlockStart, Jump, Block, ipcVars, guardVars, IInv, TypeOK
<1>1. TypeOK'
    BY DEF BlockPcs
<1>2. MutexInv'
    BY DEF MutexInv, InGuard, HasCpu, Claimed, Parking, IpcPcs
<1>3. CallInv'
    BY DEF CallInv, HasCpu, Claimed, Parking, IpcPcs
<1>4. HandoverInv'
    BY DEF HandoverInv, Posted
<1>5. SchedInv'
    BY DEF SchedInv, OwnPcs, BlockPcs
<1>6. MaskInv'
    BY DEF MaskInv, OwnPcs
<1>7. ParkIdle'
    BY DEF ParkInv, ParkIdle, HasCpu, Claimed, Parking, IpcPcs, Leaving, BlockOn
<1>8. ParkFree'
    BY DEF ParkInv, ParkFree, Claimed, Parking, IpcPcs
<1>9. ASSUME NEW u \in Tasks PROVE ParkTask(u)'
  <2>1. CASE ~HasCpu(u)
    BY <2>1, ParkNone DEF HasCpu, Claimed, Parking
  <2>2. CASE HasCpu(u)
    <3>1. op[u].cpu \in CPUs /\ c = 1 - op[u].cpu
      BY <2>2 DEF CallInv, ParkInv, ParkTask, OwnCpu, BlockOn, CPUs
    <3>2. OwnCpu(u)' /\ Before(u)'
      BY <3>1 DEF ParkInv, ParkTask, OwnCpu, Before, HasCpu, Claimed, Parking, Leaving, BlockOn
    <3>3. Waiting(u)'
      <4>1. Parking(u) /\ pc[u] = "ipc_ack" => s_ipc_ack /\ Arriving(c)
        BY <3>1 DEF ParkInv, ParkTask, Waiting, Leaving, BlockOn
      <4> QED BY <3>1, <4>1 DEF Waiting, Parking, Arriving, BlockOn
    <3>4. After(u)'
      BY <3>1 DEF ParkInv, ParkTask, After, Parking, Arriving, Parked, BlockOn
    <3> QED BY <3>2, <3>3, <3>4 DEF ParkTask
  <2> QED BY <2>1, <2>2
<1> QED BY <1>1, <1>2, <1>3, <1>4, <1>5, <1>6, <1>7, <1>8, <1>9 DEF ParkInv

LEMMA BlockSpinStep ==
    ASSUME IInv, NEW c \in CPUs, BlockSpin(c)
    PROVE  IInv'
<1> USE OtherCpu, NoOneAssumption, IpcTaskAssumption
    DEF BlockSpin, Jump, Block, ipcVars, guardVars, IInv, TypeOK
<1>1. TypeOK'
    BY DEF BlockPcs
<1>2. MutexInv'
    BY DEF MutexInv, InGuard, HasCpu, Claimed, Parking, IpcPcs
<1>3. CallInv'
    BY DEF CallInv, HasCpu, Claimed, Parking, IpcPcs
<1>4. HandoverInv'
    BY DEF HandoverInv, Posted
<1>5. SchedInv'
    BY DEF SchedInv, OwnPcs, BlockPcs
<1>6. MaskInv'
    BY DEF MaskInv, OwnPcs
<1>7. ParkIdle'
    BY DEF ParkInv, ParkIdle, HasCpu, Claimed, Parking, IpcPcs, Leaving, BlockOn
<1>8. ParkFree'
    BY DEF ParkInv, ParkFree, Claimed, Parking, IpcPcs
<1>9. ASSUME NEW u \in Tasks PROVE ParkTask(u)'
  <2>1. CASE ~HasCpu(u)
    BY <2>1, ParkNone DEF HasCpu, Claimed, Parking
  <2>2. CASE HasCpu(u)
    <3>1. op[u].cpu \in CPUs /\ c = 1 - op[u].cpu
      BY <2>2 DEF CallInv, ParkInv, ParkTask, OwnCpu, BlockOn, CPUs
    <3>2. OwnCpu(u)' /\ Before(u)'
      BY <3>1 DEF ParkInv, ParkTask, OwnCpu, Before, HasCpu, Claimed, Parking, Leaving, BlockOn
    <3>3. Waiting(u)'
      BY <3>1 DEF ParkInv, ParkTask, Waiting, Parking, Posted, Leaving, Arriving, BlockOn
    <3>4. After(u)'
      BY <3>1 DEF ParkInv, ParkTask, After, Parking, Arriving, Parked, BlockOn
    <3> QED BY <3>2, <3>3, <3>4 DEF ParkTask
  <2> QED BY <2>1, <2>2
<1> QED BY <1>1, <1>2, <1>3, <1>4, <1>5, <1>6, <1>7, <1>8, <1>9 DEF ParkInv

LEMMA BlockRestoreStep ==
    ASSUME IInv, NEW c \in CPUs, BlockRestore(c)
    PROVE  IInv'
<1> USE OtherCpu, NoOneAssumption, IpcTaskAssumption
    DEF BlockRestore, Jump, Block, ipcVars, guardVars, IInv, TypeOK
<1>1. TypeOK'
    BY DEF BlockPcs
<1>2. MutexInv'
    BY DEF MutexInv, InGuard, HasCpu, Claimed, Parking, IpcPcs
<1>3. CallInv'
    BY DEF CallInv, HasCpu, Claimed, Parking, IpcPcs
<1>4. HandoverInv'
    BY DEF HandoverInv, Posted
<1>5. SchedInv'
    BY DEF SchedInv, OwnPcs, BlockPcs
<1>6. MaskInv'
    BY DEF MaskInv, SchedInv, MutexInv, InGuard, HasCpu, Claimed, Parking, IpcPcs, ParkInv,
        ParkTask, OwnCpu, After, OwnPcs, CPUs, BlockPcs, Parked
<1>7. ParkIdle'
    BY DEF ParkInv, ParkIdle, HasCpu, Claimed, Parking, IpcPcs, Leaving, BlockOn
<1>8. ParkFree'
    BY DEF ParkInv, ParkFree, Claimed, Parking, IpcPcs
<1>9. ASSUME NEW u \in Tasks PROVE ParkTask(u)'
  <2>1. CASE ~HasCpu(u)
    BY <2>1, ParkNone DEF HasCpu, Claimed, Parking
  <2>2. CASE HasCpu(u)
    <3>1. op[u].cpu \in CPUs /\ c = 1 - op[u].cpu
      BY <2>2 DEF CallInv, ParkInv, ParkTask, OwnCpu, BlockOn, CPUs
    <3>2. OwnCpu(u)' /\ Before(u)'
      BY <3>1 DEF ParkInv, ParkTask, OwnCpu, Before, HasCpu, Claimed, Parking, Leaving, BlockOn
    <3>3. Waiting(u)'
      <4>1. Parking(u) /\ pc[u] = "ipc_ack" =>
               /\ ~s_ipc_ack /\ ~s_flash_op_can_start
               /\ Posted(c) /\ Leaving(c)
        BY <3>1 DEF ParkInv, ParkTask, Waiting, Arriving
      <4> QED BY <3>1, <4>1 DEF Waiting, Parking, Posted, Leaving, BlockOn
    <3>4. After(u)'
      BY <3>1 DEF ParkInv, ParkTask, After, Parking, Arriving, Parked, BlockOn
    <3> QED BY <3>2, <3>3, <3>4 DEF ParkTask
  <2> QED BY <2>1, <2>2
<1> QED BY <1>1, <1>2, <1>3, <1>4, <1>5, <1>6, <1>7, <1>8, <1>9 DEF ParkInv

LEMMA BlockUnmaskStep ==
    ASSUME IInv, NEW c \in CPUs, BlockUnmask(c)
    PROVE  IInv'
<1> USE OtherCpu, NoOneAssumption, IpcTaskAssumption
    DEF BlockUnmask, Jump, Block, ipcVars, guardVars, IInv, TypeOK
<1>1. TypeOK'
    BY DEF BlockPcs
<1>2. MutexInv'
    BY DEF MutexInv, InGuard, HasCpu, Claimed, Parking, IpcPcs
<1>3. CallInv'
    BY DEF CallInv, HasCpu, Claimed, Parking, IpcPcs
<1>4. HandoverInv'
    BY DEF HandoverInv, Posted
<1>5. SchedInv'
    BY DEF SchedInv, OwnPcs, BlockPcs
<1>6. MaskInv'
    BY DEF MaskInv, SchedInv, MutexInv, InGuard, HasCpu, Claimed, Parking, IpcPcs, ParkInv,
        ParkTask, OwnCpu, After, OwnPcs, CPUs, BlockPcs, Parked
<1>7. ParkIdle'
    BY DEF ParkInv, ParkIdle, HasCpu, Claimed, Parking, IpcPcs, Leaving, BlockOn
<1>8. ParkFree'
    BY DEF ParkInv, ParkFree, Claimed, Parking, IpcPcs
<1>9. ASSUME NEW u \in Tasks PROVE ParkTask(u)'
  <2>1. CASE ~HasCpu(u)
    BY <2>1, ParkNone DEF HasCpu, Claimed, Parking
  <2>2. CASE HasCpu(u)
    <3>1. op[u].cpu \in CPUs /\ c = 1 - op[u].cpu
      BY <2>2 DEF CallInv, ParkInv, ParkTask, OwnCpu, BlockOn, CPUs
    <3>2. OwnCpu(u)' /\ Before(u)'
      BY <3>1 DEF ParkInv, ParkTask, OwnCpu, Before, HasCpu, Claimed, Parking, Leaving, BlockOn
    <3>3. Waiting(u)'
      <4>1. Parking(u) /\ pc[u] = "ipc_ack" =>
               /\ ~s_ipc_ack /\ ~s_flash_op_can_start
               /\ Posted(c) /\ Leaving(c)
        BY <3>1 DEF ParkInv, ParkTask, Waiting, Arriving
      <4> QED BY <3>1, <4>1 DEF Waiting, Parking, Posted, Leaving, BlockOn
    <3>4. After(u)'
      BY <3>1 DEF ParkInv, ParkTask, After, Parking, Arriving, Parked, BlockOn
    <3> QED BY <3>2, <3>3, <3>4 DEF ParkTask
  <2> QED BY <2>1, <2>2
<1> QED BY <1>1, <1>2, <1>3, <1>4, <1>5, <1>6, <1>7, <1>8, <1>9 DEF ParkInv

LEMMA BlockResumeStep ==
    ASSUME IInv, NEW c \in CPUs, BlockResume(c)
    PROVE  IInv'
<1> USE OtherCpu, NoOneAssumption, IpcTaskAssumption
    DEF BlockResume, Jump, Block, ipcVars, guardVars, IInv, TypeOK
<1>1. TypeOK'
  <2>1. ipc' \in [CPUs -> [at : {"wait", "fetch", "begin", "end"} \cup BlockPcs, job : Jobs]]
    BY DEF BlockPcs
  <2>2. suspended' \in [CPUs -> Tasks \cup {NoOne} \cup {IpcTask[d] : d \in CPUs}]
    OBVIOUS
  <2> QED BY <2>1, <2>2
<1>2. MutexInv'
    BY DEF MutexInv, InGuard, HasCpu, Claimed, Parking, IpcPcs
<1>3. CallInv'
    BY DEF CallInv, HasCpu, Claimed, Parking, IpcPcs
<1>4. HandoverInv'
    BY DEF HandoverInv, Posted
<1>5. SchedInv'
    BY DEF SchedInv, OwnPcs, BlockPcs
<1>6. MaskInv'
    BY DEF MaskInv, OwnPcs
<1>7. ParkIdle'
    BY DEF ParkInv, ParkIdle, HasCpu, Claimed, Parking, IpcPcs, Leaving, BlockOn
<1>8. ParkFree'
    BY DEF ParkInv, ParkFree, Claimed, Parking, IpcPcs
<1>9. ASSUME NEW u \in Tasks PROVE ParkTask(u)'
  <2>1. CASE ~HasCpu(u)
    BY <2>1, ParkNone DEF HasCpu, Claimed, Parking
  <2>2. CASE HasCpu(u)
    <3>1. op[u].cpu \in CPUs /\ c = 1 - op[u].cpu
      BY <2>2 DEF CallInv, ParkInv, ParkTask, OwnCpu, BlockOn, CPUs
    <3>2. OwnCpu(u)' /\ Before(u)'
      BY <3>1 DEF ParkInv, ParkTask, OwnCpu, Before, HasCpu, Claimed, Parking, Leaving, BlockOn
    <3>3. Waiting(u)'
      <4>1. Parking(u) /\ pc[u] = "ipc_ack" =>
               /\ ~s_ipc_ack /\ ~s_flash_op_can_start
               /\ Posted(c) /\ Leaving(c)
        BY <3>1 DEF ParkInv, ParkTask, Waiting, Arriving
      <4> QED BY <3>1, <4>1 DEF Waiting, Parking, Posted, Leaving, BlockOn
    <3>4. After(u)'
      BY <3>1 DEF ParkInv, ParkTask, After, Parking, Arriving, Parked, BlockOn
    <3> QED BY <3>2, <3>3, <3>4 DEF ParkTask
  <2> QED BY <2>1, <2>2
<1> QED BY <1>1, <1>2, <1>3, <1>4, <1>5, <1>6, <1>7, <1>8, <1>9 DEF ParkInv

-----------------------------------------------------------------------------
(* The theorems.                                                           *)

LEMMA InitInv == Init => IInv
<1> SUFFICES ASSUME Init PROVE IInv
    OBVIOUS
<1> USE NoOneAssumption, IpcTaskAssumption DEF Init, IpcInit
<1>1. TypeOK
  <2>1. NoJob \in Jobs /\ NoCall \in Calls
    BY DEF NoJob, Jobs, NoCall, Calls, Funcs, Waits, CPUs
  <2>2. NoOp \in [cpu : CPUs \cup {None}, chunks : 0 .. MaxChunks, src : Sources \cup {"none"}]
    BY GuardAssumption DEF NoOp
  <2>3. /\ ipc \in [CPUs -> [at : {"wait", "fetch", "begin", "end"} \cup BlockPcs, job : Jobs]]
        /\ left \in [Tasks -> 0 .. MaxCalls]
    BY <2>1, IpcAssumption
  <2>4. /\ pc \in [Tasks -> AppPcs \cup GuardPcs]
        /\ s_ipc_wait \in Waits
    BY DEF AppPcs, Waits
  <2> QED BY <2>1, <2>2, <2>3, <2>4 DEF TypeOK
<1>2. MutexInv /\ CallInv
    BY DEF MutexInv, CallInv, InGuard, HasCpu, Claimed, Parking, IpcPcs
<1>3. HandoverInv
    BY OtherCpu DEF HandoverInv, Posted, BlockPcs, NoJob
<1>4. SchedInv
    BY OtherCpu DEF SchedInv, OwnPcs, BlockPcs
<1>5. MaskInv
    BY DEF MaskInv, OwnPcs
<1>6. ParkInv
    BY DEF ParkInv, ParkIdle, ParkFree, ParkTask, OwnCpu, Before, Waiting, After, HasCpu, Claimed,
           Parking, IpcPcs, Leaving, BlockOn, NoJob
<1> QED BY <1>1, <1>2, <1>3, <1>4, <1>5, <1>6 DEF IInv

LEMMA StutterStep == IInv /\ UNCHANGED vars => IInv'
<1> SUFFICES ASSUME IInv, UNCHANGED vars PROVE IInv'
    OBVIOUS
<1> USE DEF vars, ipcVars, guardVars, IInv
<1>1. TypeOK' /\ MutexInv' /\ CallInv'
    BY DEF TypeOK, MutexInv, CallInv, InGuard, HasCpu, Claimed, Parking
<1>2. HandoverInv' /\ SchedInv' /\ MaskInv'
    BY DEF HandoverInv, Posted, SchedInv, MaskInv
<1>3. ParkInv'
  <2>1. ParkIdle' /\ ParkFree'
    BY DEF ParkInv, ParkIdle, ParkFree, HasCpu, Claimed, Parking, Leaving, BlockOn
  <2>2. \A u \in Tasks : ParkTask(u)'
    BY ParkFrame DEF ParkInv
  <2> QED BY <2>1, <2>2 DEF ParkInv
<1> QED BY <1>1, <1>2, <1>3

LEMMA NextInv == IInv /\ [Next]_vars => IInv'
<1> SUFFICES ASSUME IInv, [Next]_vars PROVE IInv'
    OBVIOUS
<1>1. ASSUME NEW t \in Tasks, NEW c \in CPUs, FlashOp(t, c) \/ (CallIpc(t, c) /\ UNCHANGED guardVars)
      PROVE  IInv'
    BY <1>1, FlashOpStep, CallIpcStep
<1>2. ASSUME NEW t \in Tasks, NEW c \in CPUs, Guard(t, c)
      PROVE  IInv'
    BY <1>2, OpLockStep, ReadCoreStep, ClaimOpStep, SpinCanStartStep, SuspendOwnStep, MaskOwnStep,
       DisableOwnStep, OperateStep, RestoreOwnStep, SetCompleteStep, UnmaskOwnStep, ResumeOwnStep,
       OpUnlockStep, MarkLockStep, MarkUnlockStep
    DEF Guard
<1>3. ASSUME NEW t \in Tasks, NEW c \in CPUs, IpcCaller(t, c), UNCHANGED guardVars
      PROVE  IInv'
    BY <1>3, TakeMutexStep, PostCallStep, TakeAckStep, GiveMutexStep DEF IpcCaller
<1>4. ASSUME NEW c \in CPUs, IpcServer(c), UNCHANGED guardVars
      PROVE  IInv'
    BY <1>4, WakeIpcStep, FetchFuncStep, AckStartStep, RunWorkStep, AckEndStep DEF IpcServer
<1>5. ASSUME NEW c \in CPUs, BlockFunc(c)
      PROVE  IInv'
    BY <1>5, BlockSuspendStep, BlockMaskStep, BlockDisableStep, BlockClearStep, BlockStartStep,
       BlockSpinStep, BlockRestoreStep, BlockUnmaskStep, BlockResumeStep
    DEF BlockFunc
<1>6. CASE UNCHANGED vars
    BY <1>6, StutterStep
<1> QED BY <1>1, <1>2, <1>3, <1>4, <1>5, <1>6 DEF Next, TaskStep, IpcStep, Finished

LEMMA Inductive == Spec => []IInv
BY InitInv, NextInv, PTL DEF Spec

\* Every variable of the guard and of the inter-processor calls keeps its type,
\* whatever the tasks, their affinity and the length of the operations.
THEOREM GuardTypeCorrect == Spec => []TypeOK
<1>1. IInv => TypeOK
    BY DEF IInv
<1> QED BY <1>1, Inductive, PTL

\* While a ROM function works on the chip, both caches are off and the other CPU
\* is held in the busy loop of spi_flash_op_block_func(), for any number of
\* tasks that operate, call one another's CPUs and migrate at any moment.
THEOREM ChipIsAlone == Spec => []ChipAlone
<1>1. IInv => ChipAlone
  <2> SUFFICES ASSUME IInv, NEW t \in Tasks, pc[t] = "f_op"
               PROVE  \E c \in CPUs :
                         /\ suspended[c] = t
                         /\ \A d \in CPUs : ~cache[d]
                         /\ ipc[1-c].at = "b_spin" /\ ~s_flash_op_complete
    BY DEF ChipAlone
  <2>1. op[t].cpu \in CPUs /\ suspended[op[t].cpu] = t
    BY DEF IInv, CallInv, SchedInv, OwnPcs, HasCpu, Claimed
  <2>2. Parked(1 - op[t].cpu)
    BY DEF IInv, ParkInv, ParkTask, After
  <2>3. ~cache[op[t].cpu] /\ ~cache[1 - op[t].cpu]
    BY <2>1, <2>2, OtherCpu DEF IInv, MaskInv, Parked
  <2> QED BY <2>1, <2>2, <2>3 DEF Parked, CPUs
<1> QED BY <1>1, Inductive, PTL

\* A CPU whose cache is off runs only the code of the guard: its scheduler is
\* suspended by a task in its guarded section or by the IPC task in
\* spi_flash_op_block_func(), and interrupts with handlers in flash are masked.
THEOREM NothingRunsFromFlash == Spec => []NothingFromFlash
<1>1. IInv => NothingFromFlash
  <2> SUFFICES ASSUME IInv, NEW c \in CPUs, ~cache[c]
               PROVE  /\ ~nonIram[c]
                      /\ \/ suspended[c] = IpcTask[c] /\ ipc[c].at \in BlockPcs
                         \/ \E t \in Tasks : suspended[c] = t /\ pc[t] \in {"f_op", "f_end"}
    BY DEF NothingFromFlash
  <2>1. CASE ipc[c].at \in {"b_clear", "b_start", "b_spin", "b_restore"}
    BY <2>1 DEF IInv, MaskInv, SchedInv, BlockPcs
  <2>2. CASE \E t \in Tasks : pc[t] \in {"f_op", "f_end"} /\ op[t].cpu = c
    BY <2>2 DEF IInv, MaskInv, SchedInv, OwnPcs
  <2> QED BY <2>1, <2>2 DEF IInv, MaskInv
<1> QED BY <1>1, Inductive, PTL

\* No assertion and no abort() of cache_utils.c and of esp_intr_noniram_disable()
\* and _enable() fires: although a task may migrate right up to
\* vTaskSuspendAll(), the section runs on the CPU that was read before.
THEOREM NoAssertFires == Spec => []AssertsHold
<1>1. IInv => AssertsHold
  <2> SUFFICES ASSUME IInv PROVE AssertsHold
    OBVIOUS
  <2>1. ASSUME NEW t \in Tasks, NEW c \in CPUs, MayRun(t, c)
        PROVE  /\ pc[t] = "f_claim" => s_flash_op_cpu = None
               /\ pc[t] = "f_intr" => c = op[t].cpu /\ nonIram[c]
               /\ pc[t] = "f_end" => c = s_flash_op_cpu
               /\ pc[t] = "f_enable" => ~nonIram[c]
    <3>1. pc[t] \in OwnPcs => c = op[t].cpu /\ suspended[c] = t
      BY <2>1 DEF IInv, CallInv, SchedInv, OwnPcs, HasCpu, Claimed, MayRun
    <3>2. pc[t] = "f_claim" => s_flash_op_cpu = None
      BY DEF IInv, MutexInv, InGuard, HasCpu, Claimed, Parking, IpcPcs, ParkInv, ParkFree
    <3>3. pc[t] = "f_intr" => nonIram[c]
      BY <3>1, NoOneAssumption, IpcTaskAssumption, SMTT(20)
      DEF IInv, TypeOK, MaskInv, SchedInv, OwnPcs, BlockPcs
    <3>4. pc[t] = "f_end" => c = s_flash_op_cpu
      BY <3>1 DEF IInv, ParkInv, ParkTask, OwnCpu, Claimed, OwnPcs
    <3>5. pc[t] = "f_enable" => ~nonIram[c]
      BY <3>1 DEF IInv, MaskInv, OwnPcs
    <3> QED BY <3>1, <3>2, <3>3, <3>4, <3>5 DEF OwnPcs
  <2>2. ASSUME NEW c \in CPUs
        PROVE  /\ ipc[c].at = "b_intr" => nonIram[c]
               /\ ipc[c].at = "b_enable" => ~nonIram[c]
    BY IpcTaskAssumption DEF IInv, TypeOK, MaskInv, SchedInv, OwnPcs, BlockPcs
  <2> QED BY <2>1, <2>2 DEF AssertsHold
<1> QED BY <1>1, Inductive, PTL

\* The function that esp_ipc_call_and_wait() has put into s_func stays there
\* until the IPC task of the CPU it is meant for has read it: a second caller
\* writes s_func only after the first one has been acknowledged.
THEOREM FunctionIsKept == Spec => HandoverKept
<1> DEFINE Kept == s_func' # s_func => \A c \in CPUs : ~s_ipc_sem[c] /\ ipc[c].at # "fetch"
<1>1. IInv /\ [Next]_vars => [Kept]_<<s_func, s_ipc_sem, ipc>>
  <2> SUFFICES ASSUME IInv, [Next]_vars, s_func' # s_func
               PROVE  \A c \in CPUs : ~s_ipc_sem[c] /\ ipc[c].at # "fetch"
    OBVIOUS
  <2>1. PICK t \in Tasks, d \in CPUs : PostCall(t, d)
    BY DEF Next, vars, ipcVars, TaskStep, IpcStep, Finished, FlashOp, CallIpc, IpcCaller,
           IpcServer, TakeMutex, TakeAck, GiveMutex, WakeIpc, FetchFunc, AckStart, RunWork, AckEnd,
           Guard, OpLock, ReadCore, ClaimOp, SpinCanStart, SuspendOwn, MaskOwn, DisableOwn,
           Operate, RestoreOwn, SetComplete, UnmaskOwn, ResumeOwn, OpUnlock, MarkLock, MarkUnlock,
           BlockFunc, BlockSuspend, BlockMask, BlockDisable, BlockClear, BlockStart, BlockSpin,
           BlockRestore, BlockUnmask, BlockResume, Block
  <2>2. \A u \in Tasks : pc[u] # "ipc_ack"
    BY <2>1 DEF PostCall, IInv, MutexInv
  <2> QED BY <2>2 DEF IInv, HandoverInv, Posted
<1>2. Spec => [][Kept]_<<s_func, s_ipc_sem, ipc>>
    BY <1>1, Inductive, PTL DEF Spec
<1> QED BY <1>2 DEF HandoverKept
=============================================================================
