-------------------------------- MODULE Ipc ---------------------------------
(***************************************************************************)
(* Inter-processor calls (esp32/ipc.c): a task hands a function to the     *)
(* highest-priority task of a CPU, through one shared slot that            *)
(* s_ipc_mutex protects, and goes on when that task acknowledges.          *)
(*                                                                         *)
(* The scheduler of FreeRTOS is not shown as context switches.  Between    *)
(* two of its steps a task may be preempted by any other task, and go on   *)
(* on any CPU that it may run on; each step says on which CPU it happens.  *)
(* A CPU has time for ordinary tasks unless its IPC task is at work or its *)
(* scheduler is suspended.                                                 *)
(***************************************************************************)
EXTENDS Naturals

CONSTANTS
    Tasks,       \* the tasks of the application
    Affinity,    \* the CPUs that a task may run on
    MaxCalls     \* calls that a task makes

CPUs == {0, 1}

ASSUME IpcAssumption ==
    /\ Affinity \in [Tasks -> SUBSET CPUs \ {{}}]
    /\ MaxCalls \in Nat

CONSTANT NoOne   \* no task
ASSUME NoOneAssumption == NoOne \notin Tasks

Waits == {"start", "end"}
Funcs == {"work", "block"}   \* any function, or spi_flash_op_block_func()

VARIABLES
    pc,          \* what a task does next
    left,        \* the calls that it still makes
    call,        \* its call in progress: the arguments, and where it returns to
    s_func,      \* the function to run; also who asked, and what it waits for
    s_ipc_wait,  \* when to acknowledge
    s_ipc_mutex, \* the task that holds the mutex
    s_ipc_sem,   \* a binary semaphore for the IPC task of each CPU
    s_ipc_ack,   \* the binary semaphore of acknowledgements
    ipc,         \* the IPC tasks: where each is, and the function it runs
    suspended    \* who has suspended the scheduler of a CPU

ipcVars == <<s_func, s_ipc_wait, s_ipc_mutex, s_ipc_sem, s_ipc_ack, ipc>>

Jobs == [fn : Funcs, by : Tasks \cup {NoOne}, wait : Waits]
NoJob == [fn |-> "work", by |-> NoOne, wait |-> "start"]
Calls == [cpu : CPUs, fn : Funcs, wait : Waits, ret : {"app", "f_spin"}]
NoCall == [cpu |-> 0, fn |-> "work", wait |-> "start", ret |-> "app"]

IpcTask == [c \in CPUs |-> <<"ipc", c>>]
ASSUME IpcTaskAssumption == \A c \in CPUs : IpcTask[c] \notin Tasks \cup {NoOne}

IpcInit ==
    /\ pc = [t \in Tasks |-> "app"]
    /\ left = [t \in Tasks |-> MaxCalls]
    /\ call = [t \in Tasks |-> NoCall]
    /\ s_func = NoJob
    /\ s_ipc_wait = "start"
    /\ s_ipc_mutex = NoOne
    /\ s_ipc_sem = [c \in CPUs |-> FALSE]
    /\ s_ipc_ack = FALSE
    /\ ipc = [c \in CPUs |-> [at |-> "wait", job |-> NoJob]]
    /\ suspended = [c \in CPUs |-> NoOne]

-----------------------------------------------------------------------------
(* Scheduling.                                                             *)

\* Task t may execute on CPU c now.
MayRun(t, c) ==
    /\ c \in Affinity[t]
    /\ \/ suspended[c] = t
       \/ suspended[c] = NoOne /\ ipc[c].at = "wait"
    /\ \A d \in CPUs \ {c} : suspended[d] # t

Goto(t, l) == pc' = [pc EXCEPT ![t] = l]
Jump(c, l) == ipc' = [ipc EXCEPT ![c].at = l]

-----------------------------------------------------------------------------
(* esp_ipc_call_and_wait(), called by t.                                   *)

Call(t, cpu, fn, wait, ret) ==
    call' = [call EXCEPT ![t] = [cpu |-> cpu, fn |-> fn, wait |-> wait, ret |-> ret]]

\* esp_ipc_call() and esp_ipc_call_blocking(), by the application.
CallIpc(t, c) ==
    /\ pc[t] = "app" /\ MayRun(t, c) /\ left[t] > 0
    /\ left' = [left EXCEPT ![t] = @ - 1]
    /\ \E cpu \in CPUs, wait \in Waits : Call(t, cpu, "work", wait, "app")
    /\ Goto(t, "ipc_mutex")
    /\ UNCHANGED <<suspended, ipcVars>>

TakeMutex(t, c) ==
    /\ pc[t] = "ipc_mutex" /\ MayRun(t, c)
    /\ s_ipc_mutex = NoOne
    /\ s_ipc_mutex' = t
    /\ Goto(t, "ipc_post")
    /\ UNCHANGED <<left, call, suspended, s_func, s_ipc_wait, s_ipc_sem, s_ipc_ack, ipc>>

PostCall_Unlock(t, c) ==
    /\ pc[t] = "ipc_post" /\ MayRun(t, c)
    /\ s_func' = [fn |-> call[t].fn, by |-> t, wait |-> call[t].wait]
    /\ s_ipc_wait' = "start"
    /\ s_ipc_sem' = [s_ipc_sem EXCEPT ![call[t].cpu] = TRUE]
    /\ Goto(t, "ipc_unlock")
    /\ UNCHANGED <<left, call, suspended, s_ipc_mutex, s_ipc_ack, ipc>>
PostCall(t, c) ==
    /\ pc[t] = "ipc_post" /\ MayRun(t, c)
    /\ s_func' = [fn |-> call[t].fn, by |-> t, wait |-> call[t].wait]
    /\ s_ipc_wait' = "start"             \* whatever call[t].wait says
    /\ s_ipc_sem' = [s_ipc_sem EXCEPT ![call[t].cpu] = TRUE]
    /\ Goto(t, "ipc_ack")
    /\ UNCHANGED <<left, call, suspended, s_ipc_mutex, s_ipc_ack, ipc>>

TakeAck(t, c) ==
    /\ pc[t] = "ipc_ack" /\ MayRun(t, c)
    /\ s_ipc_ack
    /\ s_ipc_ack' = FALSE
    /\ Goto(t, "ipc_unlock")
    /\ UNCHANGED <<left, call, suspended, s_func, s_ipc_wait, s_ipc_mutex, s_ipc_sem, ipc>>

GiveMutex(t, c) ==
    /\ pc[t] = "ipc_unlock" /\ MayRun(t, c)
    /\ s_ipc_mutex' = NoOne
    /\ Goto(t, call[t].ret)
    /\ call' = [call EXCEPT ![t] = NoCall]
    /\ UNCHANGED <<left, suspended, s_func, s_ipc_wait, s_ipc_sem, s_ipc_ack, ipc>>

-----------------------------------------------------------------------------
(* ipc_task() on CPU c.                                                    *)

\* The IPC task runs as soon as its CPU lets it: it is pinned, and no task has
\* a higher priority.
WakeIpc(c) ==
    /\ ipc[c].at = "wait" /\ s_ipc_sem[c] /\ suspended[c] = NoOne
    /\ s_ipc_sem' = [s_ipc_sem EXCEPT ![c] = FALSE]
    /\ Jump(c, "fetch")
    /\ UNCHANGED <<pc, left, call, suspended, s_func, s_ipc_wait, s_ipc_mutex, s_ipc_ack>>

FetchFunc(c) ==
    /\ ipc[c].at = "fetch"
    /\ ipc' = [ipc EXCEPT ![c] = [at |-> "begin", job |-> s_func]]
    /\ UNCHANGED <<pc, left, call, suspended, s_func, s_ipc_wait, s_ipc_mutex, s_ipc_sem, s_ipc_ack>>

AckStart(c) ==
    /\ ipc[c].at = "begin"
    /\ s_ipc_ack' = (s_ipc_ack \/ s_ipc_wait = "start")
    /\ Jump(c, "func")
    /\ UNCHANGED <<pc, left, call, suspended, s_func, s_ipc_wait, s_ipc_mutex, s_ipc_sem>>

\* A function of the application comes to its end.
RunWork(c) ==
    /\ ipc[c].at = "func" /\ ipc[c].job.fn = "work"
    /\ Jump(c, "end")
    /\ UNCHANGED <<pc, left, call, suspended, s_func, s_ipc_wait, s_ipc_mutex, s_ipc_sem, s_ipc_ack>>

AckEnd(c) ==
    /\ ipc[c].at = "end"
    /\ s_ipc_ack' = (s_ipc_ack \/ s_ipc_wait = "end")
    /\ ipc' = [ipc EXCEPT ![c] = [at |-> "wait", job |-> NoJob]]
    /\ UNCHANGED <<pc, left, call, suspended, s_func, s_ipc_wait, s_ipc_mutex, s_ipc_sem>>

-----------------------------------------------------------------------------
IpcCaller(t, c) ==
    TakeMutex(t, c) \/ PostCall(t, c) \/ TakeAck(t, c) \/ GiveMutex(t, c)

IpcServer(c) == WakeIpc(c) \/ FetchFunc(c) \/ AckStart(c) \/ RunWork(c) \/ AckEnd(c)

-----------------------------------------------------------------------------
\* A function that was handed over is not replaced before the IPC task has
\* read it: each accepted call runs its own function (s_ipc_mutex is held until
\* the acknowledgement).
HandoverKept ==
    [][s_func' # s_func =>
         \A c \in CPUs : ~s_ipc_sem[c] /\ ipc[c].at # "fetch"]_<<s_func, s_ipc_sem, ipc>>

\* "This function waits for func to return" (esp_ipc_call_blocking()): once a
\* task is back from a blocking call, no IPC task still runs its function.
BlockingWaits ==
    \A t \in Tasks, c \in CPUs :
        pc[t] = "app" => ~(/\ ipc[c].at \notin {"wait", "end"}
                           /\ ipc[c].job.by = t /\ ipc[c].job.wait = "end")
=============================================================================
