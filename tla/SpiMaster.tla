----------------------------- MODULE SpiMaster ------------------------------
(***************************************************************************)
(* A host of the SPI master driver (driver/spi_master.c): its chip-select  *)
(* slots with a device each, the queues of transactions and of results of  *)
(* every device, the interrupt handler spi_intr() that feeds the hardware  *)
(* from them, and the tasks that use the devices.                          *)
(*                                                                         *)
(* The driver takes no lock.  The handler runs on one CPU: a task of that  *)
(* CPU does not run while the handler does, or while its interrupt is      *)
(* enabled and pending; a task of the other CPU runs at any time.          *)
(***************************************************************************)
EXTENDS Integers, Sequences

CONSTANTS
    Devices,     \* the devices, each with the task that uses it
    queue_size,  \* of a device: how many transactions and results are queued
    NO_CS,       \* chip-select lines of the host
    Setups,      \* where the tasks are, and how the application uses the driver
    Results,     \* how spi_bus_add_device() may end
    MaxTrans     \* transactions that are queued for a device

Slots == 0..(NO_CS - 1)

ASSUME SpiAssumption ==
    /\ queue_size \in [Devices -> Nat \ {0}]
    /\ NO_CS \in Nat \ {0}
    /\ Setups \subseteq [local : SUBSET Devices, plug : {"once", "quiet", "any"},
                         ahead : {"counted", "free"}]
    /\ Results \subseteq {"ok", "invalid", "nomem"}
    /\ MaxTrans \in Nat

CONSTANTS Null, Reserved, NoTrans   \* NULL, (spi_device_t *)1, no transaction
Trans == [of : Devices, no : Nat]   \* a transaction, by its number

ASSUME NullAssumption ==
    /\ Null \notin Devices /\ Reserved \notin Devices /\ Null # Reserved
    /\ NoTrans \notin Trans

VARIABLES
    use,          \* the set-up
    bus,          \* whether the host is initialised
    device,       \* what is in the slots
    dev,          \* the structure of a device: none, bare, ready or deleted
    trans_queue,
    ret_queue,
    cur_trans,    \* the transaction that the hardware works on
    cur_cs,
    hw,           \* trans_done, cmd.usr, and the device it is set up for
    enabled,      \* whether the interrupt is enabled
    isr,          \* the handler: where it is, i, prevCs and trans
    pc,           \* where the task of a device is
    freecs,       \* the slot that it has reserved
    queued,       \* the transactions that it has queued
    got           \* the number of the last one that it has the result of

hostVars == <<use, bus, device, dev>>
isrVars == <<cur_trans, cur_cs, hw, isr>>
vars == <<use, bus, device, dev, trans_queue, ret_queue, cur_trans, cur_cs, hw,
          enabled, isr, pc, freecs, queued, got>>

Idle == [at |-> "out", i |-> 0, prevCs |-> -1, trans |-> NoTrans]

Init ==
    /\ use \in Setups
    /\ bus = "off"
    /\ device = [s \in Slots |-> Null]
    /\ dev = [d \in Devices |-> "none"]
    /\ trans_queue = [d \in Devices |-> << >>]
    /\ ret_queue = [d \in Devices |-> << >>]
    /\ cur_trans = NoTrans
    /\ cur_cs = 0
    /\ hw = [trans_done |-> FALSE, usr |-> FALSE, for |-> Null]
    /\ enabled = FALSE
    /\ isr = Idle
    /\ pc = [d \in Devices |-> "app"]
    /\ freecs = [d \in Devices |-> 0]
    /\ queued = [d \in Devices |-> 0]
    /\ got = [d \in Devices |-> 0]

Goto(d, to) == pc' = [pc EXCEPT ![d] = to]

Pending == enabled /\ hw.trans_done /\ isr.at = "out"
MayRun(d) == d \in use.local => isr.at = "out" /\ ~Pending

(* The application adds its devices once, before anything else; or adds    *)
(* and removes them while the other tasks have nothing to do with the bus; *)
(* or at any time.                                                         *)
Plugging == {"reserved", "alloc", "check1", "check2", "check3", "delete", "clear"}
Others(d) == Devices \ {d}
MayAdd(d) ==
    CASE use.plug = "once"  -> \A e \in Devices : queued[e] = 0
      [] use.plug = "quiet" -> \A e \in Others(d) : pc[e] = "app" /\ queued[e] = got[e]
      [] use.plug = "any"   -> TRUE
MayRemove(d) == use.plug # "once" /\ MayAdd(d)
MayUse(d) ==
    CASE use.plug = "once"  -> \A e \in Devices : dev[e] = "ready"
      [] use.plug = "quiet" -> \A e \in Others(d) : pc[e] \notin Plugging
      [] use.plug = "any"   -> TRUE

(* And it has no more transactions of a device "in the air" than its       *)
(* queue_size, which the driver does not see to; or as many as it can.     *)
Counted == use.ahead = "counted"
MayQueue(d) == Counted => queued[d] - got[d] < queue_size[d]

-----------------------------------------------------------------------------
(* spi_bus_initialize() forces a pending interrupt; spi_bus_free(). *)

BusInitialize ==
    /\ bus = "off"
    /\ bus' = "on"
    /\ hw' = [hw EXCEPT !.trans_done = TRUE]
    /\ cur_trans' = NoTrans /\ cur_cs' = 0
    /\ enabled' = FALSE
    /\ UNCHANGED <<use, device, dev, trans_queue, ret_queue, isr, pc, queued, got, freecs>>

BusFree ==
    /\ bus = "on"
    /\ \A s \in Slots : device[s] = Null
    /\ bus' = "off"
    /\ hw' = [hw EXCEPT !.trans_done = FALSE]
    /\ enabled' = FALSE
    /\ UNCHANGED <<use, device, dev, trans_queue, ret_queue, cur_trans, cur_cs, isr,
                   pc, queued, got, freecs>>

-----------------------------------------------------------------------------
(* spi_bus_add_device(): a slot is reserved by compare-and-swap, gets a    *)
(* structure without queues, and then the queues.  When an argument turns  *)
(* out to be wrong, or memory is short, the slot stays as it is.           *)

FreeSlot(s) == device[s] = Null /\ \A t \in Slots : t < s => device[t] # Null

AddReserve(d) ==
    /\ MayRun(d) /\ MayAdd(d)
    /\ bus = "on"
    /\ pc[d] = "app" /\ dev[d] = "none"
    /\ \E s \in Slots : /\ FreeSlot(s)
                         /\ device' = [device EXCEPT ![s] = Reserved]
                         /\ freecs' = [freecs EXCEPT ![d] = s]
    /\ Goto(d, "reserved")
    /\ UNCHANGED <<use, bus, dev, trans_queue, ret_queue, enabled, isrVars, queued, got>>

AddAlloc(d) ==
    /\ MayRun(d)
    /\ pc[d] = "reserved"
    /\ \E result \in Results :
         IF result = "ok"
         THEN /\ device' = [device EXCEPT ![freecs[d]] = d]
              /\ dev' = [dev EXCEPT ![d] = "bare"]
              /\ Goto(d, "alloc")
         ELSE Goto(d, "app") /\ UNCHANGED <<use, device, dev>>
    /\ UNCHANGED <<use, bus, trans_queue, ret_queue, enabled, isrVars, queued, got, freecs>>

AddQueues(d) ==
    /\ MayRun(d)
    /\ pc[d] = "alloc"
    /\ \E result \in Results \ {"invalid"} :
         dev' = [dev EXCEPT ![d] = IF result = "ok" THEN "ready" ELSE "deleted"]
    /\ trans_queue' = [trans_queue EXCEPT ![d] = << >>]
    /\ ret_queue' = [ret_queue EXCEPT ![d] = << >>]
    /\ Goto(d, "app")
    /\ UNCHANGED <<use, bus, device, enabled, isrVars, queued, got, freecs>>

(* spi_bus_remove_device(): three checks, then the queues, then the slot. *)

Unfinished(d) ==
    CASE pc[d] = "check1" -> trans_queue[d] # << >>
      [] pc[d] = "check2" -> cur_trans # NoTrans /\ device[cur_cs] = d
      [] pc[d] = "check3" -> ret_queue[d] # << >>

AfterCheck ==
    [check1 |-> "check2", check2 |-> "check3", check3 |-> "delete"]

Remove(d) ==
    /\ MayRun(d) /\ MayRemove(d)
    /\ pc[d] = "app" /\ dev[d] = "ready"
    /\ Goto(d, "check1")
    /\ UNCHANGED <<hostVars, trans_queue, ret_queue, enabled, isrVars, queued, got, freecs>>

RemoveCheck(d) ==
    /\ MayRun(d)
    /\ pc[d] \in DOMAIN AfterCheck
    /\ Goto(d, IF Unfinished(d) THEN "app" ELSE AfterCheck[pc[d]])
    /\ UNCHANGED <<hostVars, trans_queue, ret_queue, enabled, isrVars, queued, got, freecs>>

RemoveDelete(d) ==
    /\ MayRun(d)
    /\ pc[d] = "delete"
    /\ dev' = [dev EXCEPT ![d] = "deleted"]
    /\ trans_queue' = [trans_queue EXCEPT ![d] = << >>]
    /\ ret_queue' = [ret_queue EXCEPT ![d] = << >>]
    /\ Goto(d, "clear")
    /\ UNCHANGED <<use, bus, device, enabled, isrVars, queued, got, freecs>>

(* What if only the first slot were cleared? *)
RemoveClear_Slot0(d) ==
    /\ MayRun(d)
    /\ pc[d] = "clear"
    /\ device' = [device EXCEPT ![0] = IF @ = d THEN Null ELSE @]
    /\ dev' = [dev EXCEPT ![d] = "none"]
    /\ Goto(d, "app")
    /\ UNCHANGED <<use, bus, trans_queue, ret_queue, enabled, isrVars, queued, got, freecs>>

RemoveClear(d) ==
    /\ MayRun(d)
    /\ pc[d] = "clear"
    /\ device' = [s \in Slots |-> IF device[s] = d THEN Null ELSE device[s]]
    /\ dev' = [dev EXCEPT ![d] = "none"]
    /\ Goto(d, "app")
    /\ UNCHANGED <<use, bus, trans_queue, ret_queue, enabled, isrVars, queued, got, freecs>>

-----------------------------------------------------------------------------
(* spi_device_queue_trans(), which blocks while the queue of transactions  *)
(* is full, and spi_device_get_trans_result().  spi_device_transmit() is   *)
(* both, and only when nothing else is under way.                          *)

QueueTrans(d) ==
    /\ MayRun(d) /\ MayUse(d) /\ MayQueue(d)
    /\ pc[d] = "app" /\ dev[d] = "ready"
    /\ queued[d] < MaxTrans
    /\ Len(trans_queue[d]) < queue_size[d]
    /\ trans_queue' = [trans_queue EXCEPT ![d] = Append(@, [of |-> d, no |-> queued[d] + 1])]
    /\ queued' = [queued EXCEPT ![d] = @ + 1]
    /\ \/ Goto(d, "queued")
       \/ queued[d] = got[d] /\ Goto(d, "transmit")
    /\ UNCHANGED <<hostVars, ret_queue, enabled, isrVars, got, freecs>>

Enable(d) ==
    /\ MayRun(d)
    /\ pc[d] \in {"queued", "transmit"}
    /\ enabled' = TRUE
    /\ Goto(d, IF pc[d] = "queued" THEN "app" ELSE "wait")
    /\ UNCHANGED <<hostVars, trans_queue, ret_queue, isrVars, queued, got, freecs>>

GetResult(d) ==
    /\ MayRun(d)
    /\ \/ pc[d] = "wait"
       \/ pc[d] = "app" /\ dev[d] = "ready" /\ MayUse(d)
    /\ ret_queue[d] # << >>
    /\ ret_queue' = [ret_queue EXCEPT ![d] = Tail(@)]
    /\ got' = [got EXCEPT ![d] = Head(ret_queue[d]).no]
    /\ Goto(d, "app")
    /\ UNCHANGED <<hostVars, trans_queue, enabled, isrVars, queued, freecs>>

-----------------------------------------------------------------------------
(* The hardware ends a transfer. *)

TransferDone ==
    /\ hw.usr
    /\ hw' = [hw EXCEPT !.usr = FALSE, !.trans_done = TRUE]
    /\ UNCHANGED <<hostVars, trans_queue, ret_queue, cur_trans, cur_cs, enabled, isr,
                   pc, queued, got, freecs>>

(* What if the slot of the last transfer counted also after a pause? *)
IsrReturn_KeepCs ==
    /\ Pending
    /\ isr' = [at |-> "scan", i |-> 0, prevCs |-> cur_cs, trans |-> NoTrans]
    /\ ret_queue' = IF cur_trans = NoTrans THEN ret_queue
                    ELSE [ret_queue EXCEPT ![device[cur_cs]] = Append(@, cur_trans)]
    /\ cur_trans' = NoTrans
    /\ UNCHANGED <<hostVars, trans_queue, cur_cs, hw, enabled, pc, queued, got, freecs>>

(* spi_intr(): return what is finished, or lose it when the queue of       *)
(* results is full...                                                      *)
IsrReturn ==
    /\ Pending
    /\ IF cur_trans = NoTrans
       THEN /\ isr' = [Idle EXCEPT !.at = "scan"]
            /\ UNCHANGED ret_queue
       ELSE LET d == device[cur_cs]
            IN  /\ isr' = [Idle EXCEPT !.at = "scan", !.prevCs = cur_cs]
                /\ ret_queue' = IF Len(ret_queue[d]) < queue_size[d]
                                THEN [ret_queue EXCEPT ![d] = Append(@, cur_trans)]
                                ELSE ret_queue
    /\ cur_trans' = NoTrans
    /\ UNCHANGED <<hostVars, trans_queue, cur_cs, hw, enabled, pc, queued, got, freecs>>

(* What if the transaction were only looked at? *)
IsrScan_Peek ==
    /\ isr.at = "scan" /\ isr.i < NO_CS
    /\ LET d == device[isr.i]
       IN  isr' = IF d \in Devices /\ trans_queue[d] # << >>
                  THEN [isr EXCEPT !.at = "start", !.trans = Head(trans_queue[d])]
                  ELSE [isr EXCEPT !.i = @ + 1]
    /\ UNCHANGED <<hostVars, trans_queue, ret_queue, cur_trans, cur_cs, hw, enabled, pc,
                   queued, got, freecs>>

(* ...look for the next transaction, low slots first... *)
IsrScan ==
    /\ isr.at = "scan" /\ isr.i < NO_CS
    /\ LET d == device[isr.i]
       IN  IF d \in Devices /\ trans_queue[d] # << >>
           THEN /\ isr' = [isr EXCEPT !.at = "start", !.trans = Head(trans_queue[d])]
                /\ trans_queue' = [trans_queue EXCEPT ![d] = Tail(@)]
           ELSE isr' = [isr EXCEPT !.i = @ + 1] /\ UNCHANGED trans_queue
    /\ UNCHANGED <<hostVars, ret_queue, cur_trans, cur_cs, hw, enabled, pc, queued, got, freecs>>

(* ...and send it, setting up the hardware when the slot changes... *)
IsrStart ==
    /\ isr.at = "start"
    /\ cur_trans' = isr.trans
    /\ cur_cs' = isr.i
    /\ hw' = [trans_done |-> FALSE, usr |-> TRUE,
              for |-> IF isr.i # isr.prevCs THEN device[isr.i] ELSE hw.for]
    /\ isr' = Idle
    /\ UNCHANGED <<hostVars, trans_queue, ret_queue, enabled, pc, queued, got, freecs>>

(* What if the interrupt did not stay pending? *)
IsrDisable_Clear ==
    /\ isr.at = "scan" /\ isr.i = NO_CS
    /\ enabled' = FALSE
    /\ hw' = [hw EXCEPT !.trans_done = FALSE]
    /\ isr' = Idle
    /\ UNCHANGED <<hostVars, trans_queue, ret_queue, cur_trans, cur_cs, pc, queued, got, freecs>>

(* ...or disable the interrupt, which stays pending. *)
IsrDisable ==
    /\ isr.at = "scan" /\ isr.i = NO_CS
    /\ enabled' = FALSE
    /\ isr' = Idle
    /\ UNCHANGED <<hostVars, trans_queue, ret_queue, cur_trans, cur_cs, hw,
                   pc, queued, got, freecs>>

-----------------------------------------------------------------------------
Isr == IsrReturn \/ IsrScan \/ IsrStart \/ IsrDisable

InCall(d) ==
    \/ AddAlloc(d) \/ AddQueues(d)
    \/ RemoveCheck(d) \/ RemoveDelete(d) \/ RemoveClear(d)
    \/ Enable(d)

Next ==
    \/ BusInitialize \/ BusFree
    \/ TransferDone \/ Isr
    \/ \E d \in Devices :
         \/ AddReserve(d) \/ Remove(d) \/ InCall(d)
         \/ QueueTrans(d) \/ GetResult(d)

(* Transfers end, the handler runs, and calls go on. *)
Fairness ==
    /\ WF_vars(TransferDone) /\ WF_vars(Isr)
    /\ \A d \in Devices : WF_vars(InCall(d))

Spec == Init /\ [][Next]_vars /\ Fairness

-----------------------------------------------------------------------------
(* The handler never follows a pointer to a device that is being added or  *)
(* was removed: a slot that it reads is empty, or its device has queues.   *)
(* Nor does it run on when spi_bus_free() has freed the host.              *)
DeviceReady ==
    LET Sound(s) == device[s] = Null \/ (device[s] \in Devices /\ dev[device[s]] = "ready")
    IN  /\ isr.at # "out" => bus = "on"
        /\ isr.at = "scan" /\ isr.i \in Slots => Sound(isr.i)
        /\ isr.at = "start" => Sound(isr.i) /\ device[isr.i] # Null
        /\ Pending /\ cur_trans # NoTrans => Sound(cur_cs) /\ device[cur_cs] # Null

(* A transfer runs with the settings and the chip-select line of the       *)
(* device that its transaction was queued for, also after another device   *)
(* took over the slot, and nothing is started while the hardware is busy.  *)
RightDevice ==
    /\ hw.usr => cur_trans # NoTrans /\ hw.for = cur_trans.of /\ device[cur_cs] = cur_trans.of
    /\ isr.at = "start" => ~hw.usr

(* The transactions of a device that are on their way, oldest first. *)
Pipeline(d) ==
    LET mine(t) == IF t # NoTrans /\ t.of = d THEN <<t.no>> ELSE << >>
        No(q) == [i \in DOMAIN q |-> q[i].no]
    IN  No(ret_queue[d]) \o mine(cur_trans) \o mine(isr.trans) \o No(trans_queue[d])

(* Results come back in the order in which the transactions were queued    *)
(* (spi_device_transmit() asserts to get its own) and none comes twice,    *)
(* also when the task queues so many that results are lost to a full queue *)
(* of results; and when no more than queue_size are in the air, none is    *)
(* lost, be it to a full queue or with a device that is removed.           *)
InOrderOnce ==
    \A d \in Devices :
        /\ \A i \in DOMAIN Pipeline(d) : Pipeline(d)[i] \in (got[d] + 1)..queued[d]
        /\ \A i, j \in DOMAIN Pipeline(d) : i < j => Pipeline(d)[i] < Pipeline(d)[j]
        /\ Counted => Len(Pipeline(d)) = queued[d] - got[d]

(* What a task on the CPU of the handler has queued, without having more   *)
(* than queue_size in the air, has its result in the end, whatever the     *)
(* tasks of the other CPU do.                                              *)
EveryTransEnds ==
    \A d \in Devices : \A n \in 1..MaxTrans :
        (Counted /\ d \in use.local /\ queued[d] >= n)
            ~> (got[d] + Len(ret_queue[d]) >= n)

(* spi_device_interface_config_t, spi_master.h: queue_size "sets how many  *)
(* transactions can be 'in the air' ... at the same time".                 *)
QueueSizeIsTheLimit == \A d \in Devices : Len(Pipeline(d)) <= queue_size[d]

(* The comment in spi_bus_initialize(): "we can just enable the SPI        *)
(* interrupt and the interrupt handler will kick in, handling any          *)
(* transactions that are queued".                                          *)
EnableIsEnough ==
    \A d \in Devices : \A n \in 1..MaxTrans :
        (queued[d] >= n) ~> (got[d] + Len(ret_queue[d]) >= n)
=============================================================================
