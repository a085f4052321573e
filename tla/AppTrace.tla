------------------------------ MODULE AppTrace ------------------------------
(***************************************************************************)
(* Application tracing over JTAG (esp32/app_trace.c).  Tasks and interrupt *)
(* handlers of both CPUs get room in the input block under a lock, fill it *)
(* without the lock, and mark it as written.  A full block is exposed to   *)
(* the host, which reads it while the other block is filled.  CPU and host *)
(* talk through a control register of each CPU.                            *)
(*                                                                         *)
(* While a host is connected the target waits for it (streaming);          *)
(* otherwise blocks are overwritten in turn (post-mortem).                 *)
(*                                                                         *)
(* Lengths are in units of a chunk header.  Cells of a block hold a header *)
(* or a unit of data, both known by the number of the chunk.               *)
(***************************************************************************)
EXTENDS Integers, Sequences

CONSTANTS
    Writers,      \* tasks and interrupt handlers that trace
    Patient,      \* those of them that wait without a time-out
    Sizes,        \* of the data of a chunk
    Size,         \* of a block
    IdMod,        \* block_id counts modulo this, 256 in the code
    Syncs,        \* the host acknowledges a block to both CPUs
    MaxCalls, MaxConnects

Cores == {0, 1}

ASSUME AppTraceAssumption ==
    /\ Patient \subseteq Writers
    /\ Sizes \subseteq Nat \ {0}
    /\ Size \in Nat \ {0} /\ IdMod \in Nat \ {0}
    /\ \A n \in Sizes : n < Size      \* left to the callers: the code does not look
    /\ Syncs \in BOOLEAN
    /\ {MaxCalls, MaxConnects} \subseteq Nat

CONSTANT None    \* the lock is free
ASSUME NoneAssumption == None \notin Writers

VARIABLES
    in_block, markers,   \* s_trace_buf.trax.state
    mem,                 \* the two blocks
    ctrl,                \* the control register of each CPU
    stat,                \* its status register: an update of ctrl is under way
    lock,
    pc, call,            \* where a writer is, and its call
    book,                \* of a block: base, the chunks made before it became the
                         \* input block; spoiled, a late writer has written in it since
    host,                \* on: connected; last: the last chunk it has read or passed;
                         \* acks: whom it still has to acknowledge block id
    count                \* calls begun, chunks made, connections

vars == <<in_block, markers, mem, book, ctrl, stat, lock, pc, call, host, count>>

Garbage == [is |-> "garbage", no |-> 0, sz |-> 0, wr |-> 0]
Header(no, sz, wr) == [is |-> "header", no |-> no, sz |-> sz, wr |-> wr]
Data(no) == [Garbage EXCEPT !.is = "data", !.no = no]

NoCtrl == [id |-> 0, len |-> 0, host |-> FALSE]
NoCall == [what |-> "none", size |-> 0, core |-> 0, block |-> 0, at |-> 0,
           turn |-> 0, no |-> 0, seen |-> NoCtrl]

(* esp_apptrace_init() on both CPUs *)
Init ==
    /\ in_block = 0
    /\ markers = [b \in 0..1 |-> 0]
    /\ mem = [b \in 0..1 |-> [o \in 0..(Size - 1) |-> Garbage]]
    /\ book = [b \in 0..1 |-> [base |-> 0, spoiled |-> FALSE]]
    /\ ctrl = [c \in Cores |-> NoCtrl]
    /\ stat = [c \in Cores |-> FALSE]
    /\ lock = None
    /\ pc = [w \in Writers |-> "idle"]
    /\ call = [w \in Writers |-> NoCall]
    /\ host = [on |-> FALSE, last |-> 0, acks |-> {}, id |-> 0]
    /\ count = [calls |-> 0, made |-> 0, connects |-> 0]

Goto(w, to) == pc' = [pc EXCEPT ![w] = to]
Return(w) == Goto(w, "idle") /\ call' = [call EXCEPT ![w] = NoCall]
block == <<in_block, markers, mem, book>>
regs == <<ctrl, stat>>

In == in_block % 2
Out == (in_block + 1) % 2
Id == in_block % IdMod

-----------------------------------------------------------------------------
(* esp_apptrace_write(), esp_apptrace_buffer_get() or esp_apptrace_flush() *)
(* is called, and takes the lock, on the CPU where it then is.             *)

Begin(w) ==
    /\ pc[w] = "idle" /\ count.calls < MaxCalls
    /\ count' = [count EXCEPT !.calls = @ + 1]
    /\ \/ \E n \in Sizes :
            call' = [call EXCEPT ![w] = [NoCall EXCEPT !.what = "write", !.size = n]]
       \/ call' = [call EXCEPT ![w] = [NoCall EXCEPT !.what = "flush"]]
    /\ Goto(w, "lock")
    /\ UNCHANGED <<block, regs, lock, host>>

(* What if only the data had to fit? *)
Full_DataOnly(n) == markers[In] + n > Size

(* esp_apptrace_trax_get_buffer() and esp_apptrace_trax_flush() first see  *)
(* whether the block is to be exposed.                                     *)
Full(n) == markers[In] + n + 1 >= Size

AfterLock(w) ==
    IF call[w].what = "write" THEN IF Full(call[w].size) THEN "switch" ELSE "alloc"
    ELSE IF markers[In] > 0 THEN "switch" ELSE "unlock"

LockTake(w) ==
    /\ pc[w] = "lock" /\ lock = None
    /\ lock' = w
    /\ \E c \in Cores : call' = [call EXCEPT ![w].core = c]
    /\ Goto(w, AfterLock(w))
    /\ UNCHANGED <<block, regs, host, count>>

LockTimeout(w) ==
    /\ pc[w] = "lock" /\ lock # None
    /\ w \notin Patient
    /\ Return(w)
    /\ UNCHANGED <<block, regs, lock, host, count>>

-----------------------------------------------------------------------------
(* esp_apptrace_trax_block_switch(): the status register says that the     *)
(* control register is being updated from the read to the write.           *)

(* What if the host were not told? *)
SwitchRead_Silent(w) ==
    /\ pc[w] = "switch"
    /\ call' = [call EXCEPT ![w].seen = ctrl[call[w].core]]
    /\ Goto(w, "decide")
    /\ UNCHANGED <<block, ctrl, stat, lock, host, count>>

SwitchRead(w) ==
    /\ pc[w] = "switch"
    /\ stat' = [stat EXCEPT ![call[w].core] = TRUE]
    /\ call' = [call EXCEPT ![w].seen = ctrl[call[w].core]]
    /\ Goto(w, "decide")
    /\ UNCHANGED <<block, ctrl, lock, host, count>>

(* What if only the length counted? *)
MaySwitch_LenOnly(r) == r.host => r.len = 0

(* A connected host has read the last block, and this CPU knows it. *)
MaySwitch(r) == r.host => r.len = 0 /\ r.id = Id

SwitchWrite(w) ==
    LET c == call[w].core
    IN  /\ pc[w] = "decide"
        /\ MaySwitch(call[w].seen)
        /\ markers' = [markers EXCEPT ![Out] = 0]
        /\ book' = [book EXCEPT ![Out] = [base |-> count.made, spoiled |-> FALSE]]
        /\ in_block' = in_block + 1
        /\ ctrl' = [ctrl EXCEPT ![c] = [id |-> (in_block + 1) % IdMod, len |-> markers[In],
                                        host |-> call[w].seen.host]]
        /\ stat' = [stat EXCEPT ![c] = FALSE]
        /\ Goto(w, IF call[w].what = "write" THEN "alloc" ELSE "clear")
        /\ call' = [call EXCEPT ![w].seen = NoCtrl]
        /\ UNCHANGED <<mem, lock, host, count>>

(* ...which is tried again until the time is up. *)
SwitchRefuse(w) ==
    /\ pc[w] = "decide"
    /\ ~MaySwitch(call[w].seen)
    /\ stat' = [stat EXCEPT ![call[w].core] = FALSE]
    /\ \/ Goto(w, "switch")
       \/ w \notin Patient /\ Goto(w, "unlock")
    /\ call' = [call EXCEPT ![w].seen = NoCtrl]
    /\ UNCHANGED <<block, ctrl, lock, host, count>>

(* What if a call that gives up kept the lock? *)
Unlock_Not(w) ==
    /\ pc[w] = "unlock"
    /\ Return(w)
    /\ UNCHANGED <<block, regs, lock, host, count>>

Unlock(w) ==
    /\ pc[w] = "unlock"
    /\ lock' = None
    /\ Return(w)
    /\ UNCHANGED <<block, regs, host, count>>

(* The end of a flush: the marker of the block that was exposed is reset. *)
FlushClear(w) ==
    /\ pc[w] = "clear"
    /\ markers' = [markers EXCEPT ![Out] = 0]
    /\ Goto(w, "unlock")
    /\ UNCHANGED <<in_block, mem, book, regs, lock, call, host, count>>

-----------------------------------------------------------------------------
(* The room is allotted and the lock released; the data is copied; then    *)
(* esp_apptrace_trax_put_buffer() marks the chunk as written.  From here   *)
(* on it does not matter on which CPU that happens.                        *)

Allot(w, wr) ==
    LET no == count.made + 1
    IN  /\ pc[w] = "alloc"
        /\ mem' = [mem EXCEPT ![In][markers[In]] = Header(no, call[w].size, wr)]
        /\ markers' = [markers EXCEPT ![In] = @ + call[w].size + 1]
        /\ call' = [call EXCEPT ![w].block = In, ![w].at = markers[In],
                                ![w].turn = in_block, ![w].no = no, ![w].core = 0]
        /\ count' = [count EXCEPT !.made = no]
        /\ lock' = None
        /\ Goto(w, "copy")
        /\ UNCHANGED <<in_block, book, regs, host>>

(* What if a chunk counted as written from the start? *)
Alloc_Written(w) == Allot(w, call[w].size)

Alloc(w) == Allot(w, 0)

(* A writer that is held up goes on where it was, even if its block has    *)
(* come round again and is filled by others.                               *)
Late(w) == in_block > call[w].turn + 1
Spoil(w) == book' = [book EXCEPT ![call[w].block].spoiled = @ \/ Late(w)]

Copy(w) ==
    /\ pc[w] = "copy"
    /\ mem' = [mem EXCEPT ![call[w].block] =
                 [o \in DOMAIN @ |-> IF o - call[w].at \in 1..call[w].size
                                     THEN Data(call[w].no) ELSE @[o]]]
    /\ Spoil(w)
    /\ Goto(w, "put")
    /\ UNCHANGED <<in_block, markers, regs, lock, call, host, count>>

(* wr_sz := block_sz of whatever is there by now: of data nothing is left. *)
Marked(cell) == IF cell.is = "header" THEN [cell EXCEPT !.wr = cell.sz] ELSE Garbage

Put(w) ==
    /\ pc[w] = "put"
    /\ mem' = [mem EXCEPT ![call[w].block][call[w].at] = Marked(@)]
    /\ Spoil(w)
    /\ Return(w)
    /\ UNCHANGED <<in_block, markers, regs, lock, host, count>>

-----------------------------------------------------------------------------
(* What a reader of a block finds: headers, one behind the other.          *)

Chunks(b, len) ==
    LET from[o \in 0..Size] ==
          IF o >= len THEN << >>
          ELSE <<o>> \o (IF o + mem[b][o].sz + 1 <= Size
                         THEN from[o + mem[b][o].sz + 1] ELSE << >>)
    IN  from[0]

(* The CPU that has exposed the last block, and whether it is unread.      *)
Exposed(c) == ctrl[c].len # 0 /\ ctrl[c].id = Id
HostHasIt == host.acks # {} /\ host.id = Id
Unread == IF (\E c \in Cores : Exposed(c)) /\ ~HostHasIt
          THEN Chunks(Out, ctrl[CHOOSE c \in Cores : Exposed(c)].len) ELSE << >>

NumbersIn(b, chunks) == [i \in DOMAIN chunks |-> mem[b][chunks[i]].no]
OnTheWay == NumbersIn(Out, Unread) \o NumbersIn(In, Chunks(In, markers[In]))

-----------------------------------------------------------------------------
(* The host.  To connect it stops both CPUs outside an update of the       *)
(* control register, and sets a bit in both.                               *)

SetHost(b) == ctrl' = [c \in Cores |-> [ctrl[c] EXCEPT !.host = b]]

Connect ==
    /\ ~host.on /\ count.connects < MaxConnects
    /\ \A c \in Cores : ~stat[c]
    /\ SetHost(TRUE)
    /\ host' = [host EXCEPT !.on = TRUE,
                            !.last = IF Unread = << >> THEN book[In].base ELSE book[Out].base]
    /\ count' = [count EXCEPT !.connects = @ + 1]
    /\ UNCHANGED <<block, stat, lock, pc, call>>

Disconnect ==
    /\ host.on /\ host.acks = {}
    /\ \A c \in Cores : ~stat[c]
    /\ SetHost(FALSE)
    /\ host' = [host EXCEPT !.on = FALSE, !.last = 0]
    /\ UNCHANGED <<block, stat, lock, pc, call, count>>

HostRead(c) ==
    /\ host.on /\ host.acks = {}
    /\ Exposed(c)
    /\ host' = [host EXCEPT !.last = book[In].base, !.id = ctrl[c].id,
                            !.acks = IF Syncs THEN Cores ELSE {c}]
    /\ UNCHANGED <<block, regs, lock, pc, call, count>>

(* The acknowledgement clears the length.  With Syncs the host writes the   *)
(* number of the block into the register of the other CPU as well, although *)
(* app_trace.c says that block_id is not for the host to modify: that CPU   *)
(* would not learn otherwise that it may go on.                             *)
HostAck(c) ==
    /\ c \in host.acks
    /\ ctrl' = [ctrl EXCEPT ![c].id = host.id, ![c].len = 0]
    /\ host' = [host EXCEPT !.acks = @ \ {c}]
    /\ UNCHANGED <<block, stat, lock, pc, call, count>>

-----------------------------------------------------------------------------
Steps(w) ==
    \/ LockTake(w) \/ SwitchRead(w) \/ SwitchWrite(w) \/ SwitchRefuse(w)
    \/ FlushClear(w) \/ Unlock(w) \/ Alloc(w) \/ Copy(w) \/ Put(w)

HostSteps == \E c \in Cores : HostRead(c) \/ HostAck(c)

Next ==
    \/ \E w \in Writers : Begin(w) \/ LockTimeout(w) \/ Steps(w)
    \/ Connect \/ Disconnect \/ HostSteps

(* Calls go on, and a host that is connected reads.                        *)
Spec ==
    /\ Init /\ [][Next]_vars
    /\ \A w \in Writers : WF_vars(Steps(w))
    /\ WF_vars(HostSteps)

-----------------------------------------------------------------------------
(* Types; no chunk lies partly outside of its block.                       *)
TypeOK ==
    /\ in_block \in Nat
    /\ markers \in [0..1 -> 0..Size]
    /\ ctrl \in [Cores -> [id : 0..(IdMod - 1), len : 0..Size, host : BOOLEAN]]
    /\ stat \in [Cores -> BOOLEAN]
    /\ lock \in Writers \cup {None}
    /\ pc \in [Writers -> {"idle", "lock", "switch", "decide", "clear", "unlock",
                           "alloc", "copy", "put"}]
    /\ host.on \in BOOLEAN /\ host.acks \subseteq Cores
    /\ \A w \in Writers : call[w].at + call[w].size < Size

(* A connected host gets every chunk, once and in the order in which room  *)
(* was allotted, from whichever CPU the blocks are exposed: what it has    *)
(* not read lies in the exposed block and then in the input block.  The    *)
(* target never takes back a block that has not been read.  Excepted are   *)
(* the blocks in which a writer that was held up for two exchanges may     *)
(* have written over the headers of others.                                *)
NothingSkipped ==
    host.on /\ ~book[In].spoiled /\ ~book[Out].spoiled =>
        OnTheWay = [i \in 1..(count.made - host.last) |-> host.last + i]

(* A chunk in an exposed block that is marked as written has all of the    *)
(* data of its own call, unless a writer that was held up for two          *)
(* exchanges has written in that block since it became the input block:    *)
(* writers that are held up for less, and late writers of the other block, *)
(* do no harm to what the host takes for complete.                         *)
MarkedIsComplete ==
    ~book[Out].spoiled =>
      \A i \in DOMAIN Unread :
        LET o == Unread[i]
            h == mem[Out][o]
        IN  h.wr = h.sz => \A j \in 1..h.sz : mem[Out][o + j] = Data(h.no)

(* The bit by which the host connects to both CPUs is not lost in an       *)
(* update of a control register that had begun before.                     *)
ConnectionKept == \A c \in Cores : ctrl[c].host = host.on

(* Every call returns, whichever CPU it is on: a call without a time-out   *)
(* finds room as long as the host reads, and nobody leaves with the lock.  *)
EveryCallReturns == \A w \in Writers : (pc[w] # "idle") ~> (pc[w] = "idle")
=============================================================================
