------------------------------ MODULE RingBuf -------------------------------
(***************************************************************************)
(* A ring buffer in use (freertos/ringbuf.c): tasks and interrupt handlers *)
(* that send, receive and give back.  The critical sections of rb->mux are *)
(* one step each.  The checks before them read the pointers without the    *)
(* lock, and the two binary semaphores are given after it is released.     *)
(*                                                                         *)
(* Time is what a call with a time-out sees of it when it wakes: there are *)
(* ticks left, none, or the end has passed and the unsigned difference     *)
(* ticks_end - now is a wait without an end.                               *)
(***************************************************************************)
EXTENDS RingMem

CONSTANTS
    Writers,   \* who sends
    Readers,   \* who receives and gives back
    ISRs,      \* those of them that are interrupt handlers
    Setups,    \* buffers, and how they are used
    MaxSends   \* items after which no new call of xRingbufferSend() is made

Users == Writers \cup Readers
Waits == {"forever", "some", "zero", "past"}

ASSUME RingBufAssumption ==
    /\ ISRs \subseteq Users
    /\ Writers \cap Readers = {}
    /\ MaxSends \in Nat
    /\ \A s \in Setups :
         /\ s.kind \in Kinds
         /\ s.size \in Nat
         /\ s.users \subseteq Users
         /\ s.lens \subseteq Nat
         /\ s.waits \subseteq {"forever", "some", "zero"}

VARIABLES
    rb,                  \* the structure and its memory
    use,                 \* how it is used
    free_space_sem,
    items_buffered_sem,
    pc,                  \* where each user is
    call,                \* its arguments: a length, and the ticks to wait
    held,                \* what each reader was handed: pointer and length
    sent                 \* the items that were copied in

vars == <<rb, use, free_space_sem, items_buffered_sem, pc, call, held, sent>>

NoCall == [len |-> 0, ticks |-> "forever"]
NotHeld == [ptr |-> 0, len |-> -1]

Init ==
    /\ use \in Setups
    /\ rb = Create(use.kind, use.size)
    /\ free_space_sem = FALSE
    /\ items_buffered_sem = FALSE
    /\ pc = [u \in Users |-> "idle"]
    /\ call = [u \in Users |-> NoCall]
    /\ held = [r \in Readers |-> NotHeld]
    /\ sent = 0

Goto(u, to) == pc' = [pc EXCEPT ![u] = to]
Leave(u) == Goto(u, "idle") /\ call' = [call EXCEPT ![u] = NoCall]

-----------------------------------------------------------------------------
(* xRingbufferSend().  A length above the maximum returns at once. *)

needed_size(w) == call[w].len + Hdr

Send(w) ==
    /\ w \in use.users \ ISRs
    /\ pc[w] = "idle"
    /\ sent < MaxSends
    /\ \E n \in use.lens, t \in use.waits :
         /\ n <= MaxItemSize(rb)
         /\ call' = [call EXCEPT ![w] = [len |-> n, ticks |-> t]]
    /\ Goto(w, "check")
    /\ UNCHANGED <<rb, use, free_space_sem, items_buffered_sem, held, sent>>

CheckFree(w) ==
    /\ pc[w] = "check"
    /\ Goto(w, IF FreeMem(rb) < needed_size(w) THEN "take" ELSE "test")
    /\ UNCHANGED <<rb, use, free_space_sem, items_buffered_sem, call, held, sent>>

(* ticks_remaining after some of the wait is over. *)
Elapsed(t) ==
    CASE t = "some" -> {"some", "zero", "past"}
      [] t = "zero" -> {"zero", "past"}
      [] OTHER      -> {t}

TakeFree(w) ==
    /\ pc[w] = "take"
    /\ free_space_sem
    /\ free_space_sem' = FALSE
    /\ \E t \in Elapsed(call[w].ticks) : call' = [call EXCEPT ![w].ticks = t]
    /\ Goto(w, "test")
    /\ UNCHANGED <<rb, use, items_buffered_sem, held, sent>>

SendTimeout(w) ==
    /\ pc[w] = "take"
    /\ ~free_space_sem
    /\ call[w].ticks \in {"some", "zero"}
    /\ Leave(w)
    /\ UNCHANGED <<rb, use, free_space_sem, items_buffered_sem, held, sent>>

TestFree(w) ==
    /\ pc[w] = "test"
    /\ Goto(w, IF FreeMem(rb) < needed_size(w) /\ call[w].ticks \in {"forever", "some"}
               THEN "check" ELSE "copy")
    /\ UNCHANGED <<rb, use, free_space_sem, items_buffered_sem, call, held, sent>>

PutItem(n) ==
    /\ rb' = CopyItem(rb, sent + 1, n)
    /\ sent' = sent + 1

Copy(w) ==
    /\ pc[w] = "copy"
    /\ \/ /\ Fits(rb, call[w].len)
          /\ PutItem(call[w].len)
          /\ Goto(w, "give")
       \/ /\ ~Fits(rb, call[w].len)
          /\ Goto(w, "check")
          /\ UNCHANGED <<rb, sent>>
    /\ UNCHANGED <<use, free_space_sem, items_buffered_sem, call, held>>

(* What if the item were announced only to a buffer that was empty? *)
GiveItems_IfAlone(w) ==
    /\ pc[w] = "give"
    /\ items_buffered_sem' = (items_buffered_sem \/ Len(Contents(rb)) = 1)
    /\ Leave(w)
    /\ UNCHANGED <<rb, use, free_space_sem, held, sent>>

GiveItems(w) ==
    /\ pc[w] = "give"
    /\ items_buffered_sem' = TRUE
    /\ Leave(w)
    /\ UNCHANGED <<rb, use, free_space_sem, held, sent>>

(* xRingbufferSendFromISR() when it succeeds; the semaphore follows. *)
SendFromISR(w) ==
    /\ w \in use.users \cap ISRs \cap Writers
    /\ pc[w] = "idle"
    /\ sent < MaxSends
    /\ \E n \in use.lens :
         /\ FreeMem(rb) >= n + Hdr
         /\ Fits(rb, n)
         /\ PutItem(n)
    /\ Goto(w, "give")
    /\ UNCHANGED <<use, free_space_sem, items_buffered_sem, call, held>>

-----------------------------------------------------------------------------
(* xRingbufferReceiveGeneric(), and the variants for interrupt handlers. *)

Wanted == IF rb.kind = "bytebuf" THEN {0, 1} ELSE {0}

Receive(r) ==
    /\ r \in use.users \ ISRs
    /\ pc[r] = "idle"
    /\ \E n \in Wanted, t \in use.waits :
         call' = [call EXCEPT ![r] = [len |-> n, ticks |-> t]]
    /\ Goto(r, "look")
    /\ UNCHANGED <<rb, use, free_space_sem, items_buffered_sem, held, sent>>

Look(r) ==
    /\ pc[r] = "look"
    /\ Goto(r, IF rb.read = rb.write THEN "await" ELSE "get")
    /\ UNCHANGED <<rb, use, free_space_sem, items_buffered_sem, call, held, sent>>

TakeItems(r) ==
    /\ pc[r] = "await"
    /\ items_buffered_sem
    /\ items_buffered_sem' = FALSE
    /\ Goto(r, "look")
    /\ UNCHANGED <<rb, use, free_space_sem, call, held, sent>>

ReceiveTimeout(r) ==
    /\ pc[r] = "await"
    /\ ~items_buffered_sem
    /\ call[r].ticks # "forever"
    /\ Leave(r)
    /\ UNCHANGED <<rb, use, free_space_sem, items_buffered_sem, held, sent>>

Hand(r, wanted) ==
    LET got == GetItem(rb, wanted)
    IN  /\ rb' = [rb EXCEPT !.read = got.next]
        /\ held' = [held EXCEPT ![r] = [ptr |-> got.ptr, len |-> got.len]]

Get(r) ==
    /\ pc[r] = "get"
    /\ \/ /\ HasItem(rb)
          /\ Hand(r, call[r].len)
          /\ Goto(r, "hold")
       \/ /\ ~HasItem(rb)
          /\ Goto(r, "look")
          /\ UNCHANGED <<rb, held>>
    /\ UNCHANGED <<use, free_space_sem, items_buffered_sem, call, sent>>

ReceiveFromISR(r) ==
    /\ r \in use.users \cap ISRs \cap Readers
    /\ pc[r] = "idle"
    /\ HasItem(rb)
    /\ \E n \in Wanted : Hand(r, n)
    /\ Goto(r, "hold")
    /\ UNCHANGED <<use, free_space_sem, items_buffered_sem, call, sent>>

-----------------------------------------------------------------------------
(* vRingbufferReturnItem(), also FromISR. *)

Return(r) ==
    /\ pc[r] = "hold"
    /\ rb' = ReturnItem(rb, held[r].ptr)
    /\ held' = [held EXCEPT ![r] = NotHeld]
    /\ Goto(r, "announce")
    /\ UNCHANGED <<use, free_space_sem, items_buffered_sem, call, sent>>

GiveFree(r) ==
    /\ pc[r] = "announce"
    /\ free_space_sem' = TRUE
    /\ Leave(r)
    /\ UNCHANGED <<rb, use, items_buffered_sem, held, sent>>

-----------------------------------------------------------------------------
SendSteps(w) ==
    \/ CheckFree(w) \/ TakeFree(w) \/ TestFree(w) \/ Copy(w) \/ GiveItems(w)

ReceiveSteps(r) ==
    \/ Look(r) \/ TakeItems(r) \/ Get(r) \/ Return(r) \/ GiveFree(r)

Next ==
    \/ \E w \in Writers :
         Send(w) \/ SendSteps(w) \/ SendTimeout(w) \/ SendFromISR(w)
    \/ \E r \in Readers :
         Receive(r) \/ ReceiveSteps(r) \/ ReceiveTimeout(r) \/ ReceiveFromISR(r)

(* Calls in progress go on, and a task that reads reads again. *)
Fairness ==
    /\ \A w \in Writers : WF_vars(SendSteps(w))
    /\ \A r \in Readers : WF_vars(ReceiveSteps(r)) /\ WF_vars(Receive(r))

Spec == Init /\ [][Next]_vars /\ Fairness

-----------------------------------------------------------------------------
(* Every variable has its type; the pointers are on words of the buffer. *)
TypeOK ==
    /\ use \in Setups
    /\ rb.kind = use.kind /\ rb.size = use.size
    /\ {rb.read, rb.write, rb.free} \subseteq DOMAIN rb.mem
    /\ free_space_sem \in BOOLEAN
    /\ items_buffered_sem \in BOOLEAN
    /\ pc \in [Users -> {"idle", "check", "take", "test", "copy", "give",
                         "look", "await", "get", "hold", "announce"}]
    /\ \A u \in Users : call[u].len \in Nat /\ call[u].ticks \in Waits
    /\ \A r \in Readers : held[r].len >= -1
    /\ sent \in Nat

(* The assertions of getItemFromRingbufDefault() and of                    *)
(* returnItemToRingbufDefault() would hold if they were reached now: where *)
(* the read pointer is, an item begins, and so does before each pointer    *)
(* that a reader has in its hands, neither dummy nor given back.           *)
AssertsHold ==
    rb.kind # "bytebuf" =>
    /\ rb.read # rb.write =>
         \/ IsDummy(rb, rb.read) /\ IsHeader(rb, 0) /\ len(rb, 0) < rb.size
         \/ IsHeader(rb, rb.read) /\ len(rb, rb.read) < rb.size
    /\ \A r \in Readers : held[r] # NotHeld =>
         /\ held[r].ptr < rb.size
         /\ IsHeader(rb, held[r].ptr - Hdr)
         /\ flags(rb, held[r].ptr - Hdr) = InUse
         /\ len(rb, held[r].ptr - Hdr) < rb.size

(* What a reader finds behind the pointer that it was handed. *)
Out(r) == IF held[r] = NotHeld THEN [len |-> 0, cells |-> << >>]
          ELSE PieceAt(rb, held[r].ptr, held[r].len)

(* The buffer is a queue: what is read off its memory, from the read to    *)
(* the write pointer, changes only by an item that joins at the end and a  *)
(* piece that leaves at the front, and what a reader holds is not written  *)
(* over, in whatever order the readers give back.                          *)
Fifo == INSTANCE FifoQueue WITH
            Lens <- UNION {s.lens : s \in Setups},
            kind <- rb.kind, queue <- Contents(rb),
            out <- [r \in Readers |-> Out(r)]

ImplementsFifo == Fifo!Spec

(* No wake-up is lost: a reader that waits for items does not go on        *)
(* waiting when there is one.                                              *)
ReaderWoken ==
    \A r \in Readers :
        (pc[r] = "await" /\ rb.read # rb.write) ~> (pc[r] # "await")

(* Every call of xRingbufferSend() returns as long as somebody reads: no   *)
(* writer waits for room that was announced to another one, or that will   *)
(* never be enough.                                                        *)
SendReturns ==
    \A w \in Writers : (pc[w] # "idle") ~> (pc[w] = "idle")

(* The comment in copyItemToRingbufNoSplit(): when the write pointer wraps *)
(* "there's no chance of overtaking" the read pointer.                     *)
NoOvertaking == [][rb'.write # rb.write => rb'.write # rb.read]_vars
=============================================================================
