----------------------------- MODULE FifoQueue ------------------------------
(***************************************************************************)
(* What a ring buffer promises (freertos/ringbuf.h): a strict first-in     *)
(* first-out queue of items.  An item comes out whole, in one or two       *)
(* parts, or as bytes, as the kind of the buffer says; what a reader was   *)
(* handed stays as it is until the reader gives it back.                   *)
(***************************************************************************)
EXTENDS Integers, Sequences

CONSTANTS Readers, Lens

VARIABLES
    kind,     \* the kind of the buffer
    queue,    \* the pieces that wait to be read
    sent,     \* the items that were put in so far
    out       \* what each reader has in its hands

vars == <<kind, queue, sent, out>>

Unit == IF kind = "bytebuf" THEN 1 ELSE 4
Nothing == [len |-> 0, cells |-> << >>]

(* n bytes of an item from offset at. *)
Piece(item, at, n) ==
    [len |-> n, cells |-> [i \in 1..((n + Unit - 1) \div Unit) |->
                             <<item, at + (i - 1) * Unit>>]]

(* The ways in which an item of n bytes may be queued. *)
Cuts(item, n) ==
    CASE kind = "nosplit"    -> {<<Piece(item, 0, n)>>}
      [] kind = "allowsplit" ->
           {<<Piece(item, 0, n)>>} \cup
           {<<Piece(item, 0, k), Piece(item, k, n - k)>> :
                k \in {j \in 1..(n - 1) : j % Unit = 0}}
      [] kind = "bytebuf"    -> {[i \in 1..n |-> Piece(item, i - 1, 1)]}

Init ==
    /\ kind \in {"nosplit", "allowsplit", "bytebuf"}
    /\ queue = << >>
    /\ sent = 0
    /\ out = [r \in Readers |-> Nothing]

Send(n) ==
    /\ sent' = sent + 1
    /\ \E pieces \in Cuts(sent + 1, n) : queue' = queue \o pieces
    /\ UNCHANGED <<kind, out>>

(* One piece, or any number of bytes of a byte buffer. *)
Receive(r, n) ==
    /\ out[r] = Nothing
    /\ n <= Len(queue)
    /\ n = 1 \/ kind = "bytebuf"
    /\ out' = [out EXCEPT ![r] =
                 IF n = 1 THEN queue[1]
                 ELSE [len |-> n, cells |-> [i \in 1..n |-> queue[i].cells[1]]]]
    /\ queue' = SubSeq(queue, n + 1, Len(queue))
    /\ UNCHANGED <<kind, sent>>

Return(r) ==
    /\ out' = [out EXCEPT ![r] = Nothing]
    /\ UNCHANGED <<kind, queue, sent>>

Next ==
    \/ \E n \in Lens : Send(n)
    \/ \E r \in Readers : \E n \in 1..Len(queue) : Receive(r, n)
    \/ \E r \in Readers : Return(r)

Spec == Init /\ [][Next]_vars
=============================================================================
