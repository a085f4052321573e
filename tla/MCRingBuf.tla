----------------------------- MODULE MCRingBuf ------------------------------
EXTENDS RingBuf

CONSTANTS w1, w2, wi, r1, ri

(* Entries of 16 and 24 bytes in a buffer of 40: the pointers never come   *)
(* within four bytes of the end.  A byte buffer has one writer.            *)
Setup(k, n, u, l, w) == [kind |-> k, size |-> n, users |-> u, lens |-> l, waits |-> w]

InUseSetups ==
    {Setup("nosplit", 40, {w1, w2, r1}, {5}, {"forever", "some"}),
     Setup("nosplit", 40, {w1, wi, r1, ri}, {5}, {"some"}),
     Setup("allowsplit", 40, {w1, r1, ri}, {5, 16}, {"forever", "zero"}),
     Setup("bytebuf", 13, {w1, r1, ri}, {3}, {"forever"}),
     Setup("bytebuf", 13, {wi, r1}, {2, 3}, {"some"})}

(* Entries of 12 bytes in a buffer of 40. *)
WrapSetups == {Setup("nosplit", 40, {w1, r1}, {4}, {"forever"})}

(* Items without data. *)
EmptyItemSetups == {Setup("nosplit", 40, {w1, r1}, {0, 8}, {"forever"})}

(* A byte buffer with two writers, or with one that waits for some time. *)
SharedSetups == {Setup("bytebuf", 18, {w1, w2, r1}, {9}, {"forever"})}
TimedSetups == {Setup("bytebuf", 18, {w1, r1}, {9}, {"some"})}

(* A byte buffer and an item that is nearly as long. *)
FullSetups == {Setup("bytebuf", 13, {w1, r1}, {12}, {"forever"})}
=============================================================================
