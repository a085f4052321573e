---------------------------- MODULE MCFlashGuard ----------------------------
(* FlashGuard with tasks that may run on either CPU, and one pinned task. *)
EXTENDS FlashGuard

CONSTANTS a, b, d

MCAffinity == [t \in Tasks |-> IF t = d THEN {1} ELSE CPUs]
=============================================================================
