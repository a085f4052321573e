---------------------------- MODULE BootChoice ------------------------------
(***************************************************************************)
(* What esp_ota_set_boot_partition() and the bootloader promise together   *)
(* (esp_ota_ops.h): there is always one chosen app; a call that returns    *)
(* ESP_OK replaces the choice, a call that returns an error leaves it, a   *)
(* call that is cut off does one or the other; and a restart boots the     *)
(* choice.                                                                 *)
(***************************************************************************)
CONSTANTS Parts,   \* the app partitions
          None

VARIABLES chosen,   \* the app the next restart will boot
          wanted,   \* the argument of the call in progress, or None
          result,   \* what the last call has returned, "none" while one is in progress
          running   \* the app that runs, or None

vars == <<chosen, wanted, result, running>>

Init == chosen \in Parts /\ wanted = None /\ result = "none" /\ running = None

Request(p) ==
    /\ running # None /\ wanted = None
    /\ wanted' = p
    /\ result' = "none"
    /\ UNCHANGED <<chosen, running>>

\* The call returns ESP_OK.
Commit ==
    /\ wanted # None
    /\ chosen' = wanted
    /\ wanted' = None
    /\ result' = "ESP_OK"
    /\ UNCHANGED running

\* The call returns an error.
Fail ==
    /\ wanted # None
    /\ wanted' = None
    /\ result' = "error"
    /\ UNCHANGED <<chosen, running>>

\* A restart, or a power cut in the middle of a call, which does not return.
Restart ==
    /\ chosen' \in {chosen, wanted} \ {None}
    /\ wanted' = None
    /\ result' = "none"
    /\ running' = None

\* The image of the choice is loaded.  (When it does not verify, nothing runs.)
Boot ==
    /\ running = None
    /\ running' = chosen
    /\ UNCHANGED <<chosen, wanted, result>>

Next == (\E p \in Parts : Request(p)) \/ Commit \/ Fail \/ Restart \/ Boot

Spec == Init /\ [][Next]_vars
=============================================================================
