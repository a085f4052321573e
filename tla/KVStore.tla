------------------------------ MODULE KVStore -------------------------------
(***************************************************************************)
(* What non-volatile storage promises: a map from keys to values.  A call  *)
(* changes the value of its own key, at one instant; when it returns       *)
(* ESP_OK the change is made, when it returns an error it is not.  When    *)
(* power fails the change of the call in progress is made or not, and      *)
(* nothing else is lost.                                                   *)
(***************************************************************************)
CONSTANTS Keys, Values, NoValue

VARIABLES
    on,        \* whether the device has power
    store,     \* the value of each key, NoValue when it has none
    req        \* the call in progress: key, its value then, the value wanted,
               \* and whether it is going to succeed

NoReq == [k |-> NoValue, old |-> NoValue, new |-> NoValue, ok |-> TRUE]

Init == on = FALSE /\ store = [k \in Keys |-> NoValue] /\ req = NoReq

Begin(k, v) ==
    /\ on /\ req = NoReq
    /\ req' = [k |-> k, old |-> store[k], new |-> v, ok |-> TRUE]
    /\ UNCHANGED <<on, store>>

Change ==
    /\ req # NoReq /\ req.ok
    /\ store' = [store EXCEPT ![req.k] = req.new]
    /\ UNCHANGED <<on, req>>

\* There is no space.
Fail ==
    /\ req # NoReq /\ store[req.k] = req.old
    /\ req' = [req EXCEPT !.ok = FALSE]
    /\ UNCHANGED <<on, store>>

\* The change is made now, if not before.
Return ==
    /\ req # NoReq
    /\ store' = [store EXCEPT ![req.k] = IF req.ok THEN req.new ELSE req.old]
    /\ req' = NoReq
    /\ UNCHANGED on

\* The call in progress does not return.
PowerFails ==
    /\ on
    /\ on' = FALSE
    /\ req' = NoReq
    /\ UNCHANGED store

PowerReturns ==
    /\ ~on
    /\ on' = TRUE
    /\ UNCHANGED <<store, req>>

Next ==
    \/ \E k \in Keys, v \in Values \cup {NoValue} : Begin(k, v)
    \/ Change \/ Fail \/ Return \/ PowerFails \/ PowerReturns

Spec == Init /\ [][Next]_<<on, store, req>>
=============================================================================
