------------------------------- MODULE MCNvs --------------------------------
(* Nvs with an integer and a blob, or with integers only. *)
EXTENDS Nvs

CONSTANTS a, b, c

SpanOne == [k \in Keys |-> 1]
SpanBlob == [k \in Keys |-> IF k = b THEN 2 ELSE 1]
HashApart == [k \in Keys |-> CASE k = a -> 1 [] k = b -> 2 [] OTHER -> 3]
HashClash == [k \in Keys |-> 1]
=============================================================================
