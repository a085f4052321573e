---------------------------- MODULE MCSpiMaster -----------------------------
(* SpiMaster with a device that has queues of two and one with queues of   *)
(* one; AheadSetups is for QueueSizeIsTheLimit.                            *)
EXTENDS SpiMaster

CONSTANTS a, b

QueueSizes == [d \in Devices |-> IF d = a THEN 2 ELSE 1]

Setup(l, p, n) == [local |-> l, plug |-> p, ahead |-> n]

InUseSetups == {Setup({a, b}, "quiet", "counted"), Setup({a}, "once", "counted"),
                Setup({b}, "once", "counted"), Setup({a}, "once", "free")}
TwoCpuSetups == {Setup({a}, "once", "counted")}
HotPlugSetups == {Setup({a, b}, "any", "counted")}
AheadSetups == {Setup({a, b}, "once", "free")}
=============================================================================
