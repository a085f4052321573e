-------------------------- MODULE AppTraceProofs ----------------------------
(***************************************************************************)
(* Theorems about AppTrace, for any set of writers, any sizes of chunks    *)
(* and blocks, any period of block_id and any number of calls.             *)
(***************************************************************************)
EXTENDS AppTrace, TLAPS

-----------------------------------------------------------------------------
(* The inductive invariant.                                                *)

Regs == [id : 0..(IdMod - 1), len : 0..Size, host : BOOLEAN]
Calls == [what : {"none", "write", "flush"}, size : Nat, core : Cores, block : 0..1,
          at : Nat, turn : Nat, no : Nat, seen : Regs]

ShapeInv ==
    /\ call \in [Writers -> Calls]
    /\ host = [f \in {"on", "last", "acks", "id"} |-> host[f]]
    /\ host.id \in 0..(IdMod - 1)
    /\ count \in [calls : Nat, made : Nat, connects : Nat]

\* A call has the lock until it has its room or gives up.
Locked == {"switch", "decide", "clear", "unlock", "alloc"}
LockInv == \A w \in Writers : pc[w] \in Locked => lock = w

\* There is room for the chunk that is about to be allotted.
RoomInv == \A w \in Writers : pc[w] = "alloc" => markers[In] + call[w].size + 1 <= Size

\* The host has been told of an update that has begun, and keeps away from
\* the bit that the update will write back.
UpdateInv ==
    \A w \in Writers : pc[w] = "decide" =>
        stat[call[w].core] /\ call[w].seen.host = ctrl[call[w].core].host

IInv == TypeOK /\ ShapeInv /\ LockInv /\ RoomInv /\ UpdateInv /\ ConnectionKept
-----------------------------------------------------------------------------
(* What the operators return.                                              *)

LEMMA Constants == /\ Size \in Nat \ {0} /\ IdMod \in Nat \ {0}
                   /\ \A n \in Sizes : n \in Nat /\ n < Size
                   /\ None \notin Writers
BY AppTraceAssumption, NoneAssumption

\* The blocks are used in turn.
LEMMA BlockFacts ==
    ASSUME in_block \in Nat
    PROVE  In \in 0..1 /\ Out \in 0..1 /\ In # Out /\ In = in_block % 2 /\ Out = (in_block + 1) % 2
BY DEF In, Out

LEMMA NoCallType ==
    /\ NoCtrl \in Regs
    /\ NoCall \in Calls
    /\ NoCall.at = 0 /\ NoCall.size = 0
<1>1. 0 \in 0..(IdMod - 1) /\ 0 \in 0..Size
    BY Constants
<1>2. NoCtrl \in Regs
    BY <1>1 DEF NoCtrl, Regs
<1> QED BY <1>2 DEF NoCall, Calls, Cores

LEMMA InitInv == Init => IInv
<1> SUFFICES ASSUME Init PROVE IInv
    OBVIOUS
<1>1. TypeOK
    BY NoCallType, Constants DEF Init, TypeOK, NoCtrl, NoCall, Cores
<1>2. ShapeInv
    BY NoCallType, Constants DEF Init, ShapeInv
<1>3. LockInv /\ RoomInv /\ UpdateInv
    BY DEF Init, LockInv, RoomInv, UpdateInv, Locked
<1>4. ConnectionKept
    BY DEF Init, ConnectionKept, NoCtrl
<1> QED BY <1>1, <1>2, <1>3, <1>4 DEF IInv

-----------------------------------------------------------------------------
(* The steps of a writer.                                                  *)

\* A step of w that leaves the blocks, the registers and the host alone, and
\* takes the lock if at all.
LEMMA QuietStep ==
    ASSUME IInv, NEW w \in Writers, NEW to, NEW c \in Calls,
           to \in {"idle", "lock", "switch", "clear", "unlock", "alloc", "copy", "put"},
           pc' = [pc EXCEPT ![w] = to], call' = [call EXCEPT ![w] = c],
           c.at + c.size < Size,
           UNCHANGED <<in_block, markers, ctrl, stat, host>>,
           count' \in [calls : Nat, made : Nat, connects : Nat],
           lock' \in {lock, w, None},
           \A v \in Writers : v # w /\ pc[v] \in Locked => lock' = lock,
           to \in Locked => lock' = w,
           to = "alloc" => markers[In] + c.size + 1 <= Size
    PROVE  IInv'
<1> USE DEF IInv
<1>1. TypeOK'
    BY DEF TypeOK, ShapeInv
<1>2. ShapeInv'
    BY DEF ShapeInv
<1>3. LockInv'
    BY DEF LockInv, TypeOK, Locked
<1>4. RoomInv'
    BY DEF RoomInv, TypeOK, ShapeInv, In
<1>5. UpdateInv'
    BY DEF UpdateInv, TypeOK, ShapeInv
<1>6. ConnectionKept'
    BY DEF ConnectionKept
<1> QED BY <1>1, <1>2, <1>3, <1>4, <1>5, <1>6

LEMMA BeginStep ==
    ASSUME IInv, NEW w \in Writers, Begin(w)
    PROVE  IInv'
<1>1. PICK c \in Calls : /\ call' = [call EXCEPT ![w] = c]
                         /\ c.at + c.size < Size
  <2>1. CASE \E n \in Sizes :
               call' = [call EXCEPT ![w] = [NoCall EXCEPT !.what = "write", !.size = n]]
    <3>1. PICK n \in Sizes :
             call' = [call EXCEPT ![w] = [NoCall EXCEPT !.what = "write", !.size = n]]
      BY <2>1
    <3> DEFINE c == [NoCall EXCEPT !.what = "write", !.size = n]
    <3>2. n \in Nat /\ n < Size
      BY Constants
    <3>3. c \in Calls /\ c.at = 0 /\ c.size = n
      BY <3>2, NoCallType DEF Calls
    <3>4. c.at + c.size < Size /\ call' = [call EXCEPT ![w] = c]
      BY <3>1, <3>2, <3>3
    <3> HIDE DEF c
    <3> QED BY <3>3, <3>4
  <2>2. CASE call' = [call EXCEPT ![w] = [NoCall EXCEPT !.what = "flush"]]
    <3> DEFINE c == [NoCall EXCEPT !.what = "flush"]
    <3>1. c \in Calls /\ c.at = 0 /\ c.size = 0
      BY NoCallType DEF Calls
    <3>2. c.at + c.size < Size /\ call' = [call EXCEPT ![w] = c]
      BY <2>2, <3>1, Constants
    <3> HIDE DEF c
    <3> QED BY <3>1, <3>2
  <2> QED BY <2>1, <2>2 DEF Begin
<1>2. count' \in [calls : Nat, made : Nat, connects : Nat]
  <2>1. count' = [count EXCEPT !.calls = @ + 1]
    BY DEF Begin
  <2> QED BY <2>1 DEF IInv, ShapeInv
<1> QED BY <1>1, <1>2, QuietStep DEF Begin, Goto, block, regs, Locked

LEMMA LockTakeStep ==
    ASSUME IInv, NEW w \in Writers, LockTake(w)
    PROVE  IInv'
<1>1. call[w] \in Calls /\ call[w].at + call[w].size < Size
    BY DEF IInv, ShapeInv, TypeOK
<1>2. PICK c \in Calls : /\ call' = [call EXCEPT ![w] = c]
                         /\ c.at = call[w].at /\ c.size = call[w].size
  <2>1. PICK k \in Cores : call' = [call EXCEPT ![w].core = k]
    BY DEF LockTake
  <2>2. [call[w] EXCEPT !.core = k] \in Calls
    BY <1>1 DEF Calls
  <2> QED BY <1>1, <2>1, <2>2 DEF Calls
<1>3. /\ AfterLock(w) \in {"switch", "alloc", "unlock"}
      /\ AfterLock(w) = "alloc" => markers[In] + call[w].size + 1 <= Size
  <2>1. In \in 0..1
    BY BlockFacts DEF IInv, TypeOK
  <2>2. markers[In] \in Nat /\ call[w].size \in Nat /\ Size \in Nat
    BY <1>1, <2>1, Constants DEF IInv, TypeOK, Calls
  <2> QED BY <2>2 DEF AfterLock, Full
<1>4. \A v \in Writers : pc[v] \notin Locked
    BY Constants DEF LockTake, IInv, LockInv
<1>5. UNCHANGED <<in_block, markers, ctrl, stat, host, count>> /\ lock' = w
    BY DEF LockTake, block, regs
<1>6. pc' = [pc EXCEPT ![w] = AfterLock(w)]
    BY DEF LockTake, Goto
<1>7. c.at + c.size < Size /\ count' \in [calls : Nat, made : Nat, connects : Nat]
    BY <1>1, <1>2, <1>5 DEF IInv, ShapeInv
<1> QED BY <1>2, <1>3, <1>4, <1>5, <1>6, <1>7, QuietStep

\* A call that returns forgets everything.
LEMMA ReturnStep ==
    ASSUME IInv, NEW w \in Writers, Return(w),
           UNCHANGED <<in_block, markers, ctrl, stat, host, count>>,
           lock' \in {lock, None}, \A v \in Writers : v # w /\ pc[v] \in Locked => lock' = lock
    PROVE  IInv'
<1>1. NoCall \in Calls /\ NoCall.at + NoCall.size < Size
    BY NoCallType, Constants
<1>2. count' \in [calls : Nat, made : Nat, connects : Nat]
    BY DEF IInv, ShapeInv
<1> QED BY <1>1, <1>2, QuietStep DEF Return, Goto, Locked

\* Nobody else has the lock while w is at work under it.
LEMMA OneAtATime ==
    ASSUME IInv, NEW w \in Writers, pc[w] \in Locked
    PROVE  \A v \in Writers : v # w => pc[v] \notin Locked
BY DEF IInv, LockInv

LEMMA LockTimeoutStep ==
    ASSUME IInv, NEW w \in Writers, LockTimeout(w)
    PROVE  IInv'
BY ReturnStep DEF LockTimeout, block, regs

LEMMA UnlockStep ==
    ASSUME IInv, NEW w \in Writers, Unlock(w)
    PROVE  IInv'
BY ReturnStep, OneAtATime DEF Unlock, block, regs, Locked

LEMMA PutStep ==
    ASSUME IInv, NEW w \in Writers, Put(w)
    PROVE  IInv'
BY ReturnStep DEF Put, regs

LEMMA CopyStep ==
    ASSUME IInv, NEW w \in Writers, Copy(w)
    PROVE  IInv'
<1>1. call[w] \in Calls /\ call[w].at + call[w].size < Size /\ call' = [call EXCEPT ![w] = call[w]]
    BY DEF IInv, ShapeInv, TypeOK, Copy
<1>2. count' \in [calls : Nat, made : Nat, connects : Nat]
    BY DEF IInv, ShapeInv, Copy
<1> QED BY <1>1, <1>2, QuietStep DEF Copy, Goto, regs, Locked

LEMMA FlushClearStep ==
    ASSUME IInv, NEW w \in Writers, FlushClear(w)
    PROVE  IInv'
<1> USE DEF IInv
<1>0. /\ pc[w] = "clear" /\ pc' = [pc EXCEPT ![w] = "unlock"]
      /\ markers' = [markers EXCEPT ![Out] = 0]
      /\ UNCHANGED <<in_block, ctrl, stat, lock, call, host, count>>
    BY DEF FlushClear, Goto, regs
<1>1. Out \in 0..1 /\ In \in 0..1 /\ In' = In /\ In # Out /\ 0 \in 0..Size
    BY <1>0, BlockFacts, Constants DEF TypeOK, In
<1>2. TypeOK'
    BY <1>0, <1>1 DEF TypeOK
<1>3. ShapeInv' /\ ConnectionKept'
    BY <1>0 DEF ShapeInv, ConnectionKept
<1>4. LockInv' /\ UpdateInv'
    BY <1>0 DEF LockInv, UpdateInv, Locked, TypeOK
<1>5. RoomInv'
    BY <1>0, <1>1 DEF RoomInv, TypeOK
<1> QED BY <1>2, <1>3, <1>4, <1>5

LEMMA AllocStep ==
    ASSUME IInv, NEW w \in Writers, Alloc(w)
    PROVE  IInv'
<1> USE DEF IInv
<1> DEFINE c == [call[w] EXCEPT !.block = In, !.at = markers[In], !.turn = in_block,
                        !.no = count.made + 1, !.core = 0]
<1>0. /\ pc[w] = "alloc" /\ pc' = [pc EXCEPT ![w] = "copy"]
      /\ markers' = [markers EXCEPT ![In] = @ + call[w].size + 1]
      /\ call' = [call EXCEPT ![w] = c]
      /\ count' = [count EXCEPT !.made = count.made + 1]
      /\ lock' = None
      /\ UNCHANGED <<in_block, ctrl, stat, host>>
    BY DEF Alloc, Allot, Goto, regs, ShapeInv
<1>1. In \in 0..1 /\ In' = In
    BY <1>0, BlockFacts DEF TypeOK, In
<1>2. /\ markers[In] \in Nat /\ call[w].size \in Nat /\ Size \in Nat
      /\ markers[In] + call[w].size + 1 <= Size
    BY <1>0, <1>1, Constants DEF TypeOK, ShapeInv, Calls, RoomInv
<1>3. c \in Calls /\ c.at + c.size < Size
  <2>1. count.made + 1 \in Nat /\ in_block \in Nat /\ call[w] \in Calls
    BY DEF ShapeInv, TypeOK
  <2>2. c \in Calls /\ c.at = markers[In] /\ c.size = call[w].size
    BY <1>1, <1>2, <2>1 DEF Calls, Cores
  <2> QED BY <1>2, <2>2
<1> HIDE DEF c
<1>4. markers' \in [0..1 -> 0..Size]
  <2>1. markers[In] + call[w].size + 1 \in 0..Size
    BY <1>2
  <2> QED BY <1>0, <2>1 DEF TypeOK
<1>5. TypeOK'
    BY <1>0, <1>3, <1>4 DEF TypeOK, ShapeInv
<1>6. ShapeInv'
  <2>1. count' \in [calls : Nat, made : Nat, connects : Nat]
    BY <1>0 DEF ShapeInv
  <2> QED BY <1>0, <1>3, <2>1 DEF ShapeInv
<1>7. \A v \in Writers : pc'[v] \notin Locked
    BY <1>0, OneAtATime DEF TypeOK, Locked
<1>8. LockInv' /\ RoomInv' /\ UpdateInv'
    BY <1>7 DEF LockInv, RoomInv, UpdateInv, Locked
<1>9. ConnectionKept'
    BY <1>0 DEF ConnectionKept
<1> QED BY <1>5, <1>6, <1>8, <1>9

-----------------------------------------------------------------------------
(* An update of a control register.                                        *)

LEMMA SwitchReadStep ==
    ASSUME IInv, NEW w \in Writers, SwitchRead(w)
    PROVE  IInv'
<1> USE DEF IInv
<1> DEFINE c == [call[w] EXCEPT !.seen = ctrl[call[w].core]]
<1>0. /\ pc[w] = "switch" /\ pc' = [pc EXCEPT ![w] = "decide"]
      /\ stat' = [stat EXCEPT ![call[w].core] = TRUE]
      /\ call' = [call EXCEPT ![w] = c]
      /\ UNCHANGED <<in_block, markers, ctrl, lock, host, count>>
    BY DEF SwitchRead, Goto, block
<1>1. call[w] \in Calls /\ call[w].core \in Cores /\ ctrl[call[w].core] \in Regs
    BY DEF ShapeInv, TypeOK, Calls, Regs
<1>2. /\ c \in Calls /\ c.at = call[w].at /\ c.size = call[w].size /\ c.core = call[w].core
      /\ c.seen = ctrl[call[w].core]
    BY <1>1 DEF Calls
<1> HIDE DEF c
<1>3. TypeOK'
    BY <1>0, <1>1, <1>2 DEF TypeOK, ShapeInv
<1>4. ShapeInv' /\ ConnectionKept'
    BY <1>0, <1>2 DEF ShapeInv, ConnectionKept
<1>5. LockInv'
    BY <1>0 DEF LockInv, Locked, TypeOK
<1>6. \A v \in Writers : v # w => pc'[v] = pc[v] /\ pc[v] \notin Locked
    BY <1>0, OneAtATime DEF Locked, TypeOK
<1>7. pc'[w] = "decide" /\ call'[w] = c /\ stat'[call[w].core] = TRUE
    BY <1>0, <1>1 DEF TypeOK, ShapeInv
<1>8. RoomInv' /\ UpdateInv'
    BY <1>0, <1>2, <1>6, <1>7 DEF RoomInv, UpdateInv, Locked
<1> QED BY <1>3, <1>4, <1>5, <1>8

LEMMA SwitchRefuseStep ==
    ASSUME IInv, NEW w \in Writers, SwitchRefuse(w)
    PROVE  IInv'
<1> USE DEF IInv
<1> DEFINE c == [call[w] EXCEPT !.seen = NoCtrl]
<1>0. /\ pc[w] = "decide"
      /\ pc' = [pc EXCEPT ![w] = "switch"] \/ pc' = [pc EXCEPT ![w] = "unlock"]
      /\ stat' = [stat EXCEPT ![call[w].core] = FALSE]
      /\ call' = [call EXCEPT ![w] = c]
      /\ UNCHANGED <<in_block, markers, ctrl, lock, host, count>>
    BY DEF SwitchRefuse, Goto, block
<1>1. call[w] \in Calls
    BY DEF ShapeInv
<1>2. c \in Calls /\ c.at = call[w].at /\ c.size = call[w].size
    BY <1>1, NoCallType DEF Calls
<1> HIDE DEF c
<1>3. TypeOK'
    BY <1>0, <1>1, <1>2 DEF TypeOK, ShapeInv
<1>4. ShapeInv' /\ ConnectionKept'
    BY <1>0, <1>2 DEF ShapeInv, ConnectionKept
<1>5. LockInv'
    BY <1>0 DEF LockInv, Locked, TypeOK
<1>6. \A v \in Writers : pc'[v] \notin {"decide", "alloc"}
    BY <1>0, OneAtATime DEF Locked, TypeOK
<1>7. RoomInv' /\ UpdateInv'
    BY <1>6 DEF RoomInv, UpdateInv
<1> QED BY <1>3, <1>4, <1>5, <1>7

LEMMA SwitchWriteStep ==
    ASSUME IInv, NEW w \in Writers, SwitchWrite(w)
    PROVE  IInv'
<1> USE DEF IInv
<1> DEFINE c == [call[w] EXCEPT !.seen = NoCtrl]
           k == call[w].core
           r == [id |-> (in_block + 1) % IdMod, len |-> markers[In], host |-> call[w].seen.host]
<1>0. /\ pc[w] = "decide"
      /\ pc' = [pc EXCEPT ![w] = "alloc"] \/ pc' = [pc EXCEPT ![w] = "clear"]
      /\ markers' = [markers EXCEPT ![Out] = 0]
      /\ in_block' = in_block + 1
      /\ ctrl' = [ctrl EXCEPT ![k] = r]
      /\ stat' = [stat EXCEPT ![k] = FALSE]
      /\ call' = [call EXCEPT ![w] = c]
      /\ UNCHANGED <<lock, host, count>>
    BY DEF SwitchWrite, Goto
<1>1. /\ call[w] \in Calls /\ call[w].size \in Nat /\ k \in Cores /\ call[w].seen.host \in BOOLEAN
      /\ call[w].size < Size
    BY Constants DEF ShapeInv, TypeOK, Calls, Regs
<1>2. c \in Calls /\ c.at = call[w].at /\ c.size = call[w].size
    BY <1>1, NoCallType DEF Calls
<1>3. Out \in 0..1 /\ In' = Out /\ In \in 0..1 /\ 0 \in 0..Size
    BY <1>0, BlockFacts, Constants DEF TypeOK, In, Out
<1>4. r \in Regs /\ r.host = call[w].seen.host
  <2>1. (in_block + 1) % IdMod \in 0..(IdMod - 1)
    BY Constants DEF TypeOK
  <2> QED BY <1>1, <1>3, <2>1 DEF TypeOK, Regs
<1>5. r.host = ctrl[k].host
    BY <1>0, <1>4 DEF UpdateInv
<1> HIDE DEF c, r, k
<1>6. TypeOK'
  <2>1. in_block' \in Nat /\ markers' \in [0..1 -> 0..Size]
    BY <1>0, <1>3 DEF TypeOK
  <2>2. ctrl' \in [Cores -> Regs] /\ stat' \in [Cores -> BOOLEAN]
    BY <1>0, <1>1, <1>4 DEF TypeOK, Regs
  <2>3. pc' \in [Writers -> {"idle", "lock", "switch", "decide", "clear", "unlock",
                             "alloc", "copy", "put"}]
    BY <1>0 DEF TypeOK
  <2>4. \A v \in Writers : call'[v].at + call'[v].size < Size
    BY <1>0, <1>1, <1>2 DEF TypeOK, ShapeInv
  <2> QED BY <1>0, <2>1, <2>2, <2>3, <2>4 DEF TypeOK, Regs
<1>7. ShapeInv'
    BY <1>0, <1>2 DEF ShapeInv
<1>8. LockInv'
    BY <1>0 DEF LockInv, Locked, TypeOK
<1>9. \A v \in Writers : pc'[v] # "decide" /\ (pc'[v] = "alloc" => v = w)
    BY <1>0, OneAtATime DEF Locked, TypeOK
<1>10. UpdateInv'
    BY <1>9 DEF UpdateInv
<1>11. RoomInv'
  <2>1. markers'[In'] = 0 /\ call'[w] = c
    BY <1>0, <1>3 DEF TypeOK, ShapeInv
  <2>2. markers'[In'] + call'[w].size + 1 <= Size
    BY <1>1, <1>2, <2>1, Constants
  <2> QED BY <1>9, <2>2 DEF RoomInv
<1>12. ConnectionKept'
    BY <1>0, <1>1, <1>5 DEF ConnectionKept, TypeOK
<1> QED BY <1>6, <1>7, <1>8, <1>10, <1>11, <1>12

-----------------------------------------------------------------------------
(* The host.                                                               *)

\* The host sets the bit of both CPUs while none is in an update.
LEMMA SetHostStep ==
    ASSUME IInv, NEW b \in BOOLEAN, NEW n, SetHost(b), \A c \in Cores : ~stat[c],
           host' = [host EXCEPT !.on = b, !.last = n],
           UNCHANGED <<block, stat, lock, pc, call>>,
           count' \in [calls : Nat, made : Nat, connects : Nat]
    PROVE  IInv'
<1> USE DEF IInv
<1>1. \A w \in Writers : pc[w] # "decide"
    BY DEF UpdateInv, ShapeInv, Calls
<1>2. ctrl' \in [Cores -> Regs] /\ \A c \in Cores : ctrl'[c].host = b
    BY DEF SetHost, TypeOK, Regs
<1>3. /\ host' = [f \in {"on", "last", "acks", "id"} |-> host'[f]]
      /\ host'.on = b /\ host'.acks = host.acks /\ host'.id = host.id
    BY DEF ShapeInv
<1>4. TypeOK'
    BY <1>2, <1>3 DEF TypeOK, block, Regs
<1>5. ShapeInv'
    BY <1>3 DEF ShapeInv
<1>6. LockInv' /\ RoomInv' /\ UpdateInv'
    BY <1>1 DEF LockInv, RoomInv, UpdateInv, block, In
<1>7. ConnectionKept'
    BY <1>2, <1>3 DEF ConnectionKept
<1> QED BY <1>4, <1>5, <1>6, <1>7

LEMMA ConnectStep ==
    ASSUME IInv, Connect
    PROVE  IInv'
<1>1. count' \in [calls : Nat, made : Nat, connects : Nat]
    BY DEF Connect, IInv, ShapeInv
<1> QED BY <1>1, SetHostStep DEF Connect

LEMMA DisconnectStep ==
    ASSUME IInv, Disconnect
    PROVE  IInv'
<1>1. count' \in [calls : Nat, made : Nat, connects : Nat]
    BY DEF Disconnect, IInv, ShapeInv
<1> QED BY <1>1, SetHostStep DEF Disconnect

LEMMA HostReadStep ==
    ASSUME IInv, NEW c \in Cores, HostRead(c)
    PROVE  IInv'
<1> USE DEF IInv
<1>0. UNCHANGED <<in_block, markers, ctrl, stat, lock, pc, call, count>>
    BY DEF HostRead, block, regs
<1>1. /\ host' = [f \in {"on", "last", "acks", "id"} |-> host'[f]]
      /\ host'.on = host.on /\ host'.acks \subseteq Cores /\ host'.id = ctrl[c].id
    BY DEF HostRead, ShapeInv
<1>2. TypeOK' /\ ShapeInv'
    BY <1>0, <1>1 DEF TypeOK, ShapeInv
<1>3. LockInv' /\ RoomInv' /\ UpdateInv' /\ ConnectionKept'
    BY <1>0, <1>1 DEF LockInv, RoomInv, UpdateInv, ConnectionKept, In
<1> QED BY <1>2, <1>3

\* An acknowledgement leaves the bit alone.
LEMMA HostAckStep ==
    ASSUME IInv, NEW c \in Cores, HostAck(c)
    PROVE  IInv'
<1> USE DEF IInv
<1>0. UNCHANGED <<in_block, markers, stat, lock, pc, call, count>>
    BY DEF HostAck, block
<1>1. /\ host' = [f \in {"on", "last", "acks", "id"} |-> host'[f]]
      /\ host'.on = host.on /\ host'.acks \subseteq Cores /\ host'.id = host.id
    BY DEF HostAck, ShapeInv, TypeOK
<1>2. ctrl' = [ctrl EXCEPT ![c] = [ctrl[c] EXCEPT !.id = host.id, !.len = 0]]
    BY DEF HostAck, TypeOK
<1>3. ctrl' \in [Cores -> Regs] /\ \A k \in Cores : ctrl'[k].host = ctrl[k].host
  <2>1. /\ [ctrl[c] EXCEPT !.id = host.id, !.len = 0] \in Regs
        /\ [ctrl[c] EXCEPT !.id = host.id, !.len = 0].host = ctrl[c].host
    <3>1. ctrl[c] \in Regs /\ host.id \in 0..(IdMod - 1) /\ 0 \in 0..Size
      BY Constants DEF TypeOK, ShapeInv, Regs
    <3> QED BY <3>1 DEF Regs
  <2> QED BY <1>2, <2>1 DEF TypeOK, Regs
<1>4. TypeOK' /\ ShapeInv'
    BY <1>0, <1>1, <1>3 DEF TypeOK, ShapeInv, Regs
<1>5. UpdateInv'
    BY <1>0, <1>3 DEF UpdateInv, ShapeInv, Calls
<1>6. LockInv' /\ RoomInv' /\ ConnectionKept'
    BY <1>0, <1>1, <1>3 DEF LockInv, RoomInv, ConnectionKept, In
<1> QED BY <1>4, <1>5, <1>6

-----------------------------------------------------------------------------
(* The theorems.                                                           *)

LEMMA NextInv ==
    ASSUME IInv, [Next]_vars
    PROVE  IInv'
<1>1. CASE UNCHANGED vars
    BY <1>1 DEF IInv, vars, TypeOK, ShapeInv, LockInv, RoomInv, UpdateInv, ConnectionKept, In
<1>2. CASE Next
    BY <1>2, BeginStep, LockTimeoutStep, LockTakeStep, SwitchReadStep, SwitchWriteStep,
       SwitchRefuseStep, FlushClearStep, UnlockStep, AllocStep, CopyStep, PutStep, ConnectStep,
       DisconnectStep, HostReadStep, HostAckStep
    DEF Next, Steps, HostSteps
<1> QED BY <1>1, <1>2

LEMMA Inductive == Spec => []IInv
<1>1. Init => IInv
    BY InitInv
<1>2. IInv /\ [Next]_vars => IInv'
    BY NextInv
<1> QED BY <1>1, <1>2, PTL DEF Spec

(* Tracing keeps its types; in particular the room that                    *)
(* esp_apptrace_trax_get_buffer() allots, after a switch of blocks too,    *)
(* lies within the block, for any number of writers on both CPUs.          *)
THEOREM TraceTypeCorrect == Spec => []TypeOK
<1>1. IInv => TypeOK
    BY DEF IInv
<1> QED BY <1>1, Inductive, PTL

(* esp_apptrace_trax_block_switch() reads a control register and writes it *)
(* back later: the bit by which the host connects or disconnects meanwhile *)
(* is never lost, with any number of writers.                              *)
THEOREM ConnectionIsKept == Spec => []ConnectionKept
<1>1. IInv => ConnectionKept
    BY DEF IInv
<1> QED BY <1>1, Inductive, PTL
=============================================================================
