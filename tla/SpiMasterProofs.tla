--------------------------- MODULE SpiMasterProofs --------------------------
(***************************************************************************)
(* What SpiMaster guarantees for any number of devices, chip-select lines  *)
(* and transactions, any sizes of the queues and the ways of using the     *)
(* driver that are safe.                                                   *)
(***************************************************************************)
EXTENDS SpiMaster, SequenceTheorems, TLAPS

(* What the application has to take care of, as the driver takes no lock:  *)
(* devices are added once and before anything is queued; or they come and  *)
(* go while the tasks of the other devices have nothing to do with the bus *)
(* and all tasks are on the CPU of the handler, with no more transactions  *)
(* in the air than queue_size (of a result that was lost nobody would know *)
(* when it is over).  And no device is refused.                            *)
CarefulUse ==
    /\ Results \subseteq {"ok"}
    /\ \A u \in Setups : \/ u.plug = "once"
                         \/ u.plug = "quiet" /\ u.local = Devices /\ u.ahead = "counted"

Removing == {"check1", "check2", "check3", "delete", "clear"}
Stages == Plugging \cup {"app", "queued", "transmit", "wait"}

Queues == [Devices -> Seq(Trans)]
Hardware == [trans_done : BOOLEAN, usr : BOOLEAN, for : Devices \cup {Null, Reserved}]
Handler == [at : {"out", "scan", "start"}, i : 0..NO_CS, prevCs : Slots \cup {-1},
            trans : Trans \cup {NoTrans}]

TypeOK ==
    /\ use \in [local : SUBSET Devices, plug : {"once", "quiet", "any"},
               ahead : {"counted", "free"}]
    /\ bus \in {"off", "on"}
    /\ device \in [Slots -> Devices \cup {Null, Reserved}]
    /\ dev \in [Devices -> {"none", "bare", "ready", "deleted"}]
    /\ trans_queue \in Queues /\ ret_queue \in Queues
    /\ cur_trans \in Trans \cup {NoTrans}
    /\ cur_cs \in Slots
    /\ hw \in Hardware
    /\ enabled \in BOOLEAN
    /\ isr \in Handler
    /\ pc \in [Devices -> Stages]
    /\ freecs \in [Devices -> Slots]
    /\ queued \in [Devices -> Nat]
    /\ got \in [Devices -> Nat]

(* How far the structure of a device is, by the call that its task is in. *)
StageInv ==
    \A d \in Devices :
        /\ dev[d] = "bare" <=> pc[d] = "alloc"
        /\ dev[d] = "deleted" <=> pc[d] = "clear"
        /\ pc[d] = "reserved" => dev[d] = "none"
        /\ pc[d] \in {"queued", "transmit", "wait", "check1", "check2", "check3", "delete"}
             => dev[d] = "ready"

(* A slot is empty, reserved by one task, or has a device that exists. *)
SlotInv ==
    /\ \A s \in Slots : device[s] \in Devices => dev[device[s]] # "none"
    /\ \A s \in Slots : device[s] = Reserved =>
         \E d \in Devices : pc[d] = "reserved" /\ freecs[d] = s
    /\ \A d \in Devices : pc[d] = "reserved" => device[freecs[d]] = Reserved
    /\ \A d, e \in Devices :
         pc[d] = "reserved" /\ pc[e] = "reserved" /\ freecs[d] = freecs[e] => d = e
    /\ \A d \in Devices : dev[d] # "none" => \E s \in Slots : device[s] = d
    /\ bus = "off" => \A s \in Slots : device[s] = Null

(* What the hardware works on, and for whom it is set up. *)
HwInv ==
    /\ cur_trans # NoTrans => /\ isr.at = "out" /\ bus = "on"
                              /\ device[cur_cs] = cur_trans.of
                              /\ hw.for = cur_trans.of
    /\ hw.usr => cur_trans # NoTrans /\ ~hw.trans_done
    /\ bus = "on" /\ cur_trans = NoTrans => hw.trans_done
    /\ enabled => bus = "on" /\ \E s \in Slots : device[s] # Null

(* What the handler holds, and what it remembers of the last transfer. *)
IsrInv ==
    /\ isr.at # "out" => enabled
    /\ isr.at # "start" => isr.trans = NoTrans
    /\ isr.at = "start" => /\ isr.trans # NoTrans /\ isr.i \in Slots
                           /\ device[isr.i] = isr.trans.of
    /\ isr.at # "out" /\ isr.prevCs # -1 => hw.for = device[isr.prevCs]

Mine(t, d) == IF t # NoTrans /\ t.of = d THEN 1 ELSE 0

(* The transactions of a device are numbered through.  Up to some m they   *)
(* are finished; then come the one c in the hardware, the one s in the     *)
(* hands of the handler and those in the queue q.  In the queue r are      *)
(* results after the last g that was got, in order; and all of them when   *)
(* the task counts what is in the air.                                     *)
Numbered(seq, d, from) ==
    \A i \in 1..Len(seq) : seq[i] = [of |-> d, no |-> from + i]
OnTheWay(d, c, s, q, m, n) ==
    /\ c # NoTrans /\ c.of = d => c.no = m + 1
    /\ s # NoTrans /\ s.of = d => s.no = m + Mine(c, d) + 1
    /\ Numbered(q, d, m + Mine(c, d) + Mine(s, d))
    /\ n = m + Mine(c, d) + Mine(s, d) + Len(q)
Rising(d, r, g, m) ==
    /\ g <= m
    /\ \A i \in 1..Len(r) : r[i].of = d /\ g < r[i].no /\ r[i].no <= m
    /\ \A i, j \in 1..Len(r) : i < j => r[i].no < r[j].no
Complete(d, r, g, m, n) ==
    Numbered(r, d, g) /\ m = g + Len(r) /\ n - g <= queue_size[d]
Ordered(k, d, r, c, s, q, g, n) ==
    \E m \in Nat : /\ OnTheWay(d, c, s, q, m, n)
                   /\ Rising(d, r, g, m)
                   /\ k = "counted" => Complete(d, r, g, m, n)
OrderInv ==
    \A d \in Devices : Ordered(use.ahead, d, ret_queue[d], cur_trans, isr.trans,
                               trans_queue[d], got[d], queued[d])

(* A device that is not ready has nothing under way. *)
RestInv ==
    \A d \in Devices :
        /\ dev[d] # "ready" => queued[d] = got[d]
        /\ pc[d] \in {"queued", "transmit"} => queued[d] # 0

(* When devices are added once, all are there before anything is sent. *)
OnceInv ==
    use.plug = "once" =>
        /\ \A d \in Devices : pc[d] \notin Removing
        /\ enabled \/ (\E d \in Devices : queued[d] # 0) => \A d \in Devices : dev[d] = "ready"

(* When they come and go, the task that adds or removes one is alone, and  *)
(* from its second check on the handler has nothing to do.                 *)
QuietInv ==
    use.plug = "quiet" =>
        \A d \in Devices :
            /\ pc[d] \in Plugging => \A e \in Others(d) : pc[e] = "app" /\ queued[e] = got[e]
            /\ pc[d] \in Plugging \ {"check1", "check2"} => ~enabled /\ cur_trans = NoTrans
            /\ pc[d] \in {"check2", "check3", "delete", "clear"} => trans_queue[d] = << >>
            /\ pc[d] \in {"delete", "clear"} => queued[d] = got[d]

UseInv == \/ use.plug = "once"
          \/ use.plug = "quiet" /\ use.local = Devices /\ use.ahead = "counted"

IInv == TypeOK /\ StageInv /\ SlotInv /\ HwInv /\ IsrInv /\ OrderInv /\ RestInv
        /\ OnceInv /\ QuietInv /\ UseInv

-----------------------------------------------------------------------------
(* The constants, and what the handler does not touch.                     *)

LEMMA Constants ==
    /\ queue_size \in [Devices -> Nat \ {0}]
    /\ NO_CS \in Nat \ {0} /\ 0 \in Slots /\ -1 \notin Slots
    /\ Null \notin Devices /\ Reserved \notin Devices /\ Null # Reserved
    /\ NoTrans \notin Trans
BY SpiAssumption, NullAssumption DEF Slots

LEMMA IdleType ==
    /\ Idle \in Handler
    /\ Idle.at = "out" /\ Idle.trans = NoTrans
BY Constants DEF Idle, Handler

LEMMA InitInv == CarefulUse /\ Init => IInv
<1> SUFFICES ASSUME CarefulUse, Init PROVE IInv
    OBVIOUS
<1>1. TypeOK
  <2>1. use \in [local : SUBSET Devices, plug : {"once", "quiet", "any"},
               ahead : {"counted", "free"}]
    BY SpiAssumption DEF Init
  <2>2. << >> \in Seq(Trans)
    OBVIOUS
  <2>3. hw \in Hardware
    BY DEF Init, Hardware
  <2> QED BY <2>1, <2>2, <2>3, Constants, IdleType DEF Init, TypeOK, Stages, Queues
<1>2. StageInv /\ SlotInv
    BY Constants DEF Init, StageInv, SlotInv
<1>3. HwInv /\ IsrInv
    BY IdleType DEF Init, HwInv, IsrInv
<1>4. OrderInv
  <2>1. \A d \in Devices : Ordered(use.ahead, d, << >>, NoTrans, NoTrans, << >>, 0, 0)
    <3> TAKE d \in Devices
    <3>1. OnTheWay(d, NoTrans, NoTrans, << >>, 0, 0) /\ Rising(d, << >>, 0, 0)
      BY DEF OnTheWay, Rising, Numbered, Mine
    <3>2. Complete(d, << >>, 0, 0, 0)
      BY Constants DEF Complete, Numbered
    <3> QED BY <3>1, <3>2 DEF Ordered
  <2> QED BY <2>1, IdleType DEF Init, OrderInv
<1>5. RestInv /\ OnceInv /\ QuietInv
    BY DEF Init, RestInv, OnceInv, QuietInv, Plugging, Removing
<1>6. UseInv
    BY DEF Init, CarefulUse, UseInv
<1> QED BY <1>1, <1>2, <1>3, <1>4, <1>5, <1>6 DEF IInv

LEMMA AtRest ==
    ASSUME IInv, NEW d \in Devices, queued[d] = got[d]
    PROVE  /\ ret_queue[d] = << >> /\ trans_queue[d] = << >>
           /\ cur_trans # NoTrans => cur_trans.of # d
           /\ isr.trans # NoTrans => isr.trans.of # d
<1> DEFINE r == ret_queue[d]
           q == trans_queue[d]
<1>1. r \in Seq(Trans) /\ q \in Seq(Trans) /\ got[d] \in Nat
    BY DEF IInv, TypeOK, Queues
<1>2. Len(r) \in Nat /\ Len(q) \in Nat /\ Mine(cur_trans, d) \in 0..1
      /\ Mine(isr.trans, d) \in 0..1
    BY <1>1 DEF Mine
<1>3. PICK m \in Nat : /\ OnTheWay(d, cur_trans, isr.trans, q, m, got[d])
                       /\ Rising(d, r, got[d], m)
    BY DEF IInv, OrderInv, Ordered
<1> HIDE DEF r, q
<1>4. Len(q) = 0 /\ Mine(cur_trans, d) = 0 /\ Mine(isr.trans, d) = 0 /\ m = got[d]
    BY <1>1, <1>2, <1>3 DEF OnTheWay, Rising
<1>5. Len(r) = 0
  <2> SUFFICES ASSUME Len(r) # 0 PROVE FALSE
    OBVIOUS
  <2>1. 1 \in 1..Len(r)
    BY <1>2
  <2>2. r[1] \in Trans
    BY <1>1, <2>1
  <2>a. r[1].no \in Nat
    BY <2>2 DEF Trans
  <2>3. got[d] < r[1].no /\ r[1].no <= got[d]
    BY <1>3, <1>4, <2>1 DEF Rising
  <2> QED BY <1>1, <2>a, <2>3
<1> QED BY <1>1, <1>4, <1>5 DEF Mine, r, q

LEMMA AllAtRest ==
    ASSUME IInv, \A e \in Devices : queued[e] = got[e]
    PROVE  cur_trans = NoTrans /\ isr.trans = NoTrans
<1>1. cur_trans # NoTrans => cur_trans.of \in Devices
    BY DEF IInv, TypeOK, Trans
<1>2. isr.trans # NoTrans => isr.trans.of \in Devices
    BY DEF IInv, TypeOK, Trans, Handler
<1> QED BY <1>1, <1>2, AtRest

\* Results are got only of what was queued.
LEMMA GotQueued ==
    ASSUME IInv, NEW d \in Devices
    PROVE  got[d] <= queued[d]
<1>1. Len(trans_queue[d]) \in Nat /\ got[d] \in Nat /\ queued[d] \in Nat
    BY DEF IInv, TypeOK, Queues
<1>2. PICK m \in Nat : /\ OnTheWay(d, cur_trans, isr.trans, trans_queue[d], m, queued[d])
                       /\ Rising(d, ret_queue[d], got[d], m)
    BY DEF IInv, OrderInv, Ordered
<1>3. Mine(cur_trans, d) \in Nat /\ Mine(isr.trans, d) \in Nat
    BY DEF Mine
<1>4. /\ queued[d] = m + Mine(cur_trans, d) + Mine(isr.trans, d) + Len(trans_queue[d])
      /\ got[d] <= m
    BY <1>2 DEF OnTheWay, Rising
<1> QED BY <1>1, <1>3, <1>4

LEMMA NothingQueued ==
    ASSUME IInv, \A e \in Devices : queued[e] = 0
    PROVE  \A e \in Devices : queued[e] = got[e]
<1> SUFFICES ASSUME NEW e \in Devices PROVE queued[e] = got[e]
    OBVIOUS
<1>1. got[e] \in Nat /\ got[e] <= 0
    BY GotQueued DEF IInv, TypeOK
<1> QED BY <1>1

\* While a device is added, and from the second check of its removal on,
\* the handler is at rest.
LEMMA HandlerAtRest ==
    ASSUME IInv, NEW d \in Devices, pc[d] \in Plugging \ {"check1", "check2"}
    PROVE  ~enabled /\ cur_trans = NoTrans /\ isr.at = "out" /\ isr.trans = NoTrans
<1>1. CASE use.plug = "once"
  <2>1. dev[d] # "ready"
    BY <1>1 DEF IInv, OnceInv, StageInv, Plugging, Removing
  <2>2. ~enabled /\ \A e \in Devices : queued[e] = 0
    BY <1>1, <2>1 DEF IInv, OnceInv
  <2> QED BY <2>2, NothingQueued, AllAtRest DEF IInv, IsrInv
<1>2. CASE use.plug = "quiet"
  <2>1. ~enabled /\ cur_trans = NoTrans
    BY <1>2 DEF IInv, QuietInv
  <2> QED BY <2>1 DEF IInv, IsrInv
<1> QED BY <1>1, <1>2 DEF IInv, UseInv

\* A task on the CPU of the handler runs only when the handler has nothing
\* to do: if all is at rest, the interrupt is disabled.
LEMMA NotEnabled ==
    ASSUME IInv, NEW d \in Devices, d \in use.local, MayRun(d), bus = "on",
           cur_trans = NoTrans
    PROVE  ~enabled
BY DEF IInv, HwInv, MayRun, Pending

-----------------------------------------------------------------------------
(* A transaction on its way from one queue to the other.                   *)

Typed(r, c, s, q, g, n) ==
    /\ r \in Seq(Trans) /\ q \in Seq(Trans)
    /\ c \in Trans \cup {NoTrans} /\ s \in Trans \cup {NoTrans}
    /\ g \in Nat /\ n \in Nat

LEMMA OrderedQueue ==
    ASSUME NEW k, NEW d \in Devices, NEW r, NEW c, NEW s, NEW q, NEW g, NEW n,
           Typed(r, c, s, q, g, n), Ordered(k, d, r, c, s, q, g, n),
           k = "counted" => n - g < queue_size[d]
    PROVE  Ordered(k, d, r, c, s, Append(q, [of |-> d, no |-> n + 1]), g, n + 1)
<1> DEFINE t == [of |-> d, no |-> n + 1]
<1>0. PICK m \in Nat : /\ OnTheWay(d, c, s, q, m, n) /\ Rising(d, r, g, m)
                       /\ k = "counted" => Complete(d, r, g, m, n)
    BY DEF Ordered
<1> DEFINE l == m + Mine(c, d) + Mine(s, d)
<1>1. /\ Len(q) \in Nat /\ l \in Nat /\ t \in Trans
      /\ queue_size[d] \in Nat /\ g \in Nat /\ n \in Nat /\ q \in Seq(Trans)
    BY Constants DEF Typed, Mine, Trans
<1>2. n = l + Len(q) /\ Numbered(q, d, l)
    BY <1>0 DEF OnTheWay
<1> HIDE DEF l
<1>3. Len(Append(q, t)) = Len(q) + 1 /\ n + 1 = l + Len(Append(q, t))
    BY <1>1, <1>2
<1>4. Numbered(Append(q, t), d, l)
  <2> SUFFICES ASSUME NEW i \in 1..(Len(q) + 1)
               PROVE  Append(q, t)[i] = [of |-> d, no |-> l + i]
    BY <1>3 DEF Numbered
  <2>1. CASE i \in 1..Len(q)
    <3>1. Append(q, t)[i] = q[i]
      BY <2>1, <1>1
    <3> QED BY <2>1, <3>1, <1>2 DEF Numbered
  <2>2. CASE i = Len(q) + 1
    <3>1. Append(q, t)[i] = t
      BY <2>2, <1>1
    <3>2. l + i = n + 1
      BY <2>2, <1>1, <1>2
    <3> QED BY <3>1, <3>2
  <2> QED BY <1>1, <2>1, <2>2
<1>5. k = "counted" => Complete(d, r, g, m, n + 1)
  <2> SUFFICES ASSUME k = "counted" PROVE Complete(d, r, g, m, n + 1)
    OBVIOUS
  <2>2. Numbered(r, d, g) /\ m = g + Len(r)
    BY <1>0 DEF Complete
  <2> DEFINE e == n + 1
  <2>3. e - g <= queue_size[d]
    BY <1>1
  <2> HIDE DEF e
  <2>4. Complete(d, r, g, m, e)
    BY <2>2, <2>3 DEF Complete
  <2> QED BY <2>4 DEF e
<1>6. OnTheWay(d, c, s, Append(q, t), m, n + 1)
  <2> DEFINE p == Append(q, t)
             e == n + 1
  <2>1. Numbered(p, d, l) /\ e = l + Len(p)
    BY <1>3, <1>4
  <2> HIDE DEF p, e
  <2>2. OnTheWay(d, c, s, p, m, e)
    BY <1>0, <2>1 DEF OnTheWay, l
  <2> QED BY <2>2 DEF p, e
<1> QED BY <1>0, <1>5, <1>6 DEF Ordered

LEMMA OrderedGet ==
    ASSUME NEW k, NEW d \in Devices, NEW r, NEW c, NEW s, NEW q, NEW g, NEW n,
           Typed(r, c, s, q, g, n), Ordered(k, d, r, c, s, q, g, n), r # << >>
    PROVE  Ordered(k, d, Tail(r), c, s, q, Head(r).no, n)
<1> DEFINE h == Head(r).no
           t == Tail(r)
<1>0. PICK m \in Nat : /\ OnTheWay(d, c, s, q, m, n) /\ Rising(d, r, g, m)
                       /\ k = "counted" => Complete(d, r, g, m, n)
    BY DEF Ordered
<1>1. /\ Len(r) \in Nat \ {0} /\ g \in Nat /\ n \in Nat /\ queue_size[d] \in Nat
      /\ r \in Seq(Trans) /\ Head(r) = r[1] /\ 1 \in 1..Len(r) /\ r[1] \in Trans
    BY Constants DEF Typed
<1>2. h = r[1].no /\ h \in Nat /\ g < h /\ h <= m
  <2>1. h = r[1].no /\ h \in Nat
    BY <1>1 DEF Trans
  <2> QED BY <1>0, <1>1, <2>1 DEF Rising
<1>3. /\ Len(t) = Len(r) - 1
      /\ \A i \in 1..Len(t) : t[i] = r[i + 1] /\ i + 1 \in 1..Len(r)
    BY <1>1
<1> HIDE DEF h, t
<1>4. Rising(d, t, h, m)
  <2>1. \A i \in 1..Len(t) : t[i].of = d /\ h < t[i].no /\ t[i].no <= m
    <3> SUFFICES ASSUME NEW i \in 1..Len(t)
                 PROVE  t[i].of = d /\ h < t[i].no /\ t[i].no <= m
      OBVIOUS
    <3>1. t[i] = r[i + 1] /\ i + 1 \in 1..Len(r) /\ 1 < i + 1
      BY <1>1, <1>3
    <3>2. r[1].no < r[i + 1].no
      BY <1>0, <1>1, <3>1 DEF Rising
    <3> QED BY <1>0, <1>2, <3>1, <3>2 DEF Rising
  <2>2. \A i, j \in 1..Len(t) : i < j => t[i].no < t[j].no
    <3> SUFFICES ASSUME NEW i \in 1..Len(t), NEW j \in 1..Len(t), i < j
                 PROVE  t[i].no < t[j].no
      OBVIOUS
    <3>1. t[i] = r[i + 1] /\ t[j] = r[j + 1] /\ i + 1 \in 1..Len(r) /\ j + 1 \in 1..Len(r)
          /\ i + 1 < j + 1
      BY <1>1, <1>3
    <3>2. r[i + 1].no < r[j + 1].no
      BY <1>0, <3>1 DEF Rising
    <3> QED BY <3>1, <3>2
  <2> QED BY <1>2, <2>1, <2>2 DEF Rising
<1>5. k = "counted" => Complete(d, t, h, m, n)
  <2> SUFFICES ASSUME k = "counted" PROVE Complete(d, t, h, m, n)
    OBVIOUS
  <2>1. Numbered(r, d, g) /\ m = g + Len(r) /\ n - g <= queue_size[d]
    BY <1>0 DEF Complete
  <2>2. r[1] = [of |-> d, no |-> g + 1]
    BY <1>1, <2>1 DEF Numbered
  <2>3. h = g + 1
    BY <1>2, <2>2
  <2>4. Numbered(t, d, h)
    <3> SUFFICES ASSUME NEW i \in 1..Len(t) PROVE t[i] = [of |-> d, no |-> h + i]
      BY DEF Numbered
    <3>1. t[i] = r[i + 1] /\ i + 1 \in 1..Len(r) /\ g + (i + 1) = h + i
      BY <1>1, <1>3, <2>3
    <3>2. r[i + 1] = [of |-> d, no |-> g + (i + 1)]
      BY <2>1, <3>1 DEF Numbered
    <3> QED BY <3>1, <3>2
  <2>5. m = h + Len(t) /\ n - h <= queue_size[d]
    BY <1>1, <1>3, <2>1, <2>3
  <2> QED BY <2>4, <2>5 DEF Complete
<1>6. Ordered(k, d, t, c, s, q, h, n)
    BY <1>0, <1>4, <1>5 DEF Ordered
<1> QED BY <1>6 DEF h, t

\* A result that is returned; and one that is lost, for want of room.
LEMMA OrderedReturn ==
    ASSUME NEW k, NEW d \in Devices, NEW r, NEW c, NEW q, NEW g, NEW n,
           Typed(r, c, NoTrans, q, g, n), Ordered(k, d, r, c, NoTrans, q, g, n),
           c # NoTrans
    PROVE  /\ c.of = d =>
                /\ Ordered(k, d, Append(r, c), NoTrans, NoTrans, q, g, n)
                /\ ~(Len(r) < queue_size[d]) => Ordered(k, d, r, NoTrans, NoTrans, q, g, n)
           /\ c.of # d => Ordered(k, d, r, NoTrans, NoTrans, q, g, n)
<1>0. PICK m \in Nat : /\ OnTheWay(d, c, NoTrans, q, m, n) /\ Rising(d, r, g, m)
                       /\ k = "counted" => Complete(d, r, g, m, n)
    BY DEF Ordered
<1>1. /\ Len(r) \in Nat /\ Len(q) \in Nat /\ g \in Nat /\ n \in Nat
      /\ queue_size[d] \in Nat /\ r \in Seq(Trans) /\ c \in Trans
      /\ Mine(NoTrans, d) = 0
    BY Constants DEF Typed, Mine
<1>2. CASE c.of = d
  <2>1. Mine(c, d) = 1 /\ c = [of |-> d, no |-> m + 1]
    BY <1>0, <1>1, <1>2, Constants DEF Mine, OnTheWay, Trans
  <2>2. OnTheWay(d, NoTrans, NoTrans, q, m + 1, n)
    <3>1. m + 1 + 0 = m + 1 + 0 + 0 /\ m + 1 + 0 + Len(q) = m + 1 + 0 + 0 + Len(q)
      BY <1>1
    <3> QED BY <1>0, <1>1, <2>1, <3>1 DEF OnTheWay
  <2>3. Rising(d, r, g, m + 1)
    <3>0. \A i \in 1..Len(r) : r[i] \in Trans
      BY <1>1
    <3>1. \A i \in 1..Len(r) : r[i].no \in Nat
      BY <3>0 DEF Trans
    <3> QED BY <1>0, <1>1, <3>1 DEF Rising
  <2>4. k = "counted" => Len(r) < queue_size[d]
    BY <1>0, <1>1, <2>1 DEF Complete, OnTheWay
  <2> DEFINE a == Append(r, c)
  <2>5. /\ Len(a) = Len(r) + 1 /\ a[Len(r) + 1] = c
        /\ \A i \in 1..Len(r) : a[i] = r[i]
        /\ \A i \in 1..Len(a) : i \in 1..Len(r) \/ i = Len(r) + 1
    BY <1>1
  <2> HIDE DEF a
  <2>6. Rising(d, a, g, m + 1)
    <3>1. g < m + 1 /\ c.no = m + 1 /\ c.of = d
      BY <1>0, <1>1, <2>1 DEF Rising
    <3>2. ASSUME NEW i \in 1..Len(a)
          PROVE  a[i].of = d /\ g < a[i].no /\ a[i].no <= m + 1
      <4>1. CASE i \in 1..Len(r)
        BY <2>3, <2>5, <4>1 DEF Rising
      <4>2. CASE i = Len(r) + 1
        BY <1>1, <2>5, <3>1, <4>2
      <4> QED BY <2>5, <4>1, <4>2
    <3>3. ASSUME NEW i \in 1..Len(a), NEW j \in 1..Len(a), i < j
          PROVE  a[i].no < a[j].no
      <4>1. i \in 1..Len(r)
        BY <1>1, <2>5, <3>3
      <4>2. CASE j \in 1..Len(r)
        BY <2>3, <2>5, <3>3, <4>1, <4>2 DEF Rising
      <4>3. CASE j = Len(r) + 1
        <5>1. r[i].no <= m /\ r[i] \in Trans
          BY <1>0, <1>1, <4>1 DEF Rising
        <5>2. r[i].no \in Nat
          BY <5>1 DEF Trans
        <5> QED BY <2>5, <3>1, <4>1, <4>3, <5>1, <5>2
      <4> QED BY <2>5, <4>2, <4>3
    <3> QED BY <1>1, <3>1, <3>2, <3>3 DEF Rising
  <2>7. k = "counted" => Complete(d, a, g, m + 1, n)
    <3> SUFFICES ASSUME k = "counted" PROVE Complete(d, a, g, m + 1, n)
      OBVIOUS
    <3>1. Numbered(r, d, g) /\ m = g + Len(r) /\ n - g <= queue_size[d]
      BY <1>0 DEF Complete
    <3>2. Numbered(a, d, g)
      <4> SUFFICES ASSUME NEW i \in 1..Len(a) PROVE a[i] = [of |-> d, no |-> g + i]
        BY DEF Numbered
      <4>1. CASE i \in 1..Len(r)
        BY <2>5, <3>1, <4>1 DEF Numbered
      <4>2. CASE i = Len(r) + 1
        <5>1. g + i = m + 1
          BY <1>1, <3>1, <4>2
        <5> QED BY <2>1, <2>5, <4>2, <5>1
      <4> QED BY <2>5, <4>1, <4>2
    <3>3. m + 1 = g + Len(a)
      BY <1>1, <2>5, <3>1
    <3> QED BY <3>1, <3>2, <3>3 DEF Complete
  <2>8. Ordered(k, d, a, NoTrans, NoTrans, q, g, n)
    BY <2>2, <2>6, <2>7 DEF Ordered
  <2>9. ~(Len(r) < queue_size[d]) => Ordered(k, d, r, NoTrans, NoTrans, q, g, n)
    BY <2>2, <2>3, <2>4 DEF Ordered
  <2> QED BY <1>2, <2>8, <2>9 DEF a
<1>3. CASE c.of # d
  <2>1. Mine(c, d) = 0
    BY <1>3 DEF Mine
  <2>2. OnTheWay(d, NoTrans, NoTrans, q, m, n)
    BY <1>0, <1>1, <2>1 DEF OnTheWay
  <2> QED BY <1>0, <1>3, <2>2 DEF Ordered
<1> QED BY <1>2, <1>3

LEMMA OrderedTake ==
    ASSUME NEW k, NEW d \in Devices, NEW r, NEW q, NEW g, NEW n,
           Typed(r, NoTrans, NoTrans, q, g, n), Ordered(k, d, r, NoTrans, NoTrans, q, g, n),
           q # << >>
    PROVE  /\ Head(q) \in Trans /\ Head(q).of = d
           /\ Ordered(k, d, r, NoTrans, Head(q), Tail(q), g, n)
<1>0. PICK m \in Nat : /\ OnTheWay(d, NoTrans, NoTrans, q, m, n) /\ Rising(d, r, g, m)
                       /\ k = "counted" => Complete(d, r, g, m, n)
    BY DEF Ordered
<1>1. /\ Len(q) \in Nat \ {0} /\ n \in Nat /\ q \in Seq(Trans)
      /\ Mine(NoTrans, d) = 0
    BY Constants DEF Typed, Mine
<1>2. Head(q) = [of |-> d, no |-> m + 1] /\ Head(q) \in Trans
  <2>1. Head(q) = q[1] /\ q[1] \in Trans
    BY <1>1
  <2>2. q[1] = [of |-> d, no |-> m + 0 + 0 + 1]
    BY <1>0, <1>1 DEF OnTheWay, Numbered
  <2>3. m + 0 + 0 + 1 = m + 1
    OBVIOUS
  <2> QED BY <2>1, <2>2, <2>3
<1>3. Head(q).of = d /\ Head(q).no = m + 1 /\ Mine(Head(q), d) = 1
    BY <1>2, Constants DEF Mine
<1>4. Len(Tail(q)) = Len(q) - 1
    BY <1>1
<1>5. Numbered(Tail(q), d, m + 0 + 1)
  <2> SUFFICES ASSUME NEW i \in 1..(Len(q) - 1)
               PROVE  Tail(q)[i] = [of |-> d, no |-> m + 0 + 1 + i]
    BY <1>4 DEF Numbered
  <2>1. Tail(q)[i] = q[i + 1] /\ i + 1 \in 1..Len(q)
    BY <1>1
  <2>2. q[i + 1] = [of |-> d, no |-> m + 0 + 0 + (i + 1)]
    BY <1>0, <1>1, <2>1 DEF OnTheWay, Numbered
  <2>3. m + 0 + 0 + (i + 1) = m + 0 + 1 + i
    BY <1>1
  <2> QED BY <2>1, <2>2, <2>3
<1>6. n = m + 0 + 1 + Len(Tail(q)) /\ m + 1 = m + 0 + 1
    BY <1>0, <1>1, <1>4 DEF OnTheWay
<1>7. OnTheWay(d, NoTrans, Head(q), Tail(q), m, n)
    BY <1>1, <1>3, <1>5, <1>6 DEF OnTheWay
<1> QED BY <1>0, <1>2, <1>3, <1>7 DEF Ordered

\* What the handler does for another device.
LEMMA OrderedOther ==
    ASSUME NEW k, NEW d \in Devices, NEW r, NEW q, NEW g, NEW n, NEW t \in Trans, t.of # d,
           Ordered(k, d, r, NoTrans, NoTrans, q, g, n)
    PROVE  Ordered(k, d, r, NoTrans, t, q, g, n)
<1>1. \A m : OnTheWay(d, NoTrans, NoTrans, q, m, n) => OnTheWay(d, NoTrans, t, q, m, n)
    BY DEF OnTheWay, Mine
<1> QED BY <1>1 DEF Ordered

LEMMA OrderedStart ==
    ASSUME NEW k, NEW d \in Devices, NEW r, NEW s, NEW q, NEW g, NEW n,
           Typed(r, NoTrans, s, q, g, n), Ordered(k, d, r, NoTrans, s, q, g, n)
    PROVE  Ordered(k, d, r, s, NoTrans, q, g, n)
<1>0. PICK m \in Nat : /\ OnTheWay(d, NoTrans, s, q, m, n) /\ Rising(d, r, g, m)
                       /\ k = "counted" => Complete(d, r, g, m, n)
    BY DEF Ordered
<1>1. Mine(NoTrans, d) = 0 /\ Mine(s, d) \in Nat
    BY DEF Mine
<1>2. m + 0 + Mine(s, d) = m + Mine(s, d) + 0 /\ m + 0 + 1 = m + 1
    BY <1>1
<1>3. OnTheWay(d, s, NoTrans, q, m, n)
    BY <1>0, <1>1, <1>2 DEF OnTheWay
<1> QED BY <1>0, <1>3 DEF Ordered

LEMMA TypedDevice ==
    ASSUME TypeOK, NEW d \in Devices
    PROVE  Typed(ret_queue[d], cur_trans, isr.trans, trans_queue[d], got[d], queued[d])
BY DEF TypeOK, Typed, Queues, Handler

\* Calls that neither reserve a slot nor fill it.
LEMMA SlotsKept ==
    ASSUME IInv, UNCHANGED <<bus, device, dev, freecs>>,
           \A e \in Devices : pc'[e] = "reserved" <=> pc[e] = "reserved"
    PROVE  SlotInv'
BY DEF IInv, SlotInv

-----------------------------------------------------------------------------
(* Every step keeps the invariant.                                         *)

LEMMA BusInitializeStep ==
    ASSUME CarefulUse, IInv, BusInitialize
    PROVE  IInv'
<1> USE DEF IInv
<1>a. cur_trans = NoTrans
    BY DEF BusInitialize, HwInv, TypeOK
<1>1. TypeOK'
    BY <1>a, Constants DEF BusInitialize, TypeOK, Hardware
<1>2. StageInv'
    BY <1>a, Constants DEF BusInitialize, Goto, hostVars, isrVars, StageInv, TypeOK
<1>3. SlotInv'
    BY <1>a, Constants DEF BusInitialize, Goto, hostVars, isrVars, SlotInv, TypeOK, StageInv
<1>4. HwInv'
    BY <1>a, Constants DEF BusInitialize, Goto, hostVars, isrVars, HwInv, TypeOK, IsrInv
<1>5. IsrInv'
    BY <1>a, Constants DEF BusInitialize, Goto, hostVars, isrVars, IsrInv, TypeOK, HwInv, Idle
<1>6. OrderInv'
    BY <1>a, Constants DEF BusInitialize, Goto, hostVars, isrVars, OrderInv
<1>7. RestInv'
    BY <1>a, Constants DEF BusInitialize, Goto, hostVars, isrVars, RestInv, TypeOK
<1>8. OnceInv'
    BY <1>a, Constants DEF BusInitialize, Goto, hostVars, isrVars, OnceInv, TypeOK, StageInv, Removing
<1>9. QuietInv'
    BY <1>a, Constants DEF BusInitialize, Goto, hostVars, isrVars, QuietInv, TypeOK, Plugging, Others
<1>10. UseInv'
    BY <1>a, Constants DEF BusInitialize, Goto, hostVars, isrVars, UseInv
<1> QED BY <1>1, <1>2, <1>3, <1>4, <1>5, <1>6, <1>7, <1>8, <1>9, <1>10

LEMMA BusFreeStep ==
    ASSUME CarefulUse, IInv, BusFree
    PROVE  IInv'
<1> USE DEF IInv
<1>a. \A d \in Devices : dev[d] = "none" /\ queued[d] = got[d]
    BY Constants DEF BusFree, SlotInv, RestInv, TypeOK
<1>b. cur_trans = NoTrans
    BY <1>a, AllAtRest
<1>1. TypeOK'
    BY DEF BusFree, TypeOK, Hardware
<1>2. StageInv'
    BY <1>a, <1>b, Constants DEF BusFree, Goto, hostVars, isrVars, StageInv, TypeOK
<1>3. SlotInv'
    BY <1>a, <1>b, Constants DEF BusFree, Goto, hostVars, isrVars, SlotInv, TypeOK, StageInv
<1>4. HwInv'
    BY <1>a, <1>b, Constants DEF BusFree, Goto, hostVars, isrVars, HwInv, TypeOK, IsrInv
<1>5. IsrInv'
    BY <1>a, <1>b, Constants DEF BusFree, Goto, hostVars, isrVars, IsrInv, TypeOK, HwInv, Idle
<1>6. OrderInv'
    BY <1>a, <1>b, Constants DEF BusFree, Goto, hostVars, isrVars, OrderInv
<1>7. RestInv'
    BY <1>a, <1>b, Constants DEF BusFree, Goto, hostVars, isrVars, RestInv, TypeOK
<1>8. OnceInv'
    BY <1>a, <1>b, Constants DEF BusFree, Goto, hostVars, isrVars, OnceInv, TypeOK, StageInv, Removing
<1>9. QuietInv'
    BY <1>a, <1>b, Constants DEF BusFree, Goto, hostVars, isrVars, QuietInv, TypeOK, Plugging, Others
<1>10. UseInv'
    BY <1>a, <1>b, Constants DEF BusFree, Goto, hostVars, isrVars, UseInv
<1> QED BY <1>1, <1>2, <1>3, <1>4, <1>5, <1>6, <1>7, <1>8, <1>9, <1>10

LEMMA AddReserveStep ==
    ASSUME CarefulUse, IInv, NEW d \in Devices, AddReserve(d)
    PROVE  IInv'
<1> USE DEF IInv
<1>a. dev[d] = "none" /\ pc[d] = "app" /\ MayRun(d) /\ MayAdd(d) /\ bus = "on"
    BY DEF AddReserve
<1>b. PICK s \in Slots : /\ device[s] = Null
                         /\ device' = [device EXCEPT ![s] = Reserved]
                         /\ freecs' = [freecs EXCEPT ![d] = s]
    BY DEF AddReserve, FreeSlot
<1>c. ~enabled /\ cur_trans = NoTrans /\ isr.at = "out"
  <2>1. CASE use.plug = "once"
    <3>1. ~enabled /\ \A e \in Devices : queued[e] = 0
      BY <1>a, <2>1 DEF OnceInv
    <3> QED BY <3>1, NothingQueued, AllAtRest DEF IsrInv
  <2>2. CASE use.plug = "quiet"
    <3>1. queued[d] = got[d] /\ \A e \in Others(d) : queued[e] = got[e]
      BY <1>a, <2>2 DEF MayAdd, RestInv
    <3>2. cur_trans = NoTrans
      BY <3>1, AllAtRest DEF Others
    <3>3. ~enabled
      BY <1>a, <2>2, <3>2, NotEnabled DEF UseInv
    <3> QED BY <3>2, <3>3 DEF IsrInv
  <2> QED BY <2>1, <2>2 DEF UseInv
<1>d. use.plug = "quiet" => \A e \in Others(d) : pc[e] = "app" /\ queued[e] = got[e]
    BY <1>a DEF MayAdd
<1>1. TypeOK'
    BY <1>b DEF AddReserve, Goto, isrVars, TypeOK, Stages, Plugging
<1>2. StageInv'
    BY <1>a, <1>b, <1>c, <1>d DEF AddReserve, Goto, isrVars, StageInv, TypeOK
<1>3. SlotInv'
  <2>1. \A e \in Devices : pc'[e] = "reserved" <=> pc[e] = "reserved" \/ e = d
    BY <1>a DEF AddReserve, Goto, TypeOK
  <2>2. freecs'[d] = s /\ \A e \in Devices : e # d => freecs'[e] = freecs[e]
    BY <1>b DEF TypeOK
  <2>3. device'[s] = Reserved /\ \A t \in Slots : t # s => device'[t] = device[t]
    BY <1>b DEF TypeOK
  <2>4. UNCHANGED <<bus, dev>>
    BY DEF AddReserve
  <2>5. \A e \in Devices : pc[e] = "reserved" => freecs[e] # s
    BY <1>b, Constants DEF SlotInv
  <2>6. \A e \in Devices : dev[e] # "none" => \E t \in Slots : device'[t] = e
    BY <1>b, <2>3, Constants DEF SlotInv
  <2>7. \A x \in Slots : device'[x] \in Devices => dev[device'[x]] # "none"
    BY <2>3, Constants DEF SlotInv
  <2>8. \A x \in Slots : device'[x] = Reserved =>
           \E e \in Devices : pc'[e] = "reserved" /\ freecs'[e] = x
    <3> SUFFICES ASSUME NEW x \in Slots, device'[x] = Reserved
                 PROVE  \E e \in Devices : pc'[e] = "reserved" /\ freecs'[e] = x
      OBVIOUS
    <3>1. CASE x = s
      BY <2>1, <2>2, <3>1
    <3>2. CASE x # s
      <4>1. PICK e \in Devices : pc[e] = "reserved" /\ freecs[e] = x
        BY <2>3, <3>2 DEF SlotInv
      <4> QED BY <1>a, <2>1, <2>2, <4>1
    <3> QED BY <3>1, <3>2
  <2>9. \A e \in Devices : pc'[e] = "reserved" => device'[freecs'[e]] = Reserved
    <3> SUFFICES ASSUME NEW e \in Devices, pc'[e] = "reserved"
                 PROVE  device'[freecs'[e]] = Reserved
      OBVIOUS
    <3>1. CASE e = d
      BY <2>2, <2>3, <3>1
    <3>2. CASE e # d
      <4>1. device[freecs[e]] = Reserved /\ freecs[e] # s /\ freecs[e] \in Slots
        BY <2>1, <2>5, <3>2 DEF SlotInv, TypeOK
      <4> QED BY <2>2, <2>3, <3>2, <4>1
    <3> QED BY <3>1, <3>2
  <2>10. \A x, y \in Devices :
            pc'[x] = "reserved" /\ pc'[y] = "reserved" /\ freecs'[x] = freecs'[y] => x = y
    BY <2>1, <2>2, <2>5 DEF SlotInv
  <2> QED BY <1>a, <2>4, <2>6, <2>7, <2>8, <2>9, <2>10 DEF SlotInv
<1>4. HwInv'
    BY <1>b, <1>c DEF AddReserve, isrVars, HwInv
<1>5. IsrInv'
    BY <1>b, <1>c DEF AddReserve, isrVars, IsrInv
<1>6. OrderInv'
    BY <1>a, <1>b, <1>c, <1>d DEF AddReserve, Goto, isrVars, OrderInv
<1>7. RestInv'
    BY <1>a, <1>b, <1>c, <1>d DEF AddReserve, Goto, isrVars, RestInv, TypeOK
<1>8. OnceInv'
    BY <1>a, <1>b, <1>c, <1>d DEF AddReserve, Goto, isrVars, OnceInv, TypeOK, StageInv, Removing
<1>9. QuietInv'
    BY <1>a, <1>b, <1>c, <1>d DEF AddReserve, Goto, isrVars, QuietInv, TypeOK, Plugging, Others
<1>10. UseInv'
    BY <1>a, <1>b, <1>c, <1>d DEF AddReserve, Goto, isrVars, UseInv
<1> QED BY <1>1, <1>2, <1>3, <1>4, <1>5, <1>6, <1>7, <1>8, <1>9, <1>10

LEMMA AddAllocStep ==
    ASSUME CarefulUse, IInv, NEW d \in Devices, AddAlloc(d)
    PROVE  IInv'
<1> USE DEF IInv
<1>a. pc[d] = "reserved" /\ dev[d] = "none" /\ device[freecs[d]] = Reserved /\ freecs[d] \in Slots
    BY DEF AddAlloc, StageInv, SlotInv, TypeOK
<1>b. /\ device' = [device EXCEPT ![freecs[d]] = d]
      /\ dev' = [dev EXCEPT ![d] = "bare"]
      /\ pc' = [pc EXCEPT ![d] = "alloc"]
    BY DEF AddAlloc, Goto, CarefulUse
<1>c. ~enabled /\ cur_trans = NoTrans /\ isr.at = "out" /\ bus = "on"
  <2>1. bus # "off"
    BY <1>a, Constants DEF SlotInv
  <2> QED BY <1>a, <2>1, HandlerAtRest DEF Plugging, TypeOK
<1>d. UNCHANGED <<use, bus, trans_queue, ret_queue, enabled, cur_trans, cur_cs, hw, isr,
                  queued, got, freecs>>
    BY DEF AddAlloc, isrVars
<1>1. TypeOK'
  <2>1. pc' \in [Devices -> Stages]
    BY <1>b DEF TypeOK, Stages, Plugging
  <2>2. dev' \in [Devices -> {"none", "bare", "ready", "deleted"}]
    BY <1>b DEF TypeOK
  <2>3. device' \in [Slots -> Devices \cup {Null, Reserved}]
    BY <1>b DEF TypeOK
  <2> QED BY <1>d, <2>1, <2>2, <2>3 DEF TypeOK
<1>2. StageInv'
    BY <1>a, <1>b, <1>c, <1>d, Constants DEF StageInv, TypeOK
<1>3. SlotInv'
    BY <1>a, <1>b, <1>c, <1>d, Constants DEF SlotInv, TypeOK, StageInv
<1>4. HwInv'
    BY <1>a, <1>b, <1>c, <1>d, Constants DEF HwInv
<1>5. IsrInv'
    BY <1>a, <1>b, <1>c, <1>d, Constants DEF IsrInv
<1>6. OrderInv'
    BY <1>a, <1>b, <1>c, <1>d, Constants DEF OrderInv
<1>7. RestInv'
    BY <1>a, <1>b, <1>c, <1>d, Constants DEF RestInv, TypeOK
<1>8. OnceInv'
    BY <1>a, <1>b, <1>c, <1>d, Constants DEF OnceInv, TypeOK, StageInv, Removing
<1>9. QuietInv'
    BY <1>a, <1>b, <1>d DEF QuietInv, TypeOK, Plugging, Others
<1>10. UseInv'
    BY <1>a, <1>b, <1>c, <1>d, Constants DEF UseInv
<1> QED BY <1>1, <1>2, <1>3, <1>4, <1>5, <1>6, <1>7, <1>8, <1>9, <1>10

LEMMA AddQueuesStep ==
    ASSUME CarefulUse, IInv, NEW d \in Devices, AddQueues(d)
    PROVE  IInv'
<1> USE DEF IInv
<1>a. pc[d] = "alloc" /\ dev[d] = "bare" /\ queued[d] = got[d]
    BY DEF AddQueues, StageInv, RestInv
<1>b. /\ dev' = [dev EXCEPT ![d] = "ready"]
      /\ pc' = [pc EXCEPT ![d] = "app"]
    BY DEF AddQueues, Goto, CarefulUse
<1>c. trans_queue' = trans_queue /\ ret_queue' = ret_queue
    BY <1>a, AtRest DEF AddQueues, TypeOK, Queues
<1>d. UNCHANGED <<use, bus, device, enabled, cur_trans, cur_cs, hw, isr, queued, got, freecs>>
    BY DEF AddQueues, isrVars
<1>1. TypeOK'
  <2>1. pc' \in [Devices -> Stages]
    BY <1>b DEF TypeOK, Stages, Plugging
  <2>2. dev' \in [Devices -> {"none", "bare", "ready", "deleted"}]
    BY <1>b DEF TypeOK
  <2> QED BY <1>c, <1>d, <2>1, <2>2 DEF TypeOK
<1>2. StageInv'
    BY <1>a, <1>b, <1>c, <1>d, Constants DEF StageInv, TypeOK
<1>3. SlotInv'
    BY <1>a, <1>b, <1>d DEF SlotInv, TypeOK
<1>4. HwInv'
    BY <1>a, <1>b, <1>c, <1>d, Constants DEF HwInv
<1>5. IsrInv'
    BY <1>a, <1>b, <1>c, <1>d, Constants DEF IsrInv
<1>6. OrderInv'
    BY <1>a, <1>b, <1>c, <1>d, Constants DEF OrderInv
<1>7. RestInv'
    BY <1>a, <1>b, <1>c, <1>d, Constants DEF RestInv, TypeOK
<1>8. OnceInv'
    BY <1>a, <1>b, <1>c, <1>d, Constants DEF OnceInv, TypeOK, StageInv, Removing
<1>9. QuietInv'
    BY <1>a, <1>b, <1>c, <1>d, Constants DEF QuietInv, TypeOK, Plugging, Others
<1>10. UseInv'
    BY <1>a, <1>b, <1>c, <1>d, Constants DEF UseInv
<1> QED BY <1>1, <1>2, <1>3, <1>4, <1>5, <1>6, <1>7, <1>8, <1>9, <1>10

LEMMA RemoveStep ==
    ASSUME CarefulUse, IInv, NEW d \in Devices, Remove(d)
    PROVE  IInv'
<1> USE DEF IInv
<1>a. pc[d] = "app" /\ dev[d] = "ready" /\ use.plug = "quiet"
    BY DEF Remove, MayRemove, UseInv
<1>b. pc' = [pc EXCEPT ![d] = "check1"]
    BY DEF Remove, Goto
<1>c. \A e \in Others(d) : pc[e] = "app" /\ queued[e] = got[e]
    BY <1>a DEF Remove, MayRemove, MayAdd
<1>d. UNCHANGED <<use, bus, device, dev, trans_queue, ret_queue, enabled, cur_trans, cur_cs,
                  hw, isr, queued, got, freecs>>
    BY DEF Remove, isrVars, hostVars
<1>1. TypeOK'
  <2>1. pc' \in [Devices -> Stages]
    BY <1>b DEF TypeOK, Stages, Plugging
  <2> QED BY <1>d, <2>1 DEF TypeOK
<1>2. StageInv'
    BY <1>a, <1>b, <1>c, <1>d, Constants DEF StageInv, TypeOK
<1>3. SlotInv'
  <2>1. \A e \in Devices : pc'[e] = "reserved" <=> pc[e] = "reserved"
    BY <1>a, <1>b DEF TypeOK
  <2> QED BY <1>d, <2>1, SlotsKept
<1>4. HwInv'
    BY <1>a, <1>b, <1>c, <1>d, Constants DEF HwInv
<1>5. IsrInv'
    BY <1>a, <1>b, <1>c, <1>d, Constants DEF IsrInv
<1>6. OrderInv'
    BY <1>a, <1>b, <1>c, <1>d, Constants DEF OrderInv
<1>7. RestInv'
    BY <1>a, <1>b, <1>c, <1>d, Constants DEF RestInv, TypeOK
<1>8. OnceInv'
    BY <1>a, <1>b, <1>c, <1>d, Constants DEF OnceInv, TypeOK, StageInv, Removing
<1>9. QuietInv'
  <2>1. pc'[d] = "check1" /\ \A e \in Devices : e # d => pc'[e] = "app"
    BY <1>b, <1>c DEF TypeOK, Others
  <2> QED BY <1>c, <1>d, <2>1 DEF QuietInv, Plugging, Others
<1>10. UseInv'
    BY <1>a, <1>b, <1>c, <1>d, Constants DEF UseInv
<1> QED BY <1>1, <1>2, <1>3, <1>4, <1>5, <1>6, <1>7, <1>8, <1>9, <1>10

LEMMA RemoveCheckStep ==
    ASSUME CarefulUse, IInv, NEW d \in Devices, RemoveCheck(d)
    PROVE  IInv'
<1> USE DEF IInv
<1> DEFINE to == IF Unfinished(d) THEN "app" ELSE AfterCheck[pc[d]]
<1>a. pc[d] \in {"check1", "check2", "check3"} /\ dev[d] = "ready" /\ use.plug = "quiet"
      /\ bus = "on"
  <2>1. pc[d] \in {"check1", "check2", "check3"}
    BY DEF RemoveCheck, AfterCheck
  <2>2. dev[d] = "ready" /\ use.plug = "quiet"
    BY <2>1 DEF StageInv, OnceInv, UseInv, Removing
  <2>3. bus # "off"
    BY <2>2, Constants DEF SlotInv
  <2> QED BY <2>1, <2>2, <2>3 DEF TypeOK
<1>b. pc' = [pc EXCEPT ![d] = to]
    BY DEF RemoveCheck, Goto
<1>c. \/ to = "app"
      \/ pc[d] = "check1" /\ to = "check2" /\ trans_queue[d] = << >>
      \/ /\ pc[d] = "check2" /\ to = "check3"
         /\ cur_trans = NoTrans \/ device[cur_cs] # d
      \/ pc[d] = "check3" /\ to = "delete" /\ ret_queue[d] = << >>
  <2>1. CASE pc[d] = "check1"
    BY <2>1 DEF Unfinished, AfterCheck
  <2>2. CASE pc[d] = "check2"
    BY <2>2 DEF Unfinished, AfterCheck
  <2>3. CASE pc[d] = "check3"
    BY <2>3 DEF Unfinished, AfterCheck
  <2> QED BY <1>a, <2>1, <2>2, <2>3
<1>d. UNCHANGED <<use, bus, device, dev, trans_queue, ret_queue, enabled, cur_trans, cur_cs,
                  hw, isr, queued, got, freecs>>
    BY DEF RemoveCheck, isrVars, hostVars
<1>e. to = "check3" => cur_trans = NoTrans /\ ~enabled
  <2> SUFFICES ASSUME to = "check3" PROVE cur_trans = NoTrans /\ ~enabled
    OBVIOUS
  <2>1. \A e \in Others(d) : queued[e] = got[e]
    BY <1>a DEF QuietInv, Plugging
  <2>2. cur_trans # NoTrans => cur_trans.of \in Others(d)
    BY <1>c DEF HwInv, TypeOK, Trans, Others
  <2>3. cur_trans = NoTrans
    BY <2>1, <2>2, AtRest DEF Others
  <2> QED BY <1>a, <2>3, NotEnabled DEF RemoveCheck, UseInv
<1>f. to = "delete" => queued[d] = got[d]
  <2> SUFFICES ASSUME to = "delete" PROVE queued[d] = got[d]
    OBVIOUS
  <2>1. pc[d] = "check3" /\ ret_queue[d] = << >> /\ trans_queue[d] = << >>
    BY <1>a, <1>c DEF QuietInv
  <2>2. cur_trans = NoTrans /\ isr.trans = NoTrans
    BY <2>1, HandlerAtRest DEF Plugging
  <2>3. PICK m \in Nat : /\ OnTheWay(d, NoTrans, NoTrans, << >>, m, queued[d])
                         /\ Complete(d, << >>, got[d], m, queued[d])
    BY <1>a, <2>1, <2>2 DEF OrderInv, Ordered, UseInv
  <2> QED BY <2>3 DEF OnTheWay, Complete, Mine, TypeOK
<1> HIDE DEF to
<1>1. TypeOK'
  <2>1. to \in Stages
    BY <1>c DEF Stages, Plugging
  <2> QED BY <1>b, <1>d, <2>1 DEF TypeOK
<1>2. StageInv'
    BY <1>a, <1>b, <1>c, <1>d, <1>e, <1>f, Constants DEF StageInv, TypeOK
<1>3. SlotInv'
  <2>1. \A e \in Devices : pc'[e] = "reserved" <=> pc[e] = "reserved"
    BY <1>a, <1>b, <1>c DEF TypeOK
  <2> QED BY <1>d, <2>1, SlotsKept
<1>4. HwInv'
    BY <1>a, <1>b, <1>c, <1>d, <1>e, <1>f, Constants DEF HwInv
<1>5. IsrInv'
    BY <1>a, <1>b, <1>c, <1>d, <1>e, <1>f, Constants DEF IsrInv
<1>6. OrderInv'
    BY <1>a, <1>b, <1>c, <1>d, <1>e, <1>f, Constants DEF OrderInv
<1>7. RestInv'
    BY <1>a, <1>b, <1>c, <1>d, <1>e, <1>f, Constants DEF RestInv, TypeOK
<1>8. OnceInv'
    BY <1>a, <1>b, <1>c, <1>d, <1>e, <1>f, Constants DEF OnceInv, TypeOK, StageInv, Removing
<1>9. QuietInv'
  <2>1. pc'[d] = to /\ \A e \in Devices : e # d => pc'[e] = pc[e]
    BY <1>b DEF TypeOK
  <2>2. \A e \in Others(d) : pc[e] = "app" /\ queued[e] = got[e]
    BY <1>a DEF QuietInv, Plugging
  <2>3. to \in Plugging \ {"check1", "check2"} => ~enabled /\ cur_trans = NoTrans
    BY <1>a, <1>c, <1>e DEF QuietInv, Plugging
  <2>4. to \in {"check2", "check3", "delete", "clear"} => trans_queue[d] = << >>
    BY <1>a, <1>c DEF QuietInv
  <2>5. to \in {"delete", "clear"} => queued[d] = got[d]
    BY <1>c, <1>f
  <2>6. \A e \in Devices : e # d => pc'[e] = "app"
    BY <2>1, <2>2 DEF Others
  <2> QED BY <1>d, <2>1, <2>2, <2>3, <2>4, <2>5, <2>6 DEF QuietInv, Plugging, Others
<1>10. UseInv'
    BY <1>a, <1>b, <1>c, <1>d, <1>e, <1>f, Constants DEF UseInv
<1> QED BY <1>1, <1>2, <1>3, <1>4, <1>5, <1>6, <1>7, <1>8, <1>9, <1>10

LEMMA RemoveDeleteStep ==
    ASSUME CarefulUse, IInv, NEW d \in Devices, RemoveDelete(d)
    PROVE  IInv'
<1> USE DEF IInv
<1>a. pc[d] = "delete" /\ dev[d] = "ready" /\ use.plug = "quiet" /\ queued[d] = got[d]
    BY DEF RemoveDelete, StageInv, QuietInv, OnceInv, UseInv, Removing
<1>b. /\ dev' = [dev EXCEPT ![d] = "deleted"]
      /\ pc' = [pc EXCEPT ![d] = "clear"]
    BY DEF RemoveDelete, Goto
<1>c. trans_queue' = trans_queue /\ ret_queue' = ret_queue
    BY <1>a, AtRest DEF RemoveDelete, TypeOK, Queues
<1>d. UNCHANGED <<use, bus, device, enabled, cur_trans, cur_cs, hw, isr, queued, got, freecs>>
    BY DEF RemoveDelete, isrVars
<1>1. TypeOK'
  <2>1. pc' \in [Devices -> Stages]
    BY <1>b DEF TypeOK, Stages, Plugging
  <2>2. dev' \in [Devices -> {"none", "bare", "ready", "deleted"}]
    BY <1>b DEF TypeOK
  <2> QED BY <1>c, <1>d, <2>1, <2>2 DEF TypeOK
<1>2. StageInv'
    BY <1>a, <1>b, <1>c, <1>d, Constants DEF StageInv, TypeOK
<1>3. SlotInv'
    BY <1>a, <1>b, <1>d DEF SlotInv, TypeOK
<1>4. HwInv'
    BY <1>a, <1>b, <1>c, <1>d, Constants DEF HwInv
<1>5. IsrInv'
    BY <1>a, <1>b, <1>c, <1>d, Constants DEF IsrInv
<1>6. OrderInv'
    BY <1>a, <1>b, <1>c, <1>d, Constants DEF OrderInv
<1>7. RestInv'
    BY <1>a, <1>b, <1>c, <1>d, Constants DEF RestInv, TypeOK
<1>8. OnceInv'
    BY <1>a, <1>b, <1>c, <1>d, Constants DEF OnceInv, TypeOK, StageInv, Removing
<1>9. QuietInv'
  <2>1. pc'[d] = "clear" /\ \A e \in Devices : e # d => pc'[e] = "app"
    BY <1>a, <1>b DEF TypeOK, Others, QuietInv, Plugging
  <2> QED BY <1>a, <1>c, <1>d, <2>1 DEF QuietInv, Plugging, Others
<1>10. UseInv'
    BY <1>a, <1>b, <1>c, <1>d, Constants DEF UseInv
<1> QED BY <1>1, <1>2, <1>3, <1>4, <1>5, <1>6, <1>7, <1>8, <1>9, <1>10

LEMMA RemoveClearStep ==
    ASSUME CarefulUse, IInv, NEW d \in Devices, RemoveClear(d)
    PROVE  IInv'
<1> USE DEF IInv
<1>a. /\ pc[d] = "clear" /\ dev[d] = "deleted" /\ use.plug = "quiet" /\ queued[d] = got[d]
      /\ ~enabled /\ cur_trans = NoTrans /\ isr.at = "out"
    BY HandlerAtRest DEF RemoveClear, StageInv, QuietInv, OnceInv, UseInv, Removing, Plugging
<1>b. /\ device' = [s \in Slots |-> IF device[s] = d THEN Null ELSE device[s]]
      /\ dev' = [dev EXCEPT ![d] = "none"]
      /\ pc' = [pc EXCEPT ![d] = "app"]
    BY DEF RemoveClear, Goto
<1>d. UNCHANGED <<use, bus, trans_queue, ret_queue, enabled, cur_trans, cur_cs, hw, isr,
                  queued, got, freecs>>
    BY DEF RemoveClear, isrVars
<1>1. TypeOK'
  <2>1. pc' \in [Devices -> Stages]
    BY <1>b DEF TypeOK, Stages, Plugging
  <2>2. dev' \in [Devices -> {"none", "bare", "ready", "deleted"}]
    BY <1>b DEF TypeOK
  <2>3. device' \in [Slots -> Devices \cup {Null, Reserved}]
    BY <1>b DEF TypeOK
  <2> QED BY <1>d, <2>1, <2>2, <2>3 DEF TypeOK
<1>2. StageInv'
    BY <1>a, <1>b, <1>d, Constants DEF StageInv, TypeOK
<1>3. SlotInv'
    BY <1>a, <1>b, <1>d, Constants DEF SlotInv, TypeOK, StageInv
<1>4. HwInv'
    BY <1>a, <1>b, <1>d, Constants DEF HwInv
<1>5. IsrInv'
    BY <1>a, <1>b, <1>d, Constants DEF IsrInv
<1>6. OrderInv'
    BY <1>a, <1>b, <1>d, Constants DEF OrderInv
<1>7. RestInv'
    BY <1>a, <1>b, <1>d, Constants DEF RestInv, TypeOK
<1>8. OnceInv'
    BY <1>a, <1>b, <1>d, Constants DEF OnceInv, TypeOK, StageInv, Removing
<1>9. QuietInv'
    BY <1>a, <1>b, <1>d, Constants DEF QuietInv, TypeOK, Plugging, Others
<1>10. UseInv'
    BY <1>a, <1>b, <1>d, Constants DEF UseInv
<1> QED BY <1>1, <1>2, <1>3, <1>4, <1>5, <1>6, <1>7, <1>8, <1>9, <1>10

LEMMA QueueTransStep ==
    ASSUME CarefulUse, IInv, NEW d \in Devices, QueueTrans(d)
    PROVE  IInv'
<1> USE DEF IInv
<1> DEFINE t == [of |-> d, no |-> queued[d] + 1]
<1>a. /\ MayUse(d) /\ pc[d] = "app" /\ dev[d] = "ready"
      /\ use.ahead = "counted" => queued[d] - got[d] < queue_size[d]
      /\ queued[d] \in Nat /\ got[d] \in Nat /\ trans_queue[d] \in Seq(Trans) /\ t \in Trans
    BY DEF QueueTrans, MayQueue, Counted, TypeOK, Trans, Queues
<1>b. /\ trans_queue' = [trans_queue EXCEPT ![d] = Append(trans_queue[d], t)]
      /\ queued' = [queued EXCEPT ![d] = queued[d] + 1]
    BY DEF QueueTrans
<1>c. PICK to \in {"queued", "transmit"} : pc' = [pc EXCEPT ![d] = to]
    BY DEF QueueTrans, Goto
<1>d. UNCHANGED <<use, bus, device, dev, ret_queue, enabled, cur_trans, cur_cs, hw, isr,
                  got, freecs>>
    BY DEF QueueTrans, isrVars, hostVars
<1>e. Append(trans_queue[d], t) \in Seq(Trans) /\ queued[d] + 1 \in Nat \ {0}
    BY <1>a
<1> HIDE DEF t
<1>1. TypeOK'
  <2>1. to \in Stages
    BY DEF Stages
  <2>2. pc' \in [Devices -> Stages] /\ queued' \in [Devices -> Nat]
    BY <1>b, <1>c, <1>e, <2>1 DEF TypeOK
  <2>3. trans_queue' \in Queues
    BY <1>b, <1>e DEF TypeOK, Queues
  <2>4. /\ use' = use /\ bus' = bus /\ device' = device /\ dev' = dev /\ ret_queue' = ret_queue
        /\ enabled' = enabled /\ cur_trans' = cur_trans /\ cur_cs' = cur_cs /\ hw' = hw
        /\ isr' = isr /\ got' = got /\ freecs' = freecs
    BY <1>d
  <2> QED BY <2>2, <2>3, <2>4 DEF TypeOK
<1>2. StageInv'
    BY <1>a, <1>b, <1>c, <1>d, <1>e, Constants DEF StageInv, TypeOK
<1>3. SlotInv'
  <2>1. \A e \in Devices : pc'[e] = "reserved" <=> pc[e] = "reserved"
    BY <1>a, <1>c DEF TypeOK
  <2> QED BY <1>d, <2>1, SlotsKept
<1>4. HwInv'
    BY <1>a, <1>b, <1>c, <1>d, <1>e, Constants DEF HwInv
<1>5. IsrInv'
    BY <1>a, <1>b, <1>c, <1>d, <1>e, Constants DEF IsrInv
<1>6. OrderInv'
  <2>1. Ordered(use.ahead, d, ret_queue[d], cur_trans, isr.trans,
                Append(trans_queue[d], t), got[d], queued[d] + 1)
    BY <1>a, TypedDevice, OrderedQueue DEF OrderInv, t
  <2> QED BY <2>1, <1>b, <1>d DEF OrderInv, TypeOK, Queues
<1>7. RestInv'
    BY <1>a, <1>b, <1>c, <1>d, <1>e DEF RestInv, TypeOK
<1>8. OnceInv'
    BY <1>a, <1>b, <1>c, <1>d DEF OnceInv, TypeOK, MayUse, Removing
<1>9. QuietInv'
    BY <1>a, <1>b, <1>c, <1>d DEF QuietInv, TypeOK, MayUse, Plugging, Others
<1>10. UseInv'
    BY <1>a, <1>b, <1>c, <1>d, <1>e, Constants DEF UseInv
<1> QED BY <1>1, <1>2, <1>3, <1>4, <1>5, <1>6, <1>7, <1>8, <1>9, <1>10

LEMMA EnableStep ==
    ASSUME CarefulUse, IInv, NEW d \in Devices, Enable(d)
    PROVE  IInv'
<1> USE DEF IInv
<1>a. pc[d] \in {"queued", "transmit"} /\ dev[d] = "ready" /\ queued[d] # 0
    BY DEF Enable, StageInv, RestInv
<1>b. enabled' = TRUE
    BY DEF Enable
<1>c. PICK to \in {"app", "wait"} : pc' = [pc EXCEPT ![d] = to]
    BY DEF Enable, Goto
<1>d. UNCHANGED <<use, bus, device, dev, trans_queue, ret_queue, cur_trans, cur_cs, hw, isr,
                  queued, got, freecs>>
    BY DEF Enable, isrVars, hostVars
<1>e. bus = "on"
  <2>1. bus # "off"
    BY <1>a, Constants DEF SlotInv
  <2> QED BY <2>1 DEF TypeOK
<1>1. TypeOK'
  <2>1. pc' \in [Devices -> Stages]
    BY <1>c DEF TypeOK, Stages, Plugging
  <2> QED BY <1>b, <1>d, <2>1 DEF TypeOK
<1>2. StageInv'
    BY <1>a, <1>b, <1>c, <1>d, <1>e, Constants DEF StageInv, TypeOK
<1>3. SlotInv'
  <2>1. \A e \in Devices : pc'[e] = "reserved" <=> pc[e] = "reserved"
    BY <1>a, <1>c DEF TypeOK
  <2> QED BY <1>d, <2>1, SlotsKept
<1>4. HwInv'
  <2>1. \E s \in Slots : device[s] # Null
    BY <1>a, Constants DEF SlotInv
  <2> QED BY <1>b, <1>d, <1>e, <2>1 DEF HwInv
<1>5. IsrInv'
    BY <1>a, <1>b, <1>c, <1>d, <1>e, Constants DEF IsrInv
<1>6. OrderInv'
    BY <1>a, <1>b, <1>c, <1>d, <1>e, Constants DEF OrderInv
<1>7. RestInv'
    BY <1>a, <1>b, <1>c, <1>d, <1>e, Constants DEF RestInv, TypeOK
<1>8. OnceInv'
    BY <1>a, <1>b, <1>c, <1>d, <1>e, Constants DEF OnceInv, TypeOK, StageInv, Removing
<1>9. QuietInv'
  <2>1. use.plug = "quiet" => \A e \in Devices : pc[e] \notin Plugging
    BY <1>a DEF QuietInv, Others, Plugging
  <2>2. use.plug = "quiet" => \A e \in Devices : pc'[e] \notin Plugging
    BY <1>c, <2>1 DEF TypeOK, Plugging
  <2> QED BY <1>d, <2>2 DEF QuietInv, Plugging
<1>10. UseInv'
    BY <1>a, <1>b, <1>c, <1>d, <1>e, Constants DEF UseInv
<1> QED BY <1>1, <1>2, <1>3, <1>4, <1>5, <1>6, <1>7, <1>8, <1>9, <1>10

LEMMA GetResultStep ==
    ASSUME CarefulUse, IInv, NEW d \in Devices, GetResult(d)
    PROVE  IInv'
<1> USE DEF IInv
<1>a. /\ pc[d] \in {"app", "wait"} /\ ret_queue[d] # << >>
      /\ pc[d] = "app" => MayUse(d) /\ dev[d] = "ready"
      /\ got[d] \in Nat /\ ret_queue[d] \in Seq(Trans) /\ queued[d] \in Nat
    BY DEF GetResult, TypeOK, Queues
<1>b. /\ ret_queue' = [ret_queue EXCEPT ![d] = Tail(ret_queue[d])]
      /\ got' = [got EXCEPT ![d] = Head(ret_queue[d]).no]
    BY DEF GetResult
<1>c. pc' = [pc EXCEPT ![d] = "app"]
    BY DEF GetResult, Goto
<1>d. UNCHANGED <<use, bus, device, dev, trans_queue, enabled, cur_trans, cur_cs, hw, isr,
                  queued, freecs>>
    BY DEF GetResult, isrVars, hostVars
<1>e. /\ dev[d] = "ready" /\ Tail(ret_queue[d]) \in Seq(Trans)
      /\ Head(ret_queue[d]).no \in Nat
  <2>1. dev[d] = "ready"
    BY <1>a DEF StageInv
  <2>2. Tail(ret_queue[d]) \in Seq(Trans) /\ Head(ret_queue[d]) \in Trans
    BY <1>a
  <2> QED BY <2>1, <2>2 DEF Trans
<1>f. use.plug = "quiet" => \A e \in Others(d) : pc[e] \notin Plugging
    BY <1>a DEF QuietInv, MayUse, Others
<1>1. TypeOK'
  <2>1. pc' \in [Devices -> Stages] /\ got' \in [Devices -> Nat]
    BY <1>b, <1>c, <1>e DEF TypeOK, Stages
  <2>2. ret_queue' \in Queues
    BY <1>b, <1>e DEF TypeOK, Queues
  <2> QED BY <1>d, <2>1, <2>2 DEF TypeOK
<1>2. StageInv'
    BY <1>a, <1>b, <1>c, <1>d, <1>e, Constants DEF StageInv, TypeOK
<1>3. SlotInv'
  <2>1. \A e \in Devices : pc'[e] = "reserved" <=> pc[e] = "reserved"
    BY <1>a, <1>c DEF TypeOK
  <2> QED BY <1>d, <2>1, SlotsKept
<1>4. HwInv'
    BY <1>a, <1>b, <1>c, <1>d, <1>e, Constants DEF HwInv
<1>5. IsrInv'
    BY <1>a, <1>b, <1>c, <1>d, <1>e, Constants DEF IsrInv
<1>6. OrderInv'
  <2>1. Ordered(use.ahead, d, Tail(ret_queue[d]), cur_trans, isr.trans, trans_queue[d],
                Head(ret_queue[d]).no, queued[d])
    BY <1>a, TypedDevice, OrderedGet DEF OrderInv
  <2> QED BY <2>1, <1>b, <1>d DEF OrderInv, TypeOK, Queues
<1>7. RestInv'
    BY <1>a, <1>b, <1>c, <1>d, <1>e, Constants DEF RestInv, TypeOK
<1>8. OnceInv'
    BY <1>a, <1>b, <1>c, <1>d DEF OnceInv, TypeOK, Removing
<1>9. QuietInv'
    BY <1>a, <1>b, <1>c, <1>d, <1>f DEF QuietInv, TypeOK, Plugging, Others
<1>10. UseInv'
    BY <1>a, <1>b, <1>c, <1>d, <1>e, Constants DEF UseInv
<1> QED BY <1>1, <1>2, <1>3, <1>4, <1>5, <1>6, <1>7, <1>8, <1>9, <1>10

LEMMA TransferDoneStep ==
    ASSUME CarefulUse, IInv, TransferDone
    PROVE  IInv'
<1> USE DEF IInv
<1>1. TypeOK'
    BY DEF TransferDone, hostVars, TypeOK, Hardware
<1>2. StageInv'
    BY Constants DEF TransferDone, Goto, hostVars, isrVars, StageInv, TypeOK
<1>3. SlotInv'
    BY Constants DEF TransferDone, Goto, hostVars, isrVars, SlotInv, TypeOK, StageInv
<1>4. HwInv'
    BY Constants DEF TransferDone, Goto, hostVars, isrVars, HwInv, TypeOK, IsrInv
<1>5. IsrInv'
    BY Constants DEF TransferDone, Goto, hostVars, isrVars, IsrInv, TypeOK, HwInv, Idle
<1>6. OrderInv'
    BY Constants DEF TransferDone, Goto, hostVars, isrVars, OrderInv
<1>7. RestInv'
    BY Constants DEF TransferDone, Goto, hostVars, isrVars, RestInv, TypeOK
<1>8. OnceInv'
    BY Constants DEF TransferDone, Goto, hostVars, isrVars, OnceInv, TypeOK, StageInv, Removing
<1>9. QuietInv'
    BY Constants DEF TransferDone, Goto, hostVars, isrVars, QuietInv, TypeOK, Plugging, Others
<1>10. UseInv'
    BY Constants DEF TransferDone, Goto, hostVars, isrVars, UseInv
<1> QED BY <1>1, <1>2, <1>3, <1>4, <1>5, <1>6, <1>7, <1>8, <1>9, <1>10

LEMMA IsrReturnStep ==
    ASSUME CarefulUse, IInv, IsrReturn
    PROVE  IInv'
<1> USE DEF IInv
<1> DEFINE e == device[cur_cs]
<1>a. /\ enabled /\ hw.trans_done /\ isr.at = "out" /\ isr.trans = NoTrans
      /\ bus = "on" /\ ~hw.usr
    BY DEF IsrReturn, Pending, IsrInv, HwInv, TypeOK
<1>b. cur_trans # NoTrans => e \in Devices /\ e = cur_trans.of /\ hw.for = e
    BY DEF HwInv, TypeOK, Trans
<1>c. cur_trans' = NoTrans
      /\ UNCHANGED <<use, bus, device, dev, trans_queue, cur_cs, hw, enabled, pc, queued, got, freecs>>
    BY DEF IsrReturn, hostVars
<1>d. /\ isr' \in Handler
      /\ isr'.at = "scan" /\ isr'.trans = NoTrans
      /\ isr'.prevCs = -1 \/ (cur_trans # NoTrans /\ isr'.prevCs = cur_cs)
  <2>1. CASE cur_trans = NoTrans
    <3>1. isr' = [Idle EXCEPT !.at = "scan"]
      BY <2>1 DEF IsrReturn
    <3> QED BY <3>1, IdleType DEF Idle, Handler
  <2>2. CASE cur_trans # NoTrans
    <3>1. isr' = [Idle EXCEPT !.at = "scan", !.prevCs = cur_cs] /\ cur_cs \in Slots
      BY <2>2 DEF IsrReturn, TypeOK
    <3> QED BY <2>2, <3>1, IdleType DEF Idle, Handler
  <2> QED BY <2>1, <2>2
<1>e. /\ cur_trans = NoTrans => ret_queue' = ret_queue
      /\ cur_trans # NoTrans =>
           \/ ret_queue' = [ret_queue EXCEPT ![e] = Append(ret_queue[e], cur_trans)]
           \/ ret_queue' = ret_queue /\ ~(Len(ret_queue[e]) < queue_size[e])
    BY DEF IsrReturn
<1>f. ret_queue' \in Queues
  <2>1. CASE cur_trans = NoTrans
    BY <1>e, <2>1 DEF TypeOK
  <2>2. CASE cur_trans # NoTrans
    <3>1. ret_queue[e] \in Seq(Trans) /\ cur_trans \in Trans
      BY <1>b, <2>2 DEF TypeOK, Queues
    <3>2. Append(ret_queue[e], cur_trans) \in Seq(Trans)
      BY <3>1
    <3> QED BY <1>e, <2>2, <3>2 DEF TypeOK, Queues
  <2> QED BY <2>1, <2>2
<1> HIDE DEF e
<1>1. TypeOK'
    BY <1>c, <1>d, <1>f DEF TypeOK
<1>2. StageInv'
    BY <1>c, Constants DEF StageInv, TypeOK
<1>3. SlotInv'
    BY <1>c, Constants DEF SlotInv, TypeOK, StageInv
<1>4. HwInv'
    BY <1>a, <1>c DEF HwInv
<1>5. IsrInv'
    BY <1>a, <1>b, <1>c, <1>d DEF IsrInv, e
<1>6. OrderInv'
  <2> SUFFICES ASSUME NEW d \in Devices
               PROVE  Ordered(use.ahead, d, ret_queue'[d], NoTrans, NoTrans, trans_queue[d], got[d], queued[d])
    BY <1>c, <1>d DEF OrderInv
  <2>1. Ordered(use.ahead, d, ret_queue[d], cur_trans, NoTrans, trans_queue[d], got[d], queued[d])
    BY <1>a DEF OrderInv
  <2>2. CASE cur_trans = NoTrans
    BY <1>e, <2>1, <2>2
  <2>3. CASE cur_trans # NoTrans /\ d = e
    <3>1. CASE ret_queue' = [ret_queue EXCEPT ![e] = Append(ret_queue[e], cur_trans)]
      <4>1. Ordered(use.ahead, d, Append(ret_queue[d], cur_trans), NoTrans, NoTrans,
                    trans_queue[d], got[d], queued[d])
        BY <1>a, <1>b, <2>1, <2>3, TypedDevice, OrderedReturn
      <4>2. ret_queue'[d] = Append(ret_queue[d], cur_trans)
        BY <2>3, <3>1 DEF TypeOK, Queues
      <4> QED BY <4>1, <4>2
    <3>2. CASE ret_queue' = ret_queue /\ ~(Len(ret_queue[e]) < queue_size[e])
      <4>1. Ordered(use.ahead, d, ret_queue[d], NoTrans, NoTrans, trans_queue[d], got[d],
                    queued[d])
        BY <1>a, <1>b, <2>1, <2>3, <3>2, TypedDevice, OrderedReturn
      <4> QED BY <3>2, <4>1
    <3> QED BY <1>e, <2>3, <3>1, <3>2
  <2>4. CASE cur_trans # NoTrans /\ d # e
    <3>1. Ordered(use.ahead, d, ret_queue[d], NoTrans, NoTrans, trans_queue[d], got[d], queued[d])
      BY <1>a, <1>b, <2>1, <2>4, TypedDevice, OrderedReturn
    <3>2. ret_queue'[d] = ret_queue[d]
      BY <1>e, <2>4 DEF TypeOK, Queues
    <3> QED BY <3>1, <3>2
  <2> QED BY <2>2, <2>3, <2>4
<1>7. RestInv'
    BY <1>c, Constants DEF RestInv, TypeOK
<1>8. OnceInv'
    BY <1>c, Constants DEF OnceInv, TypeOK, StageInv, Removing
<1>9. QuietInv'
    BY <1>c DEF QuietInv
<1>10. UseInv'
    BY <1>c, Constants DEF UseInv
<1> QED BY <1>1, <1>2, <1>3, <1>4, <1>5, <1>6, <1>7, <1>8, <1>9, <1>10

LEMMA IsrScanStep ==
    ASSUME CarefulUse, IInv, IsrScan
    PROVE  IInv'
<1> USE DEF IInv
<1> DEFINE e == device[isr.i]
           Taken == e \in Devices /\ trans_queue[e] # << >>
<1>a. /\ isr.at = "scan" /\ isr.i \in Slots /\ isr.trans = NoTrans /\ enabled
      /\ cur_trans = NoTrans
    BY Constants DEF IsrScan, TypeOK, IsrInv, HwInv, Slots, Handler
<1>b. UNCHANGED <<use, bus, device, dev, ret_queue, cur_trans, cur_cs, hw, enabled, pc, queued,
                  got, freecs>>
    BY DEF IsrScan, hostVars
<1>c. Taken => /\ isr' = [isr EXCEPT !.at = "start", !.trans = Head(trans_queue[e])]
               /\ trans_queue' = [trans_queue EXCEPT ![e] = Tail(trans_queue[e])]
    BY DEF IsrScan
<1>d. ~Taken => isr' = [isr EXCEPT !.i = isr.i + 1] /\ trans_queue' = trans_queue
    BY DEF IsrScan
<1>e. Taken => /\ Head(trans_queue[e]) \in Trans /\ Head(trans_queue[e]).of = e
               /\ Tail(trans_queue[e]) \in Seq(Trans)
               /\ Ordered(use.ahead, e, ret_queue[e], NoTrans, Head(trans_queue[e]), Tail(trans_queue[e]),
                          got[e], queued[e])
  <2> SUFFICES ASSUME Taken
               PROVE  /\ Head(trans_queue[e]) \in Trans /\ Head(trans_queue[e]).of = e
                      /\ Tail(trans_queue[e]) \in Seq(Trans)
                      /\ Ordered(use.ahead, e, ret_queue[e], NoTrans, Head(trans_queue[e]),
                                 Tail(trans_queue[e]), got[e], queued[e])
    OBVIOUS
  <2>1. e \in Devices /\ trans_queue[e] \in Seq(Trans) /\ trans_queue[e] # << >>
    BY DEF TypeOK, Queues
  <2>2. Tail(trans_queue[e]) \in Seq(Trans)
    BY <2>1
  <2>3. /\ Typed(ret_queue[e], NoTrans, NoTrans, trans_queue[e], got[e], queued[e])
        /\ Ordered(use.ahead, e, ret_queue[e], NoTrans, NoTrans, trans_queue[e], got[e], queued[e])
    BY <1>a, <2>1, TypedDevice DEF OrderInv
  <2> HIDE DEF e
  <2> QED BY <2>1, <2>2, <2>3, OrderedTake
<1>f. /\ isr' \in Handler
      /\ Taken => isr'.at = "start" /\ isr'.i = isr.i /\ isr'.trans = Head(trans_queue[e])
      /\ ~Taken => isr'.at = "scan" /\ isr'.trans = NoTrans
      /\ isr'.prevCs = isr.prevCs
  <2>1. isr.i + 1 \in 0..NO_CS
    BY <1>a, Constants DEF Slots
  <2> HIDE DEF Taken
  <2>2. isr \in Handler
    BY DEF TypeOK
  <2> QED BY <1>a, <1>c, <1>d, <1>e, <2>1, <2>2 DEF Handler
<1>g. trans_queue' \in Queues
  <2>1. trans_queue \in Queues
    BY DEF TypeOK
  <2> HIDE DEF e
  <2> QED BY <1>c, <1>d, <1>e, <2>1 DEF Queues
<1> HIDE DEF e, Taken
<1>1. TypeOK'
    BY <1>b, <1>f, <1>g DEF TypeOK
<1>2. StageInv'
    BY <1>b, Constants DEF StageInv, TypeOK
<1>3. SlotInv'
    BY <1>b, Constants DEF SlotInv, TypeOK, StageInv
<1>4. HwInv'
    BY <1>a, <1>b DEF HwInv
<1>5. IsrInv'
    BY <1>a, <1>b, <1>e, <1>f, Constants DEF IsrInv, e
<1>6. OrderInv'
  <2> SUFFICES ASSUME NEW d \in Devices
               PROVE  Ordered(use.ahead, d, ret_queue[d], NoTrans, isr'.trans, trans_queue'[d], got[d],
                              queued[d])
    BY <1>a, <1>b DEF OrderInv
  <2>1. Ordered(use.ahead, d, ret_queue[d], NoTrans, NoTrans, trans_queue[d], got[d], queued[d])
    BY <1>a DEF OrderInv
  <2>2. CASE ~Taken
    BY <1>d, <1>f, <2>1, <2>2
  <2>3. CASE Taken /\ d = e
    <3>1. trans_queue'[d] = Tail(trans_queue[d])
      BY <1>c, <2>3 DEF TypeOK, Queues
    <3> QED BY <1>e, <1>f, <2>3, <3>1
  <2>4. CASE Taken /\ d # e
    <3>1. trans_queue'[d] = trans_queue[d]
      BY <1>c, <2>4 DEF TypeOK, Queues
    <3>2. Ordered(use.ahead, d, ret_queue[d], NoTrans, Head(trans_queue[e]), trans_queue[d], got[d], queued[d])
      BY <1>e, <2>1, <2>4, OrderedOther
    <3> QED BY <1>f, <2>4, <3>1, <3>2
  <2> QED BY <2>2, <2>3, <2>4
<1>7. RestInv'
    BY <1>b, Constants DEF RestInv, TypeOK
<1>8. OnceInv'
    BY <1>b, Constants DEF OnceInv, TypeOK, StageInv, Removing
<1>9. QuietInv'
  <2>1. \A d \in Devices : trans_queue[d] = << >> => trans_queue'[d] = << >>
    BY <1>c, <1>d DEF TypeOK, Taken, Queues
  <2> QED BY <1>b, <2>1 DEF QuietInv
<1>10. UseInv'
    BY <1>b, Constants DEF UseInv
<1> QED BY <1>1, <1>2, <1>3, <1>4, <1>5, <1>6, <1>7, <1>8, <1>9, <1>10

LEMMA IsrStartStep ==
    ASSUME CarefulUse, IInv, IsrStart
    PROVE  IInv'
<1> USE DEF IInv
<1>a. /\ isr.at = "start" /\ isr.i \in Slots /\ isr.trans \in Trans /\ enabled
      /\ cur_trans = NoTrans /\ device[isr.i] = isr.trans.of /\ bus = "on"
    BY DEF IsrStart, TypeOK, IsrInv, HwInv, Handler
<1>b. /\ cur_trans' = isr.trans /\ cur_cs' = isr.i /\ isr' = Idle
      /\ UNCHANGED <<use, bus, device, dev, ret_queue, trans_queue, enabled, pc, queued, got, freecs>>
    BY DEF IsrStart, hostVars
<1>c. /\ hw' \in Hardware
      /\ hw'.trans_done = FALSE /\ hw'.for = device[isr.i]
  <2>1. hw'.for = device[isr.i] /\ hw'.trans_done = FALSE /\ hw'.usr = TRUE
    BY <1>a, Constants DEF IsrStart, IsrInv
  <2>2. device[isr.i] \in Devices \cup {Null, Reserved}
    BY <1>a DEF TypeOK
  <2>3. hw' = [trans_done |-> FALSE, usr |-> TRUE,
               for |-> IF isr.i # isr.prevCs THEN device[isr.i] ELSE hw.for]
    BY DEF IsrStart
  <2>4. hw' = [trans_done |-> FALSE, usr |-> TRUE, for |-> device[isr.i]]
    BY <2>1, <2>3
  <2> QED BY <2>1, <2>2, <2>4 DEF Hardware
<1>1. TypeOK'
    BY <1>a, <1>b, <1>c, IdleType DEF TypeOK
<1>2. StageInv'
    BY <1>b, Constants DEF StageInv, TypeOK
<1>3. SlotInv'
    BY <1>b, Constants DEF SlotInv, TypeOK, StageInv
<1>4. HwInv'
    BY <1>a, <1>b, <1>c, IdleType, Constants DEF HwInv
<1>5. IsrInv'
    BY <1>b, IdleType DEF IsrInv
<1>6. OrderInv'
  <2> SUFFICES ASSUME NEW d \in Devices
               PROVE  Ordered(use.ahead, d, ret_queue[d], isr.trans, NoTrans, trans_queue[d], got[d], queued[d])
    BY <1>b, IdleType DEF OrderInv
  <2>1. /\ Ordered(use.ahead, d, ret_queue[d], NoTrans, isr.trans, trans_queue[d], got[d], queued[d])
        /\ Typed(ret_queue[d], NoTrans, isr.trans, trans_queue[d], got[d], queued[d])
    BY <1>a, TypedDevice DEF OrderInv
  <2> QED BY <2>1, OrderedStart
<1>7. RestInv'
    BY <1>b, Constants DEF RestInv, TypeOK
<1>8. OnceInv'
    BY <1>b, Constants DEF OnceInv, TypeOK, StageInv, Removing
<1>9. QuietInv'
    BY <1>a, <1>b DEF QuietInv
<1>10. UseInv'
    BY <1>b, Constants DEF UseInv
<1> QED BY <1>1, <1>2, <1>3, <1>4, <1>5, <1>6, <1>7, <1>8, <1>9, <1>10

LEMMA IsrDisableStep ==
    ASSUME CarefulUse, IInv, IsrDisable
    PROVE  IInv'
<1> USE DEF IInv
<1>1. TypeOK'
    BY IdleType, Constants DEF IsrDisable, hostVars, TypeOK, Slots
<1>2. StageInv'
    BY Constants DEF IsrDisable, Goto, hostVars, isrVars, StageInv, TypeOK
<1>3. SlotInv'
    BY Constants DEF IsrDisable, Goto, hostVars, isrVars, SlotInv, TypeOK, StageInv
<1>4. HwInv'
    BY Constants DEF IsrDisable, Goto, hostVars, isrVars, HwInv, TypeOK, IsrInv
<1>5. IsrInv'
    BY IdleType, Constants DEF IsrDisable, hostVars, IsrInv
<1>6. OrderInv'
    BY IdleType DEF IsrDisable, hostVars, IsrInv, OrderInv
<1>7. RestInv'
    BY Constants DEF IsrDisable, Goto, hostVars, isrVars, RestInv, TypeOK
<1>8. OnceInv'
    BY Constants DEF IsrDisable, Goto, hostVars, isrVars, OnceInv, TypeOK, StageInv, Removing
<1>9. QuietInv'
    BY Constants DEF IsrDisable, Goto, hostVars, isrVars, QuietInv, TypeOK, Plugging, Others
<1>10. UseInv'
    BY Constants DEF IsrDisable, Goto, hostVars, isrVars, UseInv
<1> QED BY <1>1, <1>2, <1>3, <1>4, <1>5, <1>6, <1>7, <1>8, <1>9, <1>10

LEMMA StutterStep == ASSUME IInv, UNCHANGED vars PROVE IInv'
BY DEF vars, IInv, TypeOK, StageInv, SlotInv, HwInv, IsrInv, OrderInv, RestInv, OnceInv, QuietInv,
       UseInv

LEMMA NextInv == ASSUME CarefulUse, IInv, [Next]_vars PROVE IInv'
<1>1. CASE BusInitialize
    BY <1>1, BusInitializeStep
<1>2. CASE BusFree
    BY <1>2, BusFreeStep
<1>3. CASE TransferDone
    BY <1>3, TransferDoneStep
<1>4. CASE IsrReturn
    BY <1>4, IsrReturnStep
<1>5. CASE IsrScan
    BY <1>5, IsrScanStep
<1>6. CASE IsrStart
    BY <1>6, IsrStartStep
<1>7. CASE IsrDisable
    BY <1>7, IsrDisableStep
<1>8. CASE \E d \in Devices : AddReserve(d)
    BY <1>8, AddReserveStep
<1>9. CASE \E d \in Devices : AddAlloc(d)
    BY <1>9, AddAllocStep
<1>10. CASE \E d \in Devices : AddQueues(d)
    BY <1>10, AddQueuesStep
<1>11. CASE \E d \in Devices : Remove(d)
    BY <1>11, RemoveStep
<1>12. CASE \E d \in Devices : RemoveCheck(d)
    BY <1>12, RemoveCheckStep
<1>13. CASE \E d \in Devices : RemoveDelete(d)
    BY <1>13, RemoveDeleteStep
<1>14. CASE \E d \in Devices : RemoveClear(d)
    BY <1>14, RemoveClearStep
<1>15. CASE \E d \in Devices : QueueTrans(d)
    BY <1>15, QueueTransStep
<1>16. CASE \E d \in Devices : Enable(d)
    BY <1>16, EnableStep
<1>17. CASE \E d \in Devices : GetResult(d)
    BY <1>17, GetResultStep
<1>18. CASE UNCHANGED vars
    BY <1>18, StutterStep
<1> QED BY <1>1, <1>2, <1>3, <1>4, <1>5, <1>6, <1>7, <1>8, <1>9, <1>10, <1>11, <1>12,
           <1>13, <1>14, <1>15, <1>16, <1>17, <1>18 DEF Next, Isr, InCall

LEMMA Inductive == ASSUME CarefulUse PROVE Spec => []IInv
<1>1. Init => IInv
    BY InitInv
<1>2. IInv /\ [Next]_vars => IInv'
    BY NextInv
<1> QED BY <1>1, <1>2, PTL DEF Spec

-----------------------------------------------------------------------------
(* What follows.                                                           *)

\* Where the handler is, every slot is empty or its device is ready.
LEMMA HandlerFinds ==
    ASSUME IInv, NEW s \in Slots, isr.at # "out" \/ (Pending /\ cur_trans # NoTrans)
    PROVE  device[s] = Null \/ (device[s] \in Devices /\ dev[device[s]] = "ready")
<1>1. \A d \in Devices : pc[d] \notin Plugging \ {"check1", "check2"}
    BY HandlerAtRest DEF IInv, IsrInv
<1>2. device[s] # Reserved
    BY <1>1 DEF IInv, SlotInv, Plugging
<1>3. ASSUME device[s] \in Devices PROVE dev[device[s]] = "ready"
    BY <1>1, <1>3 DEF IInv, SlotInv, StageInv, TypeOK, Plugging
<1> QED BY <1>2, <1>3 DEF IInv, TypeOK

(* The handler follows no pointer to a device that is being added or that  *)
(* was removed (spi_intr()), however many tasks, devices and slots there   *)
(* are, as long as the application is careful.                             *)
THEOREM HandlerFollowsOnlyDevices ==
    ASSUME CarefulUse
    PROVE  Spec => []DeviceReady
<1>1. ASSUME IInv PROVE DeviceReady
  <2> USE <1>1
  <2> DEFINE Sound(s) == device[s] = Null \/ (device[s] \in Devices /\ dev[device[s]] = "ready")
  <2>1. ASSUME isr.at = "scan", isr.i \in Slots PROVE Sound(isr.i)
    BY <2>1, HandlerFinds
  <2>2. ASSUME isr.at = "start" PROVE Sound(isr.i) /\ device[isr.i] # Null
    <3>1. isr.i \in Slots /\ device[isr.i] \in Devices
      BY <2>2 DEF IInv, IsrInv, TypeOK, Trans, Handler
    <3> QED BY <2>2, <3>1, HandlerFinds, Constants
  <2>3. ASSUME Pending, cur_trans # NoTrans PROVE Sound(cur_cs) /\ device[cur_cs] # Null
    <3>1. cur_cs \in Slots /\ device[cur_cs] \in Devices
      BY <2>3 DEF IInv, HwInv, TypeOK, Trans
    <3> QED BY <2>3, <3>1, HandlerFinds, Constants
  <2>4. isr.at # "out" => bus = "on"
    BY DEF IInv, IsrInv, HwInv
  <2> QED BY <2>1, <2>2, <2>3, <2>4 DEF DeviceReady
<1> QED BY <1>1, Inductive, PTL

(* A transfer runs with the settings of the device that its transaction    *)
(* was queued for, also when the handler skips setting up the hardware     *)
(* because the slot is that of the transfer before.                        *)
THEOREM TransfersAreForTheirDevice ==
    ASSUME CarefulUse
    PROVE  Spec => []RightDevice
<1>1. IInv => RightDevice
    BY DEF IInv, HwInv, RightDevice
<1> QED BY <1>1, Inductive, PTL

RisingIn(a, lo, hi) ==
    /\ a \in Seq(Nat)
    /\ \A i \in 1..Len(a) : lo < a[i] /\ a[i] <= hi
    /\ \A i, j \in 1..Len(a) : i < j => a[i] < a[j]

\* Two stretches of rising numbers, one above the other, make one.
LEMMA JoinRising ==
    ASSUME NEW a, NEW b, NEW lo \in Nat, NEW m \in Nat, NEW hi \in Nat, lo <= m, m <= hi,
           RisingIn(a, lo, m), RisingIn(b, m, hi)
    PROVE  RisingIn(a \o b, lo, hi) /\ Len(a \o b) = Len(a) + Len(b)
<1> DEFINE c == a \o b
<1>1. a \in Seq(Nat) /\ b \in Seq(Nat) /\ Len(a) \in Nat /\ Len(b) \in Nat
    BY DEF RisingIn
<1>2. /\ c \in Seq(Nat) /\ Len(c) = Len(a) + Len(b)
      /\ \A i \in 1..(Len(a) + Len(b)) : c[i] = IF i <= Len(a) THEN a[i] ELSE b[i - Len(a)]
    BY <1>1, ConcatProperties
<1> HIDE DEF c
<1>3. ASSUME NEW i \in 1..Len(c)
      PROVE  \/ i \in 1..Len(a) /\ c[i] = a[i] /\ c[i] \in Nat /\ lo < c[i] /\ c[i] <= m
             \/ /\ i > Len(a) /\ i - Len(a) \in 1..Len(b) /\ c[i] = b[i - Len(a)]
                /\ c[i] \in Nat /\ m < c[i] /\ c[i] <= hi
  <2>1. CASE i <= Len(a)
    <3>1. i \in 1..Len(a) /\ c[i] = a[i]
      BY <1>1, <1>2, <2>1
    <3>2. a[i] \in Nat /\ lo < a[i] /\ a[i] <= m
      BY <1>1, <3>1 DEF RisingIn
    <3> QED BY <3>1, <3>2
  <2>2. CASE ~(i <= Len(a))
    <3>1. i - Len(a) \in 1..Len(b) /\ c[i] = b[i - Len(a)] /\ i > Len(a)
      BY <1>1, <1>2, <2>2
    <3>2. b[i - Len(a)] \in Nat /\ m < b[i - Len(a)] /\ b[i - Len(a)] <= hi
      BY <1>1, <3>1 DEF RisingIn
    <3> QED BY <3>1, <3>2
  <2> QED BY <2>1, <2>2
<1>4. ASSUME NEW i \in 1..Len(c) PROVE lo < c[i] /\ c[i] <= hi
    BY <1>3
<1>5. ASSUME NEW i \in 1..Len(c), NEW j \in 1..Len(c), i < j PROVE c[i] < c[j]
  <2>1. CASE i \in 1..Len(a) /\ j \in 1..Len(a)
    <3>1. c[i] = a[i] /\ c[j] = a[j]
      BY <1>1, <1>3, <2>1
    <3> QED BY <1>5, <2>1, <3>1 DEF RisingIn
  <2>2. CASE i \in 1..Len(a) /\ j \notin 1..Len(a)
    <3>1. c[i] \in Nat /\ c[i] <= m
      BY <1>1, <1>3, <2>2
    <3>2. c[j] \in Nat /\ m < c[j]
      BY <1>3, <2>2
    <3> QED BY <3>1, <3>2
  <2>3. CASE i \notin 1..Len(a)
    <3>1. /\ i - Len(a) \in 1..Len(b) /\ j - Len(a) \in 1..Len(b)
          /\ i - Len(a) < j - Len(a)
      BY <1>1, <1>2, <1>5, <2>3
    <3>a. i \notin 1..Len(a) /\ j \notin 1..Len(a)
      BY <1>1, <1>5, <2>3
    <3>2. c[i] = b[i - Len(a)] /\ c[j] = b[j - Len(a)]
      BY <1>3, <3>a
    <3> QED BY <3>1, <3>2 DEF RisingIn
  <2> QED BY <2>1, <2>2, <2>3
<1> QED BY <1>2, <1>4, <1>5 DEF RisingIn, c

\* The numbers of the transactions in a queue.
LEMMA NumbersOf ==
    ASSUME NEW q \in Seq(Trans), NEW b, b = [i \in DOMAIN q |-> q[i].no]
    PROVE  b \in Seq(Nat) /\ Len(b) = Len(q) /\ \A i \in 1..Len(q) : b[i] = q[i].no
<1>1. Len(q) \in Nat /\ DOMAIN q = 1..Len(q)
    BY LenProperties
<1>2. ASSUME NEW i \in 1..Len(q) PROVE q[i].no \in Nat
  <2>1. q[i] \in Trans
    OBVIOUS
  <2> QED BY <2>1 DEF Trans
<1>3. b = [i \in 1..Len(q) |-> q[i].no]
    BY <1>1
<1> QED BY <1>1, <1>2, <1>3

\* The transaction in the hardware or with the handler, if it is of d.
LEMMA OneOrNone ==
    ASSUME NEW d, NEW t \in Trans \cup {NoTrans}, NEW m \in Nat,
           t # NoTrans /\ t.of = d => t.no = m + 1,
           NEW c, c = IF t # NoTrans /\ t.of = d THEN <<t.no>> ELSE << >>
    PROVE  RisingIn(c, m, m + Mine(t, d)) /\ Len(c) = Mine(t, d)
<1>1. CASE t # NoTrans /\ t.of = d
  <2>1. c = <<m + 1>> /\ Mine(t, d) = 1
    BY <1>1 DEF Mine
  <2> QED BY <2>1 DEF RisingIn
<1>2. CASE ~(t # NoTrans /\ t.of = d)
  <2>1. c = << >> /\ Mine(t, d) = 0
    BY <1>2 DEF Mine
  <2> QED BY <2>1 DEF RisingIn
<1> QED BY <1>1, <1>2

\* What is on its way, as InOrderOnce lists it.
LEMMA PipelineRises ==
    ASSUME IInv, NEW d \in Devices
    PROVE  /\ RisingIn(Pipeline(d), got[d], queued[d])
           /\ Counted => Len(Pipeline(d)) = queued[d] - got[d]
<1> DEFINE r == ret_queue[d]
           q == trans_queue[d]
           g == got[d]
           n == queued[d]
           mine(t) == IF t # NoTrans /\ t.of = d THEN <<t.no>> ELSE << >>
           No(seq) == [i \in DOMAIN seq |-> seq[i].no]
           c == mine(cur_trans)
           s == mine(isr.trans)
           a == No(r)
           b == No(q)
           x == Mine(cur_trans, d)
           y == Mine(isr.trans, d)
<1>1. PICK m \in Nat : /\ OnTheWay(d, cur_trans, isr.trans, q, m, n) /\ Rising(d, r, g, m)
                       /\ Counted => Complete(d, r, g, m, n)
    BY DEF IInv, OrderInv, Ordered, Counted
<1>2. /\ r \in Seq(Trans) /\ q \in Seq(Trans) /\ Len(r) \in Nat /\ Len(q) \in Nat
      /\ g \in Nat /\ n \in Nat /\ x \in Nat /\ y \in Nat
      /\ cur_trans \in Trans \cup {NoTrans} /\ isr.trans \in Trans \cup {NoTrans}
    BY DEF IInv, TypeOK, Queues, Handler, Mine
<1>3. Pipeline(d) = a \o c \o s \o b
    BY DEF Pipeline
<1>4. g <= m /\ m + x + y + Len(q) = n
    BY <1>1 DEF OnTheWay, Rising
<1>5. RisingIn(c, m, m + x) /\ Len(c) = x
  <2>1. cur_trans # NoTrans /\ cur_trans.of = d => cur_trans.no = m + 1
    BY <1>1 DEF OnTheWay
  <2> QED BY <1>2, <2>1, OneOrNone
<1>6. RisingIn(s, m + x, m + x + y) /\ Len(s) = y
  <2>1. isr.trans # NoTrans /\ isr.trans.of = d => isr.trans.no = m + x + 1
    BY <1>1 DEF OnTheWay
  <2>2. m + x \in Nat
    BY <1>2
  <2> HIDE DEF x
  <2> QED BY <1>2, <2>1, <2>2, OneOrNone
<1>7. RisingIn(a, g, m) /\ Len(a) = Len(r)
  <2>1. a \in Seq(Nat) /\ Len(a) = Len(r) /\ \A i \in 1..Len(r) : a[i] = r[i].no
    <3> HIDE DEF r
    <3> QED BY <1>2, NumbersOf
  <2> HIDE DEF a, r
  <2> QED BY <1>1, <2>1 DEF RisingIn, Rising
<1>8. RisingIn(b, m + x + y, n) /\ Len(b) = Len(q)
  <2> DEFINE l == m + x + y
  <2>1. b \in Seq(Nat) /\ Len(b) = Len(q) /\ \A i \in 1..Len(q) : b[i] = q[i].no
    <3> HIDE DEF q
    <3> QED BY <1>2, NumbersOf
  <2>2. Numbered(q, d, l) /\ l \in Nat /\ n = l + Len(q)
    BY <1>1, <1>2, <1>4 DEF OnTheWay
  <2> HIDE DEF b, q, n, l, x, y
  <2>3. \A i \in 1..Len(b) : b[i] = l + i
    <3> SUFFICES ASSUME NEW i \in 1..Len(q) PROVE q[i].no = l + i
      BY <2>1
    <3>1. q[i] = [of |-> d, no |-> l + i]
      BY <2>2 DEF Numbered
    <3> QED BY <3>1
  <2>4. RisingIn(b, l, n)
    BY <1>2, <2>1, <2>2, <2>3 DEF RisingIn
  <2> QED BY <2>1, <2>4 DEF l
<1> HIDE DEF r, q, g, n, c, s, a, b, x, y
<1>9. RisingIn(a \o c, g, m + x) /\ Len(a \o c) = Len(r) + x
    BY <1>2, <1>4, <1>5, <1>7, JoinRising
<1>10. RisingIn(a \o c \o s, g, m + x + y) /\ Len(a \o c \o s) = Len(r) + x + y
  <2> DEFINE ac == a \o c
             k == m + x
  <2>1. RisingIn(ac, g, k) /\ Len(ac) = Len(r) + x /\ RisingIn(s, k, k + y) /\ Len(s) = y
        /\ k \in Nat /\ k + y \in Nat /\ g <= k /\ k <= k + y
    BY <1>2, <1>4, <1>6, <1>9
  <2> HIDE DEF ac, k
  <2>2. RisingIn(ac \o s, g, k + y) /\ Len(ac \o s) = Len(ac) + Len(s)
    BY <1>2, <2>1, JoinRising
  <2> QED BY <2>1, <2>2 DEF ac, k
<1>11. /\ RisingIn(a \o c \o s \o b, g, n)
       /\ Len(a \o c \o s \o b) = Len(r) + x + y + Len(q)
  <2> DEFINE acs == a \o c \o s
             k == m + x + y
  <2>1. RisingIn(acs, g, k) /\ Len(acs) = Len(r) + x + y /\ RisingIn(b, k, n) /\ Len(b) = Len(q)
        /\ k \in Nat /\ g <= k /\ k <= n
    BY <1>2, <1>4, <1>8, <1>10
  <2> HIDE DEF acs, k
  <2>2. RisingIn(acs \o b, g, n) /\ Len(acs \o b) = Len(acs) + Len(b)
    BY <1>2, <2>1, JoinRising
  <2> QED BY <2>1, <2>2 DEF acs, k
<1>12. Counted => Len(r) + x + y + Len(q) = n - g
    BY <1>1, <1>2, <1>4 DEF Complete
<1> QED BY <1>3, <1>11, <1>12 DEF g, n

(* The results of a device come back in the order in which its             *)
(* transactions were queued and none comes twice, also when the task has   *)
(* more in the air than the queue of results holds and some are lost; when *)
(* it has no more than queue_size in the air, none is lost.                *)
THEOREM ResultsComeInOrderOnce ==
    ASSUME CarefulUse
    PROVE  Spec => []InOrderOnce
<1>1. ASSUME IInv PROVE InOrderOnce
  <2> SUFFICES ASSUME NEW d \in Devices
               PROVE  /\ \A i \in DOMAIN Pipeline(d) : Pipeline(d)[i] \in (got[d] + 1)..queued[d]
                      /\ \A i, j \in DOMAIN Pipeline(d) : i < j => Pipeline(d)[i] < Pipeline(d)[j]
                      /\ Counted => Len(Pipeline(d)) = queued[d] - got[d]
    BY DEF InOrderOnce
  <2>1. /\ RisingIn(Pipeline(d), got[d], queued[d])
        /\ Counted => Len(Pipeline(d)) = queued[d] - got[d]
    BY <1>1, PipelineRises
  <2>2. got[d] \in Nat /\ queued[d] \in Nat
    BY <1>1 DEF IInv, TypeOK
  <2> DEFINE p == Pipeline(d)
  <2>3. p \in Seq(Nat) /\ DOMAIN p = 1..Len(p)
    BY <2>1, LenProperties DEF RisingIn
  <2>4. \A i \in 1..Len(p) : p[i] \in Nat /\ got[d] < p[i] /\ p[i] <= queued[d]
    BY <2>1, <2>3 DEF RisingIn
  <2>5. \A i, j \in 1..Len(p) : i < j => p[i] < p[j]
    BY <2>1 DEF RisingIn
  <2> HIDE DEF p
  <2>6. \A i \in DOMAIN p : p[i] \in (got[d] + 1)..queued[d]
    BY <2>2, <2>3, <2>4
  <2> QED BY <2>1, <2>3, <2>5, <2>6 DEF p
<1> QED BY <1>1, Inductive, PTL
=============================================================================
