--------------------------- MODULE OtaBootProofs ----------------------------
(***************************************************************************)
(* Theorems about OtaBoot, for any number of OTA slots, open updates,      *)
(* interrupts and sequence numbers.                                        *)
(***************************************************************************)
EXTENDS OtaBoot, TLAPS

-----------------------------------------------------------------------------
(* Arithmetic of sequence numbers and slots.                               *)

LEMMA MulLe ==
    ASSUME NEW a \in Nat, NEW b \in Nat, NEW n \in Nat, a <= b
    PROVE  a * n <= b * n
OBVIOUS

LEMMA MulLt ==
    ASSUME NEW a \in Int, NEW b \in Int, NEW n \in Nat \ {0}, a * n < b * n
    PROVE  a < b
<1>1. SUFFICES ASSUME b <= a PROVE FALSE
    OBVIOUS
<1>2. b * n <= a * n
    BY <1>1
<1> QED BY <1>2

LEMMA DivMod ==
    ASSUME NEW x \in Nat, NEW n \in Nat \ {0}
    PROVE  /\ x % n \in 0 .. n-1
           /\ x \div n \in Nat
           /\ x = (x \div n) * n + (x % n)
OBVIOUS

LEMMA ModIs ==
    ASSUME NEW q \in Nat, NEW n \in Nat \ {0}, NEW s \in 0 .. n-1
    PROVE  (q * n + s) % n = s
<1> DEFINE x == q * n + s
<1>1. x \in Nat
    OBVIOUS
<1>2. /\ x % n \in 0 .. n-1
      /\ x \div n \in Nat
      /\ x = (x \div n) * n + (x % n)
    BY <1>1, DivMod
<1>3. PICK d \in Nat, r \in 0 .. n-1 : x = d * n + r /\ r = x % n
    BY <1>2
<1>4. d = q
  <2>1. q * n < (d + 1) * n
    BY <1>3
  <2>2. d * n < (q + 1) * n
    BY <1>3
  <2>3. q < d + 1 /\ d < q + 1
    BY <2>1, <2>2, MulLt
  <2> QED BY <2>3
<1> QED BY <1>3, <1>4

\* Every sequence number has a slot, and one of every slot is followed by another.
LEMMA SlotRange ==
    ASSUME NEW seq \in Nat
    PROVE  SlotOf(seq) \in Slots
<1>1. CASE seq = 0
  <2>1. (65535 % NOta) * (65537 % NOta) \in Nat
    BY OtaAssumption
  <2> QED BY <1>1, <2>1, OtaAssumption, DivMod DEF SlotOf, Slots
<1>2. CASE seq # 0
  <2>1. seq - 1 \in Nat
    BY <1>2
  <2> QED BY <1>2, <2>1, OtaAssumption, DivMod DEF SlotOf, Slots
<1> QED BY <1>1, <1>2

LEMMA NextSeqFacts ==
    ASSUME NEW sub \in Slots, NEW seq \in Nat
    PROVE  /\ NextSeq(sub, seq) \in Nat
           /\ NextSeq(sub, seq) >= seq
           /\ seq > 0 => SlotOf(NextSeq(sub, seq)) = sub
<1> DEFINE r == (sub + 1) % NOta
           least(j) == /\ seq <= r + j * NOta
                       /\ \A k \in 0 .. j-1 : seq > r + k * NOta
           i == CHOOSE j \in 0 .. seq : least(j)
<1>0. NOta \in Nat \ {0} /\ sub \in 0 .. NOta-1
    BY OtaAssumption DEF Slots
<1>1. r \in 0 .. NOta-1 /\ r = IF sub = NOta - 1 THEN 0 ELSE sub + 1
  <2>1. r \in 0 .. NOta-1
    BY <1>0, DivMod
  <2>2. CASE sub = NOta - 1
    <3>1. (1 * NOta + 0) % NOta = 0
      BY <1>0, ModIs
    <3>2. 1 * NOta + 0 = sub + 1
      BY <1>0, <2>2
    <3> QED BY <2>1, <2>2, <3>1, <3>2
  <2>3. CASE sub # NOta - 1
    <3>1. (0 * NOta + (sub + 1)) % NOta = sub + 1
      <4>1. sub + 1 \in 0 .. NOta-1
        BY <1>0, <2>3
      <4> QED BY <1>0, <4>1, ModIs
    <3>2. 0 * NOta + (sub + 1) = sub + 1
      BY <1>0
    <3> QED BY <2>1, <2>3, <3>1, <3>2
  <2> QED BY <2>2, <2>3
<1> HIDE DEF r
<1>2. \E j \in 0 .. seq : least(j)
  <2>1. CASE seq <= r
    <3>1. seq <= r + 0 * NOta
      BY <1>0, <1>1, <2>1
    <3>2. least(0)
      BY <3>1
    <3> QED BY <3>2
  <2>2. CASE seq > r
    <3> DEFINE x == (seq - r) - 1
               d == x \div NOta
               m == x % NOta
    <3>1. x \in Nat
      BY <1>0, <1>1, <2>2
    <3>2. d \in Nat /\ m \in 0 .. NOta-1 /\ x = d * NOta + m
      BY <1>0, <3>1, DivMod
    <3>3. seq = r + 1 + d * NOta + m
      BY <1>0, <1>1, <3>1, <3>2
    <3> HIDE DEF d, m, x
    <3>4. d + 1 \in 0 .. seq
      <4>1. d * 1 <= d * NOta
        BY <1>0, <3>2
      <4> QED BY <1>0, <1>1, <3>2, <3>3, <4>1
    <3>5. seq <= r + (d + 1) * NOta
      BY <1>0, <1>1, <3>2, <3>3
    <3>6. ASSUME NEW k \in 0 .. (d + 1) - 1 PROVE seq > r + k * NOta
      <4>1. k * NOta <= d * NOta
        BY <1>0, <3>2, MulLe
      <4> QED BY <1>0, <1>1, <3>2, <3>3, <4>1
    <3> QED BY <3>4, <3>5, <3>6
  <2> QED BY <1>0, <1>1, <2>1, <2>2
<1>3. i \in 0 .. seq /\ least(i)
    BY <1>2
<1>4. NextSeq(sub, seq) = r + i * NOta
    BY DEF NextSeq, r
<1> HIDE DEF i
<1>5. NextSeq(sub, seq) \in Nat /\ NextSeq(sub, seq) >= seq
    BY <1>0, <1>1, <1>3, <1>4
<1>6. ASSUME seq > 0 PROVE SlotOf(NextSeq(sub, seq)) = sub
  <2>1. NextSeq(sub, seq) # 0 /\ SlotOf(NextSeq(sub, seq)) = (NextSeq(sub, seq) - 1) % NOta
    BY <1>5, <1>6 DEF SlotOf
  <2>2. CASE sub = NOta - 1
    <3>1. i >= 1
      BY <1>0, <1>1, <1>3, <1>6, <2>2
    <3>2. (i - 1) * NOta + sub = NextSeq(sub, seq) - 1
      BY <1>0, <1>1, <1>3, <1>4, <2>2, <3>1
    <3>3. ((i - 1) * NOta + sub) % NOta = sub
      BY <1>0, <1>3, <3>1, ModIs
    <3> QED BY <2>1, <3>2, <3>3
  <2>3. CASE sub # NOta - 1
    <3>1. i * NOta + sub = NextSeq(sub, seq) - 1
      BY <1>0, <1>1, <1>3, <1>4, <2>3
    <3>2. (i * NOta + sub) % NOta = sub
      BY <1>0, <1>3, ModIs
    <3> QED BY <2>1, <3>1, <3>2
  <2> QED BY <2>2, <2>3
<1> QED BY <1>5, <1>6

\* The first selection writes the number of the slot, counted from one.
LEMMA FirstSeqFacts ==
    ASSUME NEW sub \in Slots
    PROVE  sub + 1 \in Nat \ {0} /\ SlotOf(sub + 1) = sub
<1>1. NOta \in Nat \ {0} /\ sub \in 0 .. NOta-1
    BY OtaAssumption DEF Slots
<1>2. (0 * NOta + sub) % NOta = sub
    BY <1>1, ModIs
<1>3. 0 * NOta + sub = (sub + 1) - 1
    BY <1>1
<1> QED BY <1>1, <1>2, <1>3 DEF SlotOf

-----------------------------------------------------------------------------
(* The inductive invariant.  Its first part holds for every configuration. *)

Other == 1 - job.sec      \* the sector that a selection leaves alone

\* Without a factory app, OTA data that the bootloader or the app works with
\* has a valid entry, and a selection keeps it until the new one is written.
EntryInv ==
    /\ ~factory /\ pc = "app" => AnyValid
    /\ ~factory /\ pc \in SelectPcs => ota_select_valid(Other)
    /\ pc \in ResetPcs => factory

AnyInv == TypeOK /\ EntryInv

\* The second part: nothing but selections is interrupted, and there is no test app.
OnlySelections == Interrupts \subseteq {"select"} /\ ~HasTest

\* The number 0 is written by the bootloader only, next to a 1.
SeqInv ==
    /\ otadata[0] # 0
    /\ otadata[1] = 0 => ~factory /\ otadata[0] >= 1

\* Who is at work, and what it knows.
StageInv ==
    /\ pc \in FormatPcs => ~factory
    /\ pc \in FormatPcs \ {"fmt_write1"} => BothBlank
    /\ pc = "fmt_write1" => otadata[0] = 1 /\ otadata[1] = Blank
    /\ ~factory => AnyValid \/ (BothBlank /\ pc \in {"off"} \cup FormatPcs)
    /\ pc \in {"off"} \cup FormatPcs => running = None
    /\ pc \in {"app"} \cup SelectPcs \cup ResetPcs => running # None
    /\ pc \notin SelectPcs \cup ResetPcs => job = NoJob
    /\ pc \in ResetPcs => job.target = Factory /\ job.old \in AllParts
    /\ pc = "rst_erase1" => otadata[0] = Blank

\* A selection is about to replace the older entry, or the first one.
SelectInv ==
    pc \in SelectPcs =>
      /\ job.target \in Slots /\ job.seq >= 1 /\ SlotOf(job.seq) = job.target
      /\ IF ota_select_valid(Other)
         THEN /\ otadata[Other] >= 1 /\ SlotOf(otadata[Other]) = job.old
              /\ otadata[Other] <= job.seq /\ otadata[job.sec] <= otadata[Other]
         ELSE factory /\ job.old = Factory /\ ~AnyValid

SafeInv == SeqInv /\ StageInv /\ SelectInv

\* The third part: there is an image where the next boot, whenever it is, looks.
ImageInv ==
    /\ pc # "halt"
    /\ pc \notin ResetPcs => NextBoot \in valid
    /\ pc \in SelectPcs \cup ResetPcs => job.target \in valid

IInv ==
    /\ AnyInv
    /\ OnlySelections => SafeInv
    /\ OnlySelections /\ Careful => ImageInv
-----------------------------------------------------------------------------
(* What the operators return.                                              *)

LEMMA EntryFacts ==
    ASSUME TypeOK
    PROVE  /\ otadata[0] \in Int /\ otadata[0] >= BadCrc /\ otadata[0] <= MaxSeq
           /\ otadata[1] \in Int /\ otadata[1] >= BadCrc /\ otadata[1] <= MaxSeq
           /\ MaxSeq \in Nat
           /\ \A s \in {0, 1} : otadata[s] \in Entries /\ (otadata[s] >= 0 => otadata[s] \in 0 .. MaxSeq)
BY OtaAssumption DEF TypeOK, Entries, Blank, BadCrc

LEMMA LatestFacts ==
    ASSUME TypeOK, AnyValid
    PROVE  LatestSeq \in 0 .. MaxSeq /\ LatestSeq >= otadata[0] /\ LatestSeq >= otadata[1]
BY EntryFacts DEF AnyValid, LatestSeq, MaxOf, ota_select_valid

LEMMA PartFacts ==
    /\ Slots \subseteq Nat /\ 0 \in Slots /\ Slots \subseteq AllParts
    /\ Factory \in AllParts /\ Factory \notin Slots
    /\ None \notin AllParts /\ None # Factory /\ Test \notin Slots /\ None # Test /\ Test # Factory
BY OtaAssumption DEF Slots, AllParts, Factory, None, Test

LEMMA NextBootFacts ==
    ASSUME TypeOK
    PROVE  /\ BothBlank => NextBoot = DefaultApp
           /\ AnyValid => ~BothBlank /\ NextBoot = SlotOf(LatestSeq) /\ NextBoot \in Slots
           /\ ~AnyValid /\ ~BothBlank => NextBoot = IF factory THEN Factory ELSE None
           /\ DefaultApp \in AllParts
           /\ NextBoot \in AllParts \cup {None}
<1>1. AnyValid => ~BothBlank
    BY DEF AnyValid, BothBlank, Blank, ota_select_valid
<1>2. DefaultApp \in AllParts
    BY PartFacts DEF DefaultApp
<1>3. AnyValid => SlotOf(LatestSeq) \in Slots
    BY LatestFacts, SlotRange, OtaAssumption
<1>4. CASE BothBlank
    BY <1>1, <1>2, <1>4 DEF NextBoot
<1>5. CASE AnyValid
    BY <1>1, <1>2, <1>3, <1>5, PartFacts DEF NextBoot
<1>6. CASE ~AnyValid /\ ~BothBlank
    BY <1>2, <1>6, PartFacts DEF NextBoot
<1> QED BY <1>4, <1>5, <1>6

\* What esp_rewrite_ota_data() computes for the OTA slot sub.
LEMMA RewriteFacts ==
    ASSUME TypeOK, NEW sub \in Slots
    PROVE  /\ RewriteSeq(sub) \in Nat
           /\ AnyValid => RewriteSeq(sub) >= LatestSeq
           /\ (AnyValid => LatestSeq > 0) => RewriteSeq(sub) > 0 /\ SlotOf(RewriteSeq(sub)) = sub
<1>1. CASE AnyValid
  <2>1. LatestSeq \in Nat
    BY <1>1, LatestFacts, OtaAssumption
  <2> QED BY <1>1, <2>1, NextSeqFacts DEF RewriteSeq
<1>2. CASE ~AnyValid
    BY <1>2, FirstSeqFacts DEF RewriteSeq
<1> QED BY <1>1, <1>2

\* The sector it picks is not the one that decides what is booted.
LEMMA SectorFacts ==
    ASSUME TypeOK
    PROVE  /\ RewriteSector \in {0, 1}
           /\ AnyValid => /\ ota_select_valid(1 - RewriteSector)
                          /\ otadata[1 - RewriteSector] = LatestSeq
                          /\ otadata[RewriteSector] <= LatestSeq
<1>1. RewriteSector \in {0, 1}
    BY DEF RewriteSector
<1>2. CASE RewriteSector = 0
    BY <1>2, EntryFacts DEF RewriteSector, AnyValid, LatestSeq, MaxOf, ota_select_valid
<1>3. CASE RewriteSector = 1
    BY <1>3, EntryFacts DEF RewriteSector, AnyValid, LatestSeq, MaxOf, ota_select_valid
<1> QED BY <1>1, <1>2, <1>3

-----------------------------------------------------------------------------
(* Every configuration: types, and where valid entries are.                *)

Jobs == [target : AllParts \cup {None}, old : AllParts \cup {None}, seq : 0 .. MaxSeq,
         sec : {0, 1}, err : BOOLEAN]
Pcs == {"off", "app", "halt"} \cup Rewriting

LEMMA NoJobType == NoJob \in Jobs /\ NoJob.target = None
BY OtaAssumption DEF NoJob, Jobs

LEMMA EntryTypes == {Blank, BadCrc, 0, 1} \subseteq Entries
BY OtaAssumption DEF Entries

\* A step that rewrites a sector, or none, keeps the types of the OTA data.
LEMMA WriteEntry ==
    ASSUME TypeOK, NEW s \in {0, 1}, NEW e \in Entries, otadata' = [otadata EXCEPT ![s] = e]
    PROVE  /\ otadata' \in [{0, 1} -> Entries]
           /\ otadata'[s] = e /\ otadata'[1 - s] = otadata[1 - s] /\ 1 - s \in {0, 1} \ {s}
BY DEF TypeOK

LEMMA AnyInit == Init => AnyInv
<1> SUFFICES ASSUME Init PROVE AnyInv
    OBVIOUS
<1>1. valid \subseteq AllParts
    BY PartFacts DEF Init, DefaultApp, AllParts
<1>2. TypeOK
    BY <1>1, NoJobType, EntryTypes, OtaAssumption DEF Init, TypeOK, Jobs
<1>3. EntryInv
    BY DEF Init, EntryInv, SelectPcs, ResetPcs
<1> QED BY <1>2, <1>3 DEF AnyInv

LEMMA LoadFacts ==
    ASSUME TypeOK, NEW p, Load(p)
    PROVE  /\ pc' \in {"app", "halt"} /\ running' \in AllParts \cup {None}
           /\ pc' = "app" => p \in valid /\ running' = p /\ p \in AllParts
           /\ pc' = "halt" => p \notin valid /\ running' = None
BY DEF Load, TypeOK

LEMMA AnyStep ==
    ASSUME AnyInv, [Next]_vars
    PROVE  AnyInv'
<1> USE DEF FormatPcs, SelectPcs, ResetPcs
<1>0. TypeOK /\ EntryInv /\ factory' = factory
    BY DEF AnyInv, Next, vars
<1> USE <1>0
<1>1. CASE PowerOn
  <2>1. CASE BothBlank /\ ~factory
    BY <1>1, <2>1 DEF PowerOn, AnyInv, TypeOK, EntryInv, Rewriting
  <2>2. CASE ~(BothBlank /\ ~factory)
    <3>1. Load(NextBoot) /\ UNCHANGED <<otadata, valid, job, ret, updates, hits>>
      BY <1>1, <2>2 DEF PowerOn
    <3>2. ~factory /\ NextBoot # None => AnyValid
      BY <2>2, NextBootFacts
    <3>3. ~factory /\ pc' = "app" => AnyValid
      BY <3>1, <3>2, LoadFacts, PartFacts
    <3>4. ~factory /\ pc' = "app" => AnyValid'
      BY <3>1, <3>3 DEF AnyValid, ota_select_valid
    <3> QED BY <3>1, <3>4, LoadFacts DEF AnyInv, TypeOK, EntryInv
  <2> QED BY <2>1, <2>2
<1>2. CASE FmtErase0
    BY <1>2, WriteEntry, EntryTypes DEF FmtErase0, Format, AnyInv, TypeOK, EntryInv, Rewriting
<1>3. CASE FmtErase1
    BY <1>3, WriteEntry, EntryTypes DEF FmtErase1, Format, AnyInv, TypeOK, EntryInv, Rewriting
<1>4. CASE FmtWrite0
    BY <1>4, WriteEntry, EntryTypes DEF FmtWrite0, Format, AnyInv, TypeOK, EntryInv, Rewriting
<1>5. CASE FmtWrite1
  <2>1. pc' \in {"app", "halt"} /\ running' \in AllParts \cup {None}
    BY <1>5, LoadFacts DEF FmtWrite1, TypeOK
  <2>2. otadata' \in [{0, 1} -> Entries] /\ otadata'[1] = 0
    BY <1>5, WriteEntry, EntryTypes DEF FmtWrite1
  <2>3. AnyValid'
    BY <2>2 DEF AnyValid, ota_select_valid
  <2> QED BY <1>5, <2>1, <2>2, <2>3, NoJobType DEF FmtWrite1, AnyInv, TypeOK, EntryInv, Jobs
<1>6. ASSUME NEW p \in Parts, SetBoot(p) PROVE AnyInv'
  <2>1. NextBoot \in AllParts \cup {None} /\ p \in AllParts /\ (p = Factory => factory)
    BY NextBootFacts DEF Parts
  <2>2. CASE p = Factory
    <3>1. job' \in Jobs
      BY <1>6, <2>1, <2>2, NoJobType DEF SetBoot, Jobs, NoJob
    <3> QED BY <1>6, <2>1, <2>2, <3>1 DEF SetBoot, AnyInv, TypeOK, EntryInv, Rewriting, Jobs
  <2>3. CASE p # Factory
    <3>1. SUB_TYPE_ID(p) \in Slots
      BY <2>1, <2>3, PartFacts DEF SUB_TYPE_ID, AllParts
    <3>2. RewriteSeq(SUB_TYPE_ID(p)) \in Nat /\ RewriteSector \in {0, 1}
      BY <3>1, RewriteFacts, SectorFacts
    <3>3. /\ job' = [target |-> p, old |-> NextBoot, seq |-> RewriteSeq(SUB_TYPE_ID(p)),
                     sec |-> RewriteSector, err |-> FALSE]
          /\ RewriteSeq(SUB_TYPE_ID(p)) <= MaxSeq /\ pc' = "sel_erase"
          /\ UNCHANGED <<otadata, valid, running, updates, hits>>
          /\ pc = "app" /\ ret' = "none"
      BY <1>6, <2>3 DEF SetBoot
    <3>4. job' \in Jobs
      BY <2>1, <3>2, <3>3, OtaAssumption DEF Jobs
    <3>5. ~factory => ota_select_valid(Other)'
      <4>1. ~factory => ota_select_valid(1 - RewriteSector)
        BY <3>3, SectorFacts DEF EntryInv
      <4>2. job'.sec = RewriteSector
        BY <3>3
      <4> QED BY <3>3, <4>1, <4>2 DEF ota_select_valid, Other
    <3> QED BY <3>3, <3>4, <3>5 DEF AnyInv, TypeOK, EntryInv, Rewriting, Jobs
  <2> QED BY <2>2, <2>3
<1>7. CASE SelErase
  <2>1. job.sec \in {0, 1} /\ Other \in {0, 1} \ {job.sec} /\ otadata'[Other] = otadata[Other]
    BY <1>7, EntryTypes DEF SelErase, TypeOK, Other
  <2>2. otadata' \in [{0, 1} -> Entries]
    BY <1>7, <2>1, WriteEntry, EntryTypes DEF SelErase
  <2>3. ~factory => ota_select_valid(Other)'
    BY <1>7, <2>1 DEF SelErase, EntryInv, ota_select_valid, Other
  <2> QED BY <1>7, <2>2, <2>3 DEF SelErase, AnyInv, TypeOK, EntryInv, Rewriting
<1>8. CASE SelWrite
  <2>1. job.sec \in {0, 1} /\ job.seq \in 0 .. MaxSeq /\ job.seq \in Entries
    BY DEF TypeOK, Entries
  <2>2. otadata' \in [{0, 1} -> Entries] /\ otadata'[job.sec] = job.seq
    BY <1>8, <2>1, WriteEntry DEF SelWrite
  <2>3. AnyValid'
    BY <2>1, <2>2, OtaAssumption DEF AnyValid, ota_select_valid
  <2> QED BY <1>8, <2>2, <2>3, NoJobType DEF SelWrite, AnyInv, TypeOK, EntryInv, Jobs
<1>9. CASE ResetErase0
    BY <1>9, WriteEntry, EntryTypes DEF ResetErase0, AnyInv, TypeOK, EntryInv, Rewriting
<1>10. CASE ResetErase1
    BY <1>10, WriteEntry, EntryTypes, NoJobType DEF ResetErase1, AnyInv, TypeOK, EntryInv, Jobs
<1>u. ASSUME UNCHANGED <<otadata, running, pc, job, ret, hits>>, valid' \subseteq AllParts,
             updates' \in [Handles -> {NoUpdate} \cup Updates]
      PROVE  AnyInv'
    BY <1>u DEF AnyInv, TypeOK, EntryInv, AnyValid, ota_select_valid, Other
<1>p. ASSUME NEW p \in Slots, Programs(p) PROVE valid' \subseteq AllParts
    BY <1>p, PartFacts DEF Programs, TypeOK
<1>11. ASSUME NEW h \in Handles, NEW p \in Slots, OtaBegin(h, p) PROVE AnyInv'
  <2>1. valid' \subseteq AllParts
    BY <1>11 DEF OtaBegin, TypeOK
  <2>2. [part |-> p, wrote |-> FALSE, partial |-> FALSE] \in Updates
    BY DEF Updates
  <2>3. updates' \in [Handles -> {NoUpdate} \cup Updates]
    BY <1>11, <2>2 DEF OtaBegin, TypeOK
  <2> QED BY <1>11, <1>u, <2>1, <2>3 DEF OtaBegin
<1>12. ASSUME NEW h \in Handles, OtaWrite(h) PROVE AnyInv'
  <2>1. updates[h] \in Updates
    BY <1>12 DEF OtaWrite, TypeOK
  <2>2. valid' \subseteq AllParts
    <3>1. updates[h].part \in Slots
      BY <2>1 DEF Updates
    <3> QED BY <1>12, <1>p, <3>1 DEF OtaWrite, TypeOK
  <2>3. PICK r \in BOOLEAN :
            \/ updates' = [updates EXCEPT ![h] = [updates[h] EXCEPT !.wrote = TRUE, !.partial = r]]
            \/ updates' = [updates EXCEPT ![h] = [updates[h] EXCEPT !.partial = TRUE]]
    BY <1>12 DEF OtaWrite
  <2>4. /\ [updates[h] EXCEPT !.wrote = TRUE, !.partial = r] \in Updates
        /\ [updates[h] EXCEPT !.partial = TRUE] \in Updates
    BY <2>1, Zenon DEF Updates
  <2>5. updates' \in [Handles -> {NoUpdate} \cup Updates]
    BY <2>3, <2>4 DEF TypeOK
  <2> QED BY <1>12, <1>u, <2>2, <2>5 DEF OtaWrite
<1>13. ASSUME NEW h \in Handles, OtaEnd(h) PROVE AnyInv'
  <2>1. updates' \in [Handles -> {NoUpdate} \cup Updates]
    BY <1>13 DEF OtaEnd, TypeOK
  <2>2. updates[h].part \in Slots
    BY <1>13 DEF OtaEnd, TypeOK, Updates
  <2>3. valid' \subseteq AllParts
    BY <1>13, <1>p, <2>2 DEF OtaEnd, TypeOK
  <2> QED BY <1>13, <1>u, <2>1, <2>3 DEF OtaEnd
<1>14. CASE Restart
    BY <1>14, NoJobType DEF Restart, Restarted, AnyInv, TypeOK, EntryInv, Jobs
<1>15. CASE PowerCut
  <2>1. Sector \in {0, 1}
    BY DEF Sector, TypeOK
  <2>2. otadata' \in [{0, 1} -> Entries]
    BY <1>15, <2>1, EntryTypes DEF PowerCut, TypeOK
  <2>3. hits' \in 0 .. MaxInterrupts
    BY <1>15, OtaAssumption DEF PowerCut, MayInterrupt, TypeOK
  <2> QED BY <1>15, <2>2, <2>3, NoJobType DEF PowerCut, Restarted, AnyInv, TypeOK, EntryInv, Jobs
<1>16. CASE DriverError
  <2>1. hits' \in 0 .. MaxInterrupts
    BY <1>16, OtaAssumption DEF DriverError, MayInterrupt, TypeOK
  <2>2. job' \in Jobs
    BY <1>16, NoJobType DEF DriverError, TypeOK, Jobs
  <2>3. pc' \in {"app", "halt", "fmt_write1"} /\ (pc' = "app" => pc \in SelectPcs \cup ResetPcs)
    BY <1>16 DEF DriverError
  <2>4. ~factory /\ pc' = "app" => AnyValid'
    <3>1. job.sec \in {0, 1}
      BY DEF TypeOK
    <3>2. ~factory /\ pc \in SelectPcs => AnyValid
      BY <3>1 DEF EntryInv, AnyValid, Other
    <3> QED BY <1>16, <2>3, <3>2 DEF DriverError, EntryInv, AnyValid, ota_select_valid
  <2> QED BY <1>16, <2>1, <2>2, <2>3, <2>4 DEF DriverError, AnyInv, TypeOK, EntryInv, Rewriting, Jobs
<1>17. CASE UNCHANGED vars
    BY <1>17, <1>u DEF vars, TypeOK
<1> QED BY <1>1, <1>2, <1>3, <1>4, <1>5, <1>6, <1>7, <1>8, <1>9, <1>10, <1>11, <1>12, <1>13,
           <1>14, <1>15, <1>16, <1>17
        DEF Next, Bootloader, Rewrite, App
-----------------------------------------------------------------------------
(* The choice of the next boot, as a function of the two entries.          *)

BootOf(fac, a, b) ==
    IF a >= 0 \/ b >= 0
    THEN SlotOf(IF a >= 0 /\ b >= 0 THEN MaxOf(a, b) ELSE IF a >= 0 THEN a ELSE b)
    ELSE IF fac THEN Factory ELSE IF a = Blank /\ b = Blank THEN 0 ELSE None

LEMMA NextBootIs ==
    /\ NextBoot = BootOf(factory, otadata[0], otadata[1])
    /\ NextBoot' = BootOf(factory', otadata'[0], otadata'[1])
BY DEF NextBoot, BootOf, BothBlank, AnyValid, LatestSeq, ota_select_valid, DefaultApp, Blank

\* While a selection is in progress, the next boot is the one of before, whatever
\* the sector it works on is left with; and the new one once that is written.
LEMMA SelectionChoice ==
    ASSUME TypeOK, SelectInv, SeqInv, pc \in SelectPcs, factory' = factory
    PROVE  /\ job.old \in AllParts /\ NextBoot = job.old
           /\ \A e \in {otadata[job.sec], Blank, BadCrc} :
                 otadata' = [otadata EXCEPT ![job.sec] = e] =>
                    NextBoot' = job.old /\ SeqInv' /\ (~factory => AnyValid')
           /\ otadata' = [otadata EXCEPT ![job.sec] = job.seq] =>
                 NextBoot' = job.target /\ SeqInv' /\ AnyValid'
<1>0. /\ job.sec \in {0, 1} /\ Other = 1 - job.sec
      /\ job.target \in Slots /\ job.seq \in Nat /\ job.seq >= 1 /\ SlotOf(job.seq) = job.target
      /\ otadata \in [{0, 1} -> Int]
    BY OtaAssumption DEF TypeOK, SelectInv, Other, Entries, Blank, BadCrc
<1>1. IF otadata[1 - job.sec] >= 0
      THEN /\ otadata[1 - job.sec] >= 1 /\ SlotOf(otadata[1 - job.sec]) = job.old
           /\ otadata[1 - job.sec] <= job.seq /\ otadata[job.sec] <= otadata[1 - job.sec]
      ELSE factory /\ job.old = Factory /\ otadata[job.sec] < 0
    BY <1>0 DEF SelectInv, ota_select_valid, AnyValid
<1>2. job.old \in AllParts
  <2>1. otadata[1 - job.sec] \in Int
    BY <1>0
  <2>2. otadata[1 - job.sec] >= 0 => SlotOf(otadata[1 - job.sec]) \in Slots
    BY <2>1, SlotRange
  <2> QED BY <1>1, <2>2, PartFacts
<1>3. NextBoot = job.old
  <2>1. CASE job.sec = 0
    BY <1>0, <1>1, <2>1, NextBootIs DEF BootOf, MaxOf
  <2>2. CASE job.sec = 1
    BY <1>0, <1>1, <2>2, NextBootIs DEF BootOf, MaxOf
  <2> QED BY <1>0, <2>1, <2>2
<1>4. ASSUME NEW e \in {otadata[job.sec], Blank, BadCrc},
             otadata' = [otadata EXCEPT ![job.sec] = e]
      PROVE  NextBoot' = job.old /\ SeqInv' /\ (~factory => AnyValid')
  <2>1. CASE job.sec = 0
    <3>1. otadata'[0] = e /\ otadata'[1] = otadata[1]
      BY <1>0, <1>4, <2>1
    <3>2. NextBoot' = job.old
      BY <1>0, <1>1, <1>4, <2>1, <3>1, NextBootIs DEF BootOf, MaxOf, Blank, BadCrc
    <3> QED BY <1>0, <1>1, <1>4, <2>1, <3>1, <3>2 DEF SeqInv, Blank, BadCrc, AnyValid, ota_select_valid
  <2>2. CASE job.sec = 1
    <3>1. otadata'[1] = e /\ otadata'[0] = otadata[0]
      BY <1>0, <1>4, <2>2
    <3>2. NextBoot' = job.old
      BY <1>0, <1>1, <1>4, <2>2, <3>1, NextBootIs DEF BootOf, MaxOf, Blank, BadCrc
    <3> QED BY <1>0, <1>1, <1>4, <2>2, <3>1, <3>2 DEF SeqInv, Blank, BadCrc, AnyValid, ota_select_valid
  <2> QED BY <1>0, <2>1, <2>2
<1>5. ASSUME otadata' = [otadata EXCEPT ![job.sec] = job.seq]
      PROVE  NextBoot' = job.target /\ SeqInv' /\ AnyValid'
  <2>1. CASE job.sec = 0
    <3>1. otadata'[0] = job.seq /\ otadata'[1] = otadata[1]
      BY <1>0, <1>5, <2>1
    <3>2. NextBoot' = job.target
      BY <1>0, <1>1, <2>1, <3>1, NextBootIs DEF BootOf, MaxOf
    <3> QED BY <1>0, <1>1, <2>1, <3>1, <3>2 DEF SeqInv, AnyValid, ota_select_valid
  <2>2. CASE job.sec = 1
    <3>1. otadata'[1] = job.seq /\ otadata'[0] = otadata[0]
      BY <1>0, <1>5, <2>2
    <3>2. NextBoot' = job.target
      BY <1>0, <1>1, <2>2, <3>1, NextBootIs DEF BootOf, MaxOf
    <3> QED BY <1>0, <1>1, <2>2, <3>1, <3>2 DEF SeqInv, AnyValid, ota_select_valid
  <2> QED BY <1>0, <2>1, <2>2
<1> QED BY <1>2, <1>3, <1>4, <1>5

\* The bootloader initialises OTA data for ota_0, and reads ota_0 from it at
\* every step of that.
LEMMA FormatChoice ==
    ASSUME TypeOK, StageInv, pc \in FormatPcs, factory' = factory,
           FmtErase0 \/ FmtErase1 \/ FmtWrite0 \/ FmtWrite1
    PROVE  /\ NextBoot = 0 /\ NextBoot' = 0 /\ SeqInv'
           /\ pc = "fmt_write1" => AnyValid'
           /\ pc = "fmt_write0" => otadata'[0] = 1 /\ otadata'[1] = Blank
           /\ pc \in {"fmt_erase0", "fmt_erase1"} => BothBlank'
<1> USE DEF FormatPcs
<1>0. otadata \in [{0, 1} -> Int] /\ ~factory
    BY DEF TypeOK, StageInv, Entries, Blank, BadCrc
<1>1. SlotOf(1) = 0
  <2>1. 0 \in Slots /\ 0 + 1 = 1
    BY PartFacts
  <2> QED BY <2>1, FirstSeqFacts
<1>2. CASE pc = "fmt_erase0"
  <2>1. otadata[0] = Blank /\ otadata[1] = Blank /\ otadata'[0] = Blank /\ otadata'[1] = Blank
    BY <1>0, <1>2 DEF StageInv, BothBlank, FmtErase0, FmtErase1, FmtWrite0, FmtWrite1, Format
  <2> QED BY <1>0, <1>2, <2>1, NextBootIs DEF BootOf, SeqInv, BothBlank, Blank
<1>3. CASE pc = "fmt_erase1"
  <2>1. otadata[0] = Blank /\ otadata[1] = Blank /\ otadata'[0] = Blank /\ otadata'[1] = Blank
    BY <1>0, <1>3 DEF StageInv, BothBlank, FmtErase0, FmtErase1, FmtWrite0, FmtWrite1, Format
  <2> QED BY <1>0, <1>3, <2>1, NextBootIs DEF BootOf, SeqInv, BothBlank, Blank
<1>4. CASE pc = "fmt_write0"
  <2>1. otadata[0] = Blank /\ otadata[1] = Blank /\ otadata'[0] = 1 /\ otadata'[1] = Blank
    BY <1>0, <1>4 DEF StageInv, BothBlank, FmtErase0, FmtErase1, FmtWrite0, FmtWrite1, Format
  <2> QED BY <1>0, <1>1, <1>4, <2>1, NextBootIs DEF BootOf, SeqInv, Blank
<1>5. CASE pc = "fmt_write1"
  <2>1. otadata[0] = 1 /\ otadata[1] = Blank /\ otadata'[0] = 1 /\ otadata'[1] = 0
    BY <1>0, <1>5 DEF StageInv, FmtErase0, FmtErase1, FmtWrite0, FmtWrite1, Format
  <2> QED BY <1>0, <1>1, <1>5, <2>1, NextBootIs
          DEF BootOf, MaxOf, SeqInv, Blank, AnyValid, ota_select_valid
<1> QED BY <1>2, <1>3, <1>4, <1>5
-----------------------------------------------------------------------------
(* Only selections are interrupted: who is at work, and what it leaves.    *)

LEMMA SafeInit == Init => SafeInv
<1> SUFFICES ASSUME Init PROVE SafeInv
    OBVIOUS
<1>1. otadata[0] = Blank /\ otadata[1] = Blank /\ pc = "off" /\ job = NoJob /\ running = None
    BY DEF Init
<1> QED BY <1>1
    DEF SafeInv, SeqInv, StageInv, SelectInv, BothBlank, Blank, FormatPcs, SelectPcs, ResetPcs

\* The app is at rest, or the device is off or has given up.
LEMMA AtRest ==
    ASSUME OnlySelections, SeqInv', pc' \in {"off", "app", "halt"}, job' = NoJob,
           pc' = "off" => running' = None,
           pc' = "app" => running' # None,
           ~factory' => AnyValid' \/ (BothBlank' /\ pc' = "off")
    PROVE  SafeInv'
BY DEF SafeInv, StageInv, SelectInv, FormatPcs, SelectPcs, ResetPcs

LEMMA SafeStep ==
    ASSUME OnlySelections, AnyInv, SafeInv, [Next]_vars
    PROVE  SafeInv'
<1>0. TypeOK /\ EntryInv /\ SeqInv /\ StageInv /\ SelectInv /\ factory' = factory
    BY DEF AnyInv, SafeInv, Next, vars
<1> USE <1>0 DEF FormatPcs, SelectPcs, ResetPcs
<1>s. ASSUME otadata' = otadata
      PROVE  /\ SeqInv' /\ (AnyValid' <=> AnyValid) /\ (BothBlank' <=> BothBlank)
    BY <1>s DEF SeqInv, AnyValid, BothBlank, ota_select_valid
<1>r. ~factory => AnyValid \/ (BothBlank /\ pc \in {"off"} \cup FormatPcs)
    BY DEF StageInv
<1>1. CASE PowerOn
  <2>1. CASE BothBlank /\ ~factory
    <3>1. pc' = "fmt_erase0" /\ UNCHANGED <<otadata, running, job>> /\ running = None /\ job = NoJob
      BY <1>1, <2>1 DEF PowerOn, StageInv
    <3> QED BY <1>s, <2>1, <3>1 DEF SafeInv, StageInv, SelectInv
  <2>2. CASE ~(BothBlank /\ ~factory)
    <3>1. Load(NextBoot) /\ UNCHANGED <<otadata, job>> /\ job = NoJob
      BY <1>1, <2>2 DEF PowerOn, StageInv
    <3>2. /\ pc' \in {"app", "halt"} /\ (pc' = "app" => running' # None)
          /\ ~factory => AnyValid
      BY <1>1, <2>2, <3>1, LoadFacts, PartFacts DEF PowerOn, StageInv
    <3> QED BY <1>s, <3>1, <3>2, AtRest
  <2> QED BY <2>1, <2>2
<1>2. CASE FmtErase0
    BY <1>2, FormatChoice DEF FmtErase0, Format, SafeInv, StageInv, SelectInv
<1>3. CASE FmtErase1
    BY <1>3, FormatChoice DEF FmtErase1, Format, SafeInv, StageInv, SelectInv
<1>4. CASE FmtWrite0
  <2>1. otadata'[0] = 1 /\ otadata'[1] = Blank /\ SeqInv' /\ AnyValid'
    BY <1>4, FormatChoice DEF FmtWrite0, Format, AnyValid, ota_select_valid
  <2> QED BY <1>4, <2>1 DEF FmtWrite0, Format, SafeInv, StageInv, SelectInv
<1>5. CASE FmtWrite1
  <2>1. SeqInv' /\ AnyValid' /\ job' = NoJob
    BY <1>5, FormatChoice DEF FmtWrite1
  <2>2. ~job.err
    BY <1>5 DEF FmtWrite1, StageInv, NoJob
  <2>3. pc' \in {"app", "halt"} /\ (pc' = "app" => running' # None)
    BY <1>5, <2>2, LoadFacts, PartFacts DEF FmtWrite1
  <2> QED BY <2>1, <2>3, AtRest
<1>6. ASSUME NEW p \in Parts, SetBoot(p) PROVE SafeInv'
  <2>0. /\ pc = "app" /\ UNCHANGED <<otadata, running>> /\ running # None
        /\ ~factory => AnyValid
    BY <1>6, <1>r DEF SetBoot, StageInv
  <2>1. CASE p = Factory
    <3>1. pc' = "rst_erase0" /\ factory /\ job' = [NoJob EXCEPT !.target = p, !.old = NextBoot]
      BY <1>6, <2>1 DEF SetBoot, Parts
    <3>2. job'.target = Factory /\ job'.old = NextBoot
      BY <2>1, <3>1 DEF NoJob
    <3>3. NextBoot \in AllParts
      BY <3>1, NextBootFacts, PartFacts DEF DefaultApp
    <3> QED BY <1>s, <2>0, <3>1, <3>2, <3>3 DEF SafeInv, StageInv, SelectInv
  <2>2. CASE p # Factory
    <3>1. SUB_TYPE_ID(p) = p /\ p \in Slots
      BY <2>2, PartFacts DEF SUB_TYPE_ID, Parts, AllParts, OnlySelections
    <3>2. /\ job' = [target |-> p, old |-> NextBoot, seq |-> RewriteSeq(p),
                     sec |-> RewriteSector, err |-> FALSE]
          /\ pc' = "sel_erase"
      BY <1>6, <2>2, <3>1 DEF SetBoot
    <3>3. AnyValid => LatestSeq > 0
      BY EntryFacts DEF SeqInv, AnyValid, LatestSeq, MaxOf, ota_select_valid
    <3>4. RewriteSeq(p) \in Nat /\ RewriteSeq(p) > 0 /\ SlotOf(RewriteSeq(p)) = p
      BY <3>1, <3>3, RewriteFacts
    <3>5. Other' = 1 - RewriteSector /\ RewriteSector \in {0, 1} /\ job'.sec = RewriteSector
      BY <3>2, SectorFacts DEF Other
    <3>6. CASE AnyValid
      <4>1. /\ ota_select_valid(1 - RewriteSector) /\ otadata[1 - RewriteSector] = LatestSeq
            /\ otadata[RewriteSector] <= LatestSeq /\ LatestSeq <= RewriteSeq(p)
            /\ NextBoot = SlotOf(LatestSeq) /\ LatestSeq \in Nat
        BY <3>1, <3>6, SectorFacts, RewriteFacts, NextBootFacts, LatestFacts, OtaAssumption
      <4>2. ota_select_valid(Other)'
        BY <2>0, <3>5, <4>1 DEF ota_select_valid
      <4>3. SelectInv'
        BY <2>0, <3>1, <3>2, <3>3, <3>4, <3>5, <3>6, <4>1, <4>2 DEF SelectInv
      <4> QED BY <1>s, <2>0, <3>2, <3>6, <4>3 DEF SafeInv, StageInv
    <3>7. CASE ~AnyValid
      <4>1. factory /\ NextBoot = Factory
        BY <2>0, <3>7, NextBootFacts DEF DefaultApp
      <4>2. ~AnyValid' /\ ~ota_select_valid(Other)'
        BY <1>s, <2>0, <3>5, <3>7 DEF AnyValid, ota_select_valid
      <4>3. SelectInv'
        BY <2>0, <3>1, <3>2, <3>4, <4>1, <4>2 DEF SelectInv
      <4> QED BY <1>s, <2>0, <3>2, <4>1, <4>3 DEF SafeInv, StageInv
    <3> QED BY <3>6, <3>7
  <2> QED BY <2>1, <2>2
<1>7. CASE SelErase
  <2>1. /\ otadata' = [otadata EXCEPT ![job.sec] = Blank] /\ pc = "sel_erase" /\ pc' = "sel_write"
        /\ UNCHANGED <<job, running>>
    BY <1>7 DEF SelErase
  <2>2. SeqInv' /\ (~factory => AnyValid')
    BY <2>1, SelectionChoice
  <2>3. /\ job.sec \in {0, 1} /\ Other \in {0, 1} \ {job.sec} /\ Other' = Other
        /\ otadata'[Other] = otadata[Other] /\ otadata'[job.sec] = Blank
        /\ otadata[0] \in Int /\ otadata[1] \in Int
    BY <2>1, EntryFacts DEF TypeOK, Other
  <2>4. /\ ota_select_valid(Other)' <=> ota_select_valid(Other)
        /\ ~AnyValid => ~AnyValid'
    BY <2>3 DEF ota_select_valid, AnyValid, Blank
  <2>5. SelectInv'
    BY <2>1, <2>3, <2>4 DEF SelectInv, ota_select_valid, Blank
  <2> QED BY <2>1, <2>2, <2>5 DEF SafeInv, StageInv
<1>8. CASE SelWrite
  <2>1. SeqInv' /\ AnyValid'
    BY <1>8, SelectionChoice DEF SelWrite
  <2> QED BY <1>8, <2>1, AtRest DEF SelWrite, StageInv
<1>9. CASE ResetErase0
  <2>1. /\ factory /\ otadata'[0] = Blank /\ otadata'[1] = otadata[1] /\ pc' = "rst_erase1"
        /\ UNCHANGED <<job, running>> /\ pc = "rst_erase0"
    BY <1>9 DEF ResetErase0, StageInv, EntryInv, TypeOK
  <2> QED BY <2>1 DEF SafeInv, StageInv, SelectInv, SeqInv, Blank
<1>10. CASE ResetErase1
  <2>1. factory /\ otadata'[0] = Blank /\ otadata'[1] = Blank
    BY <1>10 DEF ResetErase1, StageInv, EntryInv, TypeOK
  <2>2. SeqInv'
    BY <2>1 DEF SeqInv, Blank
  <2> QED BY <1>10, <2>1, <2>2, AtRest DEF ResetErase1, StageInv
<1>11. ASSUME NEW h \in Handles, NEW p \in Slots, OtaBegin(h, p) PROVE SafeInv'
    BY <1>11, <1>s, <1>r, AtRest DEF OtaBegin, StageInv
<1>12. ASSUME NEW h \in Handles, OtaWrite(h) PROVE SafeInv'
    BY <1>12, <1>s, <1>r, AtRest DEF OtaWrite, StageInv
<1>13. ASSUME NEW h \in Handles, OtaEnd(h) PROVE SafeInv'
    BY <1>13, <1>s, <1>r, AtRest DEF OtaEnd, StageInv
<1>14. CASE Restart
    BY <1>14, <1>s, <1>r, AtRest DEF Restart, Restarted
<1>m. MayInterrupt => pc \in SelectPcs /\ Sector = job.sec
    BY DEF MayInterrupt, OnlySelections, Sector
<1>15. CASE PowerCut
  <2>1. PICK e \in {otadata[job.sec], Blank, BadCrc} : otadata' = [otadata EXCEPT ![job.sec] = e]
    BY <1>15, <1>m DEF PowerCut
  <2>2. SeqInv' /\ (~factory => AnyValid')
    BY <1>15, <1>m, <2>1, SelectionChoice DEF PowerCut
  <2> QED BY <1>15, <2>2, AtRest DEF PowerCut, Restarted
<1>16. CASE DriverError
  <2>1. pc \in SelectPcs /\ pc' = "app" /\ job' = NoJob /\ UNCHANGED <<otadata, running>>
    BY <1>16, <1>m DEF DriverError
  <2>2. (~factory => AnyValid) /\ running # None
    BY <2>1, <1>r DEF StageInv
  <2> QED BY <1>s, <2>1, <2>2, AtRest
<1>17. CASE UNCHANGED vars
  <2>1. UNCHANGED <<otadata, running, pc, job>>
    BY <1>17 DEF vars
  <2>2. StageInv'
    BY <1>s, <2>1 DEF StageInv
  <2>3. SelectInv'
    BY <2>1 DEF SelectInv, Other, ota_select_valid, AnyValid
  <2> QED BY <1>s, <2>1, <2>2, <2>3 DEF SafeInv
<1> QED BY <1>1, <1>2, <1>3, <1>4, <1>5, <1>6, <1>7, <1>8, <1>9, <1>10, <1>11, <1>12, <1>13,
           <1>14, <1>15, <1>16, <1>17
        DEF Next, Bootloader, Rewrite, App
-----------------------------------------------------------------------------
(* Careful clients: there is always an image to boot.                      *)

LEMMA ImageInit == Init => ImageInv
<1> SUFFICES ASSUME Init PROVE ImageInv
    OBVIOUS
<1>1. NextBoot = DefaultApp
    BY DEF Init, NextBoot, BothBlank
<1> QED BY <1>1 DEF Init, ImageInv, SelectPcs, ResetPcs

LEMMA SameChoice ==
    ASSUME otadata' = otadata, factory' = factory
    PROVE  NextBoot' = NextBoot
BY NextBootIs

\* A call of esp_ota_set_boot_partition() remembers what it was called for.
LEMMA SetBootJob ==
    ASSUME NEW p, SetBoot(p)
    PROVE  /\ job'.target = p /\ job'.old = NextBoot
           /\ pc' \in SelectPcs \cup ResetPcs
<1>1. CASE p = Factory
    BY <1>1 DEF SetBoot, NoJob, ResetPcs
<1>2. CASE p # Factory
    BY <1>2 DEF SetBoot, SelectPcs
<1> QED BY <1>1, <1>2

LEMMA ImageStep ==
    ASSUME OnlySelections, Careful, AnyInv, SafeInv, ImageInv, [Next]_vars
    PROVE  ImageInv'
<1>0. TypeOK /\ SeqInv /\ StageInv /\ SelectInv /\ factory' = factory
    BY DEF AnyInv, SafeInv, Next, vars
<1> USE <1>0 DEF FormatPcs, SelectPcs, ResetPcs
<1>1. CASE PowerOn
    BY <1>1, SameChoice DEF PowerOn, Load, ImageInv
<1>2. CASE FmtErase0 \/ FmtErase1 \/ FmtWrite0
    BY <1>2, FormatChoice DEF FmtErase0, FmtErase1, FmtWrite0, Format, ImageInv
<1>3. CASE FmtWrite1
  <2>1. ~job.err
    BY <1>3 DEF FmtWrite1, StageInv, NoJob
  <2> QED BY <1>3, <2>1, FormatChoice DEF FmtWrite1, Load, ImageInv
<1>4. ASSUME NEW p \in Parts, SetBoot(p) PROVE ImageInv'
  <2>1. /\ job'.target = p /\ p \in valid /\ valid' = valid /\ otadata' = otadata /\ pc = "app"
        /\ pc' \in SelectPcs \cup ResetPcs
    BY <1>4, SetBootJob DEF SetBoot
  <2> QED BY <2>1, SameChoice DEF ImageInv
<1>5. CASE SelErase
  <2>1. NextBoot' = NextBoot
    BY <1>5, SelectionChoice DEF SelErase
  <2> QED BY <1>5, <2>1 DEF SelErase, ImageInv
<1>6. CASE SelWrite
  <2>1. NextBoot' = job.target
    BY <1>6, SelectionChoice DEF SelWrite
  <2> QED BY <1>6, <2>1 DEF SelWrite, ImageInv
<1>7. CASE ResetErase0
    BY <1>7 DEF ResetErase0, ImageInv
<1>8. CASE ResetErase1
  <2>1. factory' /\ otadata'[0] = Blank /\ otadata'[1] = Blank /\ job.target = Factory
    BY <1>8 DEF ResetErase1, StageInv, AnyInv, EntryInv, TypeOK
  <2>2. NextBoot' = Factory
    BY <2>1, NextBootIs DEF BootOf, Blank
  <2> QED BY <1>8, <2>1, <2>2 DEF ResetErase1, ImageInv
<1>9. ASSUME NEW h \in Handles, NEW p \in Slots, OtaBegin(h, p) PROVE ImageInv'
    BY <1>9, SameChoice DEF OtaBegin, ImageInv
<1>10. ASSUME NEW h \in Handles, OtaWrite(h) PROVE ImageInv'
    BY <1>10, SameChoice DEF OtaWrite, Programs, ImageInv
<1>11. ASSUME NEW h \in Handles, OtaEnd(h) PROVE ImageInv'
    BY <1>11, SameChoice DEF OtaEnd, Programs, ImageInv
<1>12. CASE Restart
    BY <1>12, SameChoice DEF Restart, Restarted, ImageInv
<1>m. MayInterrupt => pc \in SelectPcs /\ Sector = job.sec
    BY DEF MayInterrupt, OnlySelections, Sector
<1>13. CASE PowerCut
  <2>1. NextBoot' = NextBoot /\ pc \in SelectPcs
    BY <1>13, <1>m, SelectionChoice DEF PowerCut
  <2> QED BY <1>13, <2>1 DEF PowerCut, Restarted, ImageInv
<1>14. CASE DriverError
    BY <1>14, <1>m, SameChoice DEF DriverError, ImageInv
<1>15. CASE UNCHANGED vars
    BY <1>15, SameChoice DEF vars, ImageInv
<1> QED BY <1>1, <1>2, <1>3, <1>4, <1>5, <1>6, <1>7, <1>8, <1>9, <1>10, <1>11, <1>12, <1>13,
           <1>14, <1>15
        DEF Next, Bootloader, Rewrite, App

LEMMA Inductive == Spec => []IInv
<1>1. Init => IInv
    BY AnyInit, SafeInit, ImageInit DEF IInv
<1>2. IInv /\ [Next]_vars => IInv'
    BY AnyStep, SafeStep, ImageStep DEF IInv
<1> QED BY <1>1, <1>2, PTL DEF Spec

-----------------------------------------------------------------------------
(* Every step is a step of BootChoice, or one it does not see.             *)

LEMMA ChoiceStep ==
    ASSUME OnlySelections, AnyInv, SafeInv, [Next]_vars
    PROVE  [BC!Next]_(BC!vars)
<1> DEFINE chosen == IF Selecting THEN job.old ELSE NextBoot
<1>0. TypeOK /\ SeqInv /\ StageInv /\ SelectInv /\ factory' = factory
    BY DEF AnyInv, SafeInv, Next, vars
<1> USE <1>0 DEF FormatPcs, SelectPcs, ResetPcs
<1>n. NoJob.target = None
    BY DEF NoJob
<1>s. ASSUME chosen' = chosen, job'.target = job.target, running' = running, ret' = ret
      PROVE  UNCHANGED BC!vars
    BY <1>s DEF BC!vars
<1>b. ASSUME chosen' = chosen, job'.target = job.target, running = None,
             running' \in {None, chosen}, ret' = ret
      PROVE  [BC!Next]_(BC!vars)
  <2>1. CASE running' = None
    BY <1>b, <1>s, <2>1
  <2>2. CASE running' = chosen
    BY <1>b, <2>2 DEF BC!Next, BC!Boot
  <2> QED BY <1>b, <2>1, <2>2
<1>r. ASSUME chosen' = chosen, chosen # None, job'.target = None, running' = None,
             ret' = "none"
      PROVE  [BC!Next]_(BC!vars)
    BY <1>r DEF BC!Next, BC!Restart
<1>1. CASE PowerOn
  <2>1. pc = "off" /\ running = None /\ UNCHANGED <<otadata, job, ret>>
    BY <1>1 DEF PowerOn, StageInv
  <2>2. chosen = NextBoot /\ chosen' = NextBoot'
    BY <1>1, <2>1 DEF Selecting, PowerOn, Load
  <2>3. running' \in {None, chosen}
    BY <1>1, <2>1, <2>2 DEF PowerOn, Load
  <2> QED BY <1>b, <2>1, <2>2, <2>3, SameChoice
<1>2. CASE FmtErase0 \/ FmtErase1 \/ FmtWrite0
  <2>1. NextBoot' = NextBoot /\ chosen = NextBoot /\ chosen' = NextBoot'
    BY <1>2, FormatChoice DEF FmtErase0, FmtErase1, FmtWrite0, Format, Selecting
  <2> QED BY <1>2, <1>s, <2>1 DEF FmtErase0, FmtErase1, FmtWrite0, Format
<1>3. CASE FmtWrite1
  <2>1. running = None /\ job = NoJob /\ job' = NoJob /\ ret' = ret
    BY <1>3 DEF FmtWrite1, StageInv
  <2>2. NextBoot' = NextBoot /\ chosen = NextBoot /\ chosen' = NextBoot' /\ NextBoot = 0
    BY <1>3, FormatChoice DEF FmtWrite1, Load, Selecting
  <2>3. running' \in {None, chosen}
    BY <1>3, <2>1, <2>2 DEF FmtWrite1, Load
  <2> QED BY <1>b, <2>1, <2>2, <2>3
<1>4. ASSUME NEW p \in Parts, SetBoot(p) PROVE [BC!Next]_(BC!vars)
  <2>1. pc = "app" /\ running # None /\ job.target = None /\ chosen = NextBoot /\ running' = running
        /\ ret' = "none"
    BY <1>4, <1>n DEF SetBoot, StageInv, Selecting
  <2>2. pc' \in SelectPcs \cup ResetPcs /\ job'.target = p /\ job'.old = NextBoot
    BY <1>4, SetBootJob
  <2>3. chosen' = chosen /\ p \in AllParts
    BY <2>1, <2>2 DEF Selecting, Parts
  <2>4. BC!Request(p)
    BY <2>1, <2>2, <2>3 DEF BC!Request
  <2> QED BY <2>3, <2>4 DEF BC!Next
<1>5. CASE SelErase
    BY <1>5, <1>s DEF SelErase, Selecting
<1>6. CASE SelWrite
  <2>1. NextBoot' = job.target /\ job.target # None /\ chosen' = NextBoot' /\ job'.target = None
    BY <1>6, <1>n, SelectionChoice, PartFacts DEF SelWrite, SelectInv, Selecting
  <2>2. BC!Commit
    BY <1>6, <2>1 DEF SelWrite, BC!Commit
  <2> QED BY <2>2 DEF BC!Next
<1>7. CASE ResetErase0
    BY <1>7, <1>s DEF ResetErase0, Selecting
<1>8. CASE ResetErase1
  <2>1. factory' /\ otadata'[0] = Blank /\ otadata'[1] = Blank /\ job.target = Factory
    BY <1>8 DEF ResetErase1, StageInv, AnyInv, EntryInv, TypeOK
  <2>2. NextBoot' = Factory
    BY <2>1, NextBootIs DEF BootOf, Blank
  <2>3. /\ chosen' = job.target /\ job.target # None /\ job'.target = None /\ running' = running
        /\ ret' = "ESP_OK"
    BY <1>8, <1>n, <2>1, <2>2, PartFacts DEF ResetErase1, Selecting
  <2>4. BC!Commit
    BY <2>3 DEF BC!Commit
  <2> QED BY <2>4 DEF BC!Next
<1>u. ASSUME UNCHANGED <<otadata, pc, job, running, ret>> PROVE [BC!Next]_(BC!vars)
    BY <1>u, <1>s, SameChoice DEF Selecting
<1>9. ASSUME NEW h \in Handles, NEW p \in Slots, OtaBegin(h, p) PROVE [BC!Next]_(BC!vars)
    BY <1>9, <1>u DEF OtaBegin
<1>10. ASSUME NEW h \in Handles, OtaWrite(h) PROVE [BC!Next]_(BC!vars)
    BY <1>10, <1>u DEF OtaWrite
<1>11. ASSUME NEW h \in Handles, OtaEnd(h) PROVE [BC!Next]_(BC!vars)
    BY <1>11, <1>u DEF OtaEnd
<1>12. CASE Restart
  <2>1. chosen = NextBoot /\ chosen' = NextBoot' /\ NextBoot' = NextBoot
    BY <1>12, SameChoice DEF Restart, Restarted, Selecting
  <2>2. NextBoot # None
    BY <1>12, NextBootFacts, PartFacts DEF Restart, StageInv
  <2> QED BY <1>12, <1>n, <1>r, <2>1, <2>2 DEF Restart, Restarted
<1>m. MayInterrupt => pc \in SelectPcs /\ Sector = job.sec
    BY DEF MayInterrupt, OnlySelections, Sector
<1>13. CASE PowerCut
  <2>1. NextBoot' = job.old /\ job.old # None /\ pc \in SelectPcs
    BY <1>13, <1>m, SelectionChoice, PartFacts DEF PowerCut
  <2>2. chosen = job.old /\ chosen' = NextBoot'
    BY <1>13, <2>1 DEF PowerCut, Restarted, Selecting
  <2> QED BY <1>13, <1>n, <1>r, <2>1, <2>2 DEF PowerCut, Restarted
<1>14. CASE DriverError
  <2>1. /\ pc \in SelectPcs /\ pc' = "app" /\ job' = NoJob /\ UNCHANGED <<otadata, running>>
        /\ ret' = "error"
    BY <1>14, <1>m DEF DriverError
  <2>2. NextBoot' = job.old /\ chosen = job.old /\ chosen' = NextBoot'
    BY <2>1, SelectionChoice, SameChoice DEF Selecting
  <2>3. job.target # None
    BY <2>1, PartFacts DEF SelectInv
  <2>4. BC!Fail
    BY <1>n, <2>1, <2>2, <2>3 DEF BC!Fail
  <2> QED BY <2>4 DEF BC!Next
<1>15. CASE UNCHANGED vars
    BY <1>15, <1>u DEF vars
<1> QED BY <1>1, <1>2, <1>3, <1>4, <1>5, <1>6, <1>7, <1>8, <1>9, <1>10, <1>11, <1>12, <1>13,
           <1>14, <1>15
        DEF Next, Bootloader, Rewrite, App

-----------------------------------------------------------------------------
(* The theorems.                                                           *)

(* OTA data, the call in progress and the open updates keep their types:   *)
(* in particular esp_rewrite_ota_data() finds a number to write for every  *)
(* slot, whatever was interrupted before.                                  *)
THEOREM OtaTypeCorrect == Spec => []TypeOK
<1>1. IInv => TypeOK
    BY DEF IInv, AnyInv
<1> QED BY <1>1, Inductive, PTL

(* While the app runs, esp_ota_get_boot_partition() names the partition    *)
(* that bootloader_main() is going to load, whatever was interrupted       *)
(* before, the initialisation of OTA data and its erasure included.        *)
THEOREM AppIsToldTheTruth == Spec => []BootPartitionAgrees
<1>1. ASSUME AnyInv, pc = "app" PROVE esp_ota_get_boot_partition = NextBoot
  <2>1. ~factory => AnyValid
    BY <1>1 DEF AnyInv, EntryInv
  <2>2. AnyValid => ~BothBlank
    BY DEF AnyValid, BothBlank, Blank, ota_select_valid
  <2> QED BY <2>1, <2>2 DEF esp_ota_get_boot_partition, NextBoot, DefaultApp
<1>2. IInv => BootPartitionAgrees
    BY <1>1 DEF IInv, BootPartitionAgrees
<1> QED BY <1>2, Inductive, PTL

(* unpack_load_app() always finds an image that verifies, if nothing but   *)
(* selections of OTA slots is interrupted and clients of esp_ota_begin()   *)
(* leave the app alone that is to be booted next.                          *)
THEOREM AlwaysBoots ==
    ASSUME OnlySelections, Careful
    PROVE  Spec => []NeverHalted
<1>1. IInv => NeverHalted
    BY DEF IInv, ImageInv, NeverHalted
<1> QED BY <1>1, Inductive, PTL

(* esp_ota_set_boot_partition() and bootloader_main() together implement   *)
(* the abstract choice of the next boot, for any number of slots and       *)
(* interrupted selections: a call that fails or is cut off leaves the old  *)
(* choice, a call that returns ESP_OK has made the new one, and a restart  *)
(* boots the choice.                                                       *)
THEOREM SelectingIsAtomic ==
    ASSUME OnlySelections
    PROVE  Spec => ImplementsBootChoice
<1>1. Init => BC!Init
  <2> SUFFICES ASSUME Init PROVE BC!Init
    OBVIOUS
  <2>1. NextBoot = DefaultApp /\ ~Selecting
    BY DEF Init, NextBoot, BothBlank, Selecting, SelectPcs, ResetPcs
  <2>2. DefaultApp \in AllParts
    BY PartFacts DEF DefaultApp
  <2> QED BY <2>1, <2>2 DEF Init, NoJob, BC!Init
<1>2. IInv /\ [Next]_vars => [BC!Next]_(BC!vars)
    BY ChoiceStep DEF IInv
<1> QED BY <1>1, <1>2, Inductive, PTL DEF Spec, ImplementsBootChoice, BC!Spec
=============================================================================
