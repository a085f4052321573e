------------------------------ MODULE RingMem -------------------------------
(***************************************************************************)
(* The memory of a ring buffer (freertos/ringbuf.c) and what is done to it *)
(* under the spinlock rb->mux: copying an item in, handing out the next    *)
(* one, taking one back.                                                   *)
(*                                                                         *)
(* Offsets and lengths are in bytes.  A cell of the memory is a word of    *)
(* four bytes, or a byte in a byte buffer.  It holds a field of a header   *)
(* or a piece of the data of an item, known by the item and its offset.    *)
(***************************************************************************)
EXTENDS Integers, Sequences

Kinds == {"nosplit", "allowsplit", "bytebuf"}

Word == 4
Hdr == 2 * Word   \* sizeof(buf_entry_hdr_t): len, then flags

InUse == 0
Free == 1         \* iflag_free
Dummy == 2        \* iflag_dummydata

Unit(rb) == IF rb.kind = "bytebuf" THEN 1 ELSE Word
Align(n) == ((n + Word - 1) \div Word) * Word

Garbage == [is |-> "garbage", a |-> 0, b |-> 0]
LenCell(n) == [is |-> "len", a |-> n, b |-> 0]
FlagsCell(f) == [is |-> "flags", a |-> f, b |-> 0]
DataCell(item, at) == [is |-> "data", a |-> item, b |-> at]

len(rb, p) == rb.mem[p].a
flags(rb, p) == rb.mem[p + Word].a
IsHeader(rb, p) == rb.mem[p].is = "len" /\ rb.mem[p + Word].is = "flags"
IsDummy(rb, p) == flags(rb, p) = Dummy

(* xRingbufferCreate() *)
Create(kind, size) ==
    LET unit == IF kind = "bytebuf" THEN 1 ELSE Word
    IN  [kind |-> kind, size |-> size, read |-> 0, write |-> 0, free |-> 0,
         mem |-> [o \in {p \in 0..(size - 1) : p % unit = 0} |-> Garbage]]

MaxItemSize(rb) ==
    CASE rb.kind = "nosplit"    -> (rb.size \div 2) - Hdr - 4
      [] rb.kind = "allowsplit" -> rb.size - (Hdr * 2) - 4
      [] rb.kind = "bytebuf"    -> rb.size - 1

(* What if no byte stayed in reserve? *)
FreeMem_NoReserve(rb) ==
    LET free_size == rb.free - rb.write
    IN  IF free_size <= 0 THEN free_size + rb.size ELSE free_size

(* ringbufferFreeMem(): one byte stays in reserve. *)
FreeMem(rb) ==
    LET free_size == rb.free - rb.write
    IN  (IF free_size <= 0 THEN free_size + rb.size ELSE free_size) - 1

(* What if it went to the very end? *)
Forward_AtEnd(rb, p) == IF rb.size - p < 0 THEN 0 ELSE p

(* A pointer starts again where no header fits any more. *)
Forward(rb, p) == IF rb.size - p < Hdr THEN 0 ELSE p

SkipEntry(rb, p) == Forward(rb, p + Hdr + Align(len(rb, p)))

-----------------------------------------------------------------------------
(* Copying in. *)

Rest(rb) == rb.size - rb.write
Entry(n) == Hdr + Align(n)

FitsNoSplit(rb, n) ==
    IF Rest(rb) < Entry(n)
    THEN rb.free >= Entry(n) + 4 /\ rb.free <= rb.write
    ELSE FreeMem(rb) >= Entry(n)

FitsAllowSplit(rb, n) ==
    FreeMem(rb) >= IF Rest(rb) < Entry(n) THEN Hdr + Entry(n) ELSE Entry(n)

(* The header and n bytes of the item, from offset at, go to write_ptr. *)
WriteEntry(rb, item, at, n) ==
    LET w == rb.write
    IN  [rb EXCEPT
          !.mem = [o \in DOMAIN @ |->
                     CASE o = w        -> LenCell(n)
                       [] o = w + Word -> FlagsCell(InUse)
                       [] o \in (w + Hdr)..(w + Hdr + n - 1)
                                       -> DataCell(item, at + (o - w - Hdr))
                       [] OTHER        -> @[o]],
          !.write = Forward(rb, @ + Entry(n))]

(* What if the room that is given up were not marked? *)
FillWithDummy_Unmarked(rb) == [rb EXCEPT !.write = 0]

(* The room that is left before the end is given up. *)
FillWithDummy(rb) ==
    [rb EXCEPT !.mem[rb.write + Word] = FlagsCell(Dummy), !.write = 0]

CopyNoSplit(rb, item, n) ==
    WriteEntry(IF Rest(rb) < Entry(n) THEN FillWithDummy(rb) ELSE rb,
               item, 0, n)

CopyAllowSplit(rb, item, n) ==
    LET first == Rest(rb) - Hdr
    IN  CASE Rest(rb) >= Entry(n) -> WriteEntry(rb, item, 0, n)
          [] first = 0 -> WriteEntry(FillWithDummy(rb), item, 0, n)
          [] OTHER -> WriteEntry(WriteEntry(rb, item, 0, first),
                                 item, first, n - first)

(* There is no check here whether there is room. *)
CopyByteBuf(rb, item, n) ==
    [rb EXCEPT
      !.mem = [o \in DOMAIN @ |->
                 LET at == (o - rb.write) % rb.size
                 IN  IF at < n THEN DataCell(item, at) ELSE @[o]],
      !.write = (@ + n) % rb.size]

Fits(rb, n) ==
    CASE rb.kind = "nosplit"    -> FitsNoSplit(rb, n)
      [] rb.kind = "allowsplit" -> FitsAllowSplit(rb, n)
      [] rb.kind = "bytebuf"    -> TRUE

CopyItem(rb, item, n) ==
    CASE rb.kind = "nosplit"    -> CopyNoSplit(rb, item, n)
      [] rb.kind = "allowsplit" -> CopyAllowSplit(rb, item, n)
      [] rb.kind = "bytebuf"    -> CopyByteBuf(rb, item, n)

-----------------------------------------------------------------------------
(* Handing out.  A byte buffer has one part out at a time. *)

HasItem(rb) ==
    /\ rb.kind = "bytebuf" => rb.read = rb.free
    /\ rb.read # rb.write

(* What the next call hands out, and where the read pointer goes. *)
GetItemDefault(rb) ==
    LET at == IF IsDummy(rb, rb.read) THEN 0 ELSE rb.read
    IN  [ptr |-> at + Hdr, len |-> len(rb, at), next |-> SkipEntry(rb, at)]

GetItemByteBuf(rb, wanted) ==
    LET wraps == rb.read > rb.write
        avail == (IF wraps THEN rb.size ELSE rb.write) - rb.read
    IN  IF wanted # 0 /\ avail > wanted
        THEN [ptr |-> rb.read, len |-> wanted, next |-> rb.read + wanted]
        ELSE [ptr |-> rb.read, len |-> avail,
              next |-> IF wraps THEN 0 ELSE rb.write]

GetItem(rb, wanted) ==
    IF rb.kind = "bytebuf" THEN GetItemByteBuf(rb, wanted)
                           ELSE GetItemDefault(rb)

-----------------------------------------------------------------------------
(* Taking back. *)

MarkFree(rb, ptr) == [rb EXCEPT !.mem[ptr - Word] = FlagsCell(Free)]

(* The pass that moves free_ptr over all that is free or dummy, up to the  *)
(* read pointer; n bounds its rounds.                                      *)
Entries(rb) == rb.size \div Hdr + 1

(* What if only one entry were passed? *)
CleanUp_Once(rb) ==
    [rb EXCEPT !.free = IF flags(rb, @) # Free THEN @ ELSE SkipEntry(rb, @)]

CleanUp(rb) ==
    LET Skippable(p) == flags(rb, p) # InUse /\ p # rb.write
        Skip(p) == IF IsDummy(rb, p) THEN 0 ELSE SkipEntry(rb, p)
        pass[n \in 0..Entries(rb), p \in DOMAIN rb.mem] ==
            IF n = 0 \/ ~Skippable(p) THEN p
            ELSE IF Skip(p) = rb.read THEN rb.read ELSE pass[n - 1, Skip(p)]
    IN  [rb EXCEPT !.free = pass[Entries(rb), rb.free]]

ReturnItemDefault(rb, ptr) == CleanUp(MarkFree(rb, ptr))

ReturnItemByteBuf(rb) == [rb EXCEPT !.free = rb.read]

ReturnItem(rb, ptr) ==
    IF rb.kind = "bytebuf" THEN ReturnItemByteBuf(rb)
                           ELSE ReturnItemDefault(rb, ptr)

-----------------------------------------------------------------------------
(* What the memory says is in the buffer, oldest first. *)

PieceAt(rb, p, n) ==
    [len |-> n,
     cells |-> [i \in 1..((n + Unit(rb) - 1) \div Unit(rb)) |->
                  LET c == rb.mem[p + (i - 1) * Unit(rb)] IN <<c.a, c.b>>]]

Contents(rb) ==
    LET Start(p) == IF IsDummy(rb, p) THEN 0 ELSE p
        from[n \in 0..Entries(rb), p \in DOMAIN rb.mem] ==
            IF n = 0 \/ p = rb.write THEN << >>
            ELSE <<PieceAt(rb, Start(p) + Hdr, len(rb, Start(p)))>>
                 \o from[n - 1, SkipEntry(rb, Start(p))]
    IN  IF rb.kind = "bytebuf"
        THEN [i \in 1..((rb.write - rb.read) % rb.size) |->
                PieceAt(rb, (rb.read + i - 1) % rb.size, 1)]
        ELSE from[Entries(rb), rb.read]
=============================================================================
