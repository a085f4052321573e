---------------------------- MODULE VirtualDisk -----------------------------
(***************************************************************************)
(* What wear levelling promises its client (wear_levelling.h): an array of *)
(* sectors that change only under the client's call in progress, and only  *)
(* where that call says: an erase clears the sectors of its range one      *)
(* after the other, a write programs the sectors of its range with its own *)
(* data.  A call ends when it has done all of it, or because it returned   *)
(* an error or lost power.  Nothing else ever changes the array: not a     *)
(* relocation, not a power cut, not a mount and what it repairs.           *)
(***************************************************************************)
EXTENDS NorFlash, Integers

CONSTANTS Sectors,   \* the sectors' numbers
          MaxRun,    \* the sectors that one call may cover
          NoCall     \* no call is in progress
VARIABLES disk,      \* what wl_read returns, sector by sector
          call,      \* the client's wl_erase_range or wl_write in progress
          failures   \* errors and power cuts so far

diskVars == <<disk, call, failures>>

\* The calls as the client makes them: at is the sector that comes next, n how
\* many are left of an erase; a write has reached its i-th sector.
Calls == [kind : {"erase", "write"}, at : Sectors, n : 1 .. MaxRun, i : {0},
          src : [0 .. MaxRun-1 -> Values \cup {Junk}]]

DiskInit == disk \in [Sectors -> Contents] /\ call = NoCall /\ failures = 0

Begin ==
    /\ call = NoCall
    /\ call' \in Calls
    /\ call'.at + call'.n - 1 \in Sectors
    /\ UNCHANGED <<disk, failures>>

\* The next sector of the range is erased; with the last one the call ends.
EraseSector ==
    /\ call.kind = "erase"
    /\ disk' = [disk EXCEPT ![call.at] = Erased]
    /\ call' = IF call.n = 1 THEN NoCall ELSE [call EXCEPT !.at = @ + 1, !.n = @ - 1]
    /\ UNCHANGED failures

\* The next k sectors of the range are programmed, each with what the client
\* gave for it, though only one of them counts as done.
Program(k) ==
    /\ call.kind = "write"
    /\ disk' = [s \in Sectors |-> IF s - call.at \in call.i .. call.i + (k - 1)
                                  THEN Programmed(disk[s], call.src[s - call.at])
                                  ELSE disk[s]]
    /\ call' = IF call.i = call.n - 1 THEN NoCall ELSE [call EXCEPT !.i = @ + 1]
    /\ UNCHANGED failures

\* An error or a power cut ends the call, if there is one, where it is.
Fail ==
    /\ call' = NoCall
    /\ failures' = failures + 1
    /\ UNCHANGED disk

DiskNext == Begin \/ EraseSector \/ (\E k \in 1 .. call.n - call.i : Program(k)) \/ Fail

DiskSpec == DiskInit /\ [][DiskNext]_diskVars
=============================================================================
