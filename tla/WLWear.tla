------------------------------- MODULE WLWear -------------------------------
(***************************************************************************)
(* WLFlash with a history variable: how often the client has erased one    *)
(* page since that page was last the dummy page.  Data does not matter     *)
(* here, only which page an erase reaches.                                 *)
(***************************************************************************)
EXTENDS WLFlash

VARIABLES watched,   \* the page whose erases are counted
          hits       \* client erases of it since it was last free, up to MaxHits

\* The dummy page comes back to a page after N relocations, MaxCount erases each.
RoundErases == MaxCount * N
MaxHits == RoundErases + 1

wearVars == <<vars, watched, hits>>

WearInit == Init /\ watched \in Pages /\ hits = 0

\* The count, from the driver call that is made.
Count ==
    /\ UNCHANGED watched
    /\ hits' = IF pc = "dummy_erase" /\ pc' = "copy" /\ ram.pos = watched THEN 0
               ELSE IF /\ pc = "sector_erase"
                       /\ calcAddr(job.at, ram.mc, ram.pos) = watched
                       /\ hits < MaxHits
                    THEN hits + 1
               ELSE hits

WearNext == (DriverStep \/ Client \/ PowerCut) /\ Count

WearSpec == WearInit /\ [][WearNext]_wearVars

\* Wear is spread: however the client chooses its sectors, a page is erased
\* at most RoundErases times before it is free for a while and its data has
\* moved on (updateWL() and the access count it keeps).
WearSpread == hits <= RoundErases
=============================================================================
