------------------------------ MODULE NorFlash ------------------------------
(***************************************************************************)
(* The contents of one page of NOR flash, as far as the layers above can   *)
(* tell them apart: erased, holding one of the values a client wrote, or   *)
(* a mixture.  Programming can only clear bits, so a page that is          *)
(* programmed twice with different data ends up with their conjunction.    *)
(***************************************************************************)
CONSTANTS Values,   \* what clients write into a page
          Erased,   \* every byte 0xff
          Junk      \* any other contents: half written, or overprogrammed

ASSUME ContentsAssumption ==
    /\ Erased \notin Values
    /\ Junk \notin Values
    /\ Erased # Junk

Contents == Values \cup {Erased, Junk}

\* What a page that holds old contains after new has been programmed over it.
Programmed(old, new) ==
    IF old = Erased THEN new
    ELSE IF old = new THEN old ELSE Junk
=============================================================================
