------------------------------ MODULE MCTimer -------------------------------
(* Small instances of Timer: two one-shot events, one far beyond the retry *)
(* interval, and a repeated event.                                         *)
EXTENDS Timer, TLC

CONSTANTS e1, e2, e3

MCTimerEvents == {e1, e2, e3}
MCInterval == (e1 :> 1) @@ (e2 :> 4) @@ (e3 :> 2)
MCRepeated == {e3}
=============================================================================
