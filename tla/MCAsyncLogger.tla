--------------------------- MODULE MCAsyncLogger ----------------------------
(* Small instances of AsyncLogger: two threads push four batches through a *)
(* queue of one or two places.                                             *)
EXTENDS AsyncLogger, TLC

CONSTANTS b1, b2, b3, b4

MCBatches == {b1, b2, b3, b4}
MCSize == (b1 :> 2) @@ (b2 :> 1) @@ (b3 :> 2) @@ (b4 :> 1)
=============================================================================
