---------------------------- MODULE MCBufferUse -----------------------------
(* A buffer of three bytes that may grow to twelve.                        *)
EXTENDS BufferUse

MCChunks == {<<1>>, <<2>>, <<1, 2>>, <<2, 1, 1>>}
=============================================================================
