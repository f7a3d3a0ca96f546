------------------------------ MODULE MCLogger ------------------------------
(* The main thread and another.                                            *)
EXTENDS Logger
=============================================================================
