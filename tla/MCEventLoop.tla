---------------------------- MODULE MCEventLoop -----------------------------
(* Small instances of EventLoop: one loop thread, one or two callers.      *)
EXTENDS EventLoop
=============================================================================
