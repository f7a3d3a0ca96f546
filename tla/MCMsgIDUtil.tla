---------------------------- MODULE MCMsgIDUtil -----------------------------
(* Identifiers of three digits from 0 to 4.                                *)
EXTENDS MsgIDUtil
=============================================================================
