---------------------------- MODULE MCTcpServer -----------------------------
(* Small instances of TcpServer: one or two IO threads, a client that has  *)
(* two replies to come, of which its socket holds one and a half, and one  *)
(* that has one and does not read it.                                      *)
EXTENDS TcpServer, TLC

CONSTANTS c1, c2

MCMaxRequests == (c1 :> 2) @@ (c2 :> 1)

(* The first client alone, with one request.                               *)
MCOneRequest == c1 :> 1
MCTwoRequests == c1 :> 2
=============================================================================
