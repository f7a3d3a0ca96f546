------------------------------ MODULE Exchange ------------------------------
(***************************************************************************)
(* What a client and a server promise to a program that has several        *)
(* requests on one connection: each request is answered at most once, with *)
(* its own answer and after it was served, and what the server serves is   *)
(* answered unless the connection ends.                                    *)
(***************************************************************************)
CONSTANTS Requests,
          Served     \* those that the server has an answer for

VARIABLES
  asked, served,   \* sets of requests
  got,             \* the answers that the callback of each has been run with
  over             \* the connection has ended

vars == <<asked, served, got, over>>

Init ==
  /\ asked = {} /\ served = {} /\ over = FALSE
  /\ got = [r \in Requests |-> <<>>]

(* The program writes requests, also from the callback of an answer.       *)
AskMore == asked \subseteq asked' /\ asked' \in SUBSET Requests

Ask == AskMore /\ UNCHANGED <<served, got, over>>

Serve(r) ==
  /\ r \in (asked \ served) \cap Served
  /\ served' = served \cup {r}
  /\ UNCHANGED <<asked, got, over>>

Answer(r) ==
  /\ r \in served /\ got[r] = <<>> /\ ~over
  /\ got' = [got EXCEPT ![r] = <<r>>]
  /\ AskMore
  /\ UNCHANGED <<served, over>>

End == over' = TRUE /\ UNCHANGED <<asked, served, got>>

Next == Ask \/ End \/ \E r \in Requests : Serve(r) \/ Answer(r)

Safety == Init /\ [][Next]_vars

(* Stated of what happens, and not by the fairness of Serve and Answer.    *)
EveryServedIsAnswered ==
  \A r \in Served : r \in asked ~> got[r] # <<>> \/ over

Spec == Safety /\ EveryServedIsAnswered
=============================================================================
