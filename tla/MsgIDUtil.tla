----------------------------- MODULE MsgIDUtil ------------------------------
(***************************************************************************)
(* The generator of message identifiers (common/msg_id_util.cc): a decimal *)
(* counter in a string, of random digits at first, and of random digits    *)
(* again when it has reached its maximum.  Its state is thread_local, so   *)
(* one thread is enough.                                                   *)
(***************************************************************************)
EXTENDS Integers, Sequences

CONSTANTS Nine,           \* the largest digit; 9 in the code
          messageIDLen,   \* 20 in the code
          MaxDrawn        \* bound: how often random digits are drawn

ASSUME DigitsAssumption ==
  Nine \in Nat \ {0} /\ messageIDLen \in Nat \ {0} /\ MaxDrawn \in Nat

Positions == 1..messageIDLen
IDs == [Positions -> 0..Nine]

VARIABLES
  messageIDNo,     \* the last identifier, <<>> at first
  maxDigits,       \* how many nines maxMessageIDNo has
  drawn,           \* how often random digits have been drawn
  outside          \* whether the carry has left the string

idVars == <<messageIDNo, maxDigits, drawn, outside>>

IDTypeOK ==
  /\ messageIDNo \in IDs \cup {<<>>}
  /\ drawn \in 0..MaxDrawn
  /\ maxDigits = drawn * messageIDLen
  /\ messageIDNo = <<>> <=> drawn = 0
  /\ outside \in BOOLEAN

IDInit == messageIDNo = <<>> /\ maxDigits = 0 /\ drawn = 0 /\ outside = FALSE

AllNines == messageIDNo # <<>> /\ \A i \in Positions : messageIDNo[i] = Nine

(* messageIDNo = maxMessageIDNo.                                           *)
IsMax == AllNines /\ maxDigits = messageIDLen

(* /dev/urandom: any digits.  The nines of the maximum are appended to
   those of the time before.  A read that fails gives its caller the empty
   identifier and changes nothing here: it is a step that stutters.        *)
Draw ==
  /\ messageIDNo = <<>> \/ IsMax
  /\ drawn < MaxDrawn
  /\ messageIDNo' \in IDs
  /\ maxDigits' = maxDigits + messageIDLen
  /\ drawn' = drawn + 1
  /\ UNCHANGED outside

(* The digit that takes the carry: the last that is no nine.               *)
CarryAt(id) ==
  CHOOSE i \in Positions : id[i] # Nine /\ \A j \in (i + 1)..messageIDLen : id[j] = Nine

(* Mutant: the nines behind the carry are left as they are. *)
SuccessorKeepsNines(id) == [id EXCEPT ![CarryAt(id)] = @ + 1]

Successor(id) ==
  [j \in Positions |->
     CASE j < CarryAt(id) -> id[j]
       [] j = CarryAt(id) -> id[j] + 1
       [] OTHER -> 0]

Increment ==
  /\ messageIDNo # <<>> /\ ~AllNines
  /\ messageIDNo' = Successor(messageIDNo)
  /\ UNCHANGED <<maxDigits, drawn, outside>>

(* All nines, but the maximum is longer by now: the index, which is unsigned,
   passes zero; undefined from there on.                                   *)
CarryOut ==
  /\ AllNines /\ ~IsMax
  /\ outside' = TRUE
  /\ UNCHANGED <<messageIDNo, maxDigits, drawn>>

IDNext ==
  \/ ~outside /\ (Draw \/ Increment \/ CarryOut)
  \/ (outside \/ drawn = MaxDrawn) /\ UNCHANGED idVars

IDSpec == IDInit /\ [][IDNext]_idVars

-----------------------------------------------------------------------------
(* The number that an identifier shows.                                    *)
Value(id) ==
  LET value[i \in 0..messageIDLen] ==
        IF i = 0 THEN 0 ELSE (Nine + 1) * value[i - 1] + id[i]
  IN  value[messageIDLen]

(* Between two draws the identifiers of a thread count up by one, whatever
   the digits, so none is given twice but the empty one of a failed draw
   (msg_id_util.cc 56-70).                                                 *)
CountsByOne ==
  [][drawn > 0 /\ drawn' = drawn /\ outside' = outside =>
       Value(messageIDNo') = Value(messageIDNo) + 1]_messageIDNo

-----------------------------------------------------------------------------
(* What the source says and the code does not do: this fails, see
   MsgIDUtil_claims.cfg.                                                   *)

(* "The largest message id is all nines" (msg_id_util.cc:49), and the digits
   are drawn again there (30): the carry never leaves the string.          *)
CarryStaysInside == ~outside
=============================================================================
