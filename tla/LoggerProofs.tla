---------------------------- MODULE LoggerProofs ----------------------------
(***************************************************************************)
(* What is proved about module Logger, for any number of threads and lines *)
(* and with a signal at any moment within its bounds: until two threads    *)
(* are in a vector or in a queue at once, no line is lost or doubled       *)
(* between the buffers and the asynchronous loggers.  That they keep their *)
(* order is proved as long as there is no signal: after one, the timer and *)
(* the handler may hand over in either order.                              *)
(***************************************************************************)
EXTENDS Logger, TLAPS

-----------------------------------------------------------------------------
(* Sequences of lines, their members and their order.                      *)

Lines == Seq(Nat)

(* How many there are, kept apart from Len for the arithmetic below.       *)
Count(s) == Len(s)

(* A number.                                                               *)
LEMMA CountType == \A s \in Lines : Count(s) \in Nat
BY DEF Lines, Count

(* The members of a concatenation.                                         *)
LEMMA MembersOfBoth ==
  ASSUME NEW s \in Lines, NEW t \in Lines
  PROVE  /\ s \o t \in Lines /\ Count(s \o t) = Count(s) + Count(t)
         /\ Members(s \o t) = Members(s) \cup Members(t)
<1>1. s \o t \in Lines /\ Len(s \o t) = Len(s) + Len(t) /\ Len(s) \in Nat /\ Len(t) \in Nat
  BY DEF Lines
<1>2. \A k \in 1..Len(s) : (s \o t)[k] = s[k] /\ k \in 1..Len(s \o t)
  BY <1>1 DEF Lines
<1>3. \A k \in 1..Len(t) : (s \o t)[Len(s) + k] = t[k] /\ Len(s) + k \in 1..Len(s \o t)
  BY <1>1 DEF Lines
<1>4. ASSUME NEW k \in 1..Len(s \o t) PROVE (s \o t)[k] \in Members(s) \cup Members(t)
  <2>1. CASE k <= Len(s)
    BY <1>1, <1>2, <2>1 DEF Members
  <2>2. CASE k > Len(s)
    <3>1. k - Len(s) \in 1..Len(t) /\ Len(s) + (k - Len(s)) = k
      BY <1>1, <2>2
    <3>2. (s \o t)[k] = t[k - Len(s)]
      BY <1>3, <3>1
    <3> QED
      BY <3>1, <3>2 DEF Members
  <2> QED
    BY <1>1, <2>1, <2>2
<1>5. Members(s \o t) \subseteq Members(s) \cup Members(t)
  BY <1>4 DEF Members
<1>6. Members(s) \cup Members(t) \subseteq Members(s \o t)
  BY <1>1, <1>2, <1>3 DEF Members
<1> QED
  BY <1>1, <1>5, <1>6 DEF Count

(* One more line.                                                          *)
LEMMA MembersOfMore ==
  ASSUME NEW s \in Lines, NEW n \in Nat
  PROVE  /\ Append(s, n) \in Lines /\ Count(Append(s, n)) = Count(s) + 1
         /\ Members(Append(s, n)) = Members(s) \cup {n}
<1>1. <<n>> \in Lines /\ Append(s, n) = s \o <<n>> /\ Count(<<n>>) = 1 /\ Members(<<n>>) = {n}
  BY DEF Lines, Members, Count
<1>2. \A t \in Lines : /\ s \o t \in Lines /\ Count(s \o t) = Count(s) + Count(t)
                       /\ Members(s \o t) = Members(s) \cup Members(t)
  BY MembersOfBoth
<1> QED
  BY <1>1, <1>2

(* The line that is pushed next is the next number.                        *)
LEMMA NextNumber ==
  ASSUME NEW n \in Nat, NEW s \in Lines, NEW t \in Lines, s \o t = Numbers(n)
  PROVE  s \o Append(t, n + 1) = Numbers(n + 1)
<1>1. s \o Append(t, n + 1) = Append(s \o t, n + 1)
  BY DEF Lines
<1>2. Append(Numbers(n), n + 1) = Numbers(n + 1)
  BY DEF Numbers
<1> QED
  BY <1>1, <1>2

(* Nothing in between; and a concatenation in another grouping.            *)
LEMMA NothingBetween ==
  ASSUME NEW s \in Lines
  PROVE  /\ s \o <<>> = s /\ <<>> \o s = s
         /\ <<>> \in Lines /\ Count(<<>>) = 0 /\ Members(<<>>) = {}
BY DEF Lines, Members, Count

-----------------------------------------------------------------------------
(* Where the lines are.                                                    *)

Mine(b) == IF what[Main] = b THEN tmp[Main] ELSE <<>>
Its(b) == IF what[Handler] = b THEN tmp[Handler] ELSE <<>>

Kept(b) ==
  /\ Count(handed[b]) + Count(Mine(b)) + Count(Its(b)) + Count(buffer[b]) = pushed[b]
  /\ Members(handed[b]) \cup Members(Mine(b)) \cup Members(Its(b)) \cup Members(buffer[b])
       = 1..pushed[b]
  /\ signal = NoThread => handed[b] \o Mine(b) \o buffer[b] = Numbers(pushed[b])

(* Only the main thread and the handler swap, and the vector is empty again
   before either of them takes up another buffer.                          *)
Holds ==
  /\ buffer \in [Buffers -> Lines] /\ handed \in [Buffers -> Lines]
  /\ pushed \in [Buffers -> Nat]
  /\ at \in [Actors -> Places] /\ what \in [Actors -> Buffers]
  /\ tmp \in [Actors -> Lines]
  /\ \A a \in Actors : tmp[a] # <<>> => at[a] \in {"syncUnlock", "hand", "queueLock", "queuePush"}
  /\ \A t \in Threads : t # Main => at[t] \in {"idle", "lock", "push", "unlock", "free"}
  /\ signal = NoThread => at[Handler] = "idle"

KeptInv == Holds /\ \A b \in Buffers : Kept(b)

(* The vectors are sequences of lines.                                     *)
LEMMA HandsAreLines ==
  ASSUME Holds, NEW b \in Buffers PROVE Mine(b) \in Lines /\ Its(b) \in Lines
<1>1. Main \in Actors /\ Handler \in Actors /\ <<>> \in Lines
  BY ThreadsAssumption DEF Actors, Lines
<1> QED
  BY <1>1 DEF Holds, Mine, Its

(* A step that moves no line.                                              *)
LEMMA NoLineMoves ==
  ASSUME KeptInv, UNCHANGED <<buffer, handed, pushed, tmp>>,
         \A a \in {Main, Handler} : what'[a] = what[a] \/ tmp[a] = <<>>,
         signal' = NoThread => signal = NoThread
  PROVE  \A b \in Buffers : Kept(b)'
<1> TAKE b \in Buffers
<1>1. Mine(b)' = Mine(b) /\ Its(b)' = Its(b)
  BY DEF Mine, Its
<1> QED
  BY <1>1 DEF KeptInv, Kept

(* Push.                                                                   *)
LEMMA PushKeeps ==
  ASSUME KeptInv, NEW a \in Actors, Push(a) PROVE \A b \in Buffers : Kept(b)'
<1> TAKE b \in Buffers
<1>1. Mine(b)' = Mine(b) /\ Its(b)' = Its(b) /\ signal' = signal /\ handed' = handed
  BY DEF Push, Mine, Its
<1>2. CASE b # what[a]
  BY <1>1, <1>2 DEF KeptInv, Holds, Kept, Push
<1>3. CASE b = what[a]
  <2>1. /\ buffer'[b] = Append(buffer[b], pushed[b] + 1) /\ pushed'[b] = pushed[b] + 1
        /\ buffer[b] \in Lines /\ pushed[b] \in Nat /\ handed[b] \in Lines
    BY <1>3 DEF KeptInv, Holds, Push
  <2>2. Mine(b) \in Lines /\ Its(b) \in Lines
    BY HandsAreLines DEF KeptInv
  <2>3. /\ Count(buffer'[b]) = Count(buffer[b]) + 1
        /\ Members(buffer'[b]) = Members(buffer[b]) \cup {pushed[b] + 1}
    BY <2>1, MembersOfMore
  <2>4. /\ Count(handed[b]) \in Nat /\ Count(Mine(b)) \in Nat /\ Count(Its(b)) \in Nat
        /\ Count(buffer[b]) \in Nat
    BY <2>1, <2>2, CountType
  <2>5. Count(handed'[b]) + Count(Mine(b)') + Count(Its(b)') + Count(buffer'[b]) = pushed'[b]
    <3>1. Count(handed[b]) + Count(Mine(b)) + Count(Its(b)) + Count(buffer[b]) = pushed[b]
      BY DEF KeptInv, Kept
    <3>2. /\ Count(handed'[b]) = Count(handed[b]) /\ Count(Mine(b)') = Count(Mine(b))
          /\ Count(Its(b)') = Count(Its(b)) /\ Count(buffer'[b]) = Count(buffer[b]) + 1
          /\ pushed'[b] = pushed[b] + 1
      BY <1>1, <2>1, <2>3
    <3> QED
      BY <2>4, <3>1, <3>2
  <2>6. 1..(pushed[b] + 1) = (1..pushed[b]) \cup {pushed[b] + 1}
    BY <2>1
  <2>7. Members(handed'[b]) \cup Members(Mine(b)') \cup Members(Its(b)')
          \cup Members(buffer'[b]) = 1..pushed'[b]
    BY <1>1, <2>1, <2>3, <2>6 DEF KeptInv, Kept
  <2>8. handed[b] \o Mine(b) \in Lines
    BY <2>1, <2>2, MembersOfBoth
  <2>9. signal' = NoThread => handed'[b] \o Mine(b)' \o buffer'[b] = Numbers(pushed'[b])
    <3>1. signal = NoThread => (handed[b] \o Mine(b)) \o buffer[b] = Numbers(pushed[b])
      BY DEF KeptInv, Kept
    <3> DEFINE front == handed[b] \o Mine(b)
    <3> HIDE DEF front
    <3>2. signal = NoThread =>
            front \o Append(buffer[b], pushed[b] + 1) = Numbers(pushed[b] + 1)
      <4>1. front \in Lines /\ (signal = NoThread => front \o buffer[b] = Numbers(pushed[b]))
        BY <2>8, <3>1 DEF front
      <4> QED
        BY <2>1, <4>1, NextNumber
    <3> QED
      BY <1>1, <2>1, <3>2 DEF front
  <2> QED
    BY <2>5, <2>7, <2>9 DEF Kept
<1> QED
  BY <1>2, <1>3

(* Who swaps or hands over.                                                *)
LEMMA WhoSwaps ==
  ASSUME Holds, NEW a \in Actors, at[a] \in {"swap", "queuePush"}
  PROVE  a = Main \/ (a = Handler /\ signal # NoThread)
BY DEF Holds, Actors

(* Swap: the lines of the buffer are in the hands of a.                    *)
LEMMA SwapKeeps ==
  ASSUME KeptInv, NEW a \in Actors, Swap(a) PROVE \A b \in Buffers : Kept(b)'
<1> TAKE b \in Buffers
<1>1. /\ what' = what /\ handed' = handed /\ pushed' = pushed /\ signal' = signal
      /\ tmp[a] = <<>> /\ tmp' = [tmp EXCEPT ![a] = buffer[what[a]]]
      /\ buffer' = [buffer EXCEPT ![what[a]] = <<>>] /\ at[a] = "swap"
  BY DEF Swap, Goes, KeptInv, Holds
<1>2. Main # Handler /\ Main \in Actors /\ Handler \in Actors
  BY ThreadsAssumption DEF Actors
<1>3. CASE b # what[a]
  <2>1. Mine(b)' = Mine(b) /\ Its(b)' = Its(b) /\ buffer'[b] = buffer[b]
    BY <1>1, <1>2, <1>3 DEF Mine, Its, KeptInv, Holds
  <2> QED
    BY <1>1, <2>1 DEF KeptInv, Kept
<1>4. CASE b = what[a]
  <2>1. buffer'[b] = <<>> /\ buffer[b] \in Lines /\ handed[b] \in Lines
    BY <1>1, <1>4 DEF KeptInv, Holds
  <2>2. /\ Count(<<>>) = 0 /\ Members(<<>>) = {}
        /\ handed[b] \o <<>> = handed[b]
        /\ handed[b] \o buffer[b] \o <<>> = handed[b] \o buffer[b]
    BY <2>1, MembersOfBoth, NothingBetween
  <2>3. Count(handed[b]) \in Nat /\ Count(buffer[b]) \in Nat
    BY <2>1, CountType
  <2>4. Mine(b) \in Lines /\ Its(b) \in Lines /\ Count(Mine(b)) \in Nat /\ Count(Its(b)) \in Nat
    BY HandsAreLines, CountType DEF KeptInv
  <2>5. CASE a = Main
    <3>1. Mine(b) = <<>> /\ Mine(b)' = buffer[b] /\ Its(b)' = Its(b)
      BY <1>1, <1>2, <1>4, <2>5 DEF Mine, Its, KeptInv, Holds
    <3>2. Count(handed'[b]) + Count(Mine(b)') + Count(Its(b)') + Count(buffer'[b]) = pushed'[b]
      <4>1. Count(handed[b]) + Count(Mine(b)) + Count(Its(b)) + Count(buffer[b]) = pushed[b]
        BY DEF KeptInv, Kept
      <4>2. /\ Count(handed'[b]) = Count(handed[b]) /\ Count(Mine(b)) = 0
            /\ Count(Mine(b)') = Count(buffer[b]) /\ Count(Its(b)') = Count(Its(b))
            /\ Count(buffer'[b]) = 0 /\ pushed'[b] = pushed[b]
        BY <1>1, <2>1, <2>2, <2>3, <3>1
      <4> QED
        BY <2>3, <2>4, <4>1, <4>2
    <3>3. Members(handed'[b]) \cup Members(Mine(b)') \cup Members(Its(b)')
            \cup Members(buffer'[b]) = 1..pushed'[b]
      BY <1>1, <2>1, <2>2, <2>3, <3>1 DEF KeptInv, Kept
    <3>4. signal' = NoThread =>
            handed'[b] \o Mine(b)' \o buffer'[b] = Numbers(pushed'[b])
      BY <1>1, <2>1, <2>2, <2>3, <3>1 DEF KeptInv, Kept
    <3> QED
      BY <3>2, <3>3, <3>4 DEF Kept
  <2>6. CASE a = Handler /\ signal # NoThread
    <3>1. Its(b) = <<>> /\ Its(b)' = buffer[b] /\ Mine(b)' = Mine(b)
      BY <1>1, <1>2, <1>4, <2>6 DEF Mine, Its, KeptInv, Holds
    <3>2. Count(handed'[b]) + Count(Mine(b)') + Count(Its(b)') + Count(buffer'[b]) = pushed'[b]
      <4>1. Count(handed[b]) + Count(Mine(b)) + Count(Its(b)) + Count(buffer[b]) = pushed[b]
        BY DEF KeptInv, Kept
      <4>2. /\ Count(handed'[b]) = Count(handed[b]) /\ Count(Its(b)) = 0
            /\ Count(Its(b)') = Count(buffer[b]) /\ Count(Mine(b)') = Count(Mine(b))
            /\ Count(buffer'[b]) = 0 /\ pushed'[b] = pushed[b]
        BY <1>1, <2>1, <2>2, <2>3, <3>1
      <4> QED
        BY <2>3, <2>4, <4>1, <4>2
    <3>3. Members(handed'[b]) \cup Members(Mine(b)') \cup Members(Its(b)')
            \cup Members(buffer'[b]) = 1..pushed'[b]
      BY <1>1, <2>1, <2>2, <2>3, <3>1 DEF KeptInv, Kept
    <3>4. signal' = NoThread =>
            handed'[b] \o Mine(b)' \o buffer'[b] = Numbers(pushed'[b])
      BY <1>1, <2>1, <2>2, <2>3, <2>6, <3>1 DEF KeptInv, Kept
    <3> QED
      BY <3>2, <3>3, <3>4 DEF Kept
  <2> QED
    BY <1>1, <2>5, <2>6, WhoSwaps DEF KeptInv
<1> QED
  BY <1>3, <1>4

(* HandOver: what was in the hands of a is handed over.                    *)
LEMMA HandOverKeeps ==
  ASSUME KeptInv, NEW a \in Actors, HandOver(a) PROVE \A b \in Buffers : Kept(b)'
<1> TAKE b \in Buffers
<1>1. /\ buffer' = buffer /\ pushed' = pushed /\ signal' = signal /\ at[a] = "queuePush"
      /\ handed' = [handed EXCEPT ![what[a]] = @ \o tmp[a]]
      /\ tmp' = [tmp EXCEPT ![a] = <<>>] /\ what' = what
  BY DEF HandOver, Goes, logVars
<1>2. Main # Handler /\ Main \in Actors /\ Handler \in Actors
  BY ThreadsAssumption DEF Actors
<1>3. CASE b # what[a]
  <2>1. handed'[b] = handed[b]
    BY <1>1, <1>3 DEF KeptInv, Holds
  <2>2. Mine(b)' = Mine(b) /\ Its(b)' = Its(b)
    BY <1>1, <1>2, <1>3 DEF Mine, Its, KeptInv, Holds
  <2> QED
    BY <1>1, <2>1, <2>2 DEF KeptInv, Kept
<1>4. CASE b = what[a]
  <2>1. /\ handed'[b] = handed[b] \o tmp[a] /\ tmp[a] \in Lines
        /\ buffer[b] \in Lines /\ handed[b] \in Lines
    BY <1>1, <1>4 DEF KeptInv, Holds
  <2>2. /\ Count(handed'[b]) = Count(handed[b]) + Count(tmp[a]) /\ handed'[b] \in Lines
        /\ Members(handed'[b]) = Members(handed[b]) \cup Members(tmp[a])
    BY <2>1, MembersOfBoth
  <2>3. Count(<<>>) = 0 /\ Members(<<>>) = {} /\ handed'[b] \o <<>> = handed'[b]
    BY <2>2, NothingBetween
  <2>4. /\ Count(handed[b]) \in Nat /\ Count(buffer[b]) \in Nat /\ Count(tmp[a]) \in Nat
    BY <2>1, CountType
  <2>5. Count(Mine(b)) \in Nat /\ Count(Its(b)) \in Nat
    BY HandsAreLines, CountType DEF KeptInv
  <2>6. CASE a = Main
    <3>1. Mine(b) = tmp[a] /\ Mine(b)' = <<>> /\ Its(b)' = Its(b)
      BY <1>1, <1>2, <1>4, <2>6 DEF Mine, Its, KeptInv, Holds
    <3>2. Count(handed'[b]) + Count(Mine(b)') + Count(Its(b)') + Count(buffer'[b]) = pushed'[b]
      <4>1. Count(handed[b]) + Count(Mine(b)) + Count(Its(b)) + Count(buffer[b]) = pushed[b]
        BY DEF KeptInv, Kept
      <4>2. /\ Count(handed'[b]) = Count(handed[b]) + Count(Mine(b)) /\ Count(Mine(b)') = 0
            /\ Count(Its(b)') = Count(Its(b)) /\ Count(buffer'[b]) = Count(buffer[b])
            /\ pushed'[b] = pushed[b]
        BY <1>1, <2>1, <2>2, <2>3, <3>1
      <4> QED
        BY <2>3, <2>4, <2>5, <4>1, <4>2
    <3>3. Members(handed'[b]) \cup Members(Mine(b)') \cup Members(Its(b)')
            \cup Members(buffer'[b]) = 1..pushed'[b]
      BY <1>1, <2>1, <2>2, <2>3, <3>1 DEF KeptInv, Kept
    <3>4. signal' = NoThread =>
            handed'[b] \o Mine(b)' \o buffer'[b] = Numbers(pushed'[b])
      BY <1>1, <2>1, <2>2, <2>3, <3>1 DEF KeptInv, Kept
    <3> QED
      BY <3>2, <3>3, <3>4 DEF Kept
  <2>7. CASE a = Handler /\ signal # NoThread
    <3>1. Its(b) = tmp[a] /\ Its(b)' = <<>> /\ Mine(b)' = Mine(b)
      BY <1>1, <1>2, <1>4, <2>7 DEF Mine, Its, KeptInv, Holds
    <3>2. Count(handed'[b]) + Count(Mine(b)') + Count(Its(b)') + Count(buffer'[b]) = pushed'[b]
      <4>1. Count(handed[b]) + Count(Mine(b)) + Count(Its(b)) + Count(buffer[b]) = pushed[b]
        BY DEF KeptInv, Kept
      <4>2. /\ Count(handed'[b]) = Count(handed[b]) + Count(Its(b)) /\ Count(Its(b)') = 0
            /\ Count(Mine(b)') = Count(Mine(b)) /\ Count(buffer'[b]) = Count(buffer[b])
            /\ pushed'[b] = pushed[b]
        BY <1>1, <2>1, <2>2, <2>3, <3>1
      <4> QED
        BY <2>3, <2>4, <2>5, <4>1, <4>2
    <3>3. Members(handed'[b]) \cup Members(Mine(b)') \cup Members(Its(b)')
            \cup Members(buffer'[b]) = 1..pushed'[b]
      BY <1>1, <2>1, <2>2, <2>3, <3>1 DEF KeptInv, Kept
    <3>4. signal' = NoThread =>
            handed'[b] \o Mine(b)' \o buffer'[b] = Numbers(pushed'[b])
      BY <1>1, <2>1, <2>2, <2>3, <2>7, <3>1 DEF KeptInv, Kept
    <3> QED
      BY <3>2, <3>3, <3>4 DEF Kept
  <2> QED
    BY <1>1, <2>6, <2>7, WhoSwaps DEF KeptInv
<1> QED
  BY <1>3, <1>4

(* Every step keeps every line.                                            *)
LEMMA StepKeeps ==
  ASSUME KeptInv, NEW a \in Actors, Calls(a) PROVE \A b \in Buffers : Kept(b)'
<1>1. CASE Lock(a) \/ Unlock(a) \/ SyncLock(a) \/ SyncUnlock(a) \/ SyncFree(a)
  BY <1>1, NoLineMoves DEF Lock, Unlock, SyncLock, SyncUnlock, SyncFree
<1>2. CASE WaitEmpty(a) \/ QueueLock(a)
  BY <1>2, NoLineMoves DEF WaitEmpty, QueueLock, logVars
<1>3. CASE Free(a) \/ NothingToHand(a) \/ QueueFree(a)
  <2>1. PICK b \in Buffers : what' = [what EXCEPT ![a] = b]
    BY <1>3 DEF Free, NothingToHand, QueueFree, GoesOn, Buffers
  <2>2. tmp[a] = <<>>
    BY <1>3 DEF Free, NothingToHand, QueueFree, GoesOn, Goes, KeptInv, Holds
  <2>3. \A c \in {Main, Handler} : what'[c] = what[c] \/ tmp[c] = <<>>
    BY <2>1, <2>2 DEF KeptInv, Holds
  <2> QED
    BY <1>3, <2>3, NoLineMoves DEF Free, NothingToHand, QueueFree, logVars
<1> QED
  BY <1>1, <1>2, <1>3, PushKeeps, SwapKeeps, HandOverKeeps DEF Calls

(* So does every step of a writer.                                         *)
LEMMA WriterKeeps ==
  ASSUME KeptInv, NEW c \in Buffers, Writer(c) PROVE \A b \in Buffers : Kept(b)'
BY NoLineMoves DEF Writer, logVars

(* Where the actors are, and that their hands are empty elsewhere.         *)
LEMMA HoldsNext == Holds /\ [Next]_vars => Holds'
<1> SUFFICES ASSUME Holds, [Next]_vars PROVE Holds'
  OBVIOUS
<1> USE DEF Holds, Places, Pushing, Holding, InVector, InQueue, logVars
<1>1. CASE UNCHANGED vars
  BY <1>1 DEF vars
<1>2. Main \in Threads /\ Handler \notin Threads /\ Main \in Actors /\ Handler \in Actors
  BY ThreadsAssumption DEF Actors
<1>3. ASSUME NEW a \in Actors, Lock(a) \/ Unlock(a) PROVE Holds'
  <2>1. CASE Lock(a)
    BY <1>2, <2>1 DEF Lock, Goes
  <2>2. CASE Unlock(a)
    BY <1>2, <2>2 DEF Unlock, Goes
  <2> QED
    BY <1>3, <2>1, <2>2
<1>4. ASSUME NEW a \in Actors, Push(a) PROVE Holds'
  <2>1. what[a] \in Buffers /\ pushed[what[a]] \in Nat /\ buffer[what[a]] \in Lines
    OBVIOUS
  <2>2. Append(buffer[what[a]], pushed[what[a]] + 1) \in Lines
    BY <2>1, MembersOfMore
  <2>3. buffer' \in [Buffers -> Lines] /\ pushed' \in [Buffers -> Nat]
    BY <1>4, <2>1, <2>2 DEF Push
  <2> QED
    BY <1>4, <2>3 DEF Push, Goes
<1>5. ASSUME NEW a \in Actors, Free(a) PROVE Holds'
  BY <1>2, <1>5 DEF Free, Goes, Buffers
<1>6. ASSUME NEW a \in Actors, \/ SyncLock(a) \/ SyncUnlock(a) \/ NothingToHand(a)
                               \/ SyncFree(a)
      PROVE  Holds'
  <2>1. CASE SyncLock(a)
    BY <1>2, <2>1 DEF SyncLock, Goes
  <2>2. CASE SyncUnlock(a)
    BY <1>2, <2>2 DEF SyncUnlock, Goes
  <2>3. CASE NothingToHand(a)
    BY <1>2, <2>3 DEF NothingToHand, GoesOn, Goes, Buffers
  <2>4. CASE SyncFree(a)
    BY <1>2, <2>4 DEF SyncFree, Goes
  <2> QED
    BY <1>6, <2>1, <2>2, <2>3, <2>4
<1>7. ASSUME NEW a \in Actors, Swap(a) PROVE Holds'
  <2>1. <<>> \in Lines /\ what[a] \in Buffers /\ buffer[what[a]] \in Lines
    BY DEF Lines
  <2>2. buffer' \in [Buffers -> Lines] /\ tmp' \in [Actors -> Lines]
    BY <1>7, <2>1 DEF Swap
  <2> QED
    BY <1>2, <1>7, <2>2 DEF Swap, Goes
<1>8. ASSUME NEW a \in Actors, HandOver(a) PROVE Holds'
  <2>1. <<>> \in Lines /\ what[a] \in Buffers /\ handed[what[a]] \o tmp[a] \in Lines
    BY MembersOfBoth, NothingBetween
  <2>2. handed' \in [Buffers -> Lines] /\ tmp' \in [Actors -> Lines]
    BY <1>8, <2>1 DEF HandOver
  <2> QED
    BY <1>2, <1>8, <2>2 DEF HandOver, Goes
<1>9. ASSUME NEW t \in Threads, NEW b \in Buffers, Log(t, b) PROVE Holds'
  BY <1>2, <1>9 DEF Log, Goes, Actors
<1>10. CASE SyncLogLoop
  BY <1>2, <1>10 DEF SyncLogLoop, Goes, Buffers
<1>11. ASSUME NEW t \in Threads, Signal(t) PROVE Holds'
  <2>1. signal' # NoThread
    BY <1>11, ThreadsAssumption DEF Signal
  <2>2. tmp[Handler] = <<>>
    BY <1>2, <1>11 DEF Signal
  <2> QED
    BY <1>2, <1>11, <2>1, <2>2 DEF Signal, Buffers
<1>12. ASSUME NEW a \in Actors, WaitEmpty(a) \/ QueueLock(a) \/ QueueFree(a)
       PROVE  Holds'
  <2>1. CASE WaitEmpty(a)
    BY <1>2, <2>1 DEF WaitEmpty, Goes
  <2>2. CASE QueueLock(a)
    BY <1>2, <2>2 DEF QueueLock, Goes
  <2>3. CASE QueueFree(a)
    BY <1>2, <2>3 DEF QueueFree, GoesOn, Goes, Buffers
  <2> QED
    BY <1>12, <2>1, <2>2, <2>3
<1>13. ASSUME NEW b \in Buffers, Writer(b) PROVE Holds'
  BY <1>13 DEF Writer
<1>14. ASSUME NEW a \in Actors, Step(a) PROVE Holds'
  BY <1>3, <1>4, <1>5, <1>6, <1>7, <1>8, <1>12, <1>14 DEF Step, Calls
<1> QED
  BY <1>1, <1>9, <1>10, <1>11, <1>13, <1>14 DEF Next

(* The lines in the hands of both are kept through every step.             *)
LEMMA KeptNext == KeptInv /\ [Next]_vars => KeptInv'
<1> SUFFICES ASSUME KeptInv, [Next]_vars PROVE \A b \in Buffers : Kept(b)'
  BY HoldsNext DEF KeptInv
<1>1. CASE UNCHANGED vars
  BY <1>1 DEF vars, logVars, KeptInv, Kept, Mine, Its
<1>2. ASSUME NEW a \in Actors, Step(a) PROVE \A b \in Buffers : Kept(b)'
  BY <1>2, StepKeeps DEF Step
<1>3. ASSUME NEW t \in Threads, NEW c \in Buffers, Log(t, c)
      PROVE  \A b \in Buffers : Kept(b)'
  <2>1. tmp[t] = <<>> /\ what' = [what EXCEPT ![t] = c] /\ what \in [Actors -> Buffers]
    BY <1>3 DEF Log, Goes, KeptInv, Holds, Actors
  <2>2. \A a \in {Main, Handler} : what'[a] = what[a] \/ tmp[a] = <<>>
    BY <2>1, ThreadsAssumption DEF Actors
  <2> QED
    BY <1>3, <2>2, NoLineMoves DEF Log
<1>4. CASE SyncLogLoop
  <2>1. tmp[Main] = <<>> /\ what' = [what EXCEPT ![Main] = "rpc"]
        /\ what \in [Actors -> Buffers]
    BY <1>4, ThreadsAssumption DEF SyncLogLoop, Goes, KeptInv, Holds, Actors
  <2>2. \A a \in {Main, Handler} : what'[a] = what[a] \/ tmp[a] = <<>>
    BY <2>1, ThreadsAssumption DEF Actors
  <2> QED
    BY <1>4, <2>2, NoLineMoves DEF SyncLogLoop
<1>5. ASSUME NEW t \in Threads, Signal(t) PROVE \A b \in Buffers : Kept(b)'
  <2>1. tmp[Handler] = <<>> /\ what' = [what EXCEPT ![Handler] = "rpc"]
        /\ what \in [Actors -> Buffers] /\ signal' # NoThread
    BY <1>5, ThreadsAssumption DEF Signal, KeptInv, Holds, Actors
  <2>2. \A a \in {Main, Handler} : what'[a] = what[a] \/ tmp[a] = <<>>
    BY <2>1, ThreadsAssumption DEF Actors
  <2> QED
    BY <1>5, <2>1, <2>2, NoLineMoves DEF Signal
<1> QED
  BY <1>1, <1>2, <1>3, <1>4, <1>5, WriterKeeps DEF Next

(* However many threads log into either buffer, and wherever a signal finds
   them, a line is in one place: handed over, in the hands of the timer or of
   the handler, or in the buffer, up to the first moment at which two threads
   are in a vector or in a queue at once.  The places hold the lines in the
   order they were pushed as long as no signal has come (log.cc 66-94,
   127-153).                                                               *)
THEOREM LinesAreKept == Spec => []LinesKept
<1>1. Init => KeptInv
  <2> SUFFICES ASSUME Init PROVE KeptInv
    OBVIOUS
  <2>1. Holds
    <3>1. <<>> \in Lines
      BY DEF Lines
    <3>2. /\ buffer \in [Buffers -> Lines] /\ handed \in [Buffers -> Lines]
          /\ tmp \in [Actors -> Lines]
      BY <3>1 DEF Init
    <3> QED
      BY <3>2, ThreadsAssumption DEF Init, Holds, Places, Holding, Pushing, Buffers, Actors
  <2>2. ASSUME NEW b \in Buffers PROVE Kept(b)
    <3>1. /\ handed[b] = <<>> /\ buffer[b] = <<>> /\ Mine(b) = <<>> /\ Its(b) = <<>>
          /\ pushed[b] = 0
      BY ThreadsAssumption DEF Init, Mine, Its, Actors
    <3>2. Numbers(0) = <<>> /\ <<>> \o <<>> \o <<>> = <<>>
      BY DEF Numbers
    <3> QED
      <4>1. Count(<<>>) = 0 /\ Members(<<>>) = {} /\ 1..0 = {}
        BY NothingBetween DEF Count, Members
      <4> QED
        BY <3>1, <3>2, <4>1 DEF Kept
  <2> QED
    BY <2>1, <2>2 DEF KeptInv
<1>2. KeptInv => LinesKept
  <2> SUFFICES ASSUME KeptInv, NEW b \in Buffers
               PROVE  LET all == handed[b] \o Mine(b) \o Its(b) \o buffer[b]
                      IN  /\ Len(all) = pushed[b] /\ Members(all) = 1..pushed[b]
                          /\ signal = NoThread => all = Numbers(pushed[b])
    BY DEF LinesKept, Mine, Its
  <2>1. /\ handed[b] \in Lines /\ buffer[b] \in Lines /\ Mine(b) \in Lines
        /\ Its(b) \in Lines
    BY HandsAreLines DEF KeptInv, Holds
  <2> DEFINE two == handed[b] \o Mine(b)
             three == two \o Its(b)
             all == three \o buffer[b]
  <2>2. /\ two \in Lines /\ Count(two) = Count(handed[b]) + Count(Mine(b))
        /\ Members(two) = Members(handed[b]) \cup Members(Mine(b))
    BY <2>1, MembersOfBoth
  <2> HIDE DEF two
  <2>3. /\ three \in Lines /\ Count(three) = Count(two) + Count(Its(b))
        /\ Members(three) = Members(two) \cup Members(Its(b))
    BY <2>1, <2>2, MembersOfBoth
  <2>4. signal = NoThread => three = two
    <3>1. signal = NoThread => Its(b) = <<>>
      BY ThreadsAssumption DEF KeptInv, Holds, Its, Actors
    <3> QED
      BY <2>2, <3>1, NothingBetween
  <2> HIDE DEF three
  <2>5. Count(all) = Count(three) + Count(buffer[b])
        /\ Members(all) = Members(three) \cup Members(buffer[b])
    BY <2>1, <2>3, MembersOfBoth
  <2>6. Len(all) = pushed[b] /\ Members(all) = 1..pushed[b]
    BY <2>2, <2>3, <2>5 DEF KeptInv, Kept, Count
  <2>7. signal = NoThread => all = Numbers(pushed[b])
    BY <2>4 DEF two, KeptInv, Kept
  <2> QED
    BY <2>6, <2>7 DEF two, three
<1> QED
  BY <1>1, <1>2, KeptNext, PTL DEF Spec
=============================================================================
