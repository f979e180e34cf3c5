-------------------------- MODULE DeliveryContract --------------------------
(***************************************************************************)
(* What the host promises about the messages of a chat, with no word on    *)
(* how it keeps its promise: no clock, no cursors, no queue, no process    *)
(* that may be down.  Every group has a log of messages, each with its     *)
(* time; messages are taken in hand and then given to the agent.           *)
(*                                                                         *)
(*   - What is taken is new, and nothing newer is left out: a message that *)
(*     was ever read is never taken again.                                 *)
(*   - What is in hand is given in the order of the times, one at a time.  *)
(*   - A message can be lost in four ways only.  What is in hand may be    *)
(*     forgotten; a read that is full leaves the older ones out; a group's *)
(*     first read leaves out what is no later than the bot's last message; *)
(*     and a message that is no later than one already read is overlooked. *)
(*     Where nothing goes wrong (Lossless) none of this happens, and all   *)
(*     that is read is given.                                              *)
(*                                                                         *)
(* Groups are independent and may all move in one step.                    *)
(***************************************************************************)
EXTENDS Integers, Sequences, FiniteSets, SequenceTheorems, TLAPS

CONSTANTS
  Groups,
  Window,   (* how many messages one read returns                          *)
  Lossless

VARIABLES
  log,      (* the times of each group's messages, as they were stored     *)
  spoken,   (* the time of the bot's last message in a group, 0 if none    *)
  read,     (* those that are done with: given, in hand or lost            *)
  inHand,   (* those taken and not yet given                               *)
  given     (* those the agent was given                                   *)

vars == <<log, spoken, read, inHand, given>>

Init ==
  /\ log = [g \in Groups |-> <<>>]
  /\ spoken = [g \in Groups |-> 0]
  /\ read = [g \in Groups |-> {}]
  /\ inHand = [g \in Groups |-> {}]
  /\ given = [g \in Groups |-> {}]

(* A message is stored, no earlier than those before it.                   *)
Arrives(g) ==
  LET n == Len(log[g]) + 1 IN
  /\ log'[g] \in Seq(Nat) /\ Len(log'[g]) = n
  /\ \A i \in DOMAIN log[g] : log'[g][i] = log[g][i] /\ log[g][i] <= log'[g][n]

Grows(g) == (log'[g] = log[g] \/ Arrives(g)) /\ spoken[g] <= spoken'[g]

(* Nothing, or the earliest in hand, is given.                             *)
Gives(g) ==
  \/ given'[g] = given[g]
  \/ \E i \in inHand[g] : /\ \A j \in inHand[g] : log[g][i] <= log[g][j]
                          /\ given'[g] = given[g] \cup {i}

GoesOn(g) == inHand'[g] = inHand[g] \ given'[g] /\ read'[g] = read[g]

(* Why a read may leave out message j.                                     *)
Full(g) == Cardinality(inHand'[g]) = Window
Hidden(g, j) == read[g] = {} /\ log'[g][j] <= spoken[g]

Takes(g) ==
  LET new == DOMAIN log'[g] \ read[g] IN
  /\ inHand'[g] \subseteq new /\ inHand'[g] # {}
  /\ \A j \in new \ inHand'[g] :
       /\ \A i \in inHand'[g] : log'[g][j] <= log'[g][i]
       /\ ~Lossless /\ (Full(g) \/ Hidden(g, j))
  /\ Lossless => inHand[g] \subseteq given'[g]
  /\ read'[g] = DOMAIN log'[g]

Forgets(g) == ~Lossless /\ inHand'[g] = {} /\ read'[g] = read[g]

Overlooks(g) ==
  /\ ~Lossless /\ Arrives(g)
  /\ \E i \in read[g] : log'[g][Len(log'[g])] = log[g][i]
  /\ inHand'[g] = inHand[g] \ given'[g]
  /\ read'[g] = DOMAIN log'[g] /\ read'[g] = read[g] \cup {Len(log'[g])}

Step(g) == Grows(g) /\ Gives(g) /\ (GoesOn(g) \/ Takes(g) \/ Forgets(g) \/ Overlooks(g))

Next == \A g \in Groups : Step(g)
Spec == Init /\ [][Next]_vars

-----------------------------------------------------------------------------

(* What a caller may rely on: a message in hand was not given, and is no   *)
(* earlier than any that was: none is given twice or after a later one.    *)
OnceInOrder ==
  \A g \in Groups : \A i \in given[g], j \in inHand[g] : i # j /\ log[g][i] <= log[g][j]

(* Where nothing goes wrong, what was read is given or in hand.            *)
NothingLost == Lossless => \A g \in Groups : read[g] = given[g] \cup inHand[g]

(* The log is in the order of its times; what was read is a beginning of   *)
(* it, and all that was taken.                                             *)
Ordered(l) == l \in Seq(Nat) /\ \A i, j \in DOMAIN l : i < j => l[i] <= l[j]
ReadIsPrefix ==
  \A g \in Groups :
    /\ Ordered(log[g])
    /\ read[g] \subseteq DOMAIN log[g]
    /\ \A i \in read[g], j \in DOMAIN log[g] : j <= i => j \in read[g]
    /\ given[g] \cup inHand[g] \subseteq read[g]

Inv == ReadIsPrefix /\ OnceInOrder /\ NothingLost

(* A message that arrives is the log's last.                               *)
LEMMA ArrivalIsLast ==
  ASSUME NEW g \in Groups, Ordered(log[g]), log'[g] = log[g] \/ Arrives(g)
  PROVE  /\ Ordered(log'[g])
         /\ \A i \in DOMAIN log[g] : i \in DOMAIN log'[g] /\ log'[g][i] = log[g][i]
         /\ \A i \in DOMAIN log[g], j \in DOMAIN log'[g] \ DOMAIN log[g] : i < j
<1>1. CASE log'[g] = log[g]
  BY <1>1 DEF Ordered
<1>2. CASE Arrives(g)
  <2> DEFINE n == Len(log[g]) + 1
  <2>1. /\ n \in Nat /\ DOMAIN log[g] = 1 .. n - 1 /\ DOMAIN log'[g] = 1 .. n
        /\ \A i \in 1 .. n - 1 : log[g][i] \in Nat
        /\ log'[g] \in Seq(Nat)
        /\ \A i \in 1 .. n - 1 : log'[g][i] = log[g][i] /\ log[g][i] <= log'[g][n]
    BY <1>2, ElementOfSeq DEF Arrives, Ordered
  <2>2. ASSUME NEW i \in 1 .. n, NEW j \in 1 .. n, i < j
        PROVE  log'[g][i] <= log'[g][j]
    <3>1. CASE j = n
      <4>1. i \in 1 .. n - 1
        BY <2>1, <2>2, <3>1
      <4> QED
        BY <2>1, <3>1, <4>1
    <3>2. CASE j # n
      <4>1. i \in 1 .. n - 1 /\ j \in 1 .. n - 1
        BY <2>1, <2>2, <3>2
      <4>2. log[g][i] <= log[g][j]
        BY <2>1, <2>2, <4>1 DEF Ordered
      <4> QED
        BY <2>1, <4>1, <4>2
    <3> QED
      BY <3>1, <3>2
  <2>3. Ordered(log'[g])
    BY <2>1, <2>2 DEF Ordered
  <2> QED
    BY <2>1, <2>3
<1> QED
  BY <1>1, <1>2

LEMMA StepKeepsInv ==
  ASSUME Inv, NEW g \in Groups, Step(g)
  PROVE  /\ Ordered(log'[g])
         /\ read'[g] \subseteq DOMAIN log'[g]
         /\ \A i \in read'[g], j \in DOMAIN log'[g] : j <= i => j \in read'[g]
         /\ given'[g] \cup inHand'[g] \subseteq read'[g]
         /\ \A i \in given'[g], j \in inHand'[g] : i # j /\ log'[g][i] <= log'[g][j]
         /\ Lossless => read'[g] = given'[g] \cup inHand'[g]
<1>1. /\ Ordered(log[g]) /\ read[g] \subseteq DOMAIN log[g]
      /\ \A i \in read[g], j \in DOMAIN log[g] : j <= i => j \in read[g]
      /\ given[g] \subseteq read[g] /\ inHand[g] \subseteq read[g]
      /\ \A i \in given[g], j \in inHand[g] : i # j /\ log[g][i] <= log[g][j]
      /\ Lossless => read[g] = given[g] \cup inHand[g]
  BY DEF Inv, ReadIsPrefix, OnceInOrder, NothingLost
<1>2. /\ Ordered(log'[g])
      /\ \A i \in DOMAIN log[g] : i \in DOMAIN log'[g] /\ log'[g][i] = log[g][i]
      /\ \A i \in DOMAIN log[g], j \in DOMAIN log'[g] \ DOMAIN log[g] : i < j
  BY <1>1, ArrivalIsLast DEF Step, Grows
<1>3. /\ DOMAIN log'[g] \subseteq Nat /\ DOMAIN log[g] \subseteq Nat
      /\ \A i \in DOMAIN log[g] : log[g][i] \in Nat
  BY <1>1, <1>2, ElementOfSeq DEF Ordered
<1>4. /\ given[g] \subseteq given'[g] /\ given'[g] \subseteq given[g] \cup inHand[g]
      /\ \A i \in given'[g], j \in inHand[g] \ given'[g] : i # j /\ log[g][i] <= log[g][j]
  <2>1. CASE given'[g] = given[g]
    BY <1>1, <2>1
  <2>2. ASSUME NEW i \in inHand[g], \A j \in inHand[g] : log[g][i] <= log[g][j],
               given'[g] = given[g] \cup {i}
        PROVE  \A k \in given'[g], j \in inHand[g] \ given'[g] : k # j /\ log[g][k] <= log[g][j]
    BY <1>1, <2>2
  <2> QED
    BY <2>1, <2>2 DEF Step, Gives
<1>5. \A i \in given'[g], j \in inHand[g] \ given'[g] : i # j /\ log'[g][i] <= log'[g][j]
  BY <1>1, <1>2, <1>4
<1>6. \A i \in read[g], j \in DOMAIN log'[g] : j <= i => j \in read[g]
  BY <1>1, <1>2, <1>3
<1>7. CASE GoesOn(g)
  BY <1>1, <1>2, <1>4, <1>5, <1>6, <1>7 DEF GoesOn
<1>8. CASE Takes(g)
  <2>1. \A i \in read[g], j \in DOMAIN log'[g] \ read[g] : i < j
    BY <1>1, <1>2, <1>3, <1>6
  <2>2. \A i \in given'[g], j \in inHand'[g] : i # j /\ log'[g][i] <= log'[g][j]
    <3> SUFFICES ASSUME NEW i \in given'[g], NEW j \in inHand'[g]
                 PROVE  i # j /\ log'[g][i] <= log'[g][j]
      OBVIOUS
    <3>1. i \in read[g] /\ j \in DOMAIN log'[g] \ read[g] /\ i \in DOMAIN log'[g]
      BY <1>1, <1>2, <1>4, <1>8 DEF Takes
    <3>2. i < j
      BY <2>1, <3>1
    <3> QED
      BY <1>2, <1>3, <3>1, <3>2 DEF Ordered
  <2>3. Lossless => inHand'[g] = DOMAIN log'[g] \ read[g]
    BY <1>8 DEF Takes
  <2> QED
    BY <1>1, <1>2, <1>4, <1>8, <2>2, <2>3 DEF Takes
<1>9. CASE Forgets(g)
  BY <1>1, <1>2, <1>4, <1>6, <1>9 DEF Forgets
<1>10. CASE Overlooks(g)
  BY <1>1, <1>2, <1>4, <1>5, <1>10 DEF Overlooks
<1> QED
  BY <1>7, <1>8, <1>9, <1>10 DEF Step

(* The contract says enough: whoever keeps it gives every message at most  *)
(* once and none after a later one, and loses none where nothing goes      *)
(* wrong.                                                                  *)
THEOREM ContractDelivers == Spec => [](OnceInOrder /\ NothingLost)
<1>1. Init => Inv
  BY DEF Init, Inv, ReadIsPrefix, OnceInOrder, NothingLost, Ordered
<1>2. Inv /\ [Next]_vars => Inv'
  <2> SUFFICES ASSUME Inv, [Next]_vars PROVE Inv'
    OBVIOUS
  <2>1. CASE Next
    BY <2>1, StepKeepsInv DEF Next, Inv, ReadIsPrefix, OnceInOrder, NothingLost
  <2>2. CASE UNCHANGED vars
    BY <2>2 DEF vars, Inv, ReadIsPrefix, OnceInOrder, NothingLost
  <2> QED
    BY <2>1, <2>2
<1>3. Inv => OnceInOrder /\ NothingLost
  BY DEF Inv
<1> QED
  BY <1>1, <1>2, <1>3, PTL DEF Spec
=============================================================================
