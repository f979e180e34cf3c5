------------------------- MODULE MessageLoopProofs -------------------------
(***************************************************************************)
(* Proofs about the message loop, for every set of groups, every window,   *)
(* every combination of faults and any number of crashes and restarts.     *)
(*                                                                         *)
(* The queue's own invariant carries over: a step of the loop is a step of *)
(* the queue, or it puts the queue back into its initial state.  On it     *)
(* rests LoopInv, which ties three things together that only meet in the   *)
(* callbacks: the times in the database only grow, a batch belongs to the  *)
(* one message run of its group, and what was read lies behind the cursor. *)
(***************************************************************************)
EXTENDS MessageLoop, GroupQueueProofs, SequenceTheorems, WellFoundedInduction

Message == [at : Nat, call : BOOLEAN]

(* The types of the loop's variables.                                      *)
LoopTypes ==
  /\ up \in BOOLEAN
  /\ booting \subseteq Groups
  /\ boots \in Nat /\ clock \in Nat
  /\ botAt \in [Groups -> 0 .. clock]
  /\ cursor \in [Groups -> 0 .. clock]
  /\ batch \in [Groups -> SUBSET Nat]
  /\ attempted \in [Groups -> SUBSET Nat]

(* Messages msgs are stored in the order of their times, none of them      *)
(* later than now; without ties no two of a group have the same time.      *)
StoreSound(msgs, now) ==
  /\ msgs \in [Groups -> Seq(Message)]
  /\ \A g \in Groups : \A i \in DOMAIN msgs[g] :
       /\ 1 <= msgs[g][i].at /\ msgs[g][i].at <= now
       /\ \A j \in DOMAIN msgs[g] : i < j =>
            /\ msgs[g][i].at <= msgs[g][j].at
            /\ "tie" \notin Faults => msgs[g][i].at < msgs[g][j].at

(* What a loop has read is a batch of messages, behind the cursor and no   *)
(* earlier than all that was attempted, which is behind the cursor, too;   *)
(* and the cursor is the time of a message.                                *)
ReadSound ==
  \A g \in Groups :
    /\ attempted[g] \cup batch[g] \subseteq DOMAIN stored[g]
    /\ \A i \in attempted[g] \cup batch[g] : stored[g][i].at <= cursor[g]
    /\ \A i \in attempted[g], j \in batch[g] :
         i # j /\ stored[g][i].at <= stored[g][j].at
    /\ cursor[g] # 0 => \E i \in DOMAIN stored[g] : stored[g][i].at = cursor[g]

BatchHasRun == \A g \in Groups : batch[g] # {} => running[g] = MessageRun

NoBotMessage == "bot" \notin Faults => \A g \in Groups : botAt[g] = 0

LoopInv ==
  /\ LoopTypes
  /\ StoreSound(stored, clock)
  /\ ReadSound
  /\ BatchHasRun
  /\ UnreadIsPending
  /\ NoBotMessage
  /\ NothingPassedOver

-----------------------------------------------------------------------------
(* The queue under the loop.                                               *)

(* What a step of the loop is to the queue.                                *)
LEMMA LoopStepOfQueue ==
  ASSUME [LoopNext]_allVars
  PROVE  [Next]_vars \/ Down
<1>1. ASSUME NEW g \in Groups, NEW call \in BOOLEAN, OnMessage(g, call)
      PROVE  Next
  BY <1>1 DEF OnMessage, Next, Request
<1>2. ASSUME NEW g \in Groups, BotPosts(g) \/ MessageHandled(g)
      PROVE  UNCHANGED vars
  BY <1>2 DEF BotPosts, MessageHandled
<1>3. ASSUME NEW g \in Groups, HandlingThrows(g) \/ RunReturns(g) \/ TaskReturns(g)
      PROVE  Next
  BY <1>3 DEF HandlingThrows, RunReturns, TaskReturns, Next
<1>4. ASSUME NEW g \in Groups, Retry(g) \/ BootCheck(g)
      PROVE  Next
  BY <1>4 DEF Retry, BootCheck, Next, Request
<1>5. ASSUME NEW t \in Tasks, TaskRequested(t)
      PROVE  Next
  BY <1>5 DEF TaskRequested, Next, Request
<1>6. CASE Boot \/ UNCHANGED allVars
  BY <1>6 DEF Boot, allVars
<1>7. CASE Stop
  BY <1>7 DEF Stop, Next
<1>8. CASE Exit \/ Crash
  BY <1>8 DEF Exit, Crash
<1> QED
  BY <1>1, <1>2, <1>3, <1>4, <1>5, <1>6, <1>7, <1>8 DEF LoopNext

(* The end of the process leaves the queue as it began.                    *)
LEMMA DownResetsQueue ==
  ASSUME Down
  PROVE  QueueInv' /\ RetryTypes'
<1>1. Init'
  BY DEF Down, Init
<1>2. (Init => QueueInv /\ RetryTypes)'
  BY QueueInvInit, RetryTypesInductive, PTL
<1> QED
  BY <1>1, <1>2

LEMMA QueueInvLoopStep ==
  ASSUME QueueInv, RetryTypes, [LoopNext]_allVars
  PROVE  QueueInv' /\ RetryTypes'
BY LoopStepOfQueue, DownResetsQueue, QueueInvStep, RetryTypesInductive

(* The queue's invariant holds under the message loop, through crashes and *)
(* restarts.                                                               *)
THEOREM QueueInvariantInLoop == LoopSpec => [](QueueInv /\ RetryTypes)
<1>1. LoopInit => QueueInv /\ RetryTypes
  BY QueueInvInit, RetryTypesInductive DEF LoopInit
<1> QED
  BY <1>1, QueueInvLoopStep, PTL DEF LoopSpec

(* What a check of group g, and the end of a run of g, mean for the loops: *)
(* which message runs begin, and what becomes of the other runs and of the *)
(* pending checks.                                                         *)
Begins(S) ==
  /\ S \subseteq Groups
  /\ \A h \in S : running'[h] = MessageRun
  /\ shuttingDown' = shuttingDown

LEMMA CheckForLoop ==
  ASSUME QueueInv, NEW g \in Groups, MessageCheck(g)
  PROVE  /\ Begins(BeginsOnCheck(g))
         /\ \A h \in BeginsOnCheck(g) : ~Active(h)
         /\ \A h \in Groups : Active(h) => running'[h] = running[h]
         /\ \A h \in Groups \ {g} : pendingMessages'[h] = pendingMessages[h]
         /\ g \in BeginsOnCheck(g) \/ pendingMessages'[g]
<1> USE DEF QueueInv, QueueTypes
<1>1. CASE ~Active(g) /\ ~AtLimit
  BY <1>1 DEF MessageCheck, BeginsOnCheck, Begins, StartNow
<1>2. CASE Active(g) \/ AtLimit
  BY <1>2 DEF MessageCheck, BeginsOnCheck, Begins
<1> QED
  BY <1>1, <1>2

LEMMA ReleaseForLoop ==
  ASSUME QueueInv, NEW g \in Groups, Active(g), Release(g)
  PROVE  /\ Begins(BeginsOnRelease(g))
         /\ \A h \in BeginsOnRelease(g) : h = g \/ ~Active(h)
         /\ \A h \in Groups \ {g} : Active(h) => running'[h] = running[h]
         /\ \A h \in Groups \ BeginsOnRelease(g) : pendingMessages'[h] = pendingMessages[h]
<1> USE DEF QueueInv, QueueTypes
<1>1. Started(g) \subseteq Groups /\ \A h \in Started(g) : HasWork(h)
  BY DEF Started, OwnWorkFirst
<1>2. Begins(BeginsOnRelease(g))
  BY <1>1 DEF Begins, BeginsOnRelease, Release, QueuedRun
<1>3. \A h \in Groups \ BeginsOnRelease(g) : pendingMessages'[h] = pendingMessages[h]
  BY DEF BeginsOnRelease, Release, Dequeue
<1>4. \A h \in BeginsOnRelease(g) : ~pendingMessages'[h] /\ pendingMessages[h]
  BY <1>1 DEF BeginsOnRelease, Release, Dequeue, HasWork
<1>5. CASE Frees(g)
  BY <1>1, <1>2, <1>3, <1>4, <1>5 DEF Frees, BeginsOnRelease
<1>6. CASE Keeps(g)
  BY <1>1, <1>2, <1>3, <1>4, <1>6 DEF Keeps, Serves, BeginsOnRelease
<1>7. CASE HandsOver(g)
  <2> DEFINE n == Head(waitingGroups)
  <2>1. n \in Groups /\ n = waitingGroups[1] /\ 1 \in DOMAIN waitingGroups
    BY <1>7 DEF HandsOver
  <2>2. ~Active(n)
    BY <2>1 DEF WaitingSound
  <2>3. \A h \in Groups \ {n} : pendingMessages'[h] = pendingMessages[h]
    BY <1>7, <2>1 DEF HandsOver, Serves
  <2>4. \A h \in BeginsOnRelease(g) : h = n
    BY <1>1, <1>4, <2>3 DEF BeginsOnRelease
  <2>5. \A h \in Groups \ {g} : Active(h) => running'[h] = running[h]
    BY <1>7, <2>1, <2>2 DEF HandsOver
  <2> QED
    BY <1>2, <1>3, <2>2, <2>4, <2>5
<1> QED
  BY <1>5, <1>6, <1>7, ReleaseCases

-----------------------------------------------------------------------------
(* Reading.                                                                *)

(* A set of numbers from 1 to n that is not empty has a largest element:   *)
(* of the intervals from its elements to n, take one that contains no      *)
(* other.                                                                  *)
LEMMA MaxIsLargest ==
  ASSUME NEW n \in Nat, NEW S, S \subseteq 1 .. n, S # {}
  PROVE  Max(S) \in S /\ \A y \in S : y <= Max(S)
<1> DEFINE Up(x) == x .. n
           T == {Up(x) : x \in S}
<1>1. IsFiniteSet(1 .. n)
  BY FS_Interval
<1>2. IsWellFoundedOn(StrictSubsetOrdering(1 .. n), SUBSET (1 .. n))
  BY <1>1, FS_StrictSubsetOrderingWellFounded, FS_FiniteSubsetsOfFinite
<1>3. \A x \in S : x \in Int /\ 1 <= x /\ x <= n
  OBVIOUS
<1>4. \A x \in S : Up(x) \subseteq 1 .. n
  BY <1>3
<1>5. T \subseteq SUBSET (1 .. n) /\ T # {}
  BY <1>4
<1>6. PICK t \in T : \A u \in T : <<u, t>> \notin StrictSubsetOrdering(1 .. n)
  <2> HIDE DEF T
  <2> QED
    BY <1>2, <1>5, WFMin
<1>7. PICK x \in S : t = Up(x)
  BY <1>6
<1>8. \A y \in S : y <= x
  <2> SUFFICES ASSUME NEW y \in S, ~(y <= x)
               PROVE  FALSE
    OBVIOUS
  <2>1. Up(y) \subseteq Up(x) /\ x \in Up(x) /\ x \notin Up(y)
    BY <1>3
  <2>2. <<Up(y), Up(x)>> \in StrictSubsetOrdering(1 .. n)
    <3> HIDE DEF Up
    <3> QED
      BY <1>4, <2>1 DEF StrictSubsetOrdering
  <2> QED
    BY <1>6, <1>7, <2>2
<1>9. \A y \in S : x >= y
  BY <1>3, <1>8
<1>10. Max(S) \in S /\ \A y \in S : Max(S) >= y
  BY <1>9 DEF Max
<1> QED
  BY <1>3, <1>10

(* What a group that is called reads: messages it has, and its cursor      *)
(* moves forward, to the last time of all its messages.                    *)
LEMMA ReadFacts ==
  ASSUME NEW msgs, NEW now \in Nat, StoreSound(msgs, now), NEW g \in Groups,
         Since(g) \in Nat, NEW got \in ReadResults(g, msgs), Called(g, msgs, got)
  PROVE  /\ got \subseteq DOMAIN msgs[g]
         /\ \A i \in got : msgs[g][i].at > Since(g)
         /\ CursorAfter(g, msgs, got) \in 0 .. now
         /\ CursorAfter(g, msgs, got) > Since(g)
         /\ \A i \in DOMAIN msgs[g] : msgs[g][i].at <= CursorAfter(g, msgs, got)
         /\ \E i \in got : msgs[g][i].at = CursorAfter(g, msgs, got)
         /\ Len(msgs[g]) <= Window => got = Unread(g, msgs)
<1> DEFINE n == Len(msgs[g])
           S == Unread(g, msgs)
           T == {msgs[g][i].at : i \in got}
           last == CursorAfter(g, msgs, got)
<1>1. /\ n \in Nat /\ DOMAIN msgs[g] = 1 .. n
      /\ \A i \in DOMAIN msgs[g] : msgs[g][i].at \in 1 .. now
  <2>1. msgs[g] \in Seq(Message)
    BY DEF StoreSound
  <2>2. n \in Nat /\ DOMAIN msgs[g] = 1 .. n
    BY <2>1
  <2>3. \A i \in DOMAIN msgs[g] : msgs[g][i] \in Message
    BY <2>1, ElementOfSeq, <2>2
  <2> QED
    BY <2>2, <2>3 DEF Message, StoreSound
<1>2. /\ S \subseteq 1 .. n /\ got \subseteq S /\ got # {}
      /\ \A i \in S : msgs[g][i].at > Since(g)
      /\ got = S \/ Cardinality(got) = Window
      /\ \A i \in got, j \in S \ got : msgs[g][j].at <= msgs[g][i].at
  BY <1>1 DEF ReadResults, Unread, Called
<1>3. T \subseteq 1 .. now /\ T # {}
  BY <1>1, <1>2
<1>4. last \in T /\ \A t \in T : t <= last
  <2> HIDE DEF T
  <2>1. Max(T) \in T /\ \A t \in T : t <= Max(T)
    BY <1>3, MaxIsLargest
  <2> QED
    BY <2>1 DEF CursorAfter, T
<1>5. PICK m \in got : msgs[g][m].at = last
  BY <1>4
<1>6. last \in 1 .. now /\ last > Since(g)
  BY <1>1, <1>2, <1>5
<1>7. ASSUME NEW i \in DOMAIN msgs[g]
      PROVE  msgs[g][i].at <= last
  <2>1. CASE i \in got
    BY <1>4, <2>1
  <2>2. CASE i \in S \ got
    BY <1>2, <1>5, <2>2
  <2>3. CASE i \notin S
    <3>1. ~(msgs[g][i].at > Since(g)) /\ msgs[g][i].at \in Nat
      BY <1>1, <2>3 DEF Unread
    <3> QED
      BY <1>6, <3>1
  <2> QED
    BY <1>2, <2>1, <2>2, <2>3
<1>8. ASSUME n <= Window, Cardinality(got) = Window
      PROVE  got = S
  <2>1. IsFiniteSet(1 .. n) /\ Cardinality(1 .. n) = n
    BY <1>1, FS_Interval
  <2>2. got \subseteq 1 .. n
    BY <1>2
  <2>3. Window <= n /\ (n = Window => 1 .. n = got)
    BY <1>8, <2>1, <2>2, FS_Subset
  <2>4. n = Window
    BY <1>1, <1>8, <2>3, LoopAssumption
  <2>5. S \subseteq got
    BY <1>2, <2>3, <2>4
  <2> QED
    BY <1>2, <2>5
<1> HIDE DEF last
<1> QED
  BY <1>1, <1>2, <1>5, <1>6, <1>7, <1>8 DEF last

(* The store and the loops around a step that reads: messages may be added *)
(* and some of what was batched may be handled or forgotten before.        *)
StoreGrows ==
  /\ clock \in Nat /\ clock' \in Nat /\ clock <= clock'
  /\ StoreSound(stored', clock')
  /\ \A g \in Groups : \A i \in DOMAIN stored[g] :
       i \in DOMAIN stored'[g] /\ stored'[g][i] = stored[g][i]

Handles(left) ==
  /\ left \in [Groups -> SUBSET Nat]
  /\ attempted' \in [Groups -> SUBSET Nat]
  /\ \A g \in Groups : /\ left[g] \subseteq batch[g]
                       /\ attempted'[g] \subseteq attempted[g] \cup batch[g]
                       /\ \A i \in attempted'[g], j \in left[g] :
                            i # j /\ stored[g][i].at <= stored[g][j].at

(* Any read of a group would find it called.                               *)
MustCall(g) == \A got \in ReadResults(g, stored) : Called(g, stored, got)

(* What a step that reads gets.                                            *)
Gets(S, left, got) ==
  /\ \A g \in S : got[g] \in ReadResults(g, stored')
  /\ batch' = [g \in Groups |->
                 IF g \in S /\ Called(g, stored', got[g]) THEN got[g] ELSE left[g]]
  /\ cursor' = [g \in Groups |->
                  IF g \in S /\ Called(g, stored', got[g])
                    THEN CursorAfter(g, stored', got[g]) ELSE cursor[g]]

LEMMA ReadGets ==
  ASSUME NEW S, NEW left, ReadBatches(S, left, stored')
  PROVE  \E got : Gets(S, left, got)
BY DEF ReadBatches, Gets

LEMMA SinceType ==
  ASSUME LoopTypes, NEW g \in Groups
  PROVE  Since(g) \in Nat /\ cursor[g] \in Nat
BY DEF LoopTypes, Since

LEMMA ReadingKeeps ==
  ASSUME LoopTypes, StoreSound(stored, clock), ReadSound, StoreGrows, botAt' = botAt,
         NEW S, S \subseteq Groups, NEW left, Handles(left), ReadBatches(S, left, stored')
  PROVE  /\ cursor' \in [Groups -> 0 .. clock']
         /\ batch' \in [Groups -> SUBSET Nat]
         /\ ReadSound'
         /\ \A g \in Groups \ S : cursor'[g] = cursor[g] /\ batch'[g] = left[g]
         /\ \A g \in S : ~MustCall(g)'
<1>0. PICK got : Gets(S, left, got)
  BY ReadGets
<1> DEFINE due(g) == g \in S /\ Called(g, stored', got[g])
           Sound(g) == /\ cursor'[g] \in 0 .. clock'
                       /\ batch'[g] \subseteq Nat
                       /\ attempted'[g] \cup batch'[g] \subseteq DOMAIN stored'[g]
                       /\ \A i \in attempted'[g] \cup batch'[g] : stored'[g][i].at <= cursor'[g]
                       /\ \A i \in attempted'[g], j \in batch'[g] :
                            i # j /\ stored'[g][i].at <= stored'[g][j].at
                       /\ cursor'[g] # 0 =>
                            \E i \in DOMAIN stored'[g] : stored'[g][i].at = cursor'[g]
<1>1. /\ batch' = [g \in Groups |-> IF due(g) THEN got[g] ELSE left[g]]
      /\ cursor' = [g \in Groups |->
                      IF due(g) THEN CursorAfter(g, stored', got[g]) ELSE cursor[g]]
  BY <1>0 DEF Gets
<1>2. \A g \in Groups : \A i \in DOMAIN stored'[g] : i \in Nat /\ stored'[g][i].at \in Nat
  <2> SUFFICES ASSUME NEW g \in Groups, NEW i \in DOMAIN stored'[g]
               PROVE  i \in Nat /\ stored'[g][i].at \in Nat
    OBVIOUS
  <2>1. stored'[g] \in Seq(Message)
    BY DEF StoreGrows, StoreSound
  <2>2. i \in Nat /\ stored'[g][i] \in Message
    BY <2>1, ElementOfSeq
  <2> QED
    BY <2>2 DEF Message
<1>3. \A g \in Groups : \A i \in attempted'[g] :
        /\ i \in DOMAIN stored'[g]
        /\ stored'[g][i].at <= cursor[g] /\ 1 <= stored'[g][i].at
  BY DEF Handles, ReadSound, StoreGrows, StoreSound
<1>4. ASSUME NEW g \in Groups, due(g)
      PROVE  Sound(g)
  <2>0. got[g] \in ReadResults(g, stored')
    BY <1>0, <1>4 DEF Gets
  <2>1. /\ got[g] \subseteq DOMAIN stored'[g]
        /\ \A j \in got[g] : stored'[g][j].at > Since(g)
        /\ CursorAfter(g, stored', got[g]) \in 0 .. clock'
        /\ \A i \in DOMAIN stored'[g] : stored'[g][i].at <= CursorAfter(g, stored', got[g])
        /\ \E i \in got[g] : stored'[g][i].at = CursorAfter(g, stored', got[g])
    BY <1>4, <2>0, SinceType, ReadFacts DEF StoreGrows
  <2>2. batch'[g] = got[g] /\ cursor'[g] = CursorAfter(g, stored', got[g])
    BY <1>1, <1>4
  <2>3. ASSUME NEW i \in attempted'[g], NEW j \in batch'[g]
        PROVE  i # j /\ stored'[g][i].at <= stored'[g][j].at
    <3>1. /\ i \in DOMAIN stored'[g] /\ stored'[g][i].at <= cursor[g] /\ 1 <= stored'[g][i].at
          /\ j \in DOMAIN stored'[g] /\ stored'[g][j].at > Since(g)
      BY <1>3, <2>1, <2>2
    <3>2. i \in Nat /\ j \in Nat /\ stored'[g][i].at \in Nat /\ stored'[g][j].at \in Nat
      BY <1>2, <3>1
    <3>3. Since(g) = cursor[g] /\ cursor[g] \in Nat
      BY <3>1, <3>2, SinceType DEF Since
    <3>4. stored'[g][i].at < stored'[g][j].at
      BY <3>1, <3>2, <3>3
    <3> QED
      BY <3>2, <3>4
  <2> QED
    BY <1>2, <1>3, <2>1, <2>2, <2>3
<1>5. ASSUME NEW g \in Groups, ~due(g)
      PROVE  Sound(g) /\ cursor'[g] = cursor[g] /\ batch'[g] = left[g]
  <2>1. batch'[g] = left[g] /\ cursor'[g] = cursor[g]
    BY <1>1, <1>5
  <2>2. cursor[g] \in 0 .. clock'
    BY DEF LoopTypes, StoreGrows
  <2>3. /\ left[g] \subseteq Nat
        /\ \A i \in attempted'[g], j \in left[g] : i # j /\ stored[g][i].at <= stored[g][j].at
    BY DEF Handles
  <2>4. \A j \in left[g] : j \in DOMAIN stored'[g] /\ stored'[g][j].at <= cursor[g]
    BY DEF Handles, ReadSound, StoreGrows
  <2>5. \A i \in attempted'[g] \cup left[g] :
          i \in DOMAIN stored[g] /\ stored'[g][i] = stored[g][i]
    BY DEF Handles, ReadSound, StoreGrows
  <2>6. cursor[g] # 0 => \E i \in DOMAIN stored'[g] : stored'[g][i].at = cursor[g]
    BY DEF ReadSound, StoreGrows
  <2> QED
    BY <1>3, <2>1, <2>2, <2>3, <2>4, <2>5, <2>6
<1>6. ASSUME NEW g \in S
      PROVE  ~MustCall(g)'
  <2>0. got[g] \in ReadResults(g, stored')
    BY <1>0 DEF Gets
  <2>1. CASE Called(g, stored', got[g])
    <3>1. /\ CursorAfter(g, stored', got[g]) \in Nat /\ CursorAfter(g, stored', got[g]) > Since(g)
          /\ \A i \in DOMAIN stored'[g] : stored'[g][i].at <= CursorAfter(g, stored', got[g])
      BY <2>0, <2>1, SinceType, ReadFacts DEF StoreGrows
    <3>2. cursor'[g] = CursorAfter(g, stored', got[g])
      BY <1>1, <2>1
    <3>3. cursor'[g] \in Nat /\ cursor'[g] # 0
      BY <3>1, <3>2, SinceType
    <3>4. Since(g)' = cursor'[g]
      BY <3>3 DEF Since
    <3>5. {i \in DOMAIN stored'[g] : stored'[g][i].at > Since(g)'} = {}
      BY <1>2, <3>1, <3>2, <3>3, <3>4
    <3>6. {} \in ReadResults(g, stored)'
      BY <3>5, FS_EmptySet, LoopAssumption DEF ReadResults, Unread
    <3> QED
      BY <3>6 DEF MustCall, Called
  <2>2. CASE ~Called(g, stored', got[g])
    <3>1. cursor'[g] = cursor[g]
      BY <1>1, <2>2
    <3>2. Since(g)' = Since(g)
      BY <3>1 DEF Since
    <3>3. got[g] \in ReadResults(g, stored)'
      BY <2>0, <3>2 DEF ReadResults, Unread
    <3> QED
      BY <2>2, <3>3 DEF MustCall, Called
  <2> QED
    BY <2>1, <2>2
<1>7. \A g \in Groups : Sound(g)
  BY <1>4, <1>5
<1>8. ReadSound'
  BY <1>7 DEF ReadSound
<1>9. cursor' \in [Groups -> 0 .. clock'] /\ batch' \in [Groups -> SUBSET Nat]
  <2>1. cursor' = [g \in Groups |-> cursor'[g]] /\ batch' = [g \in Groups |-> batch'[g]]
    BY <1>1
  <2> QED
    BY <1>7, <2>1
<1> QED
  BY <1>5, <1>6, <1>8, <1>9

(* Without faults: what the step forgets of a batch it has handled, and a  *)
(* message it adds is later than every cursor.                             *)
ForgetsNothing(S, left) ==
  /\ \A g \in S : batch[g] = {}
  /\ \A g \in Groups : attempted[g] \cup batch[g] \subseteq attempted'[g] \cup left[g]
  /\ \A g \in Groups : \A i \in DOMAIN stored'[g] \ DOMAIN stored[g] : stored'[g][i].at > clock

LEMMA ReadingPassesNothing ==
  ASSUME LoopTypes, StoreSound(stored, clock), NoBotMessage, NothingPassedOver,
         StoreGrows, Faults = {},
         NEW S, S \subseteq Groups, NEW left, Handles(left),
         ReadBatches(S, left, stored'), ForgetsNothing(S, left)
  PROVE  NothingPassedOver'
<1> SUFFICES ASSUME NEW g \in Groups, Len(stored'[g]) <= Window,
                    NEW i \in DOMAIN stored'[g], stored'[g][i].at <= cursor'[g]
             PROVE  i \in attempted'[g] \cup batch'[g]
  BY DEF NothingPassedOver
<1>0. PICK got : Gets(S, left, got)
  BY ReadGets
<1> DEFINE due == g \in S /\ Called(g, stored', got[g])
<1>1. /\ batch'[g] = IF due THEN got[g] ELSE left[g]
      /\ cursor'[g] = IF due THEN CursorAfter(g, stored', got[g]) ELSE cursor[g]
      /\ due => got[g] \in ReadResults(g, stored')
  BY <1>0 DEF Gets
<1>2. /\ stored[g] \in Seq(Message) /\ stored'[g] \in Seq(Message)
      /\ cursor[g] \in Nat /\ cursor[g] <= clock /\ clock \in Nat
  BY DEF LoopTypes, StoreSound, StoreGrows
<1>3. stored'[g][i] \in Message /\ stored'[g][i].at \in Nat
  <2>1. stored'[g][i] \in Message
    BY <1>2, ElementOfSeq
  <2> QED
    BY <2>1 DEF Message
<1>4. Since(g) = cursor[g]
  BY DEF NoBotMessage, Since
<1>5. Len(stored[g]) <= Window
  <2>1. Len(stored[g]) \in Nat /\ Len(stored'[g]) \in Nat /\ Window \in Nat
    BY <1>2, LoopAssumption
  <2>2. CASE Len(stored[g]) = 0
    BY <2>1, <2>2
  <2>3. CASE Len(stored[g]) # 0
    <3>1. Len(stored[g]) \in DOMAIN stored[g]
      BY <1>2, <2>1, <2>3
    <3>2. Len(stored[g]) \in DOMAIN stored'[g]
      BY <3>1 DEF StoreGrows
    <3>3. Len(stored[g]) <= Len(stored'[g])
      BY <1>2, <3>2
    <3> QED
      BY <2>1, <3>3
  <2> QED
    BY <2>2, <2>3
<1>6. CASE stored'[g][i].at <= cursor[g]
  <2>1. i \in DOMAIN stored[g]
    <3>1. i \notin DOMAIN stored[g] => stored'[g][i].at > clock
      BY DEF ForgetsNothing
    <3> QED
      BY <1>2, <1>3, <1>6, <3>1
  <2>2. i \in attempted[g] \cup batch[g]
    BY <1>5, <1>6, <2>1 DEF NothingPassedOver, StoreGrows
  <2> QED
    BY <1>1, <2>2 DEF ForgetsNothing, Handles
<1>7. CASE ~(stored'[g][i].at <= cursor[g])
  <2>1. due /\ stored'[g][i].at > Since(g)
    BY <1>1, <1>2, <1>3, <1>4, <1>7
  <2>2. got[g] = Unread(g, stored')
    BY <1>1, <1>2, <1>4, <2>1, ReadFacts DEF StoreGrows
  <2> QED
    BY <1>1, <2>1, <2>2 DEF Unread
<1> QED
  BY <1>6, <1>7

(* A check is pending for a group that is called; a step that leaves the   *)
(* group's messages, cursor and check alone keeps it so.                   *)
CallIsPending(g) ==
  up /\ ~shuttingDown /\ MustCall(g) => pendingMessages[g] \/ g \in booting

LEMMA StaysPending ==
  ASSUME NEW g \in Groups, CallIsPending(g),
         up' => up, ~shuttingDown' => ~shuttingDown,
         stored'[g] = stored[g], cursor'[g] = cursor[g], botAt'[g] = botAt[g],
         pendingMessages'[g] = pendingMessages[g], g \in booting => g \in booting'
  PROVE  CallIsPending(g)'
<1>1. Since(g)' = Since(g)
  BY DEF Since
<1>2. ReadResults(g, stored)' = ReadResults(g, stored)
  BY <1>1 DEF ReadResults, Unread
<1>3. MustCall(g)' <=> MustCall(g)
  BY <1>2 DEF MustCall, Called
<1> QED
  BY <1>3 DEF CallIsPending

-----------------------------------------------------------------------------
(* The steps that read.                                                    *)

(* What they have in common.                                               *)
Reads(S, left) ==
  /\ StoreGrows /\ Handles(left) /\ ReadBatches(S, left, stored')
  /\ Begins(S)
  /\ UNCHANGED <<up, boots, botAt>>
  /\ booting' \subseteq booting
  /\ \A h \in Groups : left[h] # {} => running'[h] = MessageRun
  /\ \A h \in Groups \ S :
       \/ pendingMessages'[h]
       \/ /\ stored'[h] = stored[h] /\ pendingMessages'[h] = pendingMessages[h]
          /\ h \in booting => h \in booting'
  /\ Faults = {} => ForgetsNothing(S, left)

LEMMA ReadsKeepsInv ==
  ASSUME LoopInv, NEW S, NEW left, Reads(S, left)
  PROVE  LoopInv'
<1> S \subseteq Groups
  BY DEF Reads, Begins
<1>1. /\ cursor' \in [Groups -> 0 .. clock']
      /\ batch' \in [Groups -> SUBSET Nat]
      /\ ReadSound'
      /\ \A g \in Groups \ S : cursor'[g] = cursor[g] /\ batch'[g] = left[g]
      /\ \A g \in S : ~MustCall(g)'
  BY ReadingKeeps DEF Reads, LoopInv
<1>2. LoopTypes'
  <2>1. botAt' \in [Groups -> 0 .. clock']
    BY DEF Reads, StoreGrows, LoopInv, LoopTypes
  <2>2. attempted' \in [Groups -> SUBSET Nat] /\ clock' \in Nat
    BY DEF Reads, StoreGrows, Handles
  <2>3. up' \in BOOLEAN /\ booting' \subseteq Groups /\ boots' \in Nat
    BY DEF Reads, LoopInv, LoopTypes
  <2> QED
    BY <1>1, <2>1, <2>2, <2>3 DEF LoopTypes
<1>3. StoreSound(stored, clock)'
  BY DEF Reads, StoreGrows, StoreSound
<1>4. BatchHasRun'
  BY <1>1 DEF Reads, Begins, BatchHasRun
<1>5. UnreadIsPending'
  <2> SUFFICES ASSUME NEW h \in Groups
               PROVE  CallIsPending(h)'
    BY DEF UnreadIsPending, CallIsPending, MustCall
  <2>1. CASE h \in S
    BY <1>1, <2>1 DEF CallIsPending
  <2>2. CASE h \notin S /\ pendingMessages'[h]
    BY <2>2 DEF CallIsPending
  <2>3. CASE h \notin S /\ ~pendingMessages'[h]
    <3>1. CallIsPending(h)
      BY DEF LoopInv, UnreadIsPending, CallIsPending, MustCall
    <3>2. /\ up' = up /\ shuttingDown' = shuttingDown /\ botAt'[h] = botAt[h]
          /\ stored'[h] = stored[h] /\ pendingMessages'[h] = pendingMessages[h]
          /\ h \in booting => h \in booting'
      BY <2>3 DEF Reads, Begins
    <3>3. cursor'[h] = cursor[h]
      BY <1>1, <2>3
    <3> QED
      BY <3>1, <3>2, <3>3, StaysPending
  <2> QED
    BY <2>1, <2>2, <2>3
<1>6. NoBotMessage'
  BY DEF Reads, LoopInv, NoBotMessage
<1>7. NothingPassedOver'
  <2>1. CASE Faults = {}
    BY <2>1, ReadingPassesNothing DEF Reads, LoopInv
  <2>2. CASE Faults # {}
    BY <2>2 DEF NothingPassedOver
  <2> QED
    BY <2>1, <2>2
<1> QED
  BY <1>2, <1>3, <1>1, <1>4, <1>5, <1>6, <1>7 DEF LoopInv

(* A run that ends without more messages to handle, or by forgetting what  *)
(* it has left after a failure.                                            *)
LEMMA ReleaseReads ==
  ASSUME LoopInv, QueueInv, NEW g \in Groups, Active(g), Release(g),
         NEW left, Handles(left), left[g] = {}, Faults = {} => batch[g] = {},
         \A h \in Groups \ {g} : left[h] = batch[h],
         \A h \in Groups : attempted[h] \subseteq attempted'[h],
         ReadBatches(BeginsOnRelease(g), left, stored),
         UNCHANGED <<up, booting, boots, clock, stored, botAt>>
  PROVE  LoopInv'
<1> DEFINE S == BeginsOnRelease(g)
<1>1. /\ Begins(S)
      /\ \A h \in S : h = g \/ ~Active(h)
      /\ \A h \in Groups \ {g} : Active(h) => running'[h] = running[h]
      /\ \A h \in Groups \ S : pendingMessages'[h] = pendingMessages[h]
  BY ReleaseForLoop
<1>2. StoreGrows
  BY DEF StoreGrows, LoopInv, LoopTypes
<1>3. ReadBatches(S, left, stored')
  <2>1. stored' = stored
    OBVIOUS
  <2> QED
    BY <2>1
<1>4. \A h \in Groups : left[h] # {} => running'[h] = MessageRun
  BY <1>1 DEF LoopInv, BatchHasRun, Active, MessageRun, None
<1>5. Faults = {} => ForgetsNothing(S, left)
  <2> SUFFICES ASSUME Faults = {} PROVE ForgetsNothing(S, left)
    OBVIOUS
  <2>1. \A h \in S : batch[h] = {}
    BY <1>1 DEF LoopInv, BatchHasRun, Active, MessageRun, None, Begins
  <2>2. \A h \in Groups : attempted[h] \cup batch[h] \subseteq attempted'[h] \cup left[h]
    OBVIOUS
  <2> QED
    BY <2>1, <2>2 DEF ForgetsNothing
<1>6. Reads(S, left)
  <2> HIDE DEF S
  <2> QED
    BY <1>1, <1>2, <1>3, <1>4, <1>5 DEF Reads
<1> QED
  BY <1>6, ReadsKeepsInv

LEMMA RunReturnsKeepsInv ==
  ASSUME LoopInv, QueueInv, NEW g \in Groups, RunReturns(g) \/ TaskReturns(g)
  PROVE  LoopInv'
<1>1. Active(g) /\ Release(g)
  BY TasksAssumption
     DEF RunReturns, MessagesDone, TaskReturns, TaskSettled, Active, MessageRun, None
<1>2. batch[g] = {}
  BY TasksAssumption DEF RunReturns, TaskReturns, TaskSettled, LoopInv, BatchHasRun
<1>3. /\ ReadBatches(BeginsOnRelease(g), batch, stored)
      /\ UNCHANGED <<up, booting, boots, clock, stored, botAt, attempted>>
  BY DEF RunReturns, TaskReturns
<1>4. Handles(batch)
  BY <1>3 DEF Handles, LoopInv, LoopTypes, ReadSound
<1> QED
  BY <1>1, <1>2, <1>3, <1>4, ReleaseReads

LEMMA HandlingThrowsKeepsInv ==
  ASSUME LoopInv, QueueInv, NEW g \in Groups, HandlingThrows(g)
  PROVE  LoopInv'
<1> DEFINE left == [batch EXCEPT ![g] = {}]
<1>1. PICK i \in batch[g] :
        /\ "throw" \in Faults
        /\ attempted' = [attempted EXCEPT ![g] = @ \cup {i}]
        /\ MessagesFailed(g)
        /\ ReadBatches(BeginsOnRelease(g), left, stored)
        /\ UNCHANGED <<up, booting, boots, clock, stored, botAt>>
  BY DEF HandlingThrows
<1>2. Active(g) /\ Release(g)
  BY <1>1 DEF MessagesFailed, Active, MessageRun, None
<1>3. batch \in [Groups -> SUBSET Nat] /\ attempted \in [Groups -> SUBSET Nat]
  BY DEF LoopInv, LoopTypes
<1>4. attempted' \in [Groups -> SUBSET Nat] /\ left \in [Groups -> SUBSET Nat]
  BY <1>1, <1>3
<1>5. Handles(left)
  <2> SUFFICES ASSUME NEW h \in Groups
               PROVE  /\ left[h] \subseteq batch[h]
                      /\ attempted'[h] \subseteq attempted[h] \cup batch[h]
                      /\ \A k \in attempted'[h], j \in left[h] :
                           k # j /\ stored[h][k].at <= stored[h][j].at
    BY <1>4 DEF Handles
  <2>1. CASE h = g
    BY <1>1, <1>3, <2>1
  <2>2. CASE h # g
    BY <1>1, <1>3, <2>2 DEF LoopInv, ReadSound
  <2> QED
    BY <2>1, <2>2
<1>6. left[g] = {} /\ \A h \in Groups \ {g} : left[h] = batch[h]
  BY <1>3
<1>7. \A h \in Groups : attempted[h] \subseteq attempted'[h]
  BY <1>1, <1>3
<1> HIDE DEF left
<1> QED
  BY <1>1, <1>2, <1>5, <1>6, <1>7, ReleaseReads

(* A check of a group's messages, asked for by the channel, a timer or     *)
(* start().                                                                *)
LEMMA CheckReads ==
  ASSUME LoopInv, QueueInv, NEW g \in Groups, MessageCheck(g), StoreGrows,
         \A h \in Groups \ {g} : stored'[h] = stored[h],
         Faults = {} => \A h \in Groups : \A i \in DOMAIN stored'[h] \ DOMAIN stored[h] :
                          stored'[h][i].at > clock,
         ReadBatches(BeginsOnCheck(g), batch, stored'),
         booting' \in {booting, booting \ {g}},
         UNCHANGED <<up, boots, botAt, attempted>>
  PROVE  LoopInv'
<1> DEFINE S == BeginsOnCheck(g)
<1>1. /\ Begins(S)
      /\ \A h \in S : ~Active(h)
      /\ \A h \in Groups : Active(h) => running'[h] = running[h]
      /\ \A h \in Groups \ {g} : pendingMessages'[h] = pendingMessages[h]
      /\ g \in S \/ pendingMessages'[g]
  BY CheckForLoop
<1>2. Handles(batch)
  BY DEF Handles, LoopInv, LoopTypes, ReadSound
<1>3. \A h \in Groups : batch[h] # {} => running'[h] = MessageRun
  BY <1>1 DEF LoopInv, BatchHasRun, Active, MessageRun, None
<1>4. Faults = {} => ForgetsNothing(S, batch)
  <2>1. \A h \in S : batch[h] = {}
    BY <1>1 DEF LoopInv, BatchHasRun, Active, MessageRun, None, Begins
  <2> QED
    BY <2>1 DEF ForgetsNothing
<1>5. ReadBatches(S, batch, stored')
  OBVIOUS
<1>6. Reads(S, batch)
  <2> HIDE DEF S
  <2> QED
    BY <1>1, <1>5, <1>2, <1>3, <1>4 DEF Reads
<1> QED
  BY <1>6, ReadsKeepsInv

LEMMA StoreStays ==
  ASSUME LoopInv, stored' = stored, clock' = clock
  PROVE  StoreGrows
BY DEF StoreGrows, LoopInv, LoopTypes

LEMMA BootCheckKeepsInv ==
  ASSUME LoopInv, QueueInv, NEW g \in Groups, BootCheck(g)
  PROVE  LoopInv'
<1>1. /\ MessageCheck(g)
      /\ ReadBatches(BeginsOnCheck(g), batch, stored')
      /\ booting' = booting \ {g}
      /\ UNCHANGED <<up, boots, botAt, attempted, stored, clock>>
  BY DEF BootCheck, EnqueueMessageCheck
<1>2. StoreGrows
  BY <1>1, StoreStays
<1> QED
  BY <1>1, <1>2, CheckReads

LEMMA RetryKeepsInv ==
  ASSUME LoopInv, QueueInv, NEW g \in Groups, Retry(g)
  PROVE  LoopInv'
<1>1. /\ ReadBatches(BeginsOnCheck(g), batch, stored')
      /\ UNCHANGED <<up, booting, boots, botAt, attempted, stored, clock>>
  BY DEF Retry
<1>2. StoreGrows
  BY <1>1, StoreStays
<1>3. CASE MessageCheck(g)
  BY <1>1, <1>2, <1>3, CheckReads
<1>4. CASE shuttingDown /\ UNCHANGED <<running, pendingMessages, shuttingDown>>
  <2>1. Handles(batch)
    BY <1>1 DEF Handles, LoopInv, LoopTypes, ReadSound
  <2>2. Begins({}) /\ BeginsOnCheck(g) = {}
    BY <1>4 DEF Begins, BeginsOnCheck
  <2>3. \A h \in Groups : batch[h] # {} => running'[h] = MessageRun
    BY <1>4 DEF LoopInv, BatchHasRun
  <2>4. ForgetsNothing({}, batch)
    BY <1>1 DEF ForgetsNothing
  <2>5. Reads({}, batch)
    BY <1>1, <1>2, <1>4, <2>1, <2>2, <2>3, <2>4 DEF Reads
  <2> QED
    BY <2>5, ReadsKeepsInv
<1> QED
  BY <1>3, <1>4 DEF Retry, RetryTimerFires

(* A message that arrives is the last one, and later than every cursor     *)
(* unless it shares its millisecond with another.                          *)
LEMMA ArrivalGrowsStore ==
  ASSUME LoopInv, NEW g \in Groups, NEW m \in Message, m.at = clock', Tick,
         stored' = [stored EXCEPT ![g] = Append(@, m)]
  PROVE  /\ StoreGrows
         /\ "tie" \notin Faults => \A h \in Groups : \A i \in DOMAIN stored'[h] \ DOMAIN stored[h] :
                                     stored'[h][i].at > clock
<1>1. /\ clock \in Nat /\ clock' \in Nat /\ 1 <= clock' /\ clock <= clock'
      /\ "tie" \notin Faults => clock' > clock
  BY DEF Tick, LoopInv, LoopTypes
<1>2. /\ stored \in [Groups -> Seq(Message)]
      /\ \A h \in Groups : \A i \in DOMAIN stored[h] : stored[h][i] \in Message
  <2>1. stored \in [Groups -> Seq(Message)]
    BY DEF LoopInv, StoreSound
  <2> QED
    BY <2>1, ElementOfSeq
<1> DEFINE n == Len(stored[g])
<1>3. /\ n \in Nat /\ DOMAIN stored[g] = 1 .. n
      /\ stored'[g] = Append(stored[g], m)
      /\ stored'[g] \in Seq(Message)
      /\ DOMAIN stored'[g] = 1 .. n + 1
      /\ \A i \in 1 .. n : stored'[g][i] = stored[g][i]
      /\ stored'[g][n + 1] = m
  <2>1. stored[g] \in Seq(Message) /\ stored'[g] = Append(stored[g], m)
    BY <1>2
  <2> QED
    BY <2>1
<1>4. \A h \in Groups \ {g} : stored'[h] = stored[h]
  BY <1>2
<1>5. stored' \in [Groups -> Seq(Message)]
  BY <1>2, <1>3
<1>6. \A h \in Groups : \A i \in DOMAIN stored[h] : i \in DOMAIN stored'[h] /\ stored'[h][i] = stored[h][i]
  BY <1>3, <1>4
<1>7. \A h \in Groups : \A i \in DOMAIN stored'[h] \ DOMAIN stored[h] :
        h = g /\ i = n + 1 /\ stored'[h][i].at = clock'
  BY <1>3, <1>4
<1>8. \A h \in Groups : \A i \in DOMAIN stored[h] :
        i \in Nat /\ stored'[h][i].at \in Nat /\ 1 <= stored'[h][i].at /\ stored'[h][i].at <= clock
  BY <1>2, <1>6, ElementOfSeq DEF LoopInv, StoreSound, Message
<1> DEFINE Later(h, i) == \A j \in DOMAIN stored'[h] : i < j =>
             /\ stored'[h][i].at <= stored'[h][j].at
             /\ "tie" \notin Faults => stored'[h][i].at < stored'[h][j].at
<1>9. ASSUME NEW h \in Groups, NEW i \in DOMAIN stored'[h]
      PROVE  /\ 1 <= stored'[h][i].at /\ stored'[h][i].at <= clock'
             /\ Later(h, i)
  <2>1. CASE i \in DOMAIN stored[h]
    <3>1. 1 <= stored'[h][i].at /\ stored'[h][i].at <= clock'
      BY <1>1, <1>8, <2>1
    <3>2. ASSUME NEW j \in DOMAIN stored'[h], i < j
          PROVE  /\ stored'[h][i].at <= stored'[h][j].at
                 /\ "tie" \notin Faults => stored'[h][i].at < stored'[h][j].at
      <4>1. CASE j \in DOMAIN stored[h]
        BY <1>6, <2>1, <3>2, <4>1 DEF LoopInv, StoreSound
      <4>2. CASE j \notin DOMAIN stored[h]
        <5>1. stored'[h][j].at = clock'
          BY <1>7, <4>2
        <5> QED
          BY <1>1, <1>8, <2>1, <5>1
      <4> QED
        BY <4>1, <4>2
    <3> QED
      BY <3>1, <3>2
  <2>2. CASE i \notin DOMAIN stored[h]
    <3>1. h = g /\ i = n + 1 /\ stored'[h][i].at = clock'
      BY <1>7, <2>2
    <3>2. \A j \in DOMAIN stored'[h] : ~(i < j)
      BY <1>3, <3>1
    <3> QED
      BY <1>1, <3>1, <3>2
  <2> QED
    BY <2>1, <2>2
<1>10. StoreSound(stored', clock')
  BY <1>5, <1>9 DEF StoreSound
<1>11. "tie" \notin Faults => \A h \in Groups : \A i \in DOMAIN stored'[h] \ DOMAIN stored[h] :
                                stored'[h][i].at > clock
  BY <1>1, <1>7
<1> QED
  BY <1>1, <1>6, <1>10, <1>11 DEF StoreGrows

LEMMA OnMessageKeepsInv ==
  ASSUME LoopInv, QueueInv, NEW g \in Groups, NEW call \in BOOLEAN, OnMessage(g, call)
  PROVE  LoopInv'
<1> DEFINE m == [at |-> clock', call |-> call]
<1>1. /\ MessageCheck(g) /\ Tick
      /\ stored' = [stored EXCEPT ![g] = Append(@, m)]
      /\ ReadBatches(BeginsOnCheck(g), batch, stored')
      /\ UNCHANGED <<up, booting, boots, botAt, attempted>>
  BY DEF OnMessage, EnqueueMessageCheck
<1>2. m \in Message /\ m.at = clock'
  <2>1. clock' \in Nat
    BY <1>1 DEF Tick, LoopInv, LoopTypes
  <2> QED
    BY <2>1 DEF Message
<1>3. /\ StoreGrows
      /\ "tie" \notin Faults => \A h \in Groups : \A i \in DOMAIN stored'[h] \ DOMAIN stored[h] :
                                  stored'[h][i].at > clock
  BY <1>1, <1>2, ArrivalGrowsStore
<1>4. \A h \in Groups \ {g} : stored'[h] = stored[h]
  BY <1>1 DEF LoopInv, StoreSound
<1> HIDE DEF m
<1> QED
  BY <1>1, <1>3, <1>4, CheckReads

-----------------------------------------------------------------------------
(* The steps that read nothing.                                            *)

(* A message of the bot hides messages from a group that has no cursor: it *)
(* may end a call, never make one, for all that a read could have got      *)
(* before and is not hidden, a read may get.                               *)
LEMMA BotHides ==
  ASSUME LoopInv, NEW g \in Groups, BotPosts(g), MustCall(g)'
  PROVE  MustCall(g)
<1> DEFINE S == Unread(g, stored)
           R == {i \in DOMAIN stored[g] : stored[g][i].at > Since(g)'}
<1> SUFFICES ASSUME NEW got \in ReadResults(g, stored)
             PROVE  Called(g, stored, got)
  BY DEF MustCall
<1>1. /\ stored' = stored /\ cursor' = cursor
      /\ botAt' = [botAt EXCEPT ![g] = clock']
      /\ clock \in Nat /\ clock' \in Nat /\ clock <= clock'
      /\ botAt \in [Groups -> 0 .. clock] /\ cursor \in [Groups -> 0 .. clock]
  BY DEF BotPosts, Tick, LoopInv, LoopTypes
<1>2. Since(g) \in Nat /\ Since(g)' \in Nat /\ Since(g) <= Since(g)'
  BY <1>1 DEF Since
<1>3. DOMAIN stored[g] = 1 .. Len(stored[g]) /\ Len(stored[g]) \in Nat
      /\ \A i \in DOMAIN stored[g] : stored[g][i].at \in Nat
  <2>1. stored[g] \in Seq(Message)
    BY DEF LoopInv, StoreSound
  <2>2. \A i \in DOMAIN stored[g] : stored[g][i] \in Message
    BY <2>1, ElementOfSeq
  <2> QED
    BY <2>1, <2>2 DEF Message
<1>4. /\ got \subseteq S /\ Cardinality(got) <= Window
      /\ got = S \/ Cardinality(got) = Window
      /\ \A i \in got, j \in S \ got : stored[g][j].at <= stored[g][i].at
  BY DEF ReadResults
<1>5. R \subseteq S /\ S \subseteq 1 .. Len(stored[g])
  BY <1>2, <1>3 DEF Unread
<1>6. IsFiniteSet(got) /\ Cardinality(got \cap R) <= Cardinality(got)
      /\ Cardinality(got) \in Nat /\ Cardinality(got \cap R) \in Nat
  <2>1. IsFiniteSet(1 .. Len(stored[g]))
    BY <1>3, FS_Interval
  <2>2. IsFiniteSet(got)
    BY <1>4, <1>5, <2>1, FS_Subset
  <2> HIDE DEF R
  <2>3. IsFiniteSet(got \cap R) /\ Cardinality(got \cap R) <= Cardinality(got)
    BY <2>2, FS_Subset
  <2> QED
    BY <2>2, <2>3, FS_CardinalityType
<1>7. got \cap R = R \/ got \cap R = got
  <2> SUFFICES ASSUME NEW i \in got, i \notin R, NEW j \in R, j \notin got
               PROVE  FALSE
    OBVIOUS
  <2>1. /\ i \in DOMAIN stored[g] /\ j \in S \ got
        /\ ~(stored[g][i].at > Since(g)') /\ stored[g][j].at > Since(g)'
        /\ stored[g][i].at \in Nat /\ stored[g][j].at \in Nat
    BY <1>3, <1>4, <1>5
  <2>2. stored[g][j].at <= stored[g][i].at
    BY <1>4, <2>1
  <2> QED
    BY <1>2, <2>1, <2>2
<1>8. got \cap R \in ReadResults(g, stored)'
  <2>1. /\ Cardinality(got \cap R) <= Window
        /\ got \cap R = R \/ Cardinality(got \cap R) = Window
    <3> HIDE DEF R, S
    <3>1. Cardinality(got \cap R) <= Window
      BY <1>4, <1>6, LoopAssumption
    <3>2. got = S => got \cap R = R
      BY <1>5
    <3> QED
      BY <1>4, <1>7, <3>1, <3>2
  <2>2. \A i \in got \cap R, j \in R \ (got \cap R) : stored[g][j].at <= stored[g][i].at
    BY <1>4, <1>5
  <2>3. R = Unread(g, stored)'
    BY <1>1 DEF Unread
  <2> HIDE DEF R
  <2> QED
    BY <1>1, <2>1, <2>2, <2>3 DEF ReadResults
<1>9. Called(g, stored, got \cap R)
  BY <1>1, <1>8 DEF MustCall, Called
<1> QED
  BY <1>9 DEF Called

LEMMA BotPostsKeepsInv ==
  ASSUME LoopInv, NEW g \in Groups, BotPosts(g)
  PROVE  LoopInv'
<1>1. /\ "bot" \in Faults
      /\ UNCHANGED <<vars, loopVars, stored, cursor, attempted>>
      /\ botAt' = [botAt EXCEPT ![g] = clock']
      /\ clock \in Nat /\ clock' \in Nat /\ clock <= clock'
  BY DEF BotPosts, Tick, LoopInv, LoopTypes
<1>2. LoopTypes'
  <2>1. botAt' \in [Groups -> 0 .. clock'] /\ cursor' \in [Groups -> 0 .. clock']
    BY <1>1 DEF LoopInv, LoopTypes
  <2> QED
    BY <1>1, <2>1 DEF LoopInv, LoopTypes, loopVars
<1>3. StoreSound(stored, clock)'
  <2>1. \A h \in Groups : \A i \in DOMAIN stored[h] : stored[h][i].at \in Nat
    <3> SUFFICES ASSUME NEW h \in Groups, NEW i \in DOMAIN stored[h]
                 PROVE  stored[h][i].at \in Nat
      OBVIOUS
    <3>1. stored[h][i] \in Message
      BY ElementOfSeq DEF LoopInv, StoreSound
    <3> QED
      BY <3>1 DEF Message
  <2> QED
    BY <1>1, <2>1 DEF LoopInv, StoreSound
<1>4. ReadSound' /\ BatchHasRun'
  BY <1>1 DEF LoopInv, ReadSound, BatchHasRun, vars, loopVars
<1>5. UnreadIsPending'
  <2> SUFFICES ASSUME NEW h \in Groups
               PROVE  CallIsPending(h)'
    BY DEF UnreadIsPending, CallIsPending, MustCall
  <2>1. CallIsPending(h)
    BY DEF LoopInv, UnreadIsPending, CallIsPending, MustCall
  <2>2. CASE h = g
    BY <1>1, <2>1, <2>2, BotHides DEF CallIsPending, vars, loopVars
  <2>3. CASE h # g
    <3>1. botAt'[h] = botAt[h]
      BY <1>1, <2>3 DEF LoopInv, LoopTypes
    <3> QED
      BY <1>1, <2>1, <3>1, StaysPending DEF vars, loopVars
  <2> QED
    BY <2>2, <2>3
<1>6. NoBotMessage' /\ NothingPassedOver'
  BY <1>1 DEF NoBotMessage, NothingPassedOver
<1> QED
  BY <1>2, <1>3, <1>4, <1>5, <1>6 DEF LoopInv

(* A message is handled: it moves from the batch to what was attempted.    *)
LEMMA MessageHandledKeepsInv ==
  ASSUME LoopInv, NEW g \in Groups, MessageHandled(g)
  PROVE  LoopInv'
<1>1. PICK i \in batch[g] :
        /\ \A j \in batch[g] : stored[g][i].at <= stored[g][j].at
        /\ attempted' = [attempted EXCEPT ![g] = @ \cup {i}]
        /\ batch' = [batch EXCEPT ![g] = @ \ {i}]
        /\ UNCHANGED <<vars, up, booting, boots, clock, stored, botAt, cursor>>
  BY DEF MessageHandled, Handling
<1>2. batch \in [Groups -> SUBSET Nat] /\ attempted \in [Groups -> SUBSET Nat]
  BY DEF LoopInv, LoopTypes
<1>3. batch' \in [Groups -> SUBSET Nat] /\ attempted' \in [Groups -> SUBSET Nat]
  BY <1>1, <1>2
<1>4. \A h \in Groups : attempted'[h] \cup batch'[h] = attempted[h] \cup batch[h]
  BY <1>1, <1>2
<1>5. LoopTypes' /\ StoreSound(stored, clock)' /\ NoBotMessage'
  BY <1>1, <1>3 DEF LoopInv, LoopTypes, StoreSound, NoBotMessage
<1>6. ReadSound'
  <2>1. ASSUME NEW h \in Groups, NEW k \in attempted'[h], NEW j \in batch'[h]
        PROVE  k # j /\ stored[h][k].at <= stored[h][j].at
    <3>1. CASE h # g
      BY <1>1, <1>2, <2>1, <3>1 DEF LoopInv, ReadSound
    <3>2. CASE h = g /\ k = i
      <4>1. j \in batch[g] /\ j # i
        BY <1>1, <1>2, <3>2
      <4>2. stored[g][i].at <= stored[g][j].at
        BY <1>1, <4>1
      <4> QED
        BY <3>2, <4>1, <4>2
    <3>3. CASE h = g /\ k # i
      <4>1. k \in attempted[g] /\ j \in batch[g]
        BY <1>1, <1>2, <3>3
      <4> QED
        BY <3>3, <4>1 DEF LoopInv, ReadSound
    <3> QED
      BY <3>1, <3>2, <3>3
  <2>2. stored' = stored /\ cursor' = cursor
    BY <1>1
  <2> QED
    BY <1>4, <2>1, <2>2 DEF LoopInv, ReadSound
<1>7. BatchHasRun'
  <2>1. \A h \in Groups : batch'[h] \subseteq batch[h]
    BY <1>1, <1>2
  <2> QED
    BY <1>1, <2>1 DEF LoopInv, BatchHasRun, vars
<1>8. UnreadIsPending'
  <2> SUFFICES ASSUME NEW h \in Groups
               PROVE  CallIsPending(h)'
    BY DEF UnreadIsPending, CallIsPending, MustCall
  <2>1. CallIsPending(h)
    BY DEF LoopInv, UnreadIsPending, CallIsPending, MustCall
  <2> QED
    BY <1>1, <2>1, StaysPending DEF vars
<1>9. NothingPassedOver'
  BY <1>1, <1>4 DEF LoopInv, NothingPassedOver
<1> QED
  BY <1>5, <1>6, <1>7, <1>8, <1>9 DEF LoopInv

(* The steps of the queue and of the process that neither read nor write   *)
(* messages.                                                               *)
LEMMA OtherStepsKeepInv ==
  ASSUME LoopInv, QueueInv,
         \/ \E t \in Tasks : TaskRequested(t)
         \/ Boot \/ Stop \/ UNCHANGED allVars
  PROVE  LoopInv'
<1>1. /\ UNCHANGED <<dbVars, batch>>
      /\ up' \in BOOLEAN /\ boots' \in Nat /\ booting' \subseteq Groups
  <2>1. up \in BOOLEAN /\ boots \in Nat /\ booting \subseteq Groups
    BY DEF LoopInv, LoopTypes
  <2>2. CASE Boot
    BY <2>1, <2>2 DEF Boot, Recovered
  <2>3. CASE Stop
    BY <2>1, <2>3 DEF Stop, loopVars
  <2>4. CASE UNCHANGED allVars
    BY <2>1, <2>4 DEF allVars, loopVars
  <2>5. CASE \E t \in Tasks : TaskRequested(t)
    BY <2>1, <2>5 DEF TaskRequested, loopVars
  <2> QED
    BY <2>2, <2>3, <2>4, <2>5
<1>2. LoopTypes' /\ StoreSound(stored, clock)' /\ ReadSound' /\ NoBotMessage' /\ NothingPassedOver'
  BY <1>1 DEF LoopInv, LoopTypes, StoreSound, ReadSound, NoBotMessage, NothingPassedOver, dbVars
<1>3. BatchHasRun'
  <2>1. \A h \in Groups : running[h] = MessageRun => running'[h] = MessageRun
    <3>1. CASE running' = running
      BY <3>1
    <3>2. CASE \E t \in Tasks : TaskRequested(t)
      BY <3>2, TasksAssumption
         DEF TaskRequested, EnqueueTask, StartNow, Active, MessageRun, None, QueueInv, QueueTypes
    <3> QED
      BY <3>1, <3>2 DEF Boot, Stop, Shutdown, allVars, vars
  <2> QED
    BY <1>1, <2>1 DEF LoopInv, BatchHasRun
<1>4. UnreadIsPending'
  <2> SUFFICES ASSUME NEW h \in Groups
               PROVE  CallIsPending(h)'
    BY DEF UnreadIsPending, CallIsPending, MustCall
  <2>1. CallIsPending(h)
    BY DEF LoopInv, UnreadIsPending, CallIsPending, MustCall
  <2>2. CASE Boot
    BY <2>2 DEF Boot, Recovered, CallIsPending
  <2>3. CASE Stop
    BY <2>3 DEF Stop, Shutdown, CallIsPending
  <2>4. CASE (\E t \in Tasks : TaskRequested(t)) \/ UNCHANGED allVars
    <3>1. UNCHANGED <<up, shuttingDown, stored, cursor, botAt, pendingMessages, booting>>
      BY <2>4 DEF TaskRequested, EnqueueTask, allVars, vars, dbVars, loopVars
    <3> QED
      BY <2>1, <3>1, StaysPending
  <2> QED
    BY <2>2, <2>3, <2>4
<1> QED
  BY <1>2, <1>3, <1>4 DEF LoopInv

(* stop() has waited for every loop when it resolves.                      *)
LEMMA ResolvedHasNoBatch ==
  ASSUME LoopInv, QueueInv, shutdownCall = "resolved"
  PROVE  \A g \in Groups : batch[g] = {}
<1>1. shuttingDown /\ activeCount = 0
  BY DEF QueueInv, QueueTypes, ShutdownCallSound
<1>2. Busy = {}
  BY <1>1, BusyFinite, FS_EmptySet DEF QueueInv, ConcurrencyLimit, CountAccurate
<1> QED
  BY <1>2 DEF LoopInv, BatchHasRun, Busy, Active, MessageRun, None

LEMMA DownKeepsInv ==
  ASSUME LoopInv, QueueInv, Exit \/ Crash
  PROVE  LoopInv'
<1>1. /\ UNCHANGED <<boots, dbVars>>
      /\ ~up' /\ up' \in BOOLEAN /\ booting' = {}
      /\ batch' = [g \in Groups |-> {}]
  BY DEF Exit, Crash, Down
<1>2. LoopTypes'
  BY <1>1 DEF LoopInv, LoopTypes, dbVars
<1>3. StoreSound(stored, clock)' /\ ReadSound' /\ NoBotMessage'
  BY <1>1 DEF LoopInv, StoreSound, ReadSound, NoBotMessage, dbVars
<1>4. BatchHasRun' /\ UnreadIsPending'
  BY <1>1 DEF BatchHasRun, UnreadIsPending
<1>5. NothingPassedOver'
  <2>1. CASE Exit
    <3>1. \A g \in Groups : batch[g] = {}
      BY <2>1, ResolvedHasNoBatch DEF Exit
    <3> QED
      BY <1>1, <3>1 DEF LoopInv, NothingPassedOver, dbVars
  <2>2. CASE Crash
    BY <2>2 DEF Crash, NothingPassedOver
  <2> QED
    BY <2>1, <2>2
<1> QED
  BY <1>2, <1>3, <1>4, <1>5 DEF LoopInv

-----------------------------------------------------------------------------
(* The invariant holds of every reachable state.                           *)

LEMMA LoopInvInit == LoopInit => LoopInv
<1> SUFFICES ASSUME LoopInit PROVE LoopInv
  OBVIOUS
<1>1. LoopTypes /\ ReadSound /\ BatchHasRun /\ NoBotMessage
  <2>1. LoopTypes
    <3>1. botAt \in [Groups -> 0 .. clock] /\ cursor \in [Groups -> 0 .. clock]
      BY DEF LoopInit
    <3>2. {} \in SUBSET Nat
      OBVIOUS
    <3>3. batch \in [Groups -> SUBSET Nat] /\ attempted \in [Groups -> SUBSET Nat]
      BY <3>2 DEF LoopInit
    <3>4. up \in BOOLEAN /\ booting \subseteq Groups /\ boots \in Nat /\ clock \in Nat
      BY DEF LoopInit
    <3> QED
      BY <3>1, <3>3, <3>4 DEF LoopTypes
  <2>2. \A g \in Groups : attempted[g] = {} /\ batch[g] = {} /\ botAt[g] = 0 /\ cursor[g] = 0
    BY DEF LoopInit
  <2> QED
    BY <2>1, <2>2 DEF ReadSound, BatchHasRun, NoBotMessage
<1>2. StoreSound(stored, clock)
  <2>1. <<>> \in Seq(Message)
    OBVIOUS
  <2>2. \A g \in Groups : stored[g] = <<>>
    BY DEF LoopInit
  <2>3. stored \in [Groups -> Seq(Message)]
    BY <2>1 DEF LoopInit
  <2> QED
    BY <2>2, <2>3 DEF StoreSound
<1>3. UnreadIsPending
  BY DEF LoopInit, UnreadIsPending
<1>4. NothingPassedOver
  <2>1. \A g \in Groups : DOMAIN stored[g] = {}
    BY DEF LoopInit
  <2> QED
    BY <2>1 DEF NothingPassedOver
<1> QED
  BY <1>1, <1>2, <1>3, <1>4 DEF LoopInv

LEMMA LoopInvStep ==
  ASSUME LoopInv, QueueInv, [LoopNext]_allVars
  PROVE  LoopInv'
<1>1. ASSUME NEW g \in Groups, NEW call \in BOOLEAN, OnMessage(g, call)
      PROVE  LoopInv'
  BY <1>1, OnMessageKeepsInv
<1>2. ASSUME NEW g \in Groups, BotPosts(g) \/ MessageHandled(g)
      PROVE  LoopInv'
  BY <1>2, BotPostsKeepsInv, MessageHandledKeepsInv
<1>3. ASSUME NEW g \in Groups, HandlingThrows(g) \/ RunReturns(g) \/ TaskReturns(g)
      PROVE  LoopInv'
  BY <1>3, HandlingThrowsKeepsInv, RunReturnsKeepsInv
<1>4. ASSUME NEW g \in Groups, Retry(g) \/ BootCheck(g)
      PROVE  LoopInv'
  BY <1>4, RetryKeepsInv, BootCheckKeepsInv
<1>5. CASE (\E t \in Tasks : TaskRequested(t)) \/ Boot \/ Stop \/ UNCHANGED allVars
  BY <1>5, OtherStepsKeepInv
<1>6. CASE Exit \/ Crash
  BY <1>6, DownKeepsInv
<1> QED
  BY <1>1, <1>2, <1>3, <1>4, <1>5, <1>6 DEF LoopNext

(* The strengthened invariant of the message loop.                         *)
THEOREM LoopInvariant == LoopSpec => [](LoopInv /\ QueueInv)
<1>1. LoopInit => LoopInv
  BY LoopInvInit
<1>2. LoopInv /\ QueueInv /\ [LoopNext]_allVars => LoopInv'
  BY LoopInvStep
<1> QED
  BY <1>1, <1>2, QueueInvariantInLoop, PTL DEF LoopSpec

(* The columns of the database and the batches of the loops keep their     *)
(* types; in particular no cursor is ahead of the clock.                   *)
THEOREM LoopTypeCorrect == LoopSpec => []LoopTypeOK
<1>1. LoopInv => LoopTypeOK
  BY DEF LoopInv, LoopTypes, StoreSound, ReadSound, LoopTypeOK, Message
<1> QED
  BY <1>1, LoopInvariant, PTL

(* Under the message loop, through all its restarts, no more than Limit    *)
(* groups run and the queue's count says how many do.                      *)
THEOREM LimitHoldsInLoop == LoopSpec => []ConcurrencyLimit
BY LoopInvariant, PTL DEF QueueInv

(* A call that is stored is never forgotten: until it is read a check of   *)
(* its group is pending, whatever fails, stops or crashes in between.      *)
THEOREM NoCallForgotten == LoopSpec => []UnreadIsPending
BY LoopInvariant, PTL DEF LoopInv

(* No message is attempted twice, and none of a group after a later one,   *)
(* in whatever order the database returns those of one millisecond.        *)
THEOREM MessagesOnceInOrder == LoopSpec => []HandledOnceInOrder
<1>1. LoopInv => HandledOnceInOrder
  BY DEF LoopInv, ReadSound, HandledOnceInOrder
<1> QED
  BY <1>1, LoopInvariant, PTL

(* A batch belongs to a message run of its group and is behind the cursor. *)
THEOREM BatchesOwned == LoopSpec => []BatchIsOwned
<1>1. LoopInv => BatchIsOwned
  BY DEF LoopInv, ReadSound, BatchHasRun, BatchIsOwned
<1> QED
  BY <1>1, LoopInvariant, PTL

(* A step that reads leaves the batches of other runs alone.               *)
LEMMA ReadingKeepsBatch ==
  ASSUME NEW S, NEW left, ReadBatches(S, left, stored'), NEW h \in Groups,
         left[h] = batch[h], h \in S => batch[h] = {}
  PROVE  batch[h] \subseteq batch'[h]
<1>1. PICK got : Gets(S, left, got)
  BY ReadGets
<1> QED
  BY <1>1 DEF Gets

LEMMA StepKeepsBatches ==
  ASSUME LoopInv, QueueInv, [LoopNext]_allVars, NEW h \in Groups
  PROVE  \/ batch[h] \subseteq batch'[h] \cup attempted'[h]
         \/ HandlingThrows(h)
         \/ Crash /\ shutdownCall # "resolved"
<1>1. ~Active(h) => batch[h] = {}
  BY DEF LoopInv, BatchHasRun, Active, MessageRun, None
<1>2. ASSUME NEW g \in Groups,
             (\E call \in BOOLEAN : OnMessage(g, call)) \/ Retry(g) \/ BootCheck(g)
      PROVE  batch[h] \subseteq batch'[h]
  <2>1. ReadBatches(BeginsOnCheck(g), batch, stored')
    <3>1. CASE \E call \in BOOLEAN : OnMessage(g, call)
      BY <3>1 DEF OnMessage
    <3>2. CASE Retry(g) \/ BootCheck(g)
      <4>1. ReadBatches(BeginsOnCheck(g), batch, stored) /\ stored' = stored
        BY <3>2 DEF Retry, BootCheck
      <4> QED
        BY <4>1
    <3> QED
      BY <1>2, <3>1, <3>2
  <2>2. h \in BeginsOnCheck(g) => ~Active(h)
    BY DEF BeginsOnCheck
  <2> QED
    BY <1>1, <2>1, <2>2, ReadingKeepsBatch
<1>3. ASSUME NEW g \in Groups, RunReturns(g) \/ TaskReturns(g)
      PROVE  batch[h] \subseteq batch'[h]
  <2>1. Active(g) /\ Release(g) /\ batch[g] = {}
    BY <1>3, TasksAssumption
       DEF RunReturns, MessagesDone, TaskReturns, TaskSettled, Active, MessageRun, None,
           LoopInv, BatchHasRun
  <2>2. h \in BeginsOnRelease(g) => h = g \/ ~Active(h)
    BY <2>1, ReleaseForLoop
  <2>3. ReadBatches(BeginsOnRelease(g), batch, stored) /\ stored' = stored
    BY <1>3 DEF RunReturns, TaskReturns
  <2>4. ReadBatches(BeginsOnRelease(g), batch, stored')
    BY <2>3
  <2> QED
    BY <1>1, <2>1, <2>2, <2>4, ReadingKeepsBatch
<1>4. ASSUME NEW g \in Groups, HandlingThrows(g), h # g
      PROVE  batch[h] \subseteq batch'[h]
  <2> DEFINE left == [batch EXCEPT ![g] = {}]
  <2>1. /\ MessagesFailed(g) /\ stored' = stored
        /\ ReadBatches(BeginsOnRelease(g), left, stored)
    BY <1>4 DEF HandlingThrows
  <2>2. Active(g) /\ Release(g)
    BY <2>1 DEF MessagesFailed, Active, MessageRun, None
  <2>3. h \in BeginsOnRelease(g) => ~Active(h)
    BY <1>4, <2>2, ReleaseForLoop
  <2>4. left[h] = batch[h]
    BY <1>4 DEF LoopInv, LoopTypes
  <2> HIDE DEF left
  <2>5. ReadBatches(BeginsOnRelease(g), left, stored')
    BY <2>1
  <2> QED
    BY <1>1, <2>3, <2>4, <2>5, ReadingKeepsBatch
<1>5. ASSUME NEW g \in Groups, BotPosts(g) \/ MessageHandled(g)
      PROVE  batch[h] \subseteq batch'[h] \cup attempted'[h]
  BY <1>5 DEF BotPosts, MessageHandled, loopVars, LoopInv, LoopTypes
<1>6. CASE (\E t \in Tasks : TaskRequested(t)) \/ Boot \/ Stop \/ UNCHANGED allVars
  BY <1>6 DEF TaskRequested, Boot, Stop, allVars, loopVars
<1>7. shutdownCall = "resolved" => batch[h] = {}
  BY ResolvedHasNoBatch
<1>8. CASE Exit \/ Crash
  BY <1>7, <1>8 DEF Exit
<1> QED
  BY <1>2, <1>3, <1>4, <1>5, <1>6, <1>8 DEF LoopNext

(* A message that was read is attempted, unless its run rejects or the     *)
(* process crashes before: no other step, no stop() and no end of the      *)
(* process drops a message of a batch.                                     *)
THEOREM BatchesAreFinished == LoopSpec => OnlyFaultsDropBatches
<1>1. ASSUME LoopInv, QueueInv, [LoopNext]_allVars
      PROVE  \A g \in Groups : \/ batch[g] \subseteq batch'[g] \cup attempted'[g]
                               \/ HandlingThrows(g)
                               \/ Crash /\ shutdownCall # "resolved"
  <2> TAKE g \in Groups
  <2> QED
    BY <1>1, StepKeepsBatches
<1>2. LoopInv /\ QueueInv /\ [LoopNext]_allVars =>
        [\A g \in Groups : \/ batch[g] \subseteq batch'[g] \cup attempted'[g]
                           \/ HandlingThrows(g)
                           \/ Crash /\ shutdownCall # "resolved"]_allVars
  BY <1>1
<1> QED
  BY <1>2, LoopInvariant, PTL DEF LoopSpec, OnlyFaultsDropBatches

(* Without faults, and while a group's messages fit into one read, the     *)
(* cursor passes only messages the agent gets.                             *)
THEOREM CursorPassesNothing == LoopSpec => []NothingPassedOver
BY LoopInvariant, PTL DEF LoopInv

-----------------------------------------------------------------------------
(* The cursor.                                                             *)

(* A step leaves the cursors alone or reads what is then in the store.     *)
LEMMA CursorMoves ==
  ASSUME [LoopNext]_allVars
  PROVE  cursor' = cursor \/ \E S, left : ReadBatches(S, left, stored')
<1>1. ASSUME NEW S, NEW left, ReadBatches(S, left, stored), stored' = stored
      PROVE  ReadBatches(S, left, stored')
  BY <1>1
<1>2. ASSUME NEW g \in Groups, NEW call \in BOOLEAN, OnMessage(g, call)
      PROVE  \E S, left : ReadBatches(S, left, stored')
  BY <1>2 DEF OnMessage
<1>3. ASSUME NEW g \in Groups, HandlingThrows(g)
      PROVE  \E S, left : ReadBatches(S, left, stored')
  <2>1. /\ ReadBatches(BeginsOnRelease(g), [batch EXCEPT ![g] = {}], stored)
        /\ stored' = stored
    BY <1>3 DEF HandlingThrows
  <2> QED
    BY <1>1, <2>1
<1>4. ASSUME NEW g \in Groups, RunReturns(g) \/ TaskReturns(g)
      PROVE  \E S, left : ReadBatches(S, left, stored')
  <2>1. ReadBatches(BeginsOnRelease(g), batch, stored) /\ stored' = stored
    BY <1>4 DEF RunReturns, TaskReturns
  <2> QED
    BY <1>1, <2>1
<1>5. ASSUME NEW g \in Groups, Retry(g) \/ BootCheck(g)
      PROVE  \E S, left : ReadBatches(S, left, stored')
  <2>1. ReadBatches(BeginsOnCheck(g), batch, stored) /\ stored' = stored
    BY <1>5 DEF Retry, BootCheck
  <2> QED
    BY <1>1, <2>1
<1>6. ASSUME NEW g \in Groups, BotPosts(g) \/ MessageHandled(g)
      PROVE  cursor' = cursor
  BY <1>6 DEF BotPosts, MessageHandled
<1>7. CASE (\E t \in Tasks : TaskRequested(t)) \/ Boot \/ Stop \/ Exit \/ Crash \/ UNCHANGED allVars
  BY <1>7 DEF TaskRequested, Boot, Stop, Exit, Crash, Down, allVars, dbVars
<1> QED
  BY <1>2, <1>3, <1>4, <1>5, <1>6, <1>7 DEF LoopNext

(* A group's cursor never goes back, whatever runs fail and however often  *)
(* the process starts again.                                               *)
THEOREM CursorOnlyForward == LoopSpec => [][\A g \in Groups : cursor[g] <= cursor'[g]]_allVars
<1>1. ASSUME LoopInv, LoopInv', [LoopNext]_allVars
      PROVE  \A g \in Groups : cursor[g] <= cursor'[g]
  <2> SUFFICES ASSUME NEW g \in Groups PROVE cursor[g] <= cursor'[g]
    OBVIOUS
  <2>1. cursor[g] \in Nat /\ Since(g) \in Nat
    BY <1>1, SinceType DEF LoopInv
  <2>2. CASE cursor' = cursor
    BY <2>1, <2>2
  <2>3. CASE \E S, left : ReadBatches(S, left, stored')
    <3>0. PICK S, left, got : Gets(S, left, got)
      BY <2>3, ReadGets
    <3> DEFINE due == g \in S /\ Called(g, stored', got[g])
    <3>1. cursor'[g] = IF due THEN CursorAfter(g, stored', got[g]) ELSE cursor[g]
      BY <3>0 DEF Gets
    <3>2. CASE due
      <4>1. StoreSound(stored', clock') /\ clock' \in Nat
        BY <1>1 DEF LoopInv, LoopTypes, StoreSound
      <4>2. got[g] \in ReadResults(g, stored')
        BY <3>0, <3>2 DEF Gets
      <4>3. /\ CursorAfter(g, stored', got[g]) \in 0 .. clock'
            /\ CursorAfter(g, stored', got[g]) > Since(g)
        BY <2>1, <3>2, <4>1, <4>2, ReadFacts
      <4>4. cursor[g] = Since(g) \/ cursor[g] = 0
        BY DEF Since
      <4> QED
        BY <2>1, <3>1, <3>2, <4>3, <4>4
    <3> QED
      BY <2>1, <3>1, <3>2
  <2> QED
    BY <1>1, <2>2, <2>3, CursorMoves
<1>2. LoopInv /\ LoopInv' /\ [LoopNext]_allVars => [\A g \in Groups : cursor[g] <= cursor'[g]]_allVars
  BY <1>1
<1> QED
  BY <1>2, LoopInvariant, PTL DEF LoopSpec

-----------------------------------------------------------------------------
(* The loop keeps the contract of delivery.                                *)

(* The messages of g up to its cursor.                                     *)
ReadOf(g) == {i \in DOMAIN stored[g] : stored[g][i].at <= cursor[g]}

(* Group g around a step that reads: at most one message arrives, and when *)
(* one does no other is given or forgotten.                                *)
Added(g) == \E m \in Message : m.at = clock' /\ stored'[g] = Append(stored[g], m)

Arrives(g, left) ==
  \/ stored'[g] = stored[g]
  \/ /\ Added(g)
     /\ left[g] = batch[g] \ attempted'[g]
     /\ Faults = {} => clock < clock'

GivesFirst(g) ==
  \/ attempted'[g] = attempted[g]
  \/ \E i \in batch[g] : /\ \A j \in batch[g] : stored[g][i].at <= stored[g][j].at
                         /\ attempted'[g] = attempted[g] \cup {i}

Leaves(S, left, g) ==
  /\ left[g] = batch[g] \ attempted'[g] \/ (left[g] = {} /\ Faults # {})
  /\ g \in S /\ Faults = {} => batch[g] \subseteq attempted'[g]

(* The times of a group's messages.                                        *)
LEMMA TimesOf ==
  ASSUME NEW msgs, NEW now, StoreSound(msgs, now), NEW g \in Groups, NEW t,
         t = [i \in DOMAIN msgs[g] |-> msgs[g][i].at]
  PROVE  /\ t \in Seq(Nat) /\ Len(t) = Len(msgs[g]) /\ DOMAIN t = DOMAIN msgs[g]
         /\ DOMAIN msgs[g] = 1 .. Len(msgs[g]) /\ Len(msgs[g]) \in Nat
         /\ \A i \in DOMAIN msgs[g] : t[i] = msgs[g][i].at /\ msgs[g][i].at \in Nat
<1>1. msgs[g] \in Seq(Message)
  BY DEF StoreSound
<1>2. Len(msgs[g]) \in Nat /\ DOMAIN msgs[g] = 1 .. Len(msgs[g])
  BY <1>1
<1>3. \A i \in DOMAIN msgs[g] : msgs[g][i].at \in Nat
  <2>1. \A i \in DOMAIN msgs[g] : msgs[g][i] \in Message
    BY <1>1, <1>2, ElementOfSeq
  <2> QED
    BY <2>1 DEF Message
<1>4. t \in [1 .. Len(msgs[g]) -> Nat]
  BY <1>2, <1>3
<1>5. t \in Seq(Nat) /\ Len(t) = Len(msgs[g])
  BY <1>2, <1>4
<1> QED
  BY <1>2, <1>3, <1>5

(* The words of the contract, in terms of the loop.                        *)
LEMMA ContractWords ==
  ASSUME LoopInv, StoreGrows, NEW g \in Groups
  PROVE  /\ (stored'[g] = stored[g] \/ Added(g)) /\ botAt[g] <= botAt'[g]
              => Delivery!Grows(g)
         /\ GivesFirst(g) => Delivery!Gives(g)
         /\ batch'[g] = batch[g] \ attempted'[g] /\ ReadOf(g)' = ReadOf(g)
              => Delivery!GoesOn(g)
         /\ ~NothingGoesWrong /\ batch'[g] = {} /\ ReadOf(g)' = ReadOf(g)
              => Delivery!Forgets(g)
         /\ (/\ ~NothingGoesWrong /\ Added(g)
             /\ \E i \in ReadOf(g) : stored[g][i].at = clock'
             /\ batch'[g] = batch[g] \ attempted'[g]
             /\ ReadOf(g)' = ReadOf(g) \cup {Len(stored'[g])}
             /\ ReadOf(g)' = DOMAIN stored'[g])
              => Delivery!Overlooks(g)
         /\ (/\ batch'[g] \subseteq DOMAIN stored'[g] \ ReadOf(g) /\ batch'[g] # {}
             /\ \A j \in (DOMAIN stored'[g] \ ReadOf(g)) \ batch'[g] :
                  /\ \A i \in batch'[g] : stored'[g][j].at <= stored'[g][i].at
                  /\ ~NothingGoesWrong
                  /\ \/ Cardinality(batch'[g]) = Window
                     \/ ReadOf(g) = {} /\ stored'[g][j].at <= botAt[g]
             /\ NothingGoesWrong => batch[g] \subseteq attempted'[g]
             /\ ReadOf(g)' = DOMAIN stored'[g])
              => Delivery!Takes(g)
<1>1. /\ Times[g] \in Seq(Nat) /\ Len(Times[g]) = Len(stored[g])
      /\ DOMAIN Times[g] = DOMAIN stored[g] /\ DOMAIN stored[g] = 1 .. Len(stored[g])
      /\ Len(stored[g]) \in Nat
      /\ \A i \in DOMAIN stored[g] : Times[g][i] = stored[g][i].at /\ stored[g][i].at \in Nat
  BY TimesOf DEF Times, LoopInv
<1>2. /\ Times'[g] \in Seq(Nat) /\ Len(Times'[g]) = Len(stored'[g])
      /\ DOMAIN Times'[g] = DOMAIN stored'[g]
      /\ \A i \in DOMAIN stored'[g] : Times'[g][i] = stored'[g][i].at
  <2>1. StoreSound(stored', clock')
    BY DEF StoreGrows
  <2>2. Times'[g] = [i \in DOMAIN stored'[g] |-> stored'[g][i].at]
    BY DEF Times
  <2> QED
    BY <2>1, <2>2, TimesOf
<1>3. BehindCursor[g] = ReadOf(g) /\ BehindCursor'[g] = ReadOf(g)'
  BY DEF BehindCursor, ReadOf
<1>4. NothingGoesWrong' <=> NothingGoesWrong
  BY DEF NothingGoesWrong
<1>5. Added(g) => Delivery!Arrives(g) /\ Times'[g][Len(Times'[g])] = clock'
  <2> SUFFICES ASSUME Added(g)
               PROVE  Delivery!Arrives(g) /\ Times'[g][Len(Times'[g])] = clock'
    OBVIOUS
  <2> DEFINE n == Len(stored[g]) + 1
  <2>1. PICK m \in Message : m.at = clock' /\ stored'[g] = Append(stored[g], m)
    BY DEF Added
  <2>2. stored[g] \in Seq(Message)
    BY DEF LoopInv, StoreSound
  <2>3. Len(stored'[g]) = n /\ DOMAIN stored'[g] = 1 .. n /\ stored'[g][n] = m
    BY <2>1, <2>2
  <2>4. \A i \in DOMAIN stored[g] :
          stored'[g][i] = stored[g][i] /\ i \in DOMAIN stored'[g] /\ stored[g][i].at <= clock
    BY DEF StoreGrows, LoopInv, StoreSound
  <2>5. Times'[g][n] = clock' /\ n \in DOMAIN stored'[g]
    BY <1>1, <1>2, <2>1, <2>3
  <2>6. clock \in Nat /\ clock' \in Nat /\ clock <= clock'
    BY DEF StoreGrows
  <2>7. ASSUME NEW i \in DOMAIN stored[g]
        PROVE  Times'[g][i] = Times[g][i] /\ Times[g][i] <= Times'[g][n]
    <3>1. Times'[g][i] = stored[g][i].at /\ Times[g][i] = stored[g][i].at
      BY <1>1, <1>2, <2>4
    <3>2. stored[g][i].at \in Nat /\ stored[g][i].at <= clock
      BY <1>1, <2>4
    <3> QED
      BY <2>5, <2>6, <3>1, <3>2
  <2> QED
    BY <1>1, <1>2, <2>3, <2>5, <2>7 DEF Delivery!Arrives
<1>6. stored'[g] = stored[g] => Times'[g] = Times[g]
  BY DEF Times
<1>7. (stored'[g] = stored[g] \/ Added(g)) /\ botAt[g] <= botAt'[g] => Delivery!Grows(g)
  BY <1>5, <1>6 DEF Delivery!Grows
<1>8. GivesFirst(g) => Delivery!Gives(g)
  <2>1. batch[g] \subseteq DOMAIN stored[g]
    BY DEF LoopInv, ReadSound
  <2> QED
    BY <1>1, <2>1 DEF GivesFirst, Delivery!Gives
<1>9. batch'[g] = batch[g] \ attempted'[g] /\ ReadOf(g)' = ReadOf(g) => Delivery!GoesOn(g)
  BY <1>3 DEF Delivery!GoesOn
<1>10. ~NothingGoesWrong /\ batch'[g] = {} /\ ReadOf(g)' = ReadOf(g) => Delivery!Forgets(g)
  BY <1>3 DEF Delivery!Forgets
<1>11. ASSUME ~NothingGoesWrong, Added(g), NEW i \in ReadOf(g), stored[g][i].at = clock',
              batch'[g] = batch[g] \ attempted'[g],
              ReadOf(g)' = ReadOf(g) \cup {Len(stored'[g])}, ReadOf(g)' = DOMAIN stored'[g]
       PROVE  Delivery!Overlooks(g)
  <2>1. Times[g][i] = clock'
    BY <1>1, <1>11 DEF ReadOf
  <2> QED
    BY <1>2, <1>3, <1>5, <1>11, <2>1 DEF Delivery!Overlooks
<1>12. ASSUME batch'[g] \subseteq DOMAIN stored'[g] \ ReadOf(g), batch'[g] # {},
              \A j \in (DOMAIN stored'[g] \ ReadOf(g)) \ batch'[g] :
                /\ \A i \in batch'[g] : stored'[g][j].at <= stored'[g][i].at
                /\ ~NothingGoesWrong
                /\ \/ Cardinality(batch'[g]) = Window
                   \/ ReadOf(g) = {} /\ stored'[g][j].at <= botAt[g],
              NothingGoesWrong => batch[g] \subseteq attempted'[g],
              ReadOf(g)' = DOMAIN stored'[g]
       PROVE  Delivery!Takes(g)
  <2>1. \A j \in (DOMAIN Times'[g] \ BehindCursor[g]) \ batch'[g] :
          /\ \A i \in batch'[g] : Times'[g][j] <= Times'[g][i]
          /\ ~NothingGoesWrong
          /\ Delivery!Full(g) \/ Delivery!Hidden(g, j)
    <3> SUFFICES ASSUME NEW j \in (DOMAIN stored'[g] \ ReadOf(g)) \ batch'[g]
                 PROVE  /\ \A i \in batch'[g] : Times'[g][j] <= Times'[g][i]
                        /\ ~NothingGoesWrong
                        /\ Delivery!Full(g) \/ Delivery!Hidden(g, j)
      BY <1>2, <1>3
    <3>1. \A i \in batch'[g] : Times'[g][j] <= Times'[g][i]
      BY <1>2, <1>12
    <3>2. Delivery!Full(g) \/ Delivery!Hidden(g, j)
      BY <1>2, <1>3, <1>12
         DEF Delivery!Full, Delivery!Hidden, Delivery!Cardinality, Cardinality
    <3> QED
      BY <1>12, <3>1, <3>2
  <2> QED
    BY <1>2, <1>3, <1>12, <2>1 DEF Delivery!Takes
<1> QED
  BY <1>7, <1>8, <1>9, <1>10, <1>11, <1>12

LEMMA ReadingDelivers ==
  ASSUME LoopInv, StoreGrows, botAt' = botAt, NEW g \in Groups,
         NEW S, NEW left, ReadBatches(S, left, stored'),
         Arrives(g, left), GivesFirst(g), Leaves(S, left, g),
         Len(stored'[g]) <= MaxMessages
  PROVE  Delivery!Step(g)
<1>0. PICK got : Gets(S, left, got)
  BY ReadGets
<1> DEFINE n == Len(stored'[g])
           B == got[g]
           due == g \in S /\ Called(g, stored', got[g])
<1>1. /\ stored[g] \in Seq(Message) /\ stored'[g] \in Seq(Message)
      /\ Len(stored[g]) \in Nat /\ n \in Nat
      /\ DOMAIN stored[g] = 1 .. Len(stored[g]) /\ DOMAIN stored'[g] = 1 .. n
      /\ cursor[g] \in Nat /\ cursor[g] <= clock /\ clock \in Nat /\ clock' \in Nat
      /\ clock <= clock' /\ botAt[g] \in Nat
  BY DEF LoopInv, LoopTypes, StoreSound, StoreGrows
<1>2. /\ \A i \in 1 .. n : stored'[g][i].at \in 1 .. clock'
      /\ \A i \in 1 .. Len(stored[g]) : i \in 1 .. n /\ stored'[g][i] = stored[g][i]
  <2> SUFFICES ASSUME NEW i \in 1 .. n PROVE stored'[g][i].at \in 1 .. clock'
    BY <1>1 DEF StoreGrows
  <2>1. stored'[g][i] \in Message
    BY <1>1, ElementOfSeq
  <2> QED
    BY <1>1, <2>1 DEF Message, StoreGrows, StoreSound
<1>3. /\ batch'[g] = IF due THEN B ELSE left[g]
      /\ cursor'[g] = IF due THEN CursorAfter(g, stored', B) ELSE cursor[g]
      /\ due => B \in ReadResults(g, stored')
  BY <1>0 DEF Gets
<1>4. ReadOf(g) = {i \in 1 .. Len(stored[g]) : stored'[g][i].at <= cursor[g]}
  BY <1>1, <1>2 DEF ReadOf
<1>5. Delivery!Grows(g) /\ Delivery!Gives(g)
  BY <1>1, ContractWords DEF Arrives
<1>6. ASSUME NEW i \in 1 .. n, i \notin DOMAIN stored[g]
      PROVE  /\ i = n /\ n = Len(stored[g]) + 1 /\ stored'[g][i].at = clock'
             /\ Faults = {} => clock < clock'
  <2>1. PICK m \in Message : m.at = clock' /\ stored'[g] = Append(stored[g], m)
    BY <1>1, <1>6 DEF Arrives, Added
  <2> QED
    BY <1>1, <1>6, <2>1 DEF Arrives
<1>7. CASE due
  <2>1. Since(g) \in Nat /\ cursor[g] <= Since(g)
    BY <1>1 DEF Since
  <2>2. /\ B \subseteq 1 .. n
        /\ \A i \in B : stored'[g][i].at > Since(g)
        /\ \A i \in 1 .. n : stored'[g][i].at <= CursorAfter(g, stored', B)
        /\ n <= Window => B = Unread(g, stored')
    BY <1>1, <1>3, <1>7, <2>1, ReadFacts DEF StoreGrows
  <2>3. /\ B # {}
        /\ B = Unread(g, stored') \/ Cardinality(B) = Window
        /\ \A i \in B, j \in Unread(g, stored') \ B : stored'[g][j].at <= stored'[g][i].at
    BY <1>3, <1>7 DEF ReadResults, Called
  <2>4. ReadOf(g)' = 1 .. n
    BY <1>1, <1>3, <1>7, <2>2 DEF ReadOf
  <2>5. B \subseteq (1 .. n) \ ReadOf(g)
    <3> SUFFICES ASSUME NEW i \in B, i \in ReadOf(g)
                 PROVE  FALSE
      BY <2>2
    <3>1. /\ stored'[g][i].at > Since(g) /\ stored'[g][i].at <= cursor[g]
          /\ stored'[g][i].at \in Nat
      BY <1>2, <1>4, <2>2
    <3> QED
      BY <1>1, <2>1, <3>1
  <2>6. ASSUME NEW j \in (1 .. n) \ ReadOf(g), j \notin B
        PROVE  /\ \A i \in B : stored'[g][j].at <= stored'[g][i].at
               /\ ~NothingGoesWrong
               /\ \/ Cardinality(B) = Window
                  \/ ReadOf(g) = {} /\ stored'[g][j].at <= botAt[g]
    <3>1. CASE j \in Unread(g, stored')
      <4>1. ~NothingGoesWrong
        BY <1>1, <2>2, <2>6, <3>1, LoopAssumption DEF NothingGoesWrong
      <4> QED
        BY <2>3, <2>6, <3>1, <4>1
    <3>2. CASE j \notin Unread(g, stored')
      <4>1. stored'[g][j].at <= Since(g) /\ stored'[g][j].at \in 1 .. clock'
        BY <1>1, <1>2, <2>1, <3>2 DEF Unread
      <4>2. \A i \in B : stored'[g][j].at < stored'[g][i].at
        BY <1>2, <2>1, <2>2, <4>1
      <4>3. cursor[g] = 0
        <5> SUFFICES ASSUME cursor[g] # 0 PROVE FALSE
          OBVIOUS
        <5>1. stored'[g][j].at <= cursor[g]
          BY <4>1 DEF Since
        <5>2. j \notin DOMAIN stored[g]
          BY <1>1, <1>4, <2>6, <5>1
        <5>3. stored'[g][j].at = clock'
          BY <1>6, <5>2
        <5>4. PICK i \in B : TRUE
          BY <2>3
        <5> QED
          BY <1>1, <1>2, <2>2, <4>2, <5>3, <5>4
      <4>4. Since(g) = botAt[g] /\ ReadOf(g) = {}
        BY <1>2, <1>4, <4>3 DEF Since
      <4>5. ~NothingGoesWrong
        BY <4>1, <4>4 DEF NothingGoesWrong, LoopInv, NoBotMessage
      <4> QED
        BY <1>2, <2>2, <4>1, <4>2, <4>4, <4>5
    <3> QED
      BY <3>1, <3>2
  <2>7. NothingGoesWrong => batch[g] \subseteq attempted'[g]
    BY <1>7 DEF NothingGoesWrong, Leaves
  <2>8. batch'[g] = B
    BY <1>3, <1>7
  <2>9. Delivery!Takes(g)
    <3> HIDE DEF B
    <3> QED
      BY <1>1, <2>3, <2>4, <2>5, <2>6, <2>7, <2>8, ContractWords
  <2> QED
    BY <1>5, <2>9 DEF Delivery!Step
<1>8. CASE ~due
  <2>1. batch'[g] = left[g] /\ cursor'[g] = cursor[g]
    BY <1>3, <1>8
  <2>2. ReadOf(g)' = {i \in 1 .. n : stored'[g][i].at <= cursor[g]}
    BY <1>1, <2>1 DEF ReadOf
  <2>3. CASE ReadOf(g)' = ReadOf(g)
    <3>1. CASE left[g] = batch[g] \ attempted'[g]
      BY <1>5, <2>1, <2>3, <3>1, ContractWords DEF Delivery!Step
    <3>2. CASE left[g] = {} /\ Faults # {}
      BY <1>5, <2>1, <2>3, <3>2, ContractWords DEF Delivery!Step, NothingGoesWrong
    <3> QED
      BY <3>1, <3>2 DEF Leaves
  <2>4. CASE ReadOf(g)' # ReadOf(g)
    <3>1. Added(g) /\ left[g] = batch[g] \ attempted'[g] /\ (Faults = {} => clock < clock')
      BY <1>1, <1>4, <2>2, <2>4 DEF Arrives
    <3>2. n = Len(stored[g]) + 1 /\ stored'[g][n].at = clock'
      <4>1. PICK m \in Message : m.at = clock' /\ stored'[g] = Append(stored[g], m)
        BY <3>1 DEF Added
      <4> QED
        BY <1>1, <4>1
    <3>3. ReadOf(g) \subseteq ReadOf(g)' /\ ReadOf(g)' \subseteq ReadOf(g) \cup {n}
      BY <1>1, <1>2, <1>4, <2>2, <3>2
    <3>4. n \in ReadOf(g)' /\ clock' <= cursor[g]
      BY <2>2, <2>4, <3>2, <3>3
    <3>5. clock' = clock /\ clock = cursor[g] /\ cursor[g] # 0
      BY <1>1, <1>2, <2>2, <3>2, <3>4
    <3>6. \A i \in 1 .. n : stored'[g][i].at <= cursor[g]
      BY <1>2, <3>5
    <3>7. ReadOf(g)' = 1 .. n /\ ReadOf(g)' = ReadOf(g) \cup {n}
      BY <1>1, <1>4, <2>2, <3>2, <3>3, <3>4, <3>6
    <3>8. \E i \in ReadOf(g) : stored[g][i].at = clock'
      BY <1>1, <3>5 DEF LoopInv, ReadSound, ReadOf
    <3>9. ~NothingGoesWrong
      BY <1>1, <3>1, <3>5 DEF NothingGoesWrong
    <3>10. Delivery!Overlooks(g)
      BY <1>1, <2>1, <3>1, <3>7, <3>8, <3>9, ContractWords
    <3> QED
      BY <1>5, <3>10 DEF Delivery!Step
  <2> QED
    BY <2>3, <2>4
<1> QED
  BY <1>7, <1>8

(* No more messages are stored than the bound of the model allows.         *)
RoomLeft == \A g \in Groups : Len(stored[g]) <= MaxMessages

LEMMA ArrivalHasRoom ==
  ASSUME LoopInv, NEW g \in Groups, NEW call \in BOOLEAN, OnMessage(g, call)
  PROVE  Len(stored[g]) < MaxMessages
<1> DEFINE All == {{h} \X DOMAIN stored[h] : h \in Groups}
           Here == {g} \X DOMAIN stored[g]
<1>1. \A h \in Groups : stored[h] \in Seq(Message)
  BY DEF LoopInv, StoreSound
<1>2. ASSUME NEW h \in Groups
      PROVE  /\ IsFiniteSet({h} \X DOMAIN stored[h])
             /\ Cardinality({h} \X DOMAIN stored[h]) = Len(stored[h])
  <2>1. Len(stored[h]) \in Nat /\ DOMAIN stored[h] = 1 .. Len(stored[h])
    BY <1>1
  <2>2. IsFiniteSet(DOMAIN stored[h]) /\ Cardinality(DOMAIN stored[h]) = Len(stored[h])
    BY <2>1, FS_Interval
  <2>3. IsFiniteSet({h}) /\ Cardinality({h}) = 1
    BY FS_Singleton
  <2>4. /\ IsFiniteSet({h} \X DOMAIN stored[h])
        /\ Cardinality({h} \X DOMAIN stored[h]) = 1 * Len(stored[h])
    BY <2>2, <2>3, FS_Product
  <2> QED
    BY <2>1, <2>4
<1>3. IsFiniteSet(UNION All)
  <2> DEFINE f == [h \in Groups |-> {h} \X DOMAIN stored[h]]
  <2>1. f \in Surjection(Groups, All)
    BY DEF Surjection
  <2>2. IsFiniteSet(All)
    <3> HIDE DEF f, All
    <3> QED
      BY <2>1, GroupsAssumption, FS_Surjection
  <2>3. \A T \in All : IsFiniteSet(T)
    BY <1>2
  <2> HIDE DEF All
  <2> QED
    BY <2>2, <2>3, FS_UNION
<1>4. Cardinality(Here) <= Cardinality(UNION All) /\ Cardinality(UNION All) \in Nat
  <2>1. Here \subseteq UNION All
    OBVIOUS
  <2> HIDE DEF All, Here
  <2> QED
    BY <1>3, <2>1, FS_Subset, FS_CardinalityType
<1>5. Cardinality(UNION All) < MaxMessages
  BY DEF OnMessage
<1>6. Cardinality(Here) = Len(stored[g]) /\ Len(stored[g]) \in Nat
  BY <1>1, <1>2
<1> HIDE DEF All, Here
<1> QED
  BY <1>4, <1>5, <1>6, LoopAssumption

LEMMA RoomStep ==
  ASSUME LoopInv, RoomLeft, [LoopNext]_allVars
  PROVE  RoomLeft'
<1>1. ASSUME NEW g \in Groups, NEW call \in BOOLEAN, OnMessage(g, call)
      PROVE  RoomLeft'
  <2>1. Len(stored[g]) < MaxMessages
    BY <1>1, ArrivalHasRoom
  <2>2. PICK m : stored' = [stored EXCEPT ![g] = Append(@, m)]
    BY <1>1 DEF OnMessage
  <2>3. \A h \in Groups : stored[h] \in Seq(Message) /\ Len(stored[h]) \in Nat
    BY DEF LoopInv, StoreSound
  <2>4. DOMAIN stored = Groups
    BY DEF LoopInv, StoreSound
  <2>5. stored'[g] = Append(stored[g], m) /\ \A h \in Groups \ {g} : stored'[h] = stored[h]
    BY <2>2, <2>4
  <2>6. Len(stored'[g]) = Len(stored[g]) + 1
    BY <2>3, <2>5
  <2> QED
    BY <2>1, <2>3, <2>5, <2>6, LoopAssumption DEF RoomLeft
<1>2. ASSUME NEW g \in Groups,
             \/ BotPosts(g) \/ MessageHandled(g) \/ HandlingThrows(g)
             \/ RunReturns(g) \/ TaskReturns(g) \/ Retry(g) \/ BootCheck(g)
      PROVE  stored' = stored
  BY <1>2 DEF BotPosts, MessageHandled, HandlingThrows, RunReturns, TaskReturns, Retry, BootCheck
<1>3. ASSUME \/ \E t \in Tasks : TaskRequested(t)
             \/ Boot \/ Stop \/ Exit \/ Crash \/ UNCHANGED allVars
      PROVE  stored' = stored
  BY <1>3 DEF TaskRequested, Boot, Stop, Exit, Crash, Down, dbVars, allVars
<1> QED
  BY <1>1, <1>2, <1>3 DEF LoopNext, RoomLeft

(* A step at the end of a run: the group whose run it was and the groups   *)
(* that begin have nothing in hand any more.                               *)
LEMMA ReleaseDelivers ==
  ASSUME LoopInv, QueueInv, RoomLeft, NEW g \in Groups, Active(g), Release(g),
         NEW left, ReadBatches(BeginsOnRelease(g), left, stored),
         UNCHANGED <<clock, stored, botAt>>,
         GivesFirst(g), Leaves(BeginsOnRelease(g), left, g),
         \A h \in Groups \ {g} : attempted'[h] = attempted[h] /\ left[h] = batch[h]
  PROVE  Delivery!Next
<1> DEFINE S == BeginsOnRelease(g)
<1>1. Begins(S) /\ \A h \in S : h = g \/ ~Active(h)
  BY ReleaseForLoop
<1>2. StoreGrows
  BY StoreStays
<1>3. ReadBatches(S, left, stored')
  <2>1. stored' = stored
    OBVIOUS
  <2> QED
    BY <2>1
<1>4. ASSUME NEW h \in Groups
      PROVE  Delivery!Step(h)
  <2>1. Arrives(h, left) /\ Len(stored'[h]) <= MaxMessages
    BY DEF Arrives, RoomLeft
  <2>2. GivesFirst(h)
    BY DEF GivesFirst
  <2>3. Leaves(S, left, h)
    <3>1. CASE h = g
      BY <3>1
    <3>2. CASE h # g
      <4>1. left[h] = batch[h] \ attempted'[h]
        BY <3>2 DEF LoopInv, LoopTypes, ReadSound
      <4>2. h \in S => batch[h] = {}
        BY <1>1, <3>2 DEF LoopInv, BatchHasRun, Active, MessageRun, None
      <4> QED
        BY <4>1, <4>2 DEF Leaves
    <3> QED
      BY <3>1, <3>2
  <2> HIDE DEF S
  <2> QED
    BY <1>2, <1>3, <2>1, <2>2, <2>3, ReadingDelivers
<1> QED
  BY <1>4 DEF Delivery!Next

(* A step that checks a group's messages.                                  *)
LEMMA CheckDelivers ==
  ASSUME LoopInv, StoreGrows, NEW g \in Groups,
         ReadBatches(BeginsOnCheck(g), batch, stored'), UNCHANGED <<attempted, botAt>>,
         \A h \in Groups : Arrives(h, batch) /\ Len(stored'[h]) <= MaxMessages
  PROVE  Delivery!Next
<1> DEFINE S == BeginsOnCheck(g)
<1>2. ASSUME NEW h \in Groups
      PROVE  Delivery!Step(h)
  <2>1. batch[h] = batch[h] \ attempted'[h]
    BY DEF LoopInv, LoopTypes, ReadSound
  <2>2. h \in S => batch[h] = {}
    BY DEF BeginsOnCheck, LoopInv, BatchHasRun, Active, MessageRun, None
  <2>3. GivesFirst(h) /\ Leaves(S, batch, h)
    BY <2>1, <2>2 DEF GivesFirst, Leaves
  <2> HIDE DEF S
  <2>4. ReadBatches(S, batch, stored')
    BY DEF S
  <2> QED
    BY <2>3, <2>4, ReadingDelivers
<1> QED
  BY <1>2 DEF Delivery!Next

LEMMA ReturnDelivers ==
  ASSUME LoopInv, QueueInv, RoomLeft, NEW g \in Groups, RunReturns(g) \/ TaskReturns(g)
  PROVE  Delivery!Next
<1>1. Active(g) /\ Release(g)
  BY TasksAssumption
     DEF RunReturns, MessagesDone, TaskReturns, TaskSettled, Active, MessageRun, None
<1>2. batch[g] = {}
  BY TasksAssumption DEF RunReturns, TaskReturns, TaskSettled, LoopInv, BatchHasRun
<1>3. /\ ReadBatches(BeginsOnRelease(g), batch, stored)
      /\ UNCHANGED <<clock, stored, attempted, botAt>>
  BY DEF RunReturns, TaskReturns
<1>4. GivesFirst(g) /\ Leaves(BeginsOnRelease(g), batch, g)
  BY <1>2, <1>3 DEF GivesFirst, Leaves
<1> QED
  BY <1>1, <1>3, <1>4, ReleaseDelivers

LEMMA ThrowDelivers ==
  ASSUME LoopInv, QueueInv, RoomLeft, NEW g \in Groups, HandlingThrows(g)
  PROVE  Delivery!Next
<1> DEFINE left == [batch EXCEPT ![g] = {}]
<1>1. PICK i \in batch[g] :
        /\ Handling(g, i)
        /\ "throw" \in Faults
        /\ attempted' = [attempted EXCEPT ![g] = @ \cup {i}]
        /\ MessagesFailed(g)
        /\ ReadBatches(BeginsOnRelease(g), left, stored)
        /\ UNCHANGED <<clock, stored, botAt>>
  BY DEF HandlingThrows
<1>2. Active(g) /\ Release(g)
  BY <1>1 DEF MessagesFailed, Active, MessageRun, None
<1>3. batch \in [Groups -> SUBSET Nat] /\ attempted \in [Groups -> SUBSET Nat]
  BY DEF LoopInv, LoopTypes
<1>4. GivesFirst(g)
  BY <1>1, <1>3 DEF GivesFirst, Handling
<1>5. left[g] = {} /\ \A h \in Groups \ {g} : attempted'[h] = attempted[h] /\ left[h] = batch[h]
  BY <1>1, <1>3
<1>6. Leaves(BeginsOnRelease(g), left, g)
  BY <1>1, <1>5 DEF Leaves
<1> HIDE DEF left
<1> QED
  BY <1>1, <1>2, <1>4, <1>5, <1>6, ReleaseDelivers

LEMMA ArrivalDelivers ==
  ASSUME LoopInv, RoomLeft', NEW g \in Groups, NEW call \in BOOLEAN, OnMessage(g, call)
  PROVE  Delivery!Next
<1> DEFINE m == [at |-> clock', call |-> call]
<1>1. /\ Tick
      /\ stored' = [stored EXCEPT ![g] = Append(@, m)]
      /\ ReadBatches(BeginsOnCheck(g), batch, stored')
      /\ UNCHANGED <<attempted, botAt>>
  BY DEF OnMessage
<1>2. m \in Message /\ m.at = clock'
  <2>1. clock' \in Nat
    BY <1>1 DEF Tick, LoopInv, LoopTypes
  <2> QED
    BY <2>1 DEF Message
<1>3. StoreGrows
  BY <1>1, <1>2, ArrivalGrowsStore
<1>4. Faults = {} => clock < clock'
  BY <1>1 DEF Tick, LoopInv, LoopTypes
<1> HIDE DEF m
<1>5. ASSUME NEW h \in Groups
      PROVE  Arrives(h, batch) /\ Len(stored'[h]) <= MaxMessages
  <2>1. DOMAIN stored = Groups
    BY DEF LoopInv, StoreSound
  <2>2. stored'[h] = stored[h] \/ stored'[h] = Append(stored[h], m)
    BY <1>1, <2>1
  <2>3. batch[h] = batch[h] \ attempted'[h]
    BY <1>1 DEF LoopInv, LoopTypes, ReadSound
  <2> QED
    BY <1>2, <1>4, <2>2, <2>3 DEF Arrives, Added, RoomLeft
<1> QED
  BY <1>1, <1>3, <1>5, CheckDelivers

LEMMA CheckStepsDeliver ==
  ASSUME LoopInv, RoomLeft, NEW g \in Groups, Retry(g) \/ BootCheck(g)
  PROVE  Delivery!Next
<1>1. /\ ReadBatches(BeginsOnCheck(g), batch, stored')
      /\ UNCHANGED <<attempted, stored, clock, botAt>>
  BY DEF Retry, BootCheck
<1>2. StoreGrows
  BY <1>1, StoreStays
<1>3. \A h \in Groups : Arrives(h, batch) /\ Len(stored'[h]) <= MaxMessages
  BY <1>1 DEF Arrives, RoomLeft
<1> QED
  BY <1>1, <1>2, <1>3, CheckDelivers

(* A step that reads nothing and stores nothing.                           *)
LEMMA NoReadDelivers ==
  ASSUME LoopInv, UNCHANGED <<stored, cursor>>, clock' \in Nat, clock <= clock',
         \A g \in Groups : botAt[g] <= botAt'[g], \A g \in Groups : GivesFirst(g),
         \A g \in Groups : \/ batch'[g] = batch[g] \ attempted'[g]
                           \/ batch'[g] = {} /\ Faults # {}
  PROVE  Delivery!Next
<1>0. StoreGrows
  <2>1. \A h \in Groups : \A i \in DOMAIN stored[h] :
          stored[h][i].at \in Nat /\ stored[h][i].at <= clock
    BY TimesOf DEF LoopInv, StoreSound
  <2> QED
    BY <2>1 DEF StoreGrows, LoopInv, LoopTypes, StoreSound
<1>1. ASSUME NEW g \in Groups
      PROVE  Delivery!Step(g)
  <2>1. ReadOf(g)' = ReadOf(g)
    BY DEF ReadOf
  <2>2. Delivery!Grows(g) /\ Delivery!Gives(g)
    BY <1>0, ContractWords
  <2>3. Delivery!GoesOn(g) \/ Delivery!Forgets(g)
    BY <1>0, <2>1, ContractWords DEF NothingGoesWrong
  <2> QED
    BY <2>2, <2>3 DEF Delivery!Step
<1> QED
  BY <1>1 DEF Delivery!Next

LEMMA QuietLoopStepsDeliver ==
  ASSUME LoopInv, QueueInv,
         \/ \E g \in Groups : BotPosts(g) \/ MessageHandled(g)
         \/ \E t \in Tasks : TaskRequested(t)
         \/ Boot \/ Stop \/ Exit \/ Crash \/ UNCHANGED allVars
  PROVE  Delivery!Next
<1>1. batch \in [Groups -> SUBSET Nat] /\ attempted \in [Groups -> SUBSET Nat]
  BY DEF LoopInv, LoopTypes
<1>2. \A g \in Groups : batch[g] = batch[g] \ attempted[g]
  BY <1>1 DEF LoopInv, ReadSound
<1>0. clock \in Nat /\ \A g \in Groups : botAt[g] \in 0 .. clock
  BY DEF LoopInv, LoopTypes
<1>3. ASSUME UNCHANGED <<stored, cursor, batch, attempted>>, clock' \in Nat, clock <= clock',
             \A g \in Groups : botAt[g] <= botAt'[g]
      PROVE  Delivery!Next
  BY <1>2, <1>3, NoReadDelivers DEF GivesFirst
<1>4. ASSUME NEW g \in Groups, MessageHandled(g)
      PROVE  Delivery!Next
  <2>1. PICK i \in batch[g] :
          /\ \A j \in batch[g] : stored[g][i].at <= stored[g][j].at
          /\ attempted' = [attempted EXCEPT ![g] = @ \cup {i}]
          /\ batch' = [batch EXCEPT ![g] = @ \ {i}]
          /\ UNCHANGED <<stored, cursor, clock, botAt>>
    BY <1>4 DEF MessageHandled, Handling
  <2>2. \A h \in Groups : GivesFirst(h)
    BY <1>1, <2>1 DEF GivesFirst
  <2>3. \A h \in Groups : batch'[h] = batch[h] \ attempted'[h]
    <3> SUFFICES ASSUME NEW h \in Groups PROVE batch'[h] = batch[h] \ attempted'[h]
      OBVIOUS
    <3>1. CASE h = g
      <4>1. batch'[h] = batch[h] \ {i} /\ attempted'[h] = attempted[h] \cup {i}
        BY <1>1, <2>1, <3>1
      <4> QED
        BY <1>2, <4>1
    <3>2. CASE h # g
      BY <1>1, <1>2, <2>1, <3>2
    <3> QED
      BY <3>1, <3>2
  <2> QED
    BY <1>0, <2>1, <2>2, <2>3, NoReadDelivers
<1>5. ASSUME NEW g \in Groups, BotPosts(g)
      PROVE  Delivery!Next
  <2>1. /\ clock' \in Nat /\ clock <= clock' /\ botAt' = [botAt EXCEPT ![g] = clock']
        /\ UNCHANGED <<stored, cursor, batch, attempted>>
    BY <1>0, <1>5 DEF BotPosts, Tick, loopVars
  <2>2. \A h \in Groups : botAt[h] <= botAt'[h]
    BY <1>0, <2>1 DEF LoopInv, LoopTypes
  <2> QED
    BY <1>3, <2>1, <2>2
<1>6. ASSUME NEW t \in Tasks, TaskRequested(t)
      PROVE  Delivery!Next
  BY <1>0, <1>3, <1>6 DEF TaskRequested, dbVars, loopVars
<1>7. CASE Boot \/ Stop \/ UNCHANGED allVars
  BY <1>0, <1>3, <1>7 DEF Boot, Stop, allVars, dbVars, loopVars
<1>8. CASE Exit \/ Crash
  <2>1. /\ UNCHANGED <<stored, cursor, attempted, clock, botAt>>
        /\ \A g \in Groups : batch'[g] = {}
    BY <1>8 DEF Exit, Crash, Down, dbVars
  <2>2. Exit => \A g \in Groups : batch[g] = {}
    BY ResolvedHasNoBatch DEF Exit
  <2>3. \A g \in Groups : batch'[g] = batch[g] \ attempted'[g] \/ (batch'[g] = {} /\ Faults # {})
    BY <1>8, <2>1, <2>2 DEF Crash
  <2> QED
    BY <1>0, <2>1, <2>3, NoReadDelivers DEF GivesFirst
<1> QED
  BY <1>4, <1>5, <1>6, <1>7, <1>8

(* Every behaviour of the message loop is one of the contract of delivery: *)
(* whatever crashes, fails or is tried again, messages of a group are      *)
(* given at most once and in the order of their times, and lost only in    *)
(* the four ways the contract names.                                       *)
THEOREM LoopImplementsDelivery == LoopSpec => ImplementsDelivery
<1>1. LoopInit => Delivery!Init
  BY DEF LoopInit, Delivery!Init, Times, BehindCursor
<1>2. ASSUME LoopInv, QueueInv, RoomLeft, [LoopNext]_allVars
      PROVE  RoomLeft' /\ Delivery!Next
  <2>1. RoomLeft'
    BY <1>2, RoomStep
  <2>2. ASSUME NEW g \in Groups, NEW call \in BOOLEAN, OnMessage(g, call)
        PROVE  Delivery!Next
    BY <1>2, <2>1, <2>2, ArrivalDelivers
  <2>3. ASSUME NEW g \in Groups, RunReturns(g) \/ TaskReturns(g) \/ HandlingThrows(g)
        PROVE  Delivery!Next
    BY <1>2, <2>3, ReturnDelivers, ThrowDelivers
  <2>4. ASSUME NEW g \in Groups, Retry(g) \/ BootCheck(g)
        PROVE  Delivery!Next
    BY <1>2, <2>4, CheckStepsDeliver
  <2>5. CASE \/ \E g \in Groups : BotPosts(g) \/ MessageHandled(g)
             \/ \E t \in Tasks : TaskRequested(t)
             \/ Boot \/ Stop \/ Exit \/ Crash \/ UNCHANGED allVars
    BY <1>2, <2>1, <2>5, QuietLoopStepsDeliver
  <2>6. Delivery!Next
    BY <1>2, <2>2, <2>3, <2>4, <2>5 DEF LoopNext
  <2> QED
    BY <2>1, <2>6
<1>3. LoopInit => RoomLeft
  BY LoopAssumption DEF LoopInit, RoomLeft
<1>4. LoopInv /\ QueueInv /\ RoomLeft /\ [LoopNext]_allVars =>
        RoomLeft' /\ [Delivery!Next]_(Delivery!vars)
  BY <1>2
<1> QED
  BY <1>1, <1>3, <1>4, LoopInvariant, PTL DEF LoopSpec, ImplementsDelivery, Delivery!Spec

-----------------------------------------------------------------------------
(* The queue's contract in the life of the process.                        *)

(* Under the message loop, too, every step is one of the run queue's       *)
(* contract, but for the end of a process, which the next one begins from  *)
(* the contract's initial state: no crash or restart lets a group run what *)
(* was not asked for, or two things at once.                               *)
THEOREM LoopKeepsRunContract ==
  LoopSpec => [][Contract!Next \/ (Contract!Init)']_(Contract!vars)
<1>1. ASSUME QueueInv, [LoopNext]_allVars
      PROVE  [Contract!Next \/ (Contract!Init)']_(Contract!vars)
  <2>1. CASE Down
    BY <2>1 DEF Down, Contract!Init
  <2>2. CASE [Next]_vars
    BY <1>1, <2>2, StepRefines
  <2> QED
    BY <1>1, <2>1, <2>2, LoopStepOfQueue
<1>2. QueueInv /\ [LoopNext]_allVars => [Contract!Next \/ (Contract!Init)']_(Contract!vars)
  BY <1>1
<1> QED
  BY <1>2, QueueInvariantInLoop, PTL DEF LoopSpec
=============================================================================
