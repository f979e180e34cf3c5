-------------------------- MODULE GroupQueueProofs --------------------------
(***************************************************************************)
(* Proofs about the run queue, for every set of groups and tasks, every    *)
(* limit and every retry budget.                                           *)
(*                                                                         *)
(* The strengthening is QueueInv: none of the queue's invariants is        *)
(* inductive alone.  A hand-over may start only one group because no group *)
(* waits while a slot is free; that stays so because no idle group has     *)
(* work outside the waiting list; and a hand-over keeps the count right    *)
(* because what it shifts from the list is idle and has work.              *)
(***************************************************************************)
EXTENDS GroupQueueProps, FiniteSetTheorems, TLAPS

(* The types of everything but the retry bookkeeping.                      *)
QueueTypes ==
  /\ running \in [Groups -> RunKinds]
  /\ pendingMessages \in [Groups -> BOOLEAN]
  /\ pendingTasks \in [Groups -> Seq(Tasks)]
  /\ waitingGroups \in Seq(Groups)
  /\ activeCount \in Nat
  /\ shuttingDown \in BOOLEAN
  /\ shutdownCall \in {"none", "waiting", "resolved"}

RetryTypes ==
  /\ retryCount \in [Groups -> 0 .. MaxRetries]
  /\ retryTimers \in [Groups -> 0 .. MaxTimers]

ShutdownCallSound ==
  /\ ~shuttingDown => shutdownCall = "none"
  /\ shuttingDown => shutdownCall = IF activeCount = 0 THEN "resolved" ELSE "waiting"

QueueInv ==
  /\ QueueTypes
  /\ ConcurrencyLimit
  /\ WaitingSound
  /\ NoLostWakeup
  /\ WorkConserving
  /\ NoDuplicateTask
  /\ ShutdownCallSound

-----------------------------------------------------------------------------
(* Counting the busy groups.                                               *)

LEMMA BusyFinite == IsFiniteSet(Busy)
BY GroupsAssumption, FS_Subset DEF Busy

(* A group that runs is counted.                                           *)
LEMMA BusyPositive ==
  ASSUME CountAccurate, NEW g \in Groups, Active(g)
  PROVE  activeCount \in Nat /\ activeCount >= 1
<1>1. IsFiniteSet(Busy) /\ g \in Busy
  BY BusyFinite DEF Busy
<1>2. Cardinality(Busy) \in Nat /\ Cardinality(Busy) # 0
  BY <1>1, FS_CardinalityType, FS_EmptySet
<1> QED
  BY <1>2 DEF CountAccurate

(* The shortest prefix drainWaiting shifts: nothing of an empty list, and  *)
(* one entry if one slot is free and that entry has work.                  *)
LEMMA PoppedNothing ==
  ASSUME waitingGroups = <<>>, NEW free
  PROVE  Popped(free) = 0
BY DEF Popped

LEMMA PoppedOne ==
  ASSUME waitingGroups \in Seq(Groups), waitingGroups # <<>>, HasWork(waitingGroups[1])
  PROVE  Popped(1) = 1
<1> DEFINE Entries(k) == {i \in 1 .. k : HasWork(waitingGroups[i])}
           Stop(k) == k = Len(waitingGroups) \/ Cardinality(Entries(k)) = 1
           First(k) == Stop(k) /\ \A j \in 0 .. k - 1 : ~Stop(j)
<1>1. Len(waitingGroups) \in Nat /\ Len(waitingGroups) >= 1
  OBVIOUS
<1>2. Entries(0) = {} /\ Entries(1) = {1}
  OBVIOUS
<1>3. Cardinality(Entries(0)) = 0 /\ Cardinality(Entries(1)) = 1
  BY <1>2, FS_EmptySet, FS_Singleton
<1>4. ~Stop(0) /\ Stop(1)
  BY <1>1, <1>3
<1>5. \A k \in 0 .. Len(waitingGroups) : First(k) <=> k = 1
  <2>1. ASSUME NEW k \in 0 .. Len(waitingGroups), First(k)
        PROVE  k = 1
    <3>1. k # 0
      BY <2>1, <1>4
    <3>2. CASE k > 1
      <4>1. 1 \in 0 .. k - 1
        BY <3>2
      <4> QED
        BY <4>1, <2>1, <1>4
    <3> QED
      BY <3>1, <3>2
  <2>2. First(1)
    <3>1. \A j \in 0 .. 1 - 1 : j = 0
      OBVIOUS
    <3> QED
      BY <3>1, <1>4
  <2> QED
    BY <2>1, <2>2
<1> HIDE DEF First
<1>6. (CHOOSE k \in 0 .. Len(waitingGroups) : First(k)) = 1
  BY <1>5, <1>1
<1> QED
  BY <1>6 DEF First, Popped

-----------------------------------------------------------------------------
(* The hand-over of a slot.  Under the invariant, a release either frees   *)
(* the slot, keeps it for the group's own work, or gives it to the head of *)
(* the waiting list; it never does two of these.                           *)

Frees(g) ==
  /\ running' = [running EXCEPT ![g] = None]
  /\ activeCount' = activeCount - 1
  /\ UNCHANGED <<pendingTasks, pendingMessages, waitingGroups>>

(* Group h starts the first thing it has queued.                           *)
Serves(h) ==
  /\ activeCount' = activeCount
  /\ pendingTasks' = [pendingTasks EXCEPT
                        ![h] = IF pendingTasks[h] # <<>> THEN Tail(@) ELSE @]
  /\ pendingMessages' = [pendingMessages EXCEPT ![h] = @ /\ pendingTasks[h] # <<>>]

Keeps(g) ==
  /\ ~shuttingDown /\ HasWork(g)
  /\ running' = [running EXCEPT ![g] = QueuedRun(g)]
  /\ Serves(g)
  /\ UNCHANGED waitingGroups

HandsOver(g) ==
  LET h == Head(waitingGroups) IN
  /\ ~shuttingDown /\ ~HasWork(g) /\ waitingGroups # <<>>
  /\ running' = [running EXCEPT ![g] = None, ![h] = QueuedRun(h)]
  /\ Serves(h)
  /\ waitingGroups' = Tail(waitingGroups)

LEMMA ReleaseCases ==
  ASSUME QueueInv, NEW g \in Groups, Active(g), Release(g)
  PROVE  \/ /\ shuttingDown \/ (~HasWork(g) /\ waitingGroups = <<>>)
            /\ Frees(g)
         \/ Keeps(g)
         \/ HandsOver(g)
<1> USE DEF QueueInv, QueueTypes
<1>1. activeCount \in Nat /\ activeCount >= 1 /\ activeCount <= Limit /\ Limit \in Nat
  BY BusyPositive, LimitAssumption DEF ConcurrencyLimit
<1>2. Cardinality({}) = 0 /\ \A h : Cardinality({h}) = 1
  BY FS_EmptySet, FS_Singleton
<1>3. SubSeq(waitingGroups, 1, Len(waitingGroups)) = waitingGroups
  OBVIOUS
<1>4. CASE shuttingDown \/ (~HasWork(g) /\ waitingGroups = <<>>)
  <2>1. Shifted(g) = 0
    BY <1>4, PoppedNothing DEF Shifted
  <2>2. Started(g) = {}
    BY <2>1, <1>4 DEF Started, OwnWorkFirst
  <2>3. running' = [running EXCEPT ![g] = None]
    BY <2>2 DEF Release
  <2>4. activeCount' = activeCount - 1
    <3>1. Cardinality(Started(g)) = 0
      BY <2>2, <1>2
    <3> QED
      BY <3>1, <1>1 DEF Release
  <2>5. waitingGroups' = waitingGroups
    BY <2>1, <1>3 DEF Release
  <2>6. pendingTasks' = pendingTasks /\ pendingMessages' = pendingMessages
    BY <2>2 DEF Release, Dequeue
  <2> QED
    BY <1>4, <2>3, <2>4, <2>5, <2>6 DEF Frees
<1>5. CASE ~shuttingDown /\ HasWork(g)
  <2>1. Shifted(g) = 0 /\ Started(g) = {g}
    BY <1>5 DEF Shifted, Started, OwnWorkFirst
  <2>2. running' = [running EXCEPT ![g] = QueuedRun(g)]
    BY <2>1 DEF Release
  <2>3. activeCount' = activeCount
    <3>1. Cardinality(Started(g)) = 1
      BY <2>1, <1>2
    <3> QED
      BY <3>1, <1>1 DEF Release
  <2>4. waitingGroups' = waitingGroups
    BY <2>1, <1>3 DEF Release
  <2>5. /\ pendingTasks' = [pendingTasks EXCEPT
                        ![g] = IF pendingTasks[g] # <<>> THEN Tail(@) ELSE @]
        /\ pendingMessages' = [pendingMessages EXCEPT ![g] = @ /\ pendingTasks[g] # <<>>]
    BY <2>1 DEF Release, Dequeue
  <2> QED
    BY <1>5, <2>2, <2>3, <2>4, <2>5 DEF Keeps, Serves
<1>6. CASE ~shuttingDown /\ ~HasWork(g) /\ waitingGroups # <<>>
  <2> DEFINE h == Head(waitingGroups)
  <2>1. h = waitingGroups[1] /\ h \in Groups /\ 1 \in DOMAIN waitingGroups
    BY <1>6
  <2>2. ~Active(h) /\ HasWork(h) /\ h # g
    BY <2>1 DEF WaitingSound
  <2>3. Limit - (activeCount - 1) = 1
    BY <1>6, <1>1 DEF WorkConserving
  <2>4. Shifted(g) = 1
    BY <1>6, <2>1, <2>2, <2>3, PoppedOne DEF Shifted
  <2>5. Started(g) = {h}
    BY <1>6, <2>1, <2>2, <2>4 DEF Started, OwnWorkFirst
  <2>6. running' = [running EXCEPT ![g] = None, ![h] = QueuedRun(h)]
    BY <2>1, <2>2, <2>5 DEF Release
  <2>7. activeCount' = activeCount
    <3>1. Cardinality(Started(g)) = 1
      BY <2>5, <1>2
    <3> QED
      BY <3>1, <1>1 DEF Release
  <2>8. waitingGroups' = Tail(waitingGroups)
    BY <2>4, <1>6 DEF Release
  <2>9. /\ pendingTasks' = [pendingTasks EXCEPT
                        ![h] = IF pendingTasks[h] # <<>> THEN Tail(@) ELSE @]
        /\ pendingMessages' = [pendingMessages EXCEPT ![h] = @ /\ pendingTasks[h] # <<>>]
    BY <2>1, <2>5 DEF Release, Dequeue
  <2> QED
    BY <1>6, <2>6, <2>7, <2>8, <2>9 DEF HandsOver, Serves
<1> QED
  BY <1>4, <1>5, <1>6

-----------------------------------------------------------------------------
(* Asking for work preserves the invariant.                                *)

LEMMA RangeOfAppend ==
  ASSUME NEW S, NEW s \in Seq(S), NEW e \in S
  PROVE  Range(Append(s, e)) = Range(s) \cup {e}
<1>1. DOMAIN Append(s, e) = DOMAIN s \cup {Len(s) + 1}
  OBVIOUS
<1>2. /\ \A i \in DOMAIN s : Append(s, e)[i] = s[i]
      /\ Append(s, e)[Len(s) + 1] = e
  OBVIOUS
<1> QED
  BY <1>1, <1>2 DEF Range

(* A group idle until now starts: one more is busy.                        *)
LEMMA OneMoreBusy ==
  ASSUME QueueTypes, CountAccurate, NEW g \in Groups, ~Active(g),
         NEW run, run # None, StartNow(g, run)
  PROVE  CountAccurate'
<1>1. Busy' = Busy \cup {g} /\ g \notin Busy
  BY DEF Busy, Active, StartNow, QueueTypes
<1>2. Cardinality(Busy') = Cardinality(Busy) + 1
  BY <1>1, BusyFinite, FS_AddElement
<1> QED
  BY <1>2 DEF CountAccurate, StartNow

(* Work is noted for group g and the group waits if it does not run: what  *)
(* MessageCheck and EnqueueTask do when they cannot start g.               *)
Parked(g) ==
  /\ ~shuttingDown
  /\ HasWork(g)'
  /\ \A h \in Groups \ {g} : pendingTasks'[h] = pendingTasks[h] /\ pendingMessages'[h] = pendingMessages[h]
  /\ UNCHANGED <<running, activeCount, shuttingDown, shutdownCall>>
  /\ \/ Active(g) /\ UNCHANGED waitingGroups
     \/ ~Active(g) /\ AtLimit /\ WaitForSlot(g)

LEMMA ParkedKeepsWaiting ==
  ASSUME QueueInv, QueueTypes', NEW g \in Groups, Parked(g)
  PROVE  WaitingSound' /\ NoLostWakeup' /\ WorkConserving'
<1> USE DEF QueueInv, QueueTypes
<1>1. \A h \in Groups : Active(h)' <=> Active(h)
  BY DEF Parked, Active
<1>2. \A h \in Groups \ {g} : HasWork(h)' <=> HasWork(h)
  BY DEF Parked, HasWork
<1>3. CASE waitingGroups' = waitingGroups
  <2>1. WaitingSound'
    <3>1. \A i \in DOMAIN waitingGroups : waitingGroups[i] \in Groups
      OBVIOUS
    <3> QED
      BY <1>1, <1>2, <1>3, <3>1 DEF WaitingSound, Parked
  <2>2. NoLostWakeup'
    BY <1>1, <1>2, <1>3 DEF NoLostWakeup, Parked, WaitForSlot
  <2>3. WorkConserving'
    BY <1>3 DEF WorkConserving, Parked
  <2> QED
    BY <2>1, <2>2, <2>3
<1>4. CASE ~Active(g) /\ AtLimit /\ g \notin Range(waitingGroups)
           /\ waitingGroups' = Append(waitingGroups, g)
  <2>1. Range(waitingGroups') = Range(waitingGroups) \cup {g}
    BY <1>4, RangeOfAppend
  <2>2. /\ DOMAIN waitingGroups' = DOMAIN waitingGroups \cup {Len(waitingGroups) + 1}
        /\ \A i \in DOMAIN waitingGroups : waitingGroups'[i] = waitingGroups[i]
                                          /\ waitingGroups[i] \in Groups \ {g}
        /\ waitingGroups'[Len(waitingGroups) + 1] = g
    BY <1>4 DEF Range
  <2>3. WaitingSound'
    <3>1. \A i \in DOMAIN waitingGroups : running[waitingGroups[i]] = None
                                        /\ HasWork(waitingGroups[i])'
      BY <1>2, <2>2 DEF WaitingSound, Active
    <3>2. running[g] = None /\ HasWork(g)'
      BY <1>4 DEF Active, Parked
    <3>3. \A i \in DOMAIN waitingGroups' :
            (~Active(waitingGroups[i]) /\ HasWork(waitingGroups[i]))'
      BY <2>2, <3>1, <3>2 DEF Parked, Active, HasWork
    <3>4. \A i, j \in DOMAIN waitingGroups' : waitingGroups'[i] = waitingGroups'[j] => i = j
      BY <2>2 DEF WaitingSound
    <3> QED
      BY <3>3, <3>4 DEF WaitingSound
  <2>4. NoLostWakeup'
    BY <1>1, <1>2, <2>1 DEF NoLostWakeup, Parked
  <2>5. WorkConserving'
    BY <1>4, LimitAssumption DEF WorkConserving, Parked, AtLimit, ConcurrencyLimit
  <2> QED
    BY <2>3, <2>4, <2>5
<1> QED
  BY <1>3, <1>4 DEF Parked, WaitForSlot

(* Group g starts on the spot in a free slot: then nobody was waiting.     *)
Launched(g, run) ==
  /\ ~shuttingDown /\ ~Active(g) /\ ~AtLimit
  /\ StartNow(g, run)
  /\ UNCHANGED <<pendingTasks, waitingGroups, shuttingDown, shutdownCall>>
  /\ \A h \in Groups : pendingMessages'[h] => pendingMessages[h]

LEMMA LaunchedKeepsQueue ==
  ASSUME QueueInv, QueueTypes', NEW g \in Groups, NEW run \in RunKinds \ {None}, Launched(g, run)
  PROVE  /\ ConcurrencyLimit' /\ WaitingSound' /\ NoLostWakeup' /\ WorkConserving'
         /\ ShutdownCallSound'
<1> USE DEF QueueInv, QueueTypes
<1>1. waitingGroups = <<>> /\ waitingGroups' = <<>>
  BY DEF Launched, WorkConserving, AtLimit, ConcurrencyLimit
<1>2. ConcurrencyLimit'
  <2>1. CountAccurate'
    BY OneMoreBusy DEF Launched, ConcurrencyLimit
  <2>2. activeCount' <= Limit
    BY LimitAssumption DEF Launched, StartNow, AtLimit
  <2> QED
    BY <2>1, <2>2 DEF ConcurrencyLimit
<1>3. WaitingSound' /\ WorkConserving'
  BY <1>1 DEF WaitingSound, WorkConserving
<1>4. NoLostWakeup'
  BY <1>1 DEF NoLostWakeup, Launched, HasWork, Active, Range, StartNow
<1>5. ShutdownCallSound'
  BY DEF ShutdownCallSound, Launched
<1> QED
  BY <1>2, <1>3, <1>4, <1>5

LEMMA CheckKeepsInv ==
  ASSUME QueueInv, NEW g \in Groups, MessageCheck(g)
  PROVE  QueueInv'
<1> USE DEF QueueInv, QueueTypes
<1>1. QueueTypes'
  <2>1. waitingGroups' \in Seq(Groups)
    <3>1. Append(waitingGroups, g) \in Seq(Groups)
      OBVIOUS
    <3> QED
      BY <3>1 DEF MessageCheck, WaitForSlot
  <2>2. running' \in [Groups -> RunKinds] /\ activeCount' \in Nat
    BY DEF MessageCheck, StartNow, RunKinds
  <2>3. pendingMessages' \in [Groups -> BOOLEAN]
    BY DEF MessageCheck
  <2> QED
    BY <2>1, <2>2, <2>3 DEF MessageCheck
<1>2. NoDuplicateTask'
  BY TasksAssumption DEF NoDuplicateTask, MessageCheck, StartNow, Range
<1>3. CASE Parked(g)
  <2>1. ConcurrencyLimit' /\ ShutdownCallSound'
    BY <1>3 DEF Parked, ConcurrencyLimit, CountAccurate, Busy, Active, ShutdownCallSound
  <2> QED
    BY <1>1, <1>2, <1>3, <2>1, ParkedKeepsWaiting
<1>4. CASE Launched(g, MessageRun)
  <2>1. MessageRun \in RunKinds \ {None}
    BY DEF RunKinds, MessageRun, None
  <2> QED
    BY <1>1, <1>2, <1>4, <2>1, LaunchedKeepsQueue
<1>5. Parked(g) \/ Launched(g, MessageRun)
  BY DEF MessageCheck, Parked, Launched, HasWork
<1> QED
  BY <1>3, <1>4, <1>5

LEMMA TaskKeepsInv ==
  ASSUME QueueInv, NEW t \in Tasks, EnqueueTask(t)
  PROVE  QueueInv'
<1> DEFINE g == Home[t]
<1> USE DEF QueueInv, QueueTypes
<1>0. g \in Groups /\ t \in RunKinds \ {None}
  BY TasksAssumption DEF RunKinds
<1>1. QueueTypes'
  <2>1. waitingGroups' \in Seq(Groups)
    <3>1. Append(waitingGroups, g) \in Seq(Groups)
      BY <1>0
    <3> QED
      BY <3>1 DEF EnqueueTask, WaitForSlot
  <2>2. running' \in [Groups -> RunKinds] /\ activeCount' \in Nat
    <3>1. \/ running' = running /\ activeCount' = activeCount
          \/ running' = [running EXCEPT ![g] = t] /\ activeCount' = activeCount + 1
      BY DEF EnqueueTask, StartNow
    <3>2. running \in [Groups -> RunKinds] /\ activeCount \in Nat /\ t \in RunKinds
      BY <1>0
    <3>3. running' \in [Groups -> RunKinds]
      BY <3>1, <3>2
    <3>4. activeCount' \in Nat
      BY <3>1, <3>2
    <3> QED
      BY <3>3, <3>4
  <2>3. pendingTasks' \in [Groups -> Seq(Tasks)]
    <3>1. Append(pendingTasks[g], t) \in Seq(Tasks)
      BY <1>0
    <3> QED
      BY <3>1, <1>0 DEF EnqueueTask
  <2> QED
    BY <2>1, <2>2, <2>3 DEF EnqueueTask
<1>2. NoDuplicateTask'
  <2>1. CASE pendingTasks' = [pendingTasks EXCEPT ![g] = Append(@, t)] /\ running' = running
    <3>1. \A h \in Groups \ {g} : pendingTasks'[h] = pendingTasks[h]
      BY <2>1
    <3>2. /\ DOMAIN pendingTasks'[g] = DOMAIN pendingTasks[g] \cup {Len(pendingTasks[g]) + 1}
          /\ \A i \in DOMAIN pendingTasks[g] : pendingTasks'[g][i] = pendingTasks[g][i]
          /\ pendingTasks'[g][Len(pendingTasks[g]) + 1] = t
      BY <1>0, <2>1
    <3>3. running[g] # t /\ \A i \in DOMAIN pendingTasks[g] : pendingTasks[g][i] # t
      BY DEF EnqueueTask, Known, Range
    <3>4. running'[g] \notin Range(pendingTasks'[g])
      BY <2>1, <1>0, <3>2, <3>3 DEF NoDuplicateTask, Range
    <3>5. \A i, j \in DOMAIN pendingTasks'[g] : pendingTasks'[g][i] = pendingTasks'[g][j] => i = j
      BY <1>0, <3>2, <3>3 DEF NoDuplicateTask
    <3> QED
      BY <2>1, <3>1, <3>4, <3>5 DEF NoDuplicateTask
  <2>2. CASE pendingTasks' = pendingTasks /\ running' = [running EXCEPT ![g] = t]
    BY <2>2, <1>0 DEF NoDuplicateTask, EnqueueTask, Known, Range
  <2> QED
    BY <2>1, <2>2 DEF EnqueueTask, StartNow
<1>3. CASE Parked(g)
  <2>1. ConcurrencyLimit' /\ ShutdownCallSound'
    BY <1>3 DEF Parked, ConcurrencyLimit, CountAccurate, Busy, Active, ShutdownCallSound
  <2> QED
    BY <1>0, <1>1, <1>2, <1>3, <2>1, ParkedKeepsWaiting
<1>4. CASE Launched(g, t)
  BY <1>0, <1>1, <1>2, <1>4, LaunchedKeepsQueue
<1>5. Parked(g) \/ Launched(g, t)
  <2>1. pendingTasks'[g] # <<>> \/ pendingTasks' = pendingTasks
    BY <1>0 DEF EnqueueTask
  <2> QED
    BY <1>0, <2>1 DEF EnqueueTask, Parked, Launched, HasWork
<1> QED
  BY <1>3, <1>4, <1>5

-----------------------------------------------------------------------------
(* The end of a run preserves the invariant, in each of its three cases.   *)

LEMMA FreesKeepsInv ==
  ASSUME QueueInv, NEW g \in Groups, Active(g), Release(g), Frees(g),
         shuttingDown \/ (~HasWork(g) /\ waitingGroups = <<>>)
  PROVE  QueueInv'
<1> USE DEF QueueInv, QueueTypes
<1>1. activeCount \in Nat /\ activeCount >= 1 /\ activeCount <= Limit
  BY BusyPositive DEF ConcurrencyLimit
<1>2. QueueTypes'
  <2>1. running' \in [Groups -> RunKinds] /\ activeCount' \in Nat
    BY <1>1 DEF Frees, RunKinds
  <2>2. shuttingDown' \in BOOLEAN /\ shutdownCall' \in {"none", "waiting", "resolved"}
    BY DEF Release, NotifyIfIdle
  <2> QED
    BY <2>1, <2>2 DEF Frees
<1>3. ConcurrencyLimit'
  <2>1. Busy' = Busy \ {g} /\ g \in Busy
    BY DEF Busy, Active, Frees
  <2>2. Cardinality(Busy') = Cardinality(Busy) - 1
    BY <2>1, BusyFinite, FS_RemoveElement
  <2>3. activeCount = Cardinality(Busy) /\ activeCount' = activeCount - 1
    BY DEF ConcurrencyLimit, CountAccurate, Frees
  <2> QED
    BY <1>1, <2>2, <2>3, LimitAssumption DEF ConcurrencyLimit, CountAccurate
<1>4. WaitingSound'
  <2>1. \A i \in DOMAIN waitingGroups : waitingGroups[i] \in Groups
    OBVIOUS
  <2> QED
    BY <2>1 DEF WaitingSound, Frees, Active, HasWork
<1>5. NoLostWakeup' /\ WorkConserving'
  BY DEF NoLostWakeup, WorkConserving, Frees, Active, HasWork, Release
<1>6. NoDuplicateTask'
  BY TasksAssumption DEF NoDuplicateTask, Frees, Range
<1>7. ShutdownCallSound'
  BY <1>1 DEF ShutdownCallSound, Release, NotifyIfIdle, Frees
<1> QED
  BY <1>2, <1>3, <1>4, <1>5, <1>6, <1>7

(* What a group takes from its queue, and what it leaves there.            *)
LEMMA ServesQueue ==
  ASSUME QueueTypes, NoDuplicateTask, NEW h \in Groups, HasWork(h), Serves(h)
  PROVE  /\ QueuedRun(h) \in RunKinds \ {None}
         /\ pendingTasks' \in [Groups -> Seq(Tasks)]
         /\ pendingMessages' \in [Groups -> BOOLEAN]
         /\ QueuedRun(h) \notin Range(pendingTasks'[h])
         /\ \A i, j \in DOMAIN pendingTasks'[h] : pendingTasks'[h][i] = pendingTasks'[h][j] => i = j
         /\ \A k \in Groups \ {h} : /\ pendingTasks'[k] = pendingTasks[k]
                                    /\ pendingMessages'[k] = pendingMessages[k]
<1> USE DEF QueueTypes
<1>1. \A k \in Groups \ {h} : /\ pendingTasks'[k] = pendingTasks[k]
                              /\ pendingMessages'[k] = pendingMessages[k]
  BY DEF Serves
<1>2. pendingMessages' \in [Groups -> BOOLEAN]
  BY DEF Serves
<1> DEFINE q == pendingTasks[h]
<1>3. q \in Seq(Tasks)
  OBVIOUS
<1>4. CASE q = <<>>
  <2>1. pendingTasks' = pendingTasks /\ QueuedRun(h) = MessageRun
    BY <1>4 DEF Serves, QueuedRun
  <2>2. MessageRun \in RunKinds \ {None}
    BY DEF MessageRun, None, RunKinds
  <2> QED
    BY <1>1, <1>2, <1>4, <2>1, <2>2 DEF Range
<1>5. CASE q # <<>>
  <2>1. /\ Tail(q) \in Seq(Tasks) /\ Head(q) \in Tasks /\ Head(q) = q[1]
        /\ Len(q) \in Nat /\ Len(q) >= 1
        /\ DOMAIN q = 1 .. Len(q) /\ DOMAIN Tail(q) = 1 .. Len(q) - 1
        /\ \A i \in DOMAIN Tail(q) : Tail(q)[i] = q[i + 1]
    BY <1>3, <1>5
  <2>2. pendingTasks'[h] = Tail(q) /\ QueuedRun(h) = q[1]
    BY <1>5, <2>1 DEF Serves, QueuedRun
  <2>3. pendingTasks' \in [Groups -> Seq(Tasks)]
    BY <1>5, <2>1 DEF Serves
  <2>4. \A i, j \in DOMAIN q : q[i] = q[j] => i = j
    BY DEF NoDuplicateTask
  <2>5. \A i \in DOMAIN Tail(q) : i + 1 \in DOMAIN q /\ i + 1 # 1
    BY <2>1
  <2>6. \A i \in DOMAIN Tail(q) : Tail(q)[i] # q[1]
    <3>1. 1 \in DOMAIN q
      BY <2>1
    <3> QED
      BY <2>1, <2>4, <2>5, <3>1
  <2>7. \A i, j \in DOMAIN Tail(q) : Tail(q)[i] = Tail(q)[j] => i = j
    BY <2>1, <2>4, <2>5
  <2>8. QueuedRun(h) \in RunKinds \ {None}
    BY <2>1, <2>2, TasksAssumption DEF RunKinds
  <2> QED
    BY <1>1, <1>2, <2>2, <2>3, <2>6, <2>7, <2>8 DEF Range
<1> QED
  BY <1>4, <1>5

LEMMA KeepsKeepsInv ==
  ASSUME QueueInv, NEW g \in Groups, Active(g), Release(g), Keeps(g)
  PROVE  QueueInv'
<1> USE DEF QueueInv, QueueTypes
<1>1. HasWork(g) /\ Serves(g)
  BY DEF Keeps
<1>2. QueueTypes'
  <2>1. running' \in [Groups -> RunKinds]
    BY <1>1, ServesQueue DEF Keeps
  <2>2. shuttingDown' \in BOOLEAN /\ shutdownCall' \in {"none", "waiting", "resolved"}
    BY DEF Release, NotifyIfIdle
  <2>3. pendingTasks' \in [Groups -> Seq(Tasks)] /\ pendingMessages' \in [Groups -> BOOLEAN]
    BY <1>1, ServesQueue
  <2> QED
    BY <1>1, <2>1, <2>2, <2>3 DEF Keeps, Serves
<1>3. ConcurrencyLimit'
  <2>1. Busy' = Busy
    BY <1>1, ServesQueue DEF Keeps, Busy, Active
  <2> QED
    BY <2>1 DEF ConcurrencyLimit, CountAccurate, Keeps, Serves
<1>4. \A h \in Groups \ {g} : (Active(h)' <=> Active(h)) /\ (HasWork(h)' <=> HasWork(h))
  BY <1>1, ServesQueue DEF Keeps, Active, HasWork
<1>5. running'[g] # None
  BY <1>1, ServesQueue DEF Keeps
<1>6. WaitingSound'
  <2>1. \A i \in DOMAIN waitingGroups : waitingGroups[i] \in Groups \ {g}
    BY DEF WaitingSound
  <2>2. \A i \in DOMAIN waitingGroups : (~Active(waitingGroups[i]) /\ HasWork(waitingGroups[i]))'
    <3> SUFFICES ASSUME NEW i \in DOMAIN waitingGroups
                 PROVE  (~Active(waitingGroups[i]) /\ HasWork(waitingGroups[i]))'
      OBVIOUS
    <3>1. ~Active(waitingGroups[i]) /\ HasWork(waitingGroups[i])
      BY DEF WaitingSound
    <3>2. waitingGroups' = waitingGroups
      BY DEF Keeps
    <3> QED
      BY <2>1, <3>1, <3>2, <1>1, ServesQueue DEF Keeps, Active, HasWork
  <2> QED
    BY <2>2 DEF WaitingSound, Keeps
<1>7. NoLostWakeup'
  BY <1>4, <1>5 DEF NoLostWakeup, Keeps, Active, Release
<1>8. WorkConserving' /\ ShutdownCallSound'
  BY <1>1 DEF WorkConserving, Keeps, Serves, ShutdownCallSound, Release, NotifyIfIdle
<1>9. NoDuplicateTask'
  BY <1>1, ServesQueue DEF NoDuplicateTask, Keeps
<1> QED
  BY <1>2, <1>3, <1>6, <1>7, <1>8, <1>9

LEMMA HandsOverKeepsInv ==
  ASSUME QueueInv, NEW g \in Groups, Active(g), Release(g), HandsOver(g)
  PROVE  QueueInv'
<1> DEFINE h == Head(waitingGroups)
<1> USE DEF QueueInv, QueueTypes
<1>1. /\ h \in Groups /\ h = waitingGroups[1] /\ 1 \in DOMAIN waitingGroups
      /\ Len(waitingGroups) \in Nat
      /\ Tail(waitingGroups) \in Seq(Groups)
      /\ DOMAIN waitingGroups = 1 .. Len(waitingGroups)
      /\ DOMAIN Tail(waitingGroups) = 1 .. Len(waitingGroups) - 1
      /\ \A i \in DOMAIN Tail(waitingGroups) : Tail(waitingGroups)[i] = waitingGroups[i + 1]
  BY DEF HandsOver
<1>2. ~Active(h) /\ HasWork(h) /\ h # g /\ Serves(h)
  <2>1. ~Active(h) /\ HasWork(h)
    <3>1. ~Active(waitingGroups[1]) /\ HasWork(waitingGroups[1])
      BY <1>1 DEF WaitingSound
    <3> QED
      BY <3>1, <1>1
  <2>2. h # g /\ Serves(h)
    BY <2>1 DEF HandsOver
  <2> QED
    BY <2>1, <2>2
<1>3. /\ running' = [running EXCEPT ![g] = None, ![h] = QueuedRun(h)]
      /\ waitingGroups' = Tail(waitingGroups)
      /\ ~shuttingDown /\ ~HasWork(g)
  BY DEF HandsOver
<1>4. QueuedRun(h) \in RunKinds \ {None}
  BY <1>1, <1>2, ServesQueue
<1>5. QueueTypes'
  <2>1. running' \in [Groups -> RunKinds]
    BY <1>3, <1>4, <1>1 DEF RunKinds
  <2>2. shuttingDown' \in BOOLEAN /\ shutdownCall' \in {"none", "waiting", "resolved"}
    BY DEF Release, NotifyIfIdle
  <2>3. pendingTasks' \in [Groups -> Seq(Tasks)] /\ pendingMessages' \in [Groups -> BOOLEAN]
    BY <1>1, <1>2, ServesQueue
  <2> QED
    BY <1>1, <1>2, <1>3, <2>1, <2>2, <2>3 DEF Serves
<1>6. ConcurrencyLimit'
  <2>1. Busy' = (Busy \ {g}) \cup {h} /\ g \in Busy /\ h \notin Busy
    BY <1>1, <1>2, <1>3, <1>4 DEF Busy, Active
  <2>2. Cardinality(Busy \ {g}) = Cardinality(Busy) - 1 /\ IsFiniteSet(Busy \ {g})
    BY <2>1, BusyFinite, FS_RemoveElement
  <2>3. Cardinality(Busy') = Cardinality(Busy) - 1 + 1
    BY <2>1, <2>2, FS_AddElement
  <2> QED
    BY <1>2, <2>3 DEF ConcurrencyLimit, CountAccurate, Serves
<1>7. \A k \in Groups \ {g, h} : (Active(k)' <=> Active(k)) /\ (HasWork(k)' <=> HasWork(k))
  BY <1>1, <1>2, <1>3, ServesQueue DEF Active, HasWork
<1>8. running'[h] # None /\ ~HasWork(g)'
  BY <1>1, <1>2, <1>3, <1>4, ServesQueue DEF HasWork
<1>9. WaitingSound'
  <2>1. \A i \in DOMAIN Tail(waitingGroups) :
          /\ i + 1 \in DOMAIN waitingGroups
          /\ waitingGroups[i + 1] \in Groups \ {g, h}
    <3> SUFFICES ASSUME NEW i \in DOMAIN Tail(waitingGroups)
                 PROVE  i + 1 \in DOMAIN waitingGroups /\ waitingGroups[i + 1] \in Groups \ {g, h}
      OBVIOUS
    <3>1. i + 1 \in DOMAIN waitingGroups /\ i + 1 # 1
      BY <1>1
    <3>2. waitingGroups[i + 1] # h
      BY <3>1, <1>1 DEF WaitingSound
    <3>3. waitingGroups[i + 1] # g
      BY <3>1 DEF WaitingSound
    <3> QED
      BY <3>1, <3>2, <3>3
  <2>2. \A i \in DOMAIN waitingGroups' : (~Active(waitingGroups[i]) /\ HasWork(waitingGroups[i]))'
    <3> SUFFICES ASSUME NEW i \in DOMAIN waitingGroups'
                 PROVE  (~Active(waitingGroups[i]) /\ HasWork(waitingGroups[i]))'
      OBVIOUS
    <3> DEFINE k == waitingGroups[i + 1]
    <3>1. k \in Groups \ {g, h} /\ waitingGroups'[i] = k
      BY <1>1, <1>3, <2>1
    <3>2. ~Active(k) /\ HasWork(k)
      BY <1>3, <2>1 DEF WaitingSound
    <3>3. running'[k] = None
      BY <3>1, <3>2, <1>1, <1>3 DEF Active
    <3>4. pendingTasks'[k] = pendingTasks[k] /\ pendingMessages'[k] = pendingMessages[k]
      BY <3>1, <1>1, <1>2, ServesQueue
    <3> QED
      BY <3>1, <3>2, <3>3, <3>4 DEF Active, HasWork
  <2>3. \A i, j \in DOMAIN waitingGroups' : waitingGroups'[i] = waitingGroups'[j] => i = j
    BY <1>1, <1>3, <2>1 DEF WaitingSound
  <2> QED
    BY <2>2, <2>3 DEF WaitingSound
<1>10. NoLostWakeup'
  <2> SUFFICES ASSUME NEW k \in Groups, (~Active(k) /\ HasWork(k))'
               PROVE  k \in Range(waitingGroups')
    BY DEF NoLostWakeup
  <2>1. k \in Groups \ {g, h}
    BY <1>8 DEF Active
  <2>2. k \in Range(waitingGroups)
    BY <2>1, <1>3, <1>7 DEF NoLostWakeup
  <2>3. PICK i \in DOMAIN waitingGroups : waitingGroups[i] = k
    BY <2>2 DEF Range
  <2>4. i # 1 /\ i - 1 \in DOMAIN Tail(waitingGroups) /\ Tail(waitingGroups)[i - 1] = k
    BY <1>1, <2>1, <2>3
  <2> QED
    BY <1>3, <2>4 DEF Range
<1>11. WorkConserving'
  BY <1>1, <1>2, <1>3 DEF WorkConserving, HandsOver, Serves
<1>12. ShutdownCallSound'
  BY <1>3 DEF ShutdownCallSound, Release, NotifyIfIdle
<1>13. NoDuplicateTask'
  <2> SUFFICES ASSUME NEW k \in Groups
               PROVE  /\ running'[k] \notin Range(pendingTasks'[k])
                      /\ \A i, j \in DOMAIN pendingTasks'[k] :
                           pendingTasks'[k][i] = pendingTasks'[k][j] => i = j
    BY DEF NoDuplicateTask
  <2>1. CASE k = h
    BY <2>1, <1>1, <1>2, <1>3, ServesQueue
  <2>2. CASE k = g
    <3>1. pendingTasks'[g] = <<>>
      BY <1>1, <1>2, <1>3, ServesQueue DEF HasWork
    <3> QED
      BY <2>2, <3>1 DEF Range
  <2>3. CASE k # g /\ k # h
    <3>1. running'[k] = running[k] /\ pendingTasks'[k] = pendingTasks[k]
      BY <2>3, <1>1, <1>2, <1>3, ServesQueue
    <3> QED
      BY <3>1 DEF NoDuplicateTask
  <2> QED
    BY <2>1, <2>2, <2>3
<1> QED
  BY <1>5, <1>6, <1>9, <1>10, <1>11, <1>12, <1>13

LEMMA ReleaseKeepsInv ==
  ASSUME QueueInv, NEW g \in Groups, Active(g), Release(g)
  PROVE  QueueInv'
BY ReleaseCases, FreesKeepsInv, KeepsKeepsInv, HandsOverKeepsInv

-----------------------------------------------------------------------------
(* The invariant holds of every reachable state.                           *)

LEMMA ShutdownKeepsInv ==
  ASSUME QueueInv, Shutdown
  PROVE  QueueInv'
<1> USE DEF QueueInv, QueueTypes
<1>1. QueueTypes' /\ WaitingSound' /\ NoDuplicateTask'
  BY DEF Shutdown, ShutdownAnswer, WaitingSound, NoDuplicateTask, Active, HasWork
<1>2. ConcurrencyLimit'
  BY DEF Shutdown, ConcurrencyLimit, CountAccurate, Busy, Active
<1>3. NoLostWakeup' /\ WorkConserving' /\ ShutdownCallSound'
  BY DEF Shutdown, ShutdownAnswer, NoLostWakeup, WorkConserving, ShutdownCallSound
<1> QED
  BY <1>1, <1>2, <1>3

LEMMA StutterKeepsInv ==
  ASSUME QueueInv,
         UNCHANGED <<running, pendingMessages, pendingTasks, waitingGroups, activeCount,
                     shuttingDown, shutdownCall>>
  PROVE  QueueInv'
BY DEF QueueInv, QueueTypes, ConcurrencyLimit, CountAccurate, Busy, Active, WaitingSound,
       HasWork, NoLostWakeup, WorkConserving, NoDuplicateTask, ShutdownCallSound

(* The steps of the queue, told apart by what they do to it.               *)
LEMMA NextCases ==
  ASSUME [Next]_vars
  PROVE  \/ \E g \in Groups : MessageCheck(g)
         \/ \E t \in Tasks : EnqueueTask(t)
         \/ \E g \in Groups : Active(g) /\ Release(g)
         \/ Shutdown
         \/ UNCHANGED <<running, pendingMessages, pendingTasks, waitingGroups, activeCount,
                        shuttingDown, shutdownCall>>
BY TasksAssumption
   DEF Next, vars, Request, EnqueueMessageCheck, MessagesDone, MessagesFailed, TaskSettled,
       RetryTimerFires, Active, MessageRun, None

LEMMA QueueInvInit == Init => QueueInv
<1> SUFFICES ASSUME Init PROVE QueueInv
  OBVIOUS
<1>1. QueueTypes
  <2>1. <<>> \in Seq(Tasks) /\ <<>> \in Seq(Groups)
    OBVIOUS
  <2> QED
    BY <2>1 DEF Init, QueueTypes, RunKinds
<1>2. Busy = {}
  BY DEF Init, Busy, Active
<1>3. ConcurrencyLimit
  BY <1>2, FS_EmptySet, LimitAssumption DEF Init, ConcurrencyLimit, CountAccurate
<1>4. WaitingSound /\ NoLostWakeup /\ WorkConserving /\ ShutdownCallSound
  BY DEF Init, WaitingSound, NoLostWakeup, WorkConserving, ShutdownCallSound, HasWork
<1>5. NoDuplicateTask
  BY DEF Init, NoDuplicateTask, Range
<1> QED
  BY <1>1, <1>3, <1>4, <1>5 DEF QueueInv

LEMMA QueueInvStep == QueueInv /\ [Next]_vars => QueueInv'
BY NextCases, CheckKeepsInv, TaskKeepsInv, ReleaseKeepsInv, ShutdownKeepsInv, StutterKeepsInv

(* The strengthened invariant of the queue.                                *)
THEOREM QueueInvariant == Spec => []QueueInv
BY QueueInvInit, QueueInvStep, PTL DEF Spec

LEMMA RetryTypesInductive == (Init => RetryTypes) /\ (RetryTypes /\ [Next]_vars => RetryTypes')
<1>1. Init => RetryTypes
  BY RetryAssumption DEF Init, RetryTypes
<1>2. ASSUME RetryTypes, [Next]_vars
      PROVE  RetryTypes'
  <2> USE RetryAssumption DEF RetryTypes
  <2>1. ASSUME NEW g \in Groups, MessagesFailed(g) PROVE RetryTypes'
    <3>1. CASE retryCount[g] + 1 > MaxRetries
      BY <1>2, <2>1, <3>1 DEF MessagesFailed, GivesUp
    <3>2. CASE ~(retryCount[g] + 1 > MaxRetries)
      <4>1. /\ retryCount' = [retryCount EXCEPT ![g] = @ + 1]
            /\ retryTimers' = [retryTimers EXCEPT ![g] = @ + 1]
            /\ retryTimers[g] < MaxTimers
        BY <2>1, <3>2 DEF MessagesFailed, GivesUp, CountFailure, ArmTimer
      <4>2. retryCount[g] + 1 \in 0 .. MaxRetries /\ retryTimers[g] + 1 \in 0 .. MaxTimers
        BY <1>2, <3>2, <4>1
      <4> QED
        BY <1>2, <4>1, <4>2
    <3> QED
      BY <3>1, <3>2
  <2>2. ASSUME NEW g \in Groups, RetryTimerFires(g) PROVE RetryTypes'
    <3>1. retryTimers' = [retryTimers EXCEPT ![g] = @ - 1] /\ retryTimers[g] > 0
          /\ retryCount' = retryCount
      BY <2>2 DEF RetryTimerFires, MessageCheck
    <3>2. retryTimers[g] - 1 \in 0 .. MaxTimers
      BY <1>2, <3>1
    <3> QED
      BY <1>2, <3>1, <3>2
  <2>3. ASSUME NEW g \in Groups, MessagesDone(g) \/ TaskSettled(g) PROVE RetryTypes'
    BY <1>2, <2>3 DEF MessagesDone, TaskSettled
  <2>4. CASE Request \/ Shutdown \/ UNCHANGED vars
    BY <1>2, <2>4 DEF Request, EnqueueMessageCheck, MessageCheck, EnqueueTask, Shutdown, vars
  <2> QED
    BY <1>2, <2>1, <2>2, <2>3, <2>4 DEF Next
<1> QED
  BY <1>1, <1>2

(* Every variable keeps its type, in particular no group's retry budget is *)
(* overrun and the count of containers never goes below zero.              *)
THEOREM TypeCorrect == Spec => []TypeOK
<1>1. QueueInv /\ RetryTypes => TypeOK
  BY DEF QueueInv, QueueTypes, RetryTypes, TypeOK
<1> QED
  BY <1>1, QueueInvariant, RetryTypesInductive, PTL DEF Spec

(* Never more than Limit groups run, and activeCount says how many do.     *)
THEOREM NeverOverLimit == Spec => []ConcurrencyLimit
BY QueueInvariant, PTL DEF QueueInv

(* The waiting list holds idle groups with work, once each.                *)
THEOREM WaitingListSound == Spec => []WaitingSound
BY QueueInvariant, PTL DEF QueueInv

(* Queued work of an idle group is always on the waiting list.             *)
THEOREM NothingLost == Spec => []NoLostWakeup
BY QueueInvariant, PTL DEF QueueInv

(* No group waits beside a free slot.                                      *)
THEOREM NoIdleSlot == Spec => []WorkConserving
BY QueueInvariant, PTL DEF QueueInv

(* A task is queued once at most, and not while it runs.                   *)
THEOREM TasksNotDuplicated == Spec => []NoDuplicateTask
BY QueueInvariant, PTL DEF QueueInv

(* The shutdown promise is resolved exactly when nothing runs any more.    *)
THEOREM ShutdownSound == Spec => []ShutdownQuiescent
<1>1. QueueInv => ShutdownQuiescent
  <2> SUFFICES ASSUME QueueInv PROVE ShutdownQuiescent
    OBVIOUS
  <2>1. activeCount = 0 <=> Busy = {}
    BY BusyFinite, FS_EmptySet DEF QueueInv, ConcurrencyLimit, CountAccurate
  <2> QED
    BY <2>1 DEF QueueInv, ShutdownCallSound, ShutdownQuiescent
<1> QED
  BY <1>1, QueueInvariant, PTL

-----------------------------------------------------------------------------
(* Retries.                                                                *)

RetryPromised(g) ==
  retryCount[g] > 0 => \/ retryTimers[g] > 0 \/ pendingMessages[g]
                       \/ running[g] = MessageRun \/ shuttingDown

(* A release gives up a message check only by running it, and touches the  *)
(* message run of no other group.                                          *)
LEMMA ReleaseKeepsAttempts ==
  ASSUME QueueInv, NEW g \in Groups, Active(g), Release(g), NEW k \in Groups,
         pendingMessages[k] \/ (running[k] = MessageRun /\ k # g) \/ shuttingDown
  PROVE  (pendingMessages[k] \/ running[k] = MessageRun \/ shuttingDown)'
<1> USE DEF QueueInv, QueueTypes
<1>1. CASE Frees(g)
  BY <1>1 DEF Frees, Release
<1>2. CASE Keeps(g)
  BY <1>2 DEF Keeps, Serves, QueuedRun, Release
<1>3. CASE HandsOver(g)
  <2> DEFINE h == Head(waitingGroups)
  <2>1. h \in Groups /\ h = waitingGroups[1] /\ 1 \in DOMAIN waitingGroups
    BY <1>3 DEF HandsOver
  <2>2. ~Active(h)
    <3>1. ~Active(waitingGroups[1])
      BY <2>1 DEF WaitingSound
    <3> QED
      BY <3>1, <2>1
  <2>3. running[h] = None /\ h # g
    BY <2>2 DEF Active
  <2>4. MessageRun # None
    BY DEF MessageRun, None
  <2> QED
    BY <1>3, <2>1, <2>3, <2>4 DEF HandsOver, Serves, QueuedRun
<1> QED
  BY <1>1, <1>2, <1>3, ReleaseCases

LEMMA RetryPromisedStep ==
  ASSUME QueueInv, RetryTypes, [Next]_vars, NEW k \in Groups, RetryPromised(k)
  PROVE  RetryPromised(k)'
<1> USE DEF QueueInv, QueueTypes, RetryTypes, RetryPromised
<1>1. ASSUME NEW g \in Groups, MessagesDone(g) \/ MessagesFailed(g) \/ TaskSettled(g)
      PROVE  RetryPromised(k)'
  <2>1. Active(g) /\ Release(g)
    BY <1>1, TasksAssumption
       DEF MessagesDone, MessagesFailed, TaskSettled, Active, MessageRun, None
  <2>2. CASE k # g
    <3>1. retryCount'[k] = retryCount[k] /\ retryTimers'[k] = retryTimers[k]
      BY <1>1, <2>2 DEF MessagesDone, MessagesFailed, GivesUp, CountFailure, ArmTimer, TaskSettled
    <3> QED
      BY <2>1, <2>2, <3>1, ReleaseKeepsAttempts
  <2>3. CASE k = g /\ running[g] # MessageRun
    <3>1. retryCount' = retryCount /\ retryTimers' = retryTimers
      BY <1>1, <2>3 DEF MessagesDone, MessagesFailed, GivesUp, CountFailure, ArmTimer, TaskSettled
    <3> QED
      BY <2>1, <2>3, <3>1, ReleaseKeepsAttempts
  <2>4. CASE k = g /\ running[g] = MessageRun
    <3>1. MessageRun \notin Tasks
      BY TasksAssumption
    <3>2. retryCount'[g] = 0 \/ retryTimers'[g] = retryTimers[g] + 1
      BY <1>1, <2>4, <3>1, RetryAssumption
         DEF MessagesDone, MessagesFailed, GivesUp, CountFailure, ArmTimer, TaskSettled
    <3> QED
      BY <2>4, <3>2
  <2> QED
    BY <2>2, <2>3, <2>4
<1>2. ASSUME NEW g \in Groups, MessageCheck(g)
      PROVE  /\ retryCount' = retryCount
             /\ (pendingMessages[g] \/ running[g] = MessageRun)'
             /\ \A h \in Groups \ {g} : pendingMessages'[h] = pendingMessages[h]
                                        /\ running'[h] = running[h]
             /\ shuttingDown' = shuttingDown
  BY <1>2 DEF MessageCheck, StartNow
<1>3. ASSUME NEW g \in Groups, EnqueueMessageCheck(g) \/ RetryTimerFires(g)
      PROVE  RetryPromised(k)'
  <2>1. CASE MessageCheck(g)
    <3>1. \A h \in Groups \ {g} : retryTimers'[h] = retryTimers[h]
      BY <1>3 DEF EnqueueMessageCheck, RetryTimerFires
    <3> QED
      BY <1>2, <2>1, <3>1
  <2>2. CASE shuttingDown' = TRUE
    BY <2>2
  <2> QED
    BY <1>3, <2>1, <2>2 DEF EnqueueMessageCheck, RetryTimerFires
<1>4. ASSUME NEW t \in Tasks, EnqueueTask(t)
      PROVE  RetryPromised(k)'
  BY <1>4, TasksAssumption DEF EnqueueTask, StartNow, Active, MessageRun, None
<1>5. CASE Shutdown \/ UNCHANGED vars
  BY <1>5 DEF Shutdown, vars
<1> QED
  BY <1>1, <1>3, <1>4, <1>5 DEF Next, Request

(* A failed group is retried or has been given up: its failure is never    *)
(* forgotten half-way.                                                     *)
THEOREM FailuresRetried == Spec => []FailureKeepsRetry
<1> DEFINE Inv == \A k \in Groups : RetryPromised(k)
<1>1. Init => Inv
  BY DEF Init, RetryPromised
<1>2. QueueInv /\ RetryTypes /\ Inv /\ [Next]_vars => Inv'
  BY RetryPromisedStep
<1>3. Inv <=> FailureKeepsRetry
  BY DEF RetryPromised, FailureKeepsRetry
<1> QED
  BY <1>1, <1>2, <1>3, QueueInvariant, RetryTypesInductive, PTL DEF Spec

-----------------------------------------------------------------------------
(* Priority of tasks over messages.                                        *)

LEMMA TasksFirstStep ==
  ASSUME QueueInv, [Next]_vars, NEW k \in Groups, StartsMessages(k)
  PROVE  pendingTasks[k] = <<>>
<1> USE DEF QueueInv, QueueTypes, StartsMessages
<1>1. ASSUME NEW g \in Groups, MessageCheck(g)
      PROVE  pendingTasks[k] = <<>>
  <2>1. k = g /\ ~Active(g) /\ ~AtLimit /\ ~shuttingDown
    BY <1>1 DEF MessageCheck, StartNow
  <2>2. waitingGroups = <<>>
    BY <2>1 DEF WorkConserving, AtLimit, ConcurrencyLimit
  <2> QED
    BY <2>1, <2>2 DEF NoLostWakeup, HasWork, Range
<1>2. ASSUME NEW g \in Groups, Active(g), Release(g)
      PROVE  pendingTasks[k] = <<>>
  <2>1. CASE Frees(g)
    BY <2>1 DEF Frees, MessageRun, None
  <2>2. CASE Keeps(g)
    <3>1. k = g
      BY <2>2 DEF Keeps, Serves
    <3>2. pendingTasks[g] # <<>> => Head(pendingTasks[g]) \in Tasks
      OBVIOUS
    <3> QED
      BY <2>2, <3>1, <3>2, TasksAssumption DEF Keeps, Serves, QueuedRun
  <2>3. CASE HandsOver(g)
    <3> DEFINE h == Head(waitingGroups)
    <3>1. h \in Groups
      BY <2>3 DEF HandsOver
    <3>2. k = h
      BY <2>3, <3>1 DEF HandsOver, Serves, MessageRun, None
    <3>3. pendingTasks[h] # <<>> => Head(pendingTasks[h]) \in Tasks
      BY <3>1
    <3> QED
      BY <2>3, <3>1, <3>2, <3>3, TasksAssumption DEF HandsOver, Serves, QueuedRun
  <2> QED
    BY <1>2, <2>1, <2>2, <2>3, ReleaseCases
<1>3. ASSUME NEW t \in Tasks, EnqueueTask(t)
      PROVE  FALSE
  BY <1>3, TasksAssumption DEF EnqueueTask, StartNow
<1>4. CASE Shutdown \/ UNCHANGED <<running, pendingMessages, pendingTasks, waitingGroups,
                                   activeCount, shuttingDown, shutdownCall>>
  BY <1>4 DEF Shutdown
<1> QED
  BY <1>1, <1>2, <1>3, <1>4, NextCases

(* Messages of a group are only processed when none of its tasks is        *)
(* queued, in every behaviour.                                             *)
THEOREM TasksGoFirst == Spec => TasksBeforeMessages
<1>1. QueueInv /\ [Next]_vars => [\A g \in Groups : StartsMessages(g) => pendingTasks[g] = <<>>]_vars
  BY TasksFirstStep
<1> QED
  BY <1>1, QueueInvariant, PTL DEF Spec, TasksBeforeMessages

-----------------------------------------------------------------------------
(* The queue implements its contract.                                      *)

(* The contract counts with its own copy of the library's operator.        *)
LEMMA ContractCardinality ==
  ASSUME NEW S
  PROVE  Contract!Cardinality(S) = Cardinality(S)
BY DEF Cardinality, Contract!Cardinality

LEMMA CheckRefines ==
  ASSUME QueueInv, NEW g \in Groups, MessageCheck(g)
  PROVE  Contract!WantMessages(g) \/ Contract!Serve(g, MessageRun)
<1> USE DEF QueueInv, QueueTypes
<1>1. CASE pendingMessages' = [pendingMessages EXCEPT ![g] = TRUE] /\ running' = running
  BY <1>1 DEF MessageCheck, Contract!WantMessages
<1>2. CASE ~Active(g) /\ ~AtLimit /\ StartNow(g, MessageRun)
           /\ pendingMessages' = [pendingMessages EXCEPT ![g] = FALSE]
  <2>1. waitingGroups = <<>> /\ activeCount < Limit
    BY <1>2, LimitAssumption DEF WorkConserving, AtLimit, ConcurrencyLimit, MessageCheck
  <2>2. ~HasWork(g)
    BY <1>2, <2>1 DEF NoLostWakeup, Range, MessageCheck
  <2>3. pendingMessages' = pendingMessages
    BY <1>2, <2>2 DEF HasWork
  <2>4. Cardinality(Contract!Running(running)) < Limit
    BY <2>1 DEF ConcurrencyLimit, CountAccurate, Busy, Active, Contract!Running
  <2> QED
    BY <1>2, <2>2, <2>3, <2>4, ContractCardinality
       DEF MessageCheck, StartNow, HasWork, Active, Contract!Serve, Contract!Wanted
<1> QED
  BY <1>1, <1>2 DEF MessageCheck

LEMMA TaskRefines ==
  ASSUME QueueInv, NEW t \in Tasks, EnqueueTask(t)
  PROVE  Contract!WantTask(t) \/ Contract!Serve(Home[t], t)
<1> DEFINE g == Home[t]
<1> USE TasksAssumption DEF QueueInv, QueueTypes
<1>1. CASE pendingTasks' = [pendingTasks EXCEPT ![g] = Append(@, t)] /\ running' = running
  BY <1>1 DEF EnqueueTask, Contract!WantTask
<1>2. CASE ~Active(g) /\ ~AtLimit /\ StartNow(g, t) /\ pendingTasks' = pendingTasks
  <2>1. waitingGroups = <<>> /\ activeCount < Limit
    BY <1>2, LimitAssumption DEF WorkConserving, AtLimit, ConcurrencyLimit, EnqueueTask
  <2>2. ~HasWork(g)
    BY <1>2, <2>1 DEF NoLostWakeup, Range, EnqueueTask
  <2>3. Cardinality(Contract!Running(running)) < Limit
    BY <2>1 DEF ConcurrencyLimit, CountAccurate, Busy, Active, Contract!Running
  <2> QED
    BY <1>2, <2>2, <2>3, ContractCardinality
       DEF EnqueueTask, StartNow, HasWork, Active, Contract!Serve, Contract!Wanted
<1> QED
  BY <1>1, <1>2 DEF EnqueueTask

LEMMA ReleaseRefines ==
  ASSUME QueueInv, NEW g \in Groups, Active(g), Release(g)
  PROVE  \E S \in SUBSET Groups : Contract!Turnover(g, S)
<1> USE DEF QueueInv, QueueTypes
<1>1. Contract!Cardinality(Contract!Running(running')) <= Limit
  <2>1. Contract!Running(running') = Busy'
    BY DEF Contract!Running, Busy, Active
  <2> QED
    BY <2>1, ContractCardinality, ReleaseKeepsInv DEF ConcurrencyLimit, CountAccurate
<1>2. shuttingDown' = shuttingDown
  BY DEF Release
<1>3. CASE Frees(g)
  <2>1. /\ running' = [h \in Groups |-> IF h = g THEN None ELSE running[h]]
        /\ pendingTasks' = [h \in Groups |-> pendingTasks[h]]
        /\ pendingMessages' = [h \in Groups |-> pendingMessages[h]]
    BY <1>3 DEF Frees
  <2>2. Contract!Turnover(g, {})
    BY <1>1, <1>2, <2>1 DEF Contract!Turnover, Active, Contract!Running
  <2> QED
    BY <2>2
<1>4. CASE Keeps(g)
  <2>1. /\ running' = [h \in Groups |-> IF h = g THEN QueuedRun(g) ELSE running[h]]
        /\ pendingTasks' = [h \in Groups |-> IF h = g /\ pendingTasks[h] # <<>>
                                             THEN Tail(pendingTasks[h]) ELSE pendingTasks[h]]
        /\ pendingMessages' = [h \in Groups |->
                                 pendingMessages[h] /\ (h = g => pendingTasks[h] # <<>>)]
    BY <1>4 DEF Keeps, Serves
  <2>2. Contract!Turnover(g, {g})
    BY <1>1, <1>2, <1>4, <2>1
       DEF Contract!Turnover, Contract!Wanted, Contract!Running, Keeps, HasWork, Active, QueuedRun
  <2> QED
    BY <2>2
<1>5. CASE HandsOver(g)
  <2> DEFINE h == Head(waitingGroups)
  <2>1. h \in Groups /\ h = waitingGroups[1] /\ 1 \in DOMAIN waitingGroups
    BY <1>5 DEF HandsOver
  <2>2. running[h] = None /\ HasWork(h) /\ h # g
    <3>1. ~Active(waitingGroups[1]) /\ HasWork(waitingGroups[1])
      BY <2>1 DEF WaitingSound
    <3> QED
      BY <3>1, <2>1 DEF Active
  <2>3. /\ running' = [k \in Groups |-> IF k = h THEN QueuedRun(h)
                                        ELSE IF k = g THEN None ELSE running[k]]
        /\ pendingTasks' = [k \in Groups |-> IF k = h /\ pendingTasks[k] # <<>>
                                             THEN Tail(pendingTasks[k]) ELSE pendingTasks[k]]
        /\ pendingMessages' = [k \in Groups |->
                                 pendingMessages[k] /\ (k = h => pendingTasks[k] # <<>>)]
    BY <1>5, <2>1, <2>2 DEF HandsOver, Serves
  <2>4. Contract!Turnover(g, {h})
    BY <1>1, <1>2, <1>5, <2>1, <2>2, <2>3
       DEF Contract!Turnover, Contract!Wanted, Contract!Running, HandsOver, HasWork, Active, QueuedRun
  <2> QED
    BY <2>1, <2>4
<1> QED
  BY <1>3, <1>4, <1>5, ReleaseCases

LEMMA StepRefines ==
  ASSUME QueueInv, [Next]_vars
  PROVE  [Contract!Next]_(Contract!vars)
<1>1. ASSUME NEW g \in Groups, MessageCheck(g) PROVE Contract!Next
  BY <1>1, CheckRefines DEF Contract!Next
<1>2. ASSUME NEW t \in Tasks, EnqueueTask(t) PROVE Contract!Next
  BY <1>2, TaskRefines DEF Contract!Next
<1>3. ASSUME NEW g \in Groups, Active(g), Release(g) PROVE Contract!Next
  BY <1>3, ReleaseRefines DEF Contract!Next
<1>4. CASE Shutdown
  BY <1>4 DEF Shutdown, Contract!Next, Contract!Close
<1>5. CASE UNCHANGED <<running, pendingMessages, pendingTasks, waitingGroups, activeCount,
                       shuttingDown, shutdownCall>>
  BY <1>5 DEF Contract!vars
<1> QED
  BY <1>1, <1>2, <1>3, <1>4, <1>5, NextCases

(* Every behaviour of the queue is one the contract allows: one run per    *)
(* group, Limit runs in all, requests kept until they are served, in       *)
(* order, tasks first, and silence after shutdown.                         *)
THEOREM QueueImplementsContract == Spec => ImplementsContract
<1>1. Init => Contract!Init
  BY DEF Init, Contract!Init
<1> QED
  BY <1>1, StepRefines, QueueInvariant, PTL DEF Spec, ImplementsContract, Contract!Spec
=============================================================================
