-------------------------- MODULE SchedulerProofs ---------------------------
(***************************************************************************)
(* Proofs about scheduled tasks, for every set of tasks, all intervals,    *)
(* any length of time and any number of restarts, with and without the     *)
(* command line beside the server.                                         *)
(*                                                                         *)
(* SchedInv relates the copies of a task's row that run ahead of the row   *)
(* (in the server's queue, in the command line's list) to the row itself:  *)
(* a copy is of a task that exists, it was due, it is on the grid of the   *)
(* task's times, and without the command line it is still what the row     *)
(* says.                                                                   *)
(***************************************************************************)
EXTENDS Scheduler, GroupQueueProofs, SequenceTheorems

Statuses == {"absent", "active", "paused", "completed", "deleted"}
Rows == [status : Statuses, next : Int]

(* The types of the table, the polling loop and the command line.          *)
SchedTypes ==
  /\ now \in 0 .. MaxNow
  /\ row \in [Tasks -> Rows]
  /\ orphans \subseteq Tasks /\ due \subseteq Tasks /\ cliDue \subseteq Tasks
  /\ cliRun \in Tasks \cup {None}
  /\ cliNow \in 0 .. MaxNow
  /\ snap \in [Tasks -> Int] /\ cliSnap \in [Tasks -> Int]
  /\ carriedOut \subseteq Tasks /\ worked \subseteq Tasks
  /\ restarts \in Nat

(* What group g runs and has queued; a group has its own tasks only.       *)
Held(g) == {running[g]} \cup Range(pendingTasks[g])
TasksAtHome == \A g \in Groups : \A t \in Held(g) \cap Tasks : Home[t] = g

(* A poll is not interrupted: what it has yet to look at is due.           *)
PollSound == \A t \in due : IsDue(t, now)

(* The copy of t's row in the queue.                                       *)
CopySound(t) ==
  Known(t) => /\ row[t].status # "absent"
              /\ snap[t] # Never /\ snap[t] <= now
              /\ ~Cli => row[t].next = snap[t]

(* What the command line has in hand.                                      *)
CliHolds(t) == t \in cliDue \/ t = cliRun
CliSound(t) == CliHolds(t) => row[t].status # "absent" /\ Cli

(* A once task that was carried out is about to have its row written, or   *)
(* is out of the queue and never due again.                                *)
Over(t) ==
  /\ ~Known(t)
  /\ row[t].status = "deleted" \/ (row[t].status # "absent" /\ row[t].next = Never)
OnceSound(t) == ~Cli /\ Kind[t] = "once" /\ t \in carriedOut => t \in worked \/ Over(t)

(* Two times of task t are on one grid.                                    *)
SameGrid(t, a, b) == \E k \in Int : a = b + Every[t] * k
GridSound(t) ==
  Kind[t] = "interval" =>
    /\ Known(t) => SameGrid(t, snap[t], row[t].next)
    /\ CliHolds(t) => SameGrid(t, cliSnap[t], row[t].next)

TaskInv(t) == CopySound(t) /\ CliSound(t) /\ OnceSound(t) /\ GridSound(t)

SchedInv ==
  /\ SchedTypes
  /\ TasksAtHome
  /\ PollSound
  /\ \A t \in Tasks : TaskInv(t)

-----------------------------------------------------------------------------
(* Arithmetic of the grid.                                                 *)

LEMMA MaxOfTwo ==
  ASSUME NEW n \in Int
  PROVE  Max({1, n}) \in Int /\ Max({1, n}) >= 1 /\ Max({1, n}) >= n
<1> DEFINE S == {1, n}
<1>1. \E x \in S : \A y \in S : x >= y
  <2>1. CASE n >= 1
    BY <2>1
  <2>2. CASE ~(n >= 1)
    BY <2>2
  <2> QED
    BY <2>1, <2>2
<1>2. Max(S) \in S /\ \A y \in S : Max(S) >= y
  <2> HIDE DEF S
  <2> QED
    BY <1>1 DEF Max
<1> QED
  BY <1>2

LEMMA Products ==
  ASSUME NEW e \in Nat \ {0}, NEW a \in Int, NEW b \in Int
  PROVE  /\ e * a \in Int
         /\ e * a + e * b = e * (a + b)
         /\ a <= b => e * a <= e * b
         /\ 1 <= a => e <= e * a
         /\ a * e = e * a
OBVIOUS

(* The next multiple of e after x.                                         *)
LEMMA NextMultiple ==
  ASSUME NEW e \in Nat \ {0}, NEW x \in Int
  PROVE  x \div e \in Int /\ e * (x \div e + 1) > x
OBVIOUS

LEMMA MultipleMod ==
  ASSUME NEW e \in Nat \ {0}, NEW k \in Int
  PROVE  (e * k) % e = 0
OBVIOUS

(* computeNextRun: nothing for a once task, for the others a time in the   *)
(* future, for an interval task on the grid of its last time.              *)
LEMMA NextRunFacts ==
  ASSUME NEW t \in Tasks, NEW last \in Int, NEW time \in Nat
  PROVE  /\ NextRun(t, last, time) \in Int
         /\ Kind[t] = "once" => NextRun(t, last, time) = Never
         /\ Kind[t] # "once" => NextRun(t, last, time) > time /\ NextRun(t, last, time) # Never
         /\ Kind[t] = "interval" => SameGrid(t, NextRun(t, last, time), last)
<1> DEFINE e == Every[t]
<1>1. e \in Nat \ {0} /\ Kind[t] \in {"once", "interval", "cron"}
  BY SchedulerAssumption
<1>2. CASE Kind[t] = "once"
  BY <1>2 DEF NextRun, Never
<1>3. CASE Kind[t] = "cron"
  <2>1. NextRun(t, last, time) = (time \div e + 1) * e
    BY <1>3 DEF NextRun
  <2>2. time \div e \in Int /\ e * (time \div e + 1) > time
    BY <1>1, NextMultiple
  <2>3. (time \div e + 1) * e = e * (time \div e + 1) /\ e * (time \div e + 1) \in Int
    BY <1>1, <2>2, Products
  <2> HIDE DEF e
  <2> QED
    BY <1>3, <2>1, <2>2, <2>3 DEF Never
<1>4. CASE Kind[t] = "interval"
  <2> DEFINE q == (time - last) \div e
             k == Max({1, q + 1})
  <2>1. NextRun(t, last, time) = last + e * k
    BY <1>4 DEF NextRun
  <2>2. q \in Int /\ e * (q + 1) > time - last
    BY <1>1, NextMultiple
  <2>3. k \in Int /\ k >= q + 1
    BY <2>2, MaxOfTwo
  <2>4. e * k \in Int /\ e * (q + 1) \in Int /\ e * (q + 1) <= e * k
    BY <1>1, <2>2, <2>3, Products
  <2>5. SameGrid(t, NextRun(t, last, time), last)
    BY <2>1, <2>3 DEF SameGrid
  <2> HIDE DEF e, q, k
  <2> QED
    BY <1>4, <2>1, <2>2, <2>4, <2>5 DEF Never
<1> QED
  BY <1>1, <1>2, <1>3, <1>4

LEMMA GridReflexive ==
  ASSUME NEW t \in Tasks, NEW a \in Int
  PROVE  SameGrid(t, a, a)
<1>1. a = a + Every[t] * 0
  BY SchedulerAssumption
<1> QED
  BY <1>1 DEF SameGrid

LEMMA GridTransitive ==
  ASSUME NEW t \in Tasks, NEW a \in Int, NEW b \in Int, NEW c \in Int,
         SameGrid(t, a, b), SameGrid(t, b, c)
  PROVE  SameGrid(t, a, c)
<1>1. PICK k \in Int : a = b + Every[t] * k
  BY DEF SameGrid
<1>2. PICK l \in Int : b = c + Every[t] * l
  BY DEF SameGrid
<1>3. /\ Every[t] * k \in Int /\ Every[t] * l \in Int
      /\ Every[t] * l + Every[t] * k = Every[t] * (l + k)
  BY Products, SchedulerAssumption
<1>4. a = c + Every[t] * (l + k) /\ l + k \in Int
  BY <1>1, <1>2, <1>3
<1> QED
  BY <1>4 DEF SameGrid

LEMMA GridSymmetric ==
  ASSUME NEW t \in Tasks, NEW a \in Int, NEW b \in Int, SameGrid(t, a, b)
  PROVE  SameGrid(t, b, a)
<1>1. PICK k \in Int : a = b + Every[t] * k
  BY DEF SameGrid
<1>2. Every[t] * k + Every[t] * (-k) = Every[t] * (k + (-k)) /\ Every[t] * (-k) \in Int
  BY Products, SchedulerAssumption
<1>3. Every[t] * (k + (-k)) = 0
  BY SchedulerAssumption
<1>4. b = a + Every[t] * (-k) /\ -k \in Int
  BY <1>1, <1>2, <1>3, SchedulerAssumption
<1> QED
  BY <1>4 DEF SameGrid

-----------------------------------------------------------------------------
(* The queue under the scheduler.                                          *)

LEMMA SchedStepOfQueue ==
  ASSUME [SchedNext]_allVars
  PROVE  [Next]_vars \/ Restart
<1>1. ASSUME NEW t \in Tasks,
             \/ Create(t) \/ PauseTask(t) \/ ResumeTask(t) \/ CancelTask(t)
             \/ CliBegin(t) \/ AgentDone(t)
      PROVE  UNCHANGED vars
  BY <1>1 DEF Create, PauseTask, ResumeTask, CancelTask, SetStatus, CliBegin, AgentDone
<1>2. ASSUME NEW t \in Tasks, PollTask(t)
      PROVE  [Next]_vars
  BY <1>2 DEF PollTask, Next, Request
<1>3. ASSUME NEW g \in Groups, MoveGroup(g)
      PROVE  UNCHANGED vars
  BY <1>3 DEF MoveGroup
<1>4. ASSUME NEW g \in Groups, TaskReturns(g) \/ Messages(g)
      PROVE  Next
  BY <1>4 DEF TaskReturns, Messages, Next, Request
<1>5. CASE Poll \/ CliTick \/ CliReturns \/ Advance \/ UNCHANGED allVars
  BY <1>5 DEF Poll, CliTick, CliReturns, Advance, allVars
<1>6. CASE Stop
  BY <1>6 DEF Stop, Next
<1> QED
  BY <1>1, <1>2, <1>3, <1>4, <1>5, <1>6 DEF SchedNext

LEMMA RestartResetsQueue ==
  ASSUME Restart
  PROVE  QueueInv'
<1>1. Init'
  BY DEF Restart, Init
<1>2. (Init => QueueInv)'
  BY QueueInvInit, PTL
<1> QED
  BY <1>1, <1>2

(* The queue's invariant holds under the scheduler, through its restarts.  *)
THEOREM QueueInvariantInScheduler == SchedSpec => []QueueInv
<1>1. SchedInit => QueueInv
  BY QueueInvInit DEF SchedInit
<1>2. QueueInv /\ [SchedNext]_allVars => QueueInv'
  BY SchedStepOfQueue, QueueInvStep, RestartResetsQueue
<1> QED
  BY <1>1, <1>2, PTL DEF SchedSpec

(* A slot taken by h runs something h held; what it leaves queued it held. *)
LEMMA ServesHeld ==
  ASSUME QueueInv, NEW h \in Groups, HasWork(h), Serves(h), running'[h] = QueuedRun(h)
  PROVE  (Held(h) \cap Tasks)' \subseteq Range(pendingTasks[h])
<1> USE DEF QueueInv, QueueTypes
<1>1. CASE pendingTasks[h] = <<>>
  <2>1. pendingTasks'[h] = <<>> /\ running'[h] = MessageRun
    BY <1>1 DEF Serves, QueuedRun
  <2> QED
    BY <2>1, TasksAssumption DEF Held, Range
<1>2. CASE pendingTasks[h] # <<>>
  <2> DEFINE q == pendingTasks[h]
  <2>1. q \in Seq(Tasks) /\ pendingTasks'[h] = Tail(q) /\ running'[h] = Head(q)
    BY <1>2 DEF Serves, QueuedRun
  <2>2. /\ 1 \in DOMAIN q /\ Head(q) = q[1]
        /\ \A i \in DOMAIN Tail(q) : i + 1 \in DOMAIN q /\ Tail(q)[i] = q[i + 1]
    BY <1>2, <2>1
  <2> QED
    BY <2>1, <2>2 DEF Held, Range
<1> QED
  BY <1>1, <1>2

(* When a run ends, no group holds a task it did not hold before, and the  *)
(* task that ran is held no more.                                          *)
LEMMA ReleaseHeld ==
  ASSUME QueueInv, NEW g \in Groups, Active(g), Release(g), NEW h \in Groups
  PROVE  /\ (Held(h) \cap Tasks)' \subseteq Held(h)
         /\ h = g => running[g] \notin (Held(g) \cap Tasks)'
<1> USE DEF QueueInv, QueueTypes
<1>0. running[g] \notin Range(pendingTasks[g]) /\ None \notin Tasks
  BY TasksAssumption DEF NoDuplicateTask
<1>1. CASE Frees(g)
  <2>1. pendingTasks' = pendingTasks /\ running' = [running EXCEPT ![g] = None]
    BY <1>1 DEF Frees
  <2> QED
    BY <1>0, <2>1 DEF Held
<1>2. CASE Keeps(g)
  <2>1. /\ HasWork(g) /\ Serves(g) /\ running'[g] = QueuedRun(g)
        /\ h # g => running'[h] = running[h]
    BY <1>2 DEF Keeps
  <2>2. (Held(g) \cap Tasks)' \subseteq Range(pendingTasks[g])
    BY <2>1, ServesHeld
  <2>3. h # g => pendingTasks'[h] = pendingTasks[h]
    BY <2>1 DEF Serves
  <2>4. CASE h = g
    BY <1>0, <2>2, <2>4 DEF Held
  <2>5. CASE h # g
    BY <2>1, <2>3, <2>5 DEF Held
  <2> QED
    BY <2>4, <2>5
<1>3. CASE HandsOver(g)
  <2>0. Head(waitingGroups) \in Groups
    BY <1>3 DEF HandsOver
  <2>1. PICK n \in Groups : n = Head(waitingGroups)
    BY <2>0
  <2>2. ~Active(n) /\ HasWork(n)
    <3>1. n = waitingGroups[1] /\ 1 \in DOMAIN waitingGroups
      BY <1>3, <2>1 DEF HandsOver
    <3> QED
      BY <3>1 DEF WaitingSound
  <2>3. n # g /\ Serves(n) /\ running' = [running EXCEPT ![g] = None, ![n] = QueuedRun(n)]
    BY <1>3, <2>1, <2>2 DEF HandsOver
  <2>4. running'[n] = QueuedRun(n) /\ running'[g] = None
        /\ \A k \in Groups \ {g, n} : running'[k] = running[k]
    BY <2>1, <2>3
  <2>5. (Held(n) \cap Tasks)' \subseteq Range(pendingTasks[n])
    BY <2>1, <2>2, <2>3, <2>4, ServesHeld
  <2>6. \A k \in Groups \ {n} : pendingTasks'[k] = pendingTasks[k]
    BY <2>1, <2>3 DEF Serves
  <2>7. CASE h = n
    BY <2>3, <2>5, <2>7 DEF Held
  <2>8. CASE h = g
    BY <1>0, <2>3, <2>4, <2>6, <2>8 DEF Held
  <2>9. CASE h # n /\ h # g
    BY <2>4, <2>6, <2>9 DEF Held
  <2> QED
    BY <2>7, <2>8, <2>9
<1> QED
  BY <1>1, <1>2, <1>3, ReleaseCases

-----------------------------------------------------------------------------
(* What the steps of the queue do to the tasks it holds.                   *)

(* No group holds a task it did not hold before, but for those of T.       *)
HoldsNoNew(T) ==
  \A h \in Groups : \A t \in (Held(h) \cap Tasks)' : t \in Held(h) \/ (t \in T /\ h = Home[t])

LEMMA HeldIsKnown ==
  ASSUME TasksAtHome, NEW T, HoldsNoNew(T)
  PROVE  TasksAtHome' /\ \A t \in Tasks : Known(t)' => Known(t) \/ t \in T
<1>1. TasksAtHome'
  BY DEF TasksAtHome, HoldsNoNew
<1>2. ASSUME NEW t \in Tasks, Known(t)'
      PROVE  Known(t) \/ t \in T
  <2>1. Home[t] \in Groups /\ t \in (Held(Home[t]) \cap Tasks)'
    BY <1>2, TasksAssumption DEF Known, Held
  <2> QED
    BY <2>1 DEF HoldsNoNew, Known, Held
<1> QED
  BY <1>1, <1>2

LEMMA NothingNew ==
  ASSUME running' = running, pendingTasks' = pendingTasks
  PROVE  HoldsNoNew({})
BY DEF HoldsNoNew, Held

LEMMA MessagesHeld ==
  ASSUME QueueInv, NEW g \in Groups, EnqueueMessageCheck(g) \/ MessagesDone(g)
  PROVE  HoldsNoNew({})
<1>1. CASE EnqueueMessageCheck(g)
  <2>1. pendingTasks' = pendingTasks
    BY <1>1 DEF EnqueueMessageCheck, MessageCheck
  <2>2. \A h \in Groups : running'[h] = running[h] \/ running'[h] = MessageRun
    BY <1>1 DEF EnqueueMessageCheck, MessageCheck, StartNow, QueueInv, QueueTypes
  <2> QED
    BY <2>1, <2>2, TasksAssumption DEF HoldsNoNew, Held
<1>2. CASE MessagesDone(g)
  <2>1. Active(g) /\ Release(g)
    BY <1>2 DEF MessagesDone, Active, MessageRun, None
  <2> QED
    BY <2>1, ReleaseHeld DEF HoldsNoNew
<1> QED
  BY <1>1, <1>2

LEMMA EnqueueHeld ==
  ASSUME QueueInv, NEW t \in Tasks, EnqueueTask(t)
  PROVE  HoldsNoNew({t})
<1> USE DEF QueueInv, QueueTypes
<1> DEFINE g == Home[t]
<1>0. g \in Groups
  BY TasksAssumption
<1>1. \A h \in Groups \ {g} : running'[h] = running[h] /\ pendingTasks'[h] = pendingTasks[h]
  BY <1>0 DEF EnqueueTask, StartNow
<1>2. running'[g] = running[g] \/ running'[g] = t
  BY <1>0 DEF EnqueueTask, StartNow
<1>3. Range(pendingTasks'[g]) \subseteq Range(pendingTasks[g]) \cup {t}
  <2>1. pendingTasks'[g] = pendingTasks[g] \/ pendingTasks'[g] = Append(pendingTasks[g], t)
    BY <1>0 DEF EnqueueTask
  <2>2. Range(Append(pendingTasks[g], t)) = Range(pendingTasks[g]) \cup {t}
    BY <1>0, RangeOfAppend
  <2> QED
    BY <2>1, <2>2
<1>4. Held(g)' \subseteq Held(g) \cup {t}
  <2>1. Held(g)' = {running'[g]} \cup Range(pendingTasks'[g])
    BY DEF Held
  <2> QED
    BY <1>2, <1>3, <2>1 DEF Held
<1> QED
  BY <1>1, <1>4 DEF HoldsNoNew, Held

-----------------------------------------------------------------------------
(* The steps.                                                              *)

(* A step that leaves the row of t and its copies alone, and gives t to    *)
(* nobody, keeps what the invariant says of t.                             *)
LEMMA TaskStays ==
  ASSUME NEW t \in Tasks, TaskInv(t), SchedTypes, now' \in Int, now <= now',
         Known(t)' => Known(t), CliHolds(t)' => CliHolds(t),
         row'[t] = row[t], snap'[t] = snap[t], cliSnap'[t] = cliSnap[t],
         t \in carriedOut' <=> t \in carriedOut, t \in worked' <=> t \in worked
  PROVE  TaskInv(t)'
<1>1. CopySound(t)'
  <2>1. now \in Int /\ snap[t] \in Int
    BY DEF SchedTypes
  <2> QED
    BY <2>1 DEF TaskInv, CopySound
<1>2. CliSound(t)' /\ OnceSound(t)'
  BY DEF TaskInv, CliSound, OnceSound, Over
<1>3. GridSound(t)'
  BY DEF TaskInv, GridSound, SameGrid
<1> QED
  BY <1>1, <1>2, <1>3 DEF TaskInv

(* Steps that change neither rows nor copies of rows.                      *)
LEMMA QuietStep ==
  ASSUME SchedInv, HoldsNoNew({}),
         UNCHANGED <<row, carriedOut, worked, cliRun, cliNow, cliSnap>>, cliDue' \subseteq cliDue,
         snap' = snap, orphans' \subseteq Tasks, due' \subseteq Tasks,
         now' \in now .. MaxNow, restarts' \in Nat, PollSound'
  PROVE  SchedInv'
<1>1. SchedTypes'
  BY SchedulerAssumption DEF SchedInv, SchedTypes
<1>2. TasksAtHome' /\ \A t \in Tasks : Known(t)' => Known(t)
  BY HeldIsKnown DEF SchedInv
<1>3. ASSUME NEW t \in Tasks
      PROVE  TaskInv(t)'
  <2>1. TaskInv(t) /\ SchedTypes /\ now' \in Int /\ now <= now'
    BY DEF SchedInv, SchedTypes
  <2>2. CliHolds(t)' => CliHolds(t)
    BY DEF CliHolds
  <2> QED
    BY <1>2, <2>1, <2>2, TaskStays
<1> QED
  BY <1>1, <1>2, <1>3 DEF SchedInv

LEMMA QuietStepsKeepInv ==
  ASSUME SchedInv, QueueInv,
         \/ Poll \/ Advance \/ Stop \/ UNCHANGED allVars
         \/ \E g \in Groups : MoveGroup(g) \/ Messages(g)
  PROVE  SchedInv'
<1>1. now \in 0 .. MaxNow /\ MaxNow \in Nat /\ due \subseteq Tasks /\ restarts \in Nat
      /\ orphans \subseteq Tasks
  BY SchedulerAssumption DEF SchedInv, SchedTypes
<1>2. now \in now .. MaxNow
  BY <1>1
<1>3. due = {} => (due' = due => PollSound')
  BY DEF PollSound
<1>4. CASE Poll
  <2>1. HoldsNoNew({})
    BY <1>4, NothingNew DEF Poll, vars
  <2>2. PollSound' /\ due' \subseteq Tasks
    BY <1>4 DEF Poll, PollSound, DueAt, IsDue, rowVars, lifeVars
  <2> QED
    BY <1>1, <1>2, <1>4, <2>1, <2>2, QuietStep DEF Poll, rowVars, lifeVars, cliVars
<1>5. CASE Advance
  <2>1. HoldsNoNew({})
    BY <1>5, NothingNew DEF Advance, vars
  <2>2. now' \in now .. MaxNow
    BY <1>1, <1>5 DEF Advance
  <2> QED
    BY <1>1, <1>3, <1>5, <2>1, <2>2, QuietStep DEF Advance, Steady, rowVars, lifeVars, cliVars
<1>6. CASE Stop
  <2>1. HoldsNoNew({})
    BY <1>6, NothingNew DEF Stop, Shutdown
  <2> QED
    BY <1>1, <1>2, <1>3, <1>6, <2>1, QuietStep DEF Stop, Steady, schedVars, rowVars, lifeVars, cliVars
<1>7. CASE UNCHANGED allVars
  <2>1. HoldsNoNew({})
    BY <1>7, NothingNew DEF allVars, vars
  <2>2. PollSound'
    BY <1>7 DEF SchedInv, PollSound, IsDue, allVars, schedVars, rowVars, lifeVars
  <2> QED
    BY <1>1, <1>2, <1>7, <2>1, <2>2, QuietStep DEF allVars, schedVars, rowVars, lifeVars, cliVars
<1>8. ASSUME NEW g \in Groups, MoveGroup(g)
      PROVE  SchedInv'
  <2>1. HoldsNoNew({})
    BY <1>8, NothingNew DEF MoveGroup, vars
  <2>2. orphans' \subseteq Tasks
    BY <1>1, <1>8 DEF MoveGroup
  <2> QED
    BY <1>1, <1>2, <1>3, <1>8, <2>1, <2>2, QuietStep DEF MoveGroup, Steady, rowVars, lifeVars, cliVars
<1>9. ASSUME NEW g \in Groups, Messages(g)
      PROVE  SchedInv'
  <2>1. HoldsNoNew({})
    BY <1>9, MessagesHeld DEF Messages
  <2> QED
    BY <1>1, <1>2, <1>3, <1>9, <2>1, QuietStep DEF Messages, Steady, schedVars, rowVars, lifeVars, cliVars
<1> QED
  BY <1>4, <1>5, <1>6, <1>7, <1>8, <1>9

LEMMA RestartKeepsInv ==
  ASSUME SchedInv, Restart
  PROVE  SchedInv'
<1>1. /\ due' = {} /\ snap' = [t \in Tasks |-> Never] /\ restarts' = restarts + 1
      /\ worked' = {} /\ carriedOut' = carriedOut \ worked
      /\ UNCHANGED <<now, row, orphans, cliDue, cliRun, cliNow, cliSnap>>
  BY DEF Restart, cliVars
<1>2. SchedTypes'
  <2>1. snap' \in [Tasks -> Int]
    BY <1>1 DEF Never
  <2> QED
    BY <1>1, <2>1 DEF SchedInv, SchedTypes
<1>3. \A h \in Groups : (Held(h) \cap Tasks)' = {}
  BY TasksAssumption DEF Restart, Held, Range
<1>4. \A t \in Tasks : ~Known(t)'
  BY <1>3, TasksAssumption DEF Known, Held
<1>5. TasksAtHome' /\ PollSound'
  BY <1>1, <1>3 DEF TasksAtHome, PollSound
<1>6. ASSUME NEW t \in Tasks
      PROVE  TaskInv(t)'
  <2>1. CopySound(t)' /\ OnceSound(t)' /\ CliSound(t)'
    BY <1>1, <1>4 DEF SchedInv, TaskInv, CopySound, OnceSound, Over, CliSound, CliHolds
  <2>2. GridSound(t)'
    BY <1>1, <1>4 DEF SchedInv, TaskInv, GridSound, CliHolds, SameGrid
  <2> QED
    BY <2>1, <2>2 DEF TaskInv
<1> QED
  BY <1>2, <1>5, <1>6 DEF SchedInv

(* The poll hands a due task to the queue with a copy of its row.          *)
LEMMA PollTaskKeepsInv ==
  ASSUME SchedInv, QueueInv, NEW t \in Tasks, PollTask(t)
  PROVE  SchedInv'
<1>1. /\ t \in due /\ due' = due \ {t} /\ due \subseteq Tasks
      /\ UNCHANGED <<now, row, orphans, carriedOut, worked, cliDue, cliRun, cliNow, cliSnap, restarts>>
  BY DEF PollTask, rowVars, lifeVars, cliVars, SchedInv, SchedTypes
<1>2. now \in now .. MaxNow /\ now \in Int
  BY SchedulerAssumption DEF SchedInv, SchedTypes
<1>3. PollSound'
  BY <1>1 DEF SchedInv, PollSound, IsDue
<1>4. CASE UNCHANGED <<vars, snap>>
  <2>1. HoldsNoNew({})
    BY <1>4, NothingNew DEF vars
  <2> QED
    BY <1>1, <1>2, <1>3, <1>4, <2>1, QuietStep DEF SchedInv, SchedTypes
<1>5. CASE EnqueueTask(t) /\ snap' = [snap EXCEPT ![t] = row[t].next]
  <2>1. row[t].status = "active" /\ row[t].next # Never /\ row[t].next <= now
    BY <1>1 DEF SchedInv, PollSound, IsDue
  <2>2. /\ row[t].next \in Int /\ snap \in [Tasks -> Int]
        /\ snap'[t] = row[t].next /\ \A u \in Tasks \ {t} : snap'[u] = snap[u]
        /\ snap' \in [Tasks -> Int]
    <3>1. row[t] \in Rows /\ snap \in [Tasks -> Int]
      BY DEF SchedInv, SchedTypes
    <3>2. row[t].next \in Int
      BY <3>1 DEF Rows
    <3> QED
      BY <1>5, <3>1, <3>2
  <2>3. TasksAtHome' /\ \A u \in Tasks : Known(u)' => Known(u) \/ u = t
    <3>1. HoldsNoNew({t}) /\ TasksAtHome
      BY <1>5, EnqueueHeld DEF SchedInv
    <3> QED
      BY <3>1, HeldIsKnown
  <2>4. SchedTypes'
    BY <1>1, <2>2 DEF SchedInv, SchedTypes
  <2>5. TaskInv(t)'
    <3>1. CopySound(t)' /\ CliSound(t)'
      BY <1>1, <2>1, <2>2 DEF SchedInv, TaskInv, CopySound, CliSound, CliHolds
    <3>2. OnceSound(t)'
      BY <1>1, <2>1 DEF SchedInv, TaskInv, OnceSound, Over
    <3>3. SameGrid(t, row[t].next, row[t].next)
      BY <2>2, GridReflexive
    <3>4. GridSound(t)'
      BY <1>1, <2>2, <3>3 DEF SchedInv, TaskInv, GridSound, CliHolds, SameGrid
    <3> QED
      BY <3>1, <3>2, <3>4 DEF TaskInv
  <2>6. ASSUME NEW u \in Tasks \ {t}
        PROVE  TaskInv(u)'
    <3>1. TaskInv(u) /\ SchedTypes /\ now' \in Int /\ now <= now'
      BY <1>1, <1>2 DEF SchedInv
    <3>2. CliHolds(u)' => CliHolds(u)
      BY <1>1 DEF CliHolds
    <3> QED
      BY <1>1, <2>2, <2>3, <3>1, <3>2, TaskStays
  <2> QED
    BY <1>3, <2>3, <2>4, <2>5, <2>6 DEF SchedInv
<1> QED
  BY <1>4, <1>5 DEF PollTask

(* The command line reads the rows, and begins with one of its tasks.      *)
LEMMA CliTickKeepsInv ==
  ASSUME SchedInv, CliTick
  PROVE  SchedInv'
<1>1. /\ cliRun = None /\ Cli /\ due = {}
      /\ cliNow' \in now .. MaxNow
      /\ cliDue' = DueAt(cliNow')
      /\ cliSnap' = [t \in Tasks |-> row[t].next]
      /\ UNCHANGED <<vars, now, row, orphans, carriedOut, worked, cliRun, due, snap, restarts>>
  BY DEF CliTick, Steady, rowVars, lifeVars
<1>2. \A t \in Tasks : row[t] \in Rows /\ row[t].next \in Int
  BY DEF SchedInv, SchedTypes, Rows
<1>3. SchedTypes'
  <2>1. cliDue' \subseteq Tasks /\ cliSnap' \in [Tasks -> Int]
    BY <1>1, <1>2 DEF DueAt
  <2>2. cliNow' \in 0 .. MaxNow
    BY <1>1, SchedulerAssumption DEF SchedInv, SchedTypes
  <2> QED
    BY <1>1, <2>1, <2>2 DEF SchedInv, SchedTypes
<1>4. TasksAtHome' /\ \A t \in Tasks : Known(t)' => Known(t)
  <2>1. HoldsNoNew({}) /\ TasksAtHome
    BY <1>1, NothingNew DEF vars, SchedInv
  <2> QED
    BY <2>1, HeldIsKnown
<1>5. PollSound'
  BY <1>1 DEF PollSound
<1>6. ASSUME NEW t \in Tasks
      PROVE  TaskInv(t)'
  <2>1. CliHolds(t)' => row[t].status = "active"
    BY <1>1, TasksAssumption DEF CliHolds, DueAt, IsDue
  <2>2. CopySound(t)' /\ OnceSound(t)' /\ CliSound(t)'
    BY <1>1, <1>4, <2>1 DEF SchedInv, TaskInv, CopySound, OnceSound, Over, CliSound
  <2>3. GridSound(t)'
    <3>1. SameGrid(t, row[t].next, row[t].next) /\ cliSnap'[t] = row[t].next
      BY <1>1, <1>2, GridReflexive
    <3> QED
      BY <1>1, <1>4, <3>1 DEF SchedInv, TaskInv, GridSound, SameGrid
  <2> QED
    BY <2>2, <2>3 DEF TaskInv
<1> QED
  BY <1>3, <1>4, <1>5, <1>6 DEF SchedInv

LEMMA CliBeginKeepsInv ==
  ASSUME SchedInv, NEW t \in Tasks, CliBegin(t)
  PROVE  SchedInv'
<1>1. /\ t \in cliDue /\ cliRun' = t /\ cliDue' = cliDue \ {t}
      /\ UNCHANGED <<vars, now, row, orphans, carriedOut, worked, cliNow, cliSnap, due, snap, restarts>>
  BY DEF CliBegin, rowVars, lifeVars
<1>2. SchedTypes' /\ PollSound'
  BY <1>1 DEF SchedInv, SchedTypes, PollSound, IsDue
<1>3. TasksAtHome' /\ \A u \in Tasks : Known(u)' => Known(u)
  <2>1. HoldsNoNew({}) /\ TasksAtHome
    BY <1>1, NothingNew DEF vars, SchedInv
  <2> QED
    BY <2>1, HeldIsKnown
<1>4. ASSUME NEW u \in Tasks
      PROVE  TaskInv(u)'
  <2>1. TaskInv(u) /\ SchedTypes /\ now' \in Int /\ now <= now'
    BY <1>1 DEF SchedInv, SchedTypes
  <2>2. CliHolds(u)' => CliHolds(u)
    BY <1>1 DEF CliHolds
  <2> QED
    BY <1>1, <1>3, <2>1, <2>2, TaskStays
<1> QED
  BY <1>2, <1>3, <1>4 DEF SchedInv

-----------------------------------------------------------------------------
(* The steps that write a row.                                             *)

(* One row is written while nothing else changes.                          *)
LEMMA RowWritten ==
  ASSUME SchedInv, NEW t \in Tasks, due = {},
         UNCHANGED <<vars, now, orphans, carriedOut, worked, cliVars, due, snap, restarts>>,
         row' \in [Tasks -> Rows], \A u \in Tasks \ {t} : row'[u] = row[u],
         TaskInv(t)'
  PROVE  SchedInv'
<1>1. SchedTypes' /\ PollSound'
  BY DEF SchedInv, SchedTypes, PollSound, cliVars
<1>2. TasksAtHome' /\ \A u \in Tasks : Known(u)' => Known(u)
  <2>1. HoldsNoNew({}) /\ TasksAtHome
    BY NothingNew DEF vars, SchedInv
  <2> QED
    BY <2>1, HeldIsKnown
<1>3. ASSUME NEW u \in Tasks \ {t}
      PROVE  TaskInv(u)'
  <2>1. TaskInv(u) /\ SchedTypes /\ now' \in Int /\ now <= now'
    BY DEF SchedInv, SchedTypes
  <2>2. CliHolds(u)' => CliHolds(u)
    BY DEF CliHolds, cliVars
  <2> QED
    BY <1>2, <2>1, <2>2, TaskStays DEF cliVars
<1> QED
  BY <1>1, <1>2, <1>3 DEF SchedInv

LEMMA CreateKeepsInv ==
  ASSUME SchedInv, NEW t \in Tasks, Create(t)
  PROVE  SchedInv'
<1>1. PICK next \in 0 .. MaxNow :
        row' = [row EXCEPT ![t] = [status |-> "active", next |-> next]]
  BY DEF Create
<1>2. /\ due = {} /\ row[t].status = "absent"
      /\ UNCHANGED <<vars, now, orphans, carriedOut, worked, cliVars, due, snap, restarts>>
  BY DEF Create, Steady, lifeVars
<1>3. row \in [Tasks -> Rows]
  BY DEF SchedInv, SchedTypes
<1>4. row' \in [Tasks -> Rows] /\ \A u \in Tasks \ {t} : row'[u] = row[u]
  BY <1>1, <1>3 DEF Rows, Statuses
<1>5. TaskInv(t)'
  <2>1. ~Known(t) /\ ~CliHolds(t)
    BY <1>2 DEF SchedInv, TaskInv, CopySound, CliSound
  <2>2. ~Known(t)' /\ ~CliHolds(t)'
    BY <1>2, <2>1 DEF Known, CliHolds, vars, cliVars
  <2>3. OnceSound(t)'
    BY <1>2 DEF SchedInv, TaskInv, OnceSound, Over
  <2> QED
    BY <2>2, <2>3 DEF TaskInv, CopySound, CliSound, GridSound
<1> QED
  BY <1>2, <1>4, <1>5, RowWritten

LEMMA SetStatusKeepsInv ==
  ASSUME SchedInv, NEW t \in Tasks, NEW s \in {"paused", "active", "deleted"}, SetStatus(t, s)
  PROVE  SchedInv'
<1>1. /\ due = {} /\ Exists(t)
      /\ row' = [row EXCEPT ![t].status = s]
      /\ UNCHANGED <<vars, now, orphans, carriedOut, worked, cliVars, due, snap, restarts>>
  BY DEF SetStatus, Steady, lifeVars
<1>2. row \in [Tasks -> Rows] /\ row[t] \in Rows
  BY DEF SchedInv, SchedTypes
<1>3. /\ row'[t].status = s /\ row'[t].next = row[t].next
      /\ \A u \in Tasks \ {t} : row'[u] = row[u]
      /\ row' \in [Tasks -> Rows]
  <2>1. row'[t] = [row[t] EXCEPT !.status = s] /\ row'[t] \in Rows
    BY <1>1, <1>2 DEF Rows, Statuses
  <2>2. row'[t].status = s /\ row'[t].next = row[t].next
    BY <1>2, <2>1 DEF Rows
  <2>3. row' = [row EXCEPT ![t] = row'[t]]
    BY <1>1, <1>2
  <2>4. row' \in [Tasks -> Rows]
    BY <1>2, <2>1, <2>3
  <2> QED
    BY <1>2, <2>2, <2>3, <2>4
<1>4. (Known(t)' <=> Known(t)) /\ (CliHolds(t)' <=> CliHolds(t))
  BY <1>1 DEF Known, CliHolds, vars, cliVars
<1>5. row[t].status # "deleted" /\ row[t].status # "absent"
  BY <1>1 DEF Exists
<1>6. TaskInv(t)'
  <2>1. CopySound(t)' /\ CliSound(t)' /\ OnceSound(t)'
    BY <1>1, <1>3, <1>4, <1>5 DEF SchedInv, TaskInv, CopySound, CliSound, OnceSound, Over
  <2>2. GridSound(t)'
    BY <1>1, <1>3, <1>4 DEF SchedInv, TaskInv, GridSound, SameGrid, cliVars
  <2> QED
    BY <2>1, <2>2 DEF TaskInv
<1> QED
  BY <1>1, <1>3, <1>6, RowWritten

(* updateTaskAfterRun.                                                     *)
LEMMA AfterRunFacts ==
  ASSUME row \in [Tasks -> Rows], NEW t \in Tasks, NEW n \in Int, AfterRun(t, n)
  PROVE  /\ row' \in [Tasks -> Rows]
         /\ \A u \in Tasks \ {t} : row'[u] = row[u]
         /\ row'[t].status = "absent" <=> row[t].status = "absent"
         /\ row'[t].next = IF Exists(t) THEN n ELSE row[t].next
         /\ row'[t].status = IF Exists(t) /\ n = Never THEN "completed" ELSE row[t].status
<1>1. CASE Exists(t)
  <2> DEFINE r == [status |-> IF n = Never THEN "completed" ELSE row[t].status, next |-> n]
  <2>1. row' = [row EXCEPT ![t] = r]
    BY <1>1 DEF AfterRun
  <2>2. r \in Rows /\ row[t].status # "absent"
    BY <1>1 DEF Rows, Statuses, Exists
  <2> QED
    BY <1>1, <2>1, <2>2
<1>2. CASE ~Exists(t)
  BY <1>2 DEF AfterRun
<1> QED
  BY <1>1, <1>2

(* A task settles in the server.                                           *)
LEMMA TaskReturnsKeepsInv ==
  ASSUME SchedInv, QueueInv, NEW g \in Groups, TaskReturns(g)
  PROVE  SchedInv'
<1>0. running[g] \in Tasks
  BY DEF TaskReturns, TaskSettled
<1>1. PICK t \in Tasks : t = running[g]
  BY <1>0
<1> DEFINE n == NextRun(t, snap[t], now)
<1>2. /\ due = {} /\ TaskSettled(g)
      /\ \/ t \in worked /\ AfterRun(t, n)
         \/ t \notin worked /\ UNCHANGED row
      /\ worked' = worked \ {t}
      /\ UNCHANGED <<now, orphans, carriedOut, cliVars, due, snap, restarts>>
  BY <1>1 DEF TaskReturns, Steady
<1>3. /\ snap[t] \in Int /\ row[t].next \in Int /\ cliSnap[t] \in Int /\ now \in Nat
      /\ row \in [Tasks -> Rows]
  <2>1. row[t] \in Rows
    BY DEF SchedInv, SchedTypes
  <2> QED
    BY <2>1 DEF SchedInv, SchedTypes, Rows
<1>4. /\ n \in Int
      /\ Kind[t] = "once" => n = Never
      /\ Kind[t] = "interval" => SameGrid(t, n, snap[t])
  BY <1>3, NextRunFacts
<1>5. Active(g) /\ Release(g)
  BY <1>2, TasksAssumption DEF TaskSettled, Active
<1>6. Home[t] = g /\ Known(t)
  BY <1>1 DEF SchedInv, TasksAtHome, Held, Known
<1>7. ~Known(t)' /\ TasksAtHome' /\ \A u \in Tasks : Known(u)' => Known(u)
  <2>1. HoldsNoNew({})
    BY <1>5, ReleaseHeld DEF HoldsNoNew
  <2>2. t \notin (Held(g) \cap Tasks)'
    BY <1>1, <1>5, ReleaseHeld
  <2>3. ~Known(t)'
    BY <1>6, <2>2 DEF Known, Held
  <2> QED
    BY <2>1, <2>3, HeldIsKnown DEF SchedInv
<1>8. row[t].status # "absent" /\ (~Cli => row[t].next = snap[t] /\ snap[t] # Never)
  BY <1>6 DEF SchedInv, TaskInv, CopySound
<1> HIDE DEF n
<1>9. /\ row' \in [Tasks -> Rows] /\ \A u \in Tasks \ {t} : row'[u] = row[u]
  <2>1. CASE AfterRun(t, n)
    BY <1>3, <1>4, <2>1, AfterRunFacts
  <2>2. CASE UNCHANGED row
    BY <1>3, <2>2
  <2> QED
    BY <1>2, <2>1, <2>2
<1>10. SchedTypes' /\ PollSound'
  BY <1>2, <1>9 DEF SchedInv, SchedTypes, PollSound, cliVars
<1>11. TaskInv(t)'
  <2>1. CliHolds(t)' <=> CliHolds(t)
    BY <1>2 DEF CliHolds, cliVars
  <2>2. CopySound(t)'
    BY <1>7 DEF CopySound
  <2>3. CASE AfterRun(t, n)
    <3>1. /\ row'[t].status # "absent"
          /\ row'[t].next = IF Exists(t) THEN n ELSE row[t].next
          /\ row'[t].status = IF Exists(t) /\ n = Never THEN "completed" ELSE row[t].status
      BY <1>3, <1>4, <1>8, <2>3, AfterRunFacts
    <3>2. CliSound(t)'
      BY <2>1, <3>1 DEF SchedInv, TaskInv, CliSound
    <3>3. OnceSound(t)'
      <4> SUFFICES ASSUME ~Cli, Kind[t] = "once"
                   PROVE  \/ row'[t].status = "deleted"
                          \/ row'[t].status # "absent" /\ row'[t].next = Never
        BY <1>7 DEF OnceSound, Over
      <4>3. ~Exists(t) => row[t].status = "deleted"
        BY <1>3, <1>8 DEF Exists, Rows, Statuses
      <4> QED
        BY <1>4, <3>1, <4>3
    <3>4. GridSound(t)'
      <4> SUFFICES ASSUME Kind[t] = "interval", CliHolds(t)
                   PROVE  SameGrid(t, cliSnap[t], row'[t].next)
        BY <1>2, <1>7, <2>1 DEF GridSound, cliVars, SameGrid
      <4>1. SameGrid(t, cliSnap[t], row[t].next) /\ SameGrid(t, snap[t], row[t].next)
        BY <1>6 DEF SchedInv, TaskInv, GridSound
      <4>2. SameGrid(t, n, row[t].next)
        BY <1>3, <1>4, <4>1, GridTransitive
      <4>3. SameGrid(t, row[t].next, n)
        BY <1>3, <1>4, <4>2, GridSymmetric
      <4>4. SameGrid(t, cliSnap[t], n)
        BY <1>3, <1>4, <4>1, <4>3, GridTransitive
      <4> QED
        BY <3>1, <4>1, <4>4
    <3> QED
      BY <2>2, <3>2, <3>3, <3>4 DEF TaskInv
  <2>4. CASE t \notin worked /\ UNCHANGED row
    <3>1. CliSound(t)' /\ OnceSound(t)'
      BY <1>2, <1>6, <2>1, <2>4 DEF SchedInv, TaskInv, CliSound, OnceSound, Over
    <3>2. GridSound(t)'
      BY <1>2, <1>7, <2>1, <2>4 DEF SchedInv, TaskInv, GridSound, SameGrid, cliVars
    <3> QED
      BY <2>2, <3>1, <3>2 DEF TaskInv
  <2> QED
    BY <1>2, <2>3, <2>4
<1>12. ASSUME NEW u \in Tasks \ {t}
       PROVE  TaskInv(u)'
  <2>1. TaskInv(u) /\ SchedTypes /\ now' \in Int /\ now <= now'
    BY <1>2, <1>3 DEF SchedInv
  <2>2. CliHolds(u)' => CliHolds(u)
    BY <1>2 DEF CliHolds, cliVars
  <2>3. snap'[u] = snap[u] /\ cliSnap'[u] = cliSnap[u]
    BY <1>2 DEF cliVars
  <2>4. /\ u \in carriedOut' <=> u \in carriedOut
        /\ u \in worked' <=> u \in worked
    BY <1>2
  <2> QED
    BY <1>7, <1>9, <2>1, <2>2, <2>3, <2>4, TaskStays
<1> QED
  BY <1>7, <1>10, <1>11, <1>12 DEF SchedInv

(* The agent of a task comes to its end.                                   *)
LEMMA AgentDoneKeepsInv ==
  ASSUME SchedInv, NEW t \in Tasks, AgentDone(t)
  PROVE  SchedInv'
<1>1. /\ due = {} /\ worked' = worked \cup {t} /\ carriedOut' = carriedOut \cup {t}
      /\ UNCHANGED <<vars, now, row, orphans, cliVars, due, snap, restarts>>
  BY DEF AgentDone, Steady
<1>2. SchedTypes' /\ PollSound'
  BY <1>1 DEF SchedInv, SchedTypes, PollSound, cliVars
<1>3. TasksAtHome' /\ \A u \in Tasks : Known(u)' => Known(u)
  <2>1. HoldsNoNew({}) /\ TasksAtHome
    BY <1>1, NothingNew DEF vars, SchedInv
  <2> QED
    BY <2>1, HeldIsKnown
<1>4. \A u \in Tasks : /\ CliHolds(u)' <=> CliHolds(u)
                       /\ row'[u] = row[u] /\ snap'[u] = snap[u] /\ cliSnap'[u] = cliSnap[u]
  BY <1>1 DEF CliHolds, cliVars
<1>5. TaskInv(t)'
  <2>1. TaskInv(t) /\ now' = now
    BY <1>1 DEF SchedInv
  <2>2. CopySound(t)' /\ CliSound(t)' /\ GridSound(t)'
    BY <1>3, <1>4, <2>1 DEF TaskInv, CopySound, CliSound, GridSound, SameGrid
  <2>3. OnceSound(t)'
    BY <1>1 DEF OnceSound
  <2> QED
    BY <2>2, <2>3 DEF TaskInv
<1>6. ASSUME NEW u \in Tasks \ {t}
      PROVE  TaskInv(u)'
  <2>1. TaskInv(u) /\ SchedTypes /\ now' \in Int /\ now <= now'
    BY <1>1 DEF SchedInv, SchedTypes
  <2>2. u \in carriedOut' <=> u \in carriedOut
    BY <1>1
  <2>3. u \in worked' <=> u \in worked
    BY <1>1
  <2> QED
    BY <1>3, <1>4, <2>1, <2>2, <2>3, TaskStays
<1> QED
  BY <1>2, <1>3, <1>5, <1>6 DEF SchedInv

(* A task settles in the process of the command line.                      *)
LEMMA CliReturnsKeepsInv ==
  ASSUME SchedInv, CliReturns
  PROVE  SchedInv'
<1>1. PICK t \in Tasks : t = cliRun
  BY DEF CliReturns, SchedInv, SchedTypes
<1> DEFINE n == NextRun(t, cliSnap[t], cliNow)
<1>2. /\ due = {} /\ AfterRun(t, n)
      /\ cliRun' = None
      /\ UNCHANGED <<vars, now, orphans, carriedOut, worked, cliDue, cliNow, cliSnap, due, snap, restarts>>
  BY <1>1 DEF CliReturns, Steady, lifeVars
<1>3. /\ snap[t] \in Int /\ row[t].next \in Int /\ cliSnap[t] \in Int /\ cliNow \in Nat
      /\ row \in [Tasks -> Rows]
  <2>1. row[t] \in Rows
    BY DEF SchedInv, SchedTypes
  <2> QED
    BY <2>1 DEF SchedInv, SchedTypes, Rows
<1>4. n \in Int /\ (Kind[t] = "interval" => SameGrid(t, n, cliSnap[t]))
  BY <1>3, NextRunFacts
<1>5. CliHolds(t) /\ row[t].status # "absent" /\ Cli
  BY <1>1 DEF CliHolds, SchedInv, TaskInv, CliSound
<1>6. TasksAtHome' /\ \A u \in Tasks : Known(u)' => Known(u)
  <2>1. HoldsNoNew({}) /\ TasksAtHome
    BY <1>2, NothingNew DEF vars, SchedInv
  <2> QED
    BY <2>1, HeldIsKnown
<1>7. \A u \in Tasks : CliHolds(u)' => CliHolds(u)
  BY <1>2, TasksAssumption DEF CliHolds
<1> HIDE DEF n
<1>8. /\ row' \in [Tasks -> Rows] /\ \A u \in Tasks \ {t} : row'[u] = row[u]
      /\ row'[t].status # "absent"
      /\ row'[t].next = IF Exists(t) THEN n ELSE row[t].next
  BY <1>2, <1>3, <1>4, <1>5, AfterRunFacts
<1>9. SchedTypes' /\ PollSound'
  BY <1>2, <1>8 DEF SchedInv, SchedTypes, PollSound
<1>10. TaskInv(t)'
  <2>1. CopySound(t)'
    BY <1>2, <1>5, <1>6, <1>8 DEF SchedInv, TaskInv, CopySound
  <2>2. CliSound(t)' /\ OnceSound(t)'
    BY <1>5, <1>8 DEF CliSound, OnceSound
  <2>3. GridSound(t)'
    <3> SUFFICES ASSUME Kind[t] = "interval"
                 PROVE  /\ Known(t) => SameGrid(t, snap[t], row'[t].next)
                        /\ SameGrid(t, cliSnap[t], row'[t].next)
      BY <1>2, <1>6 DEF GridSound, SameGrid
    <3>1. SameGrid(t, cliSnap[t], row[t].next)
      BY <1>5 DEF SchedInv, TaskInv, GridSound
    <3>2. SameGrid(t, cliSnap[t], n)
      BY <1>3, <1>4, GridSymmetric
    <3>3. SameGrid(t, row[t].next, n)
      <4>1. SameGrid(t, n, row[t].next)
        BY <1>3, <1>4, <3>1, GridTransitive
      <4> QED
        BY <1>3, <1>4, <4>1, GridSymmetric
    <3>4. ASSUME Known(t) PROVE SameGrid(t, snap[t], row[t].next) /\ SameGrid(t, snap[t], n)
      <4>1. SameGrid(t, snap[t], row[t].next)
        BY <3>4 DEF SchedInv, TaskInv, GridSound
      <4> QED
        BY <1>3, <1>4, <3>3, <4>1, GridTransitive
    <3> QED
      BY <1>8, <3>1, <3>2, <3>4
  <2> QED
    BY <2>1, <2>2, <2>3 DEF TaskInv
<1>11. ASSUME NEW u \in Tasks \ {t}
       PROVE  TaskInv(u)'
  <2>1. TaskInv(u) /\ SchedTypes /\ now' \in Int /\ now <= now'
    BY <1>2 DEF SchedInv, SchedTypes
  <2> QED
    BY <1>2, <1>6, <1>7, <1>8, <2>1, TaskStays
<1> QED
  BY <1>6, <1>9, <1>10, <1>11 DEF SchedInv

-----------------------------------------------------------------------------
(* The invariant holds of every reachable state.                           *)

LEMMA SchedInvInit == SchedInit => SchedInv
<1> SUFFICES ASSUME SchedInit PROVE SchedInv
  OBVIOUS
<1>1. SchedTypes
  <2>1. row \in [Tasks -> Rows]
    <3>1. [status |-> "absent", next |-> Never] \in Rows
      BY DEF Rows, Statuses, Never
    <3> QED
      BY <3>1 DEF SchedInit
  <2>2. snap \in [Tasks -> Int] /\ cliSnap \in [Tasks -> Int]
    BY DEF SchedInit, Never
  <2>3. 0 \in 0 .. MaxNow
    BY SchedulerAssumption
  <2> QED
    BY <2>1, <2>2, <2>3 DEF SchedInit, SchedTypes
<1>2. \A h \in Groups : Held(h) \cap Tasks = {}
  BY TasksAssumption DEF SchedInit, Init, Held, Range
<1>3. TasksAtHome /\ PollSound
  BY <1>2 DEF SchedInit, TasksAtHome, PollSound
<1>4. ASSUME NEW t \in Tasks
      PROVE  TaskInv(t)
  <2>1. ~Known(t)
    BY <1>2, TasksAssumption DEF Known, Held
  <2>2. ~CliHolds(t) /\ t \notin carriedOut
    BY TasksAssumption DEF CliHolds, SchedInit
  <2> QED
    BY <2>1, <2>2 DEF TaskInv, CopySound, CliSound, OnceSound, Over, GridSound
<1> QED
  BY <1>1, <1>3, <1>4 DEF SchedInv

LEMMA SchedInvStep ==
  ASSUME SchedInv, QueueInv, [SchedNext]_allVars
  PROVE  SchedInv'
<1>1. ASSUME NEW t \in Tasks, Create(t)
      PROVE  SchedInv'
  BY <1>1, CreateKeepsInv
<1>2. ASSUME NEW t \in Tasks, PauseTask(t) \/ ResumeTask(t) \/ CancelTask(t)
      PROVE  SchedInv'
  BY <1>2, SetStatusKeepsInv DEF PauseTask, ResumeTask, CancelTask
<1>3. ASSUME NEW t \in Tasks, PollTask(t) \/ CliBegin(t)
      PROVE  SchedInv'
  BY <1>3, PollTaskKeepsInv, CliBeginKeepsInv
<1>4. ASSUME NEW g \in Groups, TaskReturns(g)
      PROVE  SchedInv'
  BY <1>4, TaskReturnsKeepsInv
<1>7. ASSUME NEW t \in Tasks, AgentDone(t)
      PROVE  SchedInv'
  BY <1>7, AgentDoneKeepsInv
<1>5. CASE Poll \/ Advance \/ Stop \/ (UNCHANGED allVars) \/ \E g \in Groups : MoveGroup(g) \/ Messages(g)
  BY <1>5, QuietStepsKeepInv
<1>6. CASE CliTick \/ CliReturns \/ Restart
  BY <1>6, CliTickKeepsInv, CliReturnsKeepsInv, RestartKeepsInv
<1> QED
  BY <1>1, <1>2, <1>3, <1>4, <1>5, <1>6, <1>7 DEF SchedNext

(* The strengthened invariant of the scheduler.                            *)
THEOREM SchedInvariant == SchedSpec => [](SchedInv /\ QueueInv)
<1>1. SchedInit => SchedInv
  BY SchedInvInit
<1>2. SchedInv /\ QueueInv /\ [SchedNext]_allVars => SchedInv'
  BY SchedInvStep
<1> QED
  BY <1>1, <1>2, QueueInvariantInScheduler, PTL DEF SchedSpec

(* The columns of the table and the locals of the two processes keep their *)
(* types.                                                                  *)
THEOREM SchedTypeCorrect == SchedSpec => []SchedTypeOK
<1>1. SchedInv => SchedTypeOK
  <2> SUFFICES ASSUME SchedInv PROVE SchedTypeOK
    OBVIOUS
  <2>1. row \in [Tasks -> [status : {"absent", "active", "paused", "completed", "deleted"},
                           next : Int]]
    BY DEF SchedInv, SchedTypes, Rows, Statuses
  <2> QED
    BY <2>1 DEF SchedInv, SchedTypes, SchedTypeOK
<1> QED
  BY <1>1, SchedInvariant, PTL

(* What the queue holds was due, by the copy of the row it was queued      *)
(* with; without the command line the row still says the same.             *)
THEOREM QueueHoldsDueTasks == SchedSpec => []QueuedWasDue
<1>1. SchedInv => QueuedWasDue
  BY DEF SchedInv, TaskInv, CopySound, QueuedWasDue
<1> QED
  BY <1>1, SchedInvariant, PTL

(* Only the end of a task's agent makes the task one whose row is to be    *)
(* written.                                                                *)
LEMMA WorkedChanges ==
  ASSUME [SchedNext]_allVars, NEW t \in Tasks, t \in worked' \ worked
  PROVE  AgentDone(t)
<1>1. ASSUME NEW u \in Tasks,
             \/ Create(u) \/ PauseTask(u) \/ ResumeTask(u) \/ CancelTask(u)
             \/ PollTask(u) \/ CliBegin(u)
      PROVE  worked' = worked
  BY <1>1 DEF Create, PauseTask, ResumeTask, CancelTask, SetStatus, PollTask, CliBegin, lifeVars
<1>2. ASSUME NEW u \in Tasks, AgentDone(u)
      PROVE  t = u
  BY <1>2 DEF AgentDone
<1>3. ASSUME NEW g \in Groups, MoveGroup(g) \/ TaskReturns(g) \/ Messages(g)
      PROVE  worked' \subseteq worked
  BY <1>3 DEF MoveGroup, TaskReturns, Messages, schedVars, lifeVars
<1>4. Poll \/ CliTick \/ CliReturns \/ Advance \/ Stop \/ Restart \/ UNCHANGED allVars =>
        worked' \subseteq worked
  BY DEF Poll, CliTick, CliReturns, Advance, Stop, Restart, allVars, schedVars, lifeVars
<1> QED
  BY <1>1, <1>2, <1>3, <1>4 DEF SchedNext

(* Without the command line a once task is carried out again only after a  *)
(* restart that fell between its work and the write of its row: a task     *)
(* whose work is done is Over until then, and the row says so.             *)
THEOREM OnceTasksRunOnce == SchedSpec => OnceRunsOnce
<1>1. ASSUME SchedInv, [SchedNext]_allVars, NEW t \in Tasks,
             ~Cli, Kind[t] = "once", t \in worked' \ worked
      PROVE  t \notin carriedOut
  <2>1. AgentDone(t)
    BY <1>1, WorkedChanges
  <2>2. Known(t) /\ t \notin worked
    BY <2>1 DEF AgentDone, Known
  <2> QED
    BY <1>1, <2>2 DEF SchedInv, TaskInv, OnceSound, Over
<1>2. SchedInv /\ [SchedNext]_allVars =>
        [\A t \in Tasks :
           ~Cli /\ Kind[t] = "once" /\ t \in worked' \ worked => t \notin carriedOut]_allVars
  BY <1>1
<1> QED
  BY <1>2, SchedInvariant, PTL DEF SchedSpec, OnceRunsOnce

-----------------------------------------------------------------------------
(* What a step may do to a row.                                            *)

(* A run that began with the time `last` writes t's row back at `time`.    *)
Written(t, last, time) ==
  LET next == NextRun(t, last, time) IN
  /\ Exists(t)
  /\ row'[t].next = next
  /\ row'[t].status = IF next = Never THEN "completed" ELSE row[t].status

(* A row changes when it is made, when its status is set, or when one of   *)
(* the two processes writes it back.                                       *)
RowChange(t) ==
  \/ row[t].status = "absent"
  \/ /\ Exists(t) /\ row'[t].next = row[t].next
     /\ \/ row'[t].status \in {"paused", "deleted"}
        \/ ResumeTask(t)
  \/ Known(t) /\ Written(t, snap[t], now)
  \/ t = cliRun /\ cliRun' = None /\ Written(t, cliSnap[t], cliNow)

LEMMA ReturnChanges ==
  ASSUME SchedInv, NEW g \in Groups, TaskReturns(g), NEW t \in Tasks, row'[t] # row[t]
  PROVE  RowChange(t)
<1>1. running[g] \in Tasks
  BY DEF TaskReturns, TaskSettled
<1>2. PICK u \in Tasks : u = running[g]
  BY <1>1
<1>3. /\ row \in [Tasks -> Rows] /\ snap[u] \in Int /\ now \in Nat
  BY DEF SchedInv, SchedTypes
<1>4. NextRun(u, snap[u], now) \in Int
  BY <1>3, NextRunFacts
<1>5. AfterRun(u, NextRun(u, snap[u], now))
  BY <1>2 DEF TaskReturns
<1>6. t = u
  BY <1>3, <1>4, <1>5, AfterRunFacts
<1>7. Exists(u)
  BY <1>5, <1>6 DEF AfterRun
<1>8. Written(t, snap[t], now)
  BY <1>3, <1>4, <1>5, <1>6, <1>7, AfterRunFacts DEF Written
<1>9. Known(t)
  <2>1. Home[t] = g
    BY <1>2, <1>6 DEF SchedInv, TasksAtHome, Held
  <2> QED
    BY <1>2, <1>6, <2>1 DEF Known
<1> QED
  BY <1>8, <1>9 DEF RowChange

LEMMA CliReturnChanges ==
  ASSUME SchedInv, CliReturns, NEW t \in Tasks, row'[t] # row[t]
  PROVE  RowChange(t)
<1>1. PICK u \in Tasks : u = cliRun
  BY DEF CliReturns, SchedInv, SchedTypes
<1>2. /\ row \in [Tasks -> Rows] /\ cliSnap[u] \in Int /\ cliNow \in Nat
  BY DEF SchedInv, SchedTypes
<1>3. NextRun(u, cliSnap[u], cliNow) \in Int
  BY <1>2, NextRunFacts
<1>4. AfterRun(u, NextRun(u, cliSnap[u], cliNow)) /\ cliRun' = None
  BY <1>1 DEF CliReturns
<1>5. t = u
  BY <1>2, <1>3, <1>4, AfterRunFacts
<1>6. Exists(u)
  BY <1>4, <1>5 DEF AfterRun
<1>7. Written(t, cliSnap[t], cliNow)
  BY <1>2, <1>3, <1>4, <1>5, <1>6, AfterRunFacts DEF Written
<1> QED
  BY <1>1, <1>4, <1>5, <1>7 DEF RowChange

LEMMA StatusChanges ==
  ASSUME SchedInv, NEW u \in Tasks, NEW s \in {"paused", "active", "deleted"}, SetStatus(u, s),
         NEW t \in Tasks, row'[t] # row[t]
  PROVE  RowChange(t)
<1>1. Exists(u) /\ row' = [row EXCEPT ![u].status = s]
  BY DEF SetStatus
<1>2. row \in [Tasks -> Rows]
  BY DEF SchedInv, SchedTypes
<1>3. t = u
  BY <1>1, <1>2
<1>4. row'[t] = [row[t] EXCEPT !.status = s] /\ row[t] \in Rows
  BY <1>1, <1>2, <1>3
<1>5. row'[t].next = row[t].next /\ row'[t].status = s
  BY <1>4 DEF Rows
<1>6. s = "active" => ResumeTask(t)
  BY <1>3 DEF ResumeTask
<1> QED
  BY <1>1, <1>3, <1>5, <1>6 DEF RowChange

LEMMA RowChanges ==
  ASSUME SchedInv, [SchedNext]_allVars, NEW t \in Tasks, row'[t] # row[t]
  PROVE  RowChange(t)
<1>1. ASSUME NEW u \in Tasks, Create(u)
      PROVE  RowChange(t)
  <2>1. t = u
    BY <1>1 DEF Create, SchedInv, SchedTypes
  <2> QED
    BY <1>1, <2>1 DEF Create, RowChange
<1>2. ASSUME NEW u \in Tasks, PauseTask(u) \/ ResumeTask(u) \/ CancelTask(u)
      PROVE  RowChange(t)
  BY <1>2, StatusChanges DEF PauseTask, ResumeTask, CancelTask
<1>3. ASSUME NEW u \in Tasks, PollTask(u) \/ CliBegin(u) \/ AgentDone(u)
      PROVE  row' = row
  BY <1>3 DEF PollTask, CliBegin, AgentDone, rowVars
<1>4. ASSUME NEW g \in Groups, MoveGroup(g) \/ Messages(g)
      PROVE  row' = row
  BY <1>4 DEF MoveGroup, Messages, schedVars, rowVars, lifeVars
<1>5. Poll \/ CliTick \/ Advance \/ Stop \/ Restart \/ UNCHANGED allVars => row' = row
  BY DEF Poll, CliTick, Advance, Stop, Restart, allVars, schedVars, rowVars, lifeVars
<1>6. ASSUME NEW g \in Groups, TaskReturns(g)
      PROVE  RowChange(t)
  BY <1>6, ReturnChanges
<1>7. CASE CliReturns
  BY <1>7, CliReturnChanges
<1> QED
  BY <1>1, <1>2, <1>3, <1>4, <1>5, <1>6, <1>7 DEF SchedNext

(* An interval task keeps its phase: both processes write back a time on   *)
(* the grid of the copy they had, which is the grid of the row.            *)
THEOREM IntervalsKeepPhase == SchedSpec => PhaseKept
<1>1. ASSUME SchedInv, [SchedNext]_allVars, NEW t \in Tasks, Kind[t] = "interval", Exists(t)
      PROVE  (row'[t].next - row[t].next) % Every[t] = 0
  <2>1. /\ Every[t] \in Nat \ {0}
        /\ row[t].next \in Int /\ snap[t] \in Int /\ cliSnap[t] \in Int
        /\ now \in Nat /\ cliNow \in Nat
    <3>1. row[t] \in Rows
      BY <1>1 DEF SchedInv, SchedTypes
    <3> QED
      BY <1>1, <3>1, SchedulerAssumption DEF SchedInv, SchedTypes, Rows
  <2>2. SameGrid(t, row'[t].next, row[t].next)
    <3>1. CASE row'[t].next = row[t].next
      BY <2>1, <3>1, GridReflexive
    <3>2. CASE Known(t) /\ Written(t, snap[t], now)
      <4>1. SameGrid(t, snap[t], row[t].next)
        BY <1>1, <3>2 DEF SchedInv, TaskInv, GridSound
      <4>2. row'[t].next \in Int /\ SameGrid(t, row'[t].next, snap[t])
        BY <1>1, <2>1, <3>2, NextRunFacts DEF Written
      <4> QED
        BY <2>1, <4>1, <4>2, GridTransitive
    <3>3. CASE t = cliRun /\ Written(t, cliSnap[t], cliNow)
      <4>1. SameGrid(t, cliSnap[t], row[t].next)
        BY <1>1, <3>3 DEF SchedInv, TaskInv, GridSound, CliHolds
      <4>2. row'[t].next \in Int /\ SameGrid(t, row'[t].next, cliSnap[t])
        BY <1>1, <2>1, <3>3, NextRunFacts DEF Written
      <4> QED
        BY <2>1, <4>1, <4>2, GridTransitive
    <3>4. row[t].status # "absent"
      BY <1>1 DEF Exists
    <3>5. row'[t] # row[t] => RowChange(t)
      BY <1>1, RowChanges
    <3> QED
      BY <3>1, <3>2, <3>3, <3>4, <3>5 DEF RowChange
  <2>3. PICK k \in Int : row'[t].next = row[t].next + Every[t] * k
    BY <2>2 DEF SameGrid
  <2>4. Every[t] * k \in Int /\ (Every[t] * k) % Every[t] = 0
    BY <2>1, Products, MultipleMod
  <2>5. row'[t].next - row[t].next = Every[t] * k
    BY <2>1, <2>3, <2>4
  <2> QED
    BY <2>4, <2>5
<1>2. SchedInv /\ [SchedNext]_allVars =>
        [\A t \in Tasks : Kind[t] = "interval" /\ Exists(t) =>
           (row'[t].next - row[t].next) % Every[t] = 0]_allVars
  BY <1>1
<1> QED
  BY <1>2, SchedInvariant, PTL DEF SchedSpec, PhaseKept

(* A run of the server leaves its task's next time in the future, however  *)
(* many due times passed meanwhile.                                        *)
THEOREM MissedRunsDoNotPileUp == SchedSpec => NoBacklog
<1>1. ASSUME SchedInv, [SchedNext]_allVars, NEW t \in Tasks,
             row'[t].next # row[t].next, row[t].status # "absent", cliRun' = cliRun
      PROVE  row'[t].next > now \/ row'[t].next = Never
  <2>1. RowChange(t)
    BY <1>1, RowChanges
  <2>2. t = cliRun => cliRun' # None
    BY <1>1, TasksAssumption
  <2>3. Written(t, snap[t], now)
    BY <1>1, <2>1, <2>2 DEF RowChange, ResumeTask, SetStatus
  <2>4. snap[t] \in Int /\ now \in Nat /\ Kind[t] \in {"once", "interval", "cron"}
    BY <1>1, SchedulerAssumption DEF SchedInv, SchedTypes
  <2> QED
    BY <2>3, <2>4, NextRunFacts DEF Written
<1>2. SchedInv /\ [SchedNext]_allVars =>
        [\A t \in Tasks :
           row'[t].next # row[t].next /\ row[t].status # "absent" /\ cliRun' = cliRun =>
             row'[t].next > now \/ row'[t].next = Never]_allVars
  BY <1>1
<1> QED
  BY <1>2, SchedInvariant, PTL DEF SchedSpec, NoBacklog

(* No run that ends, in either process, undoes a pause or a cancellation.  *)
THEOREM PausesStand == SchedSpec => StatusStands
<1>1. ASSUME SchedInv, [SchedNext]_allVars, NEW t \in Tasks, row[t].status = "deleted"
      PROVE  row'[t].status = "deleted"
  <2>1. ~RowChange(t)
    BY <1>1 DEF RowChange, Written, Exists
  <2> QED
    BY <1>1, <2>1, RowChanges
<1>2. ASSUME SchedInv, [SchedNext]_allVars, NEW t \in Tasks,
             row[t].status = "paused", Kind[t] # "once", ~ResumeTask(t)
      PROVE  row'[t].status \in {"paused", "deleted"}
  <2>1. snap[t] \in Int /\ cliSnap[t] \in Int /\ now \in Nat /\ cliNow \in Nat
    BY <1>2 DEF SchedInv, SchedTypes
  <2>2. NextRun(t, snap[t], now) # Never /\ NextRun(t, cliSnap[t], cliNow) # Never
    BY <1>2, <2>1, NextRunFacts
  <2>3. RowChange(t) => row'[t].status \in {"paused", "deleted"}
    BY <1>2, <2>2 DEF RowChange, Written
  <2> QED
    BY <1>2, <2>3, RowChanges
<1>3. SchedInv /\ [SchedNext]_allVars =>
        [\A t \in Tasks :
           /\ row[t].status = "deleted" => row'[t].status = "deleted"
           /\ row[t].status = "paused" /\ Kind[t] # "once" /\ ~ResumeTask(t) =>
                row'[t].status \in {"paused", "deleted"}]_allVars
  BY <1>1, <1>2
<1> QED
  BY <1>3, SchedInvariant, PTL DEF SchedSpec, StatusStands

-----------------------------------------------------------------------------
(* The queue's contract in the life of the server.                         *)

(* Under the scheduler every step is one of the run queue's contract, but  *)
(* for a restart, which begins from the contract's initial state: what the *)
(* polls enqueue runs once per request, in order, and one at a time.       *)
THEOREM SchedulerKeepsRunContract ==
  SchedSpec => [][Contract!Next \/ (Contract!Init)']_(Contract!vars)
<1>1. ASSUME QueueInv, [SchedNext]_allVars
      PROVE  [Contract!Next \/ (Contract!Init)']_(Contract!vars)
  <2>1. CASE Restart
    BY <2>1 DEF Restart, Contract!Init
  <2>2. CASE [Next]_vars
    BY <1>1, <2>2, StepRefines
  <2> QED
    BY <1>1, <2>1, <2>2, SchedStepOfQueue
<1>2. QueueInv /\ [SchedNext]_allVars => [Contract!Next \/ (Contract!Init)']_(Contract!vars)
  BY <1>1
<1> QED
  BY <1>2, QueueInvariantInScheduler, PTL DEF SchedSpec
=============================================================================
