-------------------------- MODULE GroupQueueProps ---------------------------
(***************************************************************************)
(* What the run queue must guarantee: invariants, action properties,       *)
(* liveness, and the contract it implements.                               *)
(***************************************************************************)
EXTENDS GroupQueue

RunKinds == Tasks \cup {None, MessageRun}

(* Types of the variables of GroupState and GroupQueue.                    *)
TypeOK ==
  /\ running \in [Groups -> RunKinds]
  /\ pendingMessages \in [Groups -> BOOLEAN]
  /\ pendingTasks \in [Groups -> Seq(Tasks)]
  /\ retryCount \in [Groups -> 0 .. MaxRetries]
  /\ retryTimers \in [Groups -> 0 .. MaxTimers]
  /\ waitingGroups \in Seq(Groups)
  /\ activeCount \in Nat
  /\ shuttingDown \in BOOLEAN
  /\ shutdownCall \in {"none", "waiting", "resolved"}

(* The counter the limit is tested against is the number of groups that    *)
(* really run, through every hand-over of a slot, and never exceeds the    *)
(* limit.                                                                  *)
CountAccurate == activeCount = Cardinality(Busy)
ConcurrencyLimit == CountAccurate /\ activeCount <= Limit

(* The waiting list holds each group once, and only groups that are idle   *)
(* and have something to run: drainWaiting starts what it shifts without   *)
(* looking whether the group already runs, so a stale entry would give a   *)
(* group two containers or waste the wake-up.                              *)
WaitingSound ==
  /\ \A i \in DOMAIN waitingGroups : ~Active(waitingGroups[i]) /\ HasWork(waitingGroups[i])
  /\ \A i, j \in DOMAIN waitingGroups : waitingGroups[i] = waitingGroups[j] => i = j

(* No lost wake-up: until shutdown, queued work of a group that does not   *)
(* run is known to the waiting list, the only place a later hand-over      *)
(* looks for it.                                                           *)
NoLostWakeup ==
  \A g \in Groups : ~shuttingDown /\ ~Active(g) /\ HasWork(g) => g \in Range(waitingGroups)

(* No group waits while a slot is free.                                    *)
WorkConserving == ~shuttingDown /\ waitingGroups # <<>> => activeCount = Limit

(* A task is queued at most once and never while it runs, whatever polls,  *)
(* hand-overs and direct starts do in between, so no poll of the scheduler *)
(* makes it run twice in a row or twice at a time.                         *)
NoDuplicateTask ==
  \A g \in Groups :
    /\ running[g] \notin Range(pendingTasks[g])
    /\ \A i, j \in DOMAIN pendingTasks[g] : pendingTasks[g][i] = pendingTasks[g][j] => i = j

(* A group whose last message run failed is not forgotten: a retry is      *)
(* armed, queued or running.                                               *)
FailureKeepsRetry ==
  \A g \in Groups : retryCount[g] > 0 =>
    retryTimers[g] > 0 \/ pendingMessages[g] \/ running[g] = MessageRun \/ shuttingDown

(* When shutdown's promise resolves nothing runs, nothing starts after it, *)
(* and while something runs it stays unresolved.                           *)
ShutdownQuiescent == shutdownCall = "resolved" <=> shuttingDown /\ Busy = {}

(* A message run never starts while a task of its group is queued, also    *)
(* when a check finds a free slot and starts it on the spot.               *)
StartsMessages(g) ==
  \/ running[g] # MessageRun /\ running'[g] = MessageRun
  \/ pendingMessages[g] /\ ~pendingMessages'[g]
TasksBeforeMessages ==
  [][\A g \in Groups : StartsMessages(g) => pendingTasks[g] = <<>>]_vars

(* The queue implements the contract its callers rely on.                  *)
Contract == INSTANCE RunContract WITH
  run <- running, messagesWanted <- pendingMessages, tasksWanted <- pendingTasks,
  closed <- shuttingDown
ImplementsContract == Contract!Spec

(* After shutdown() its promise does resolve.                              *)
ShutdownCompletes == shuttingDown ~> shutdownCall = "resolved"

(* If requests stop, the queue comes to rest: every queued piece of work   *)
(* has run, every retry has been tried or given up, however runs fail.     *)
AtRest ==
  \A g \in Groups : /\ ~Active(g) /\ retryTimers[g] = 0
                    /\ ~shuttingDown => ~HasWork(g) /\ retryCount[g] = 0
ComesToRest == <>[][~Request]_vars => <>[]AtRest

(* Every group that waits gets a slot, or the queue shuts down.            *)
WaitingIsServed ==
  \A g \in Groups : g \in Range(waitingGroups) ~> Active(g) \/ shuttingDown
=============================================================================
