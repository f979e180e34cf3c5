----------------------------- MODULE GroupQueue -----------------------------
(***************************************************************************)
(* The host's run queue (src/src/group-queue.ts).  Each chat group runs at *)
(* most one agent container at a time, and all groups together at most     *)
(* Limit (MAX_CONCURRENT_CONTAINERS).  A run either processes a group's    *)
(* new messages or executes one of its scheduled tasks.  A failed message  *)
(* run is retried by a timer, at most MaxRetries times in a row.           *)
(*                                                                         *)
(* JavaScript runs a handler to completion between two awaits, so each     *)
(* public method, each timer callback and each `finally` block of a run is *)
(* one action.  A run itself spans two of them: the step that starts it,   *)
(* up to its first await, and the step in which its promise settles.       *)
(***************************************************************************)
EXTENDS Integers, Sequences, FiniteSets, Functions

CONSTANTS
  Groups,      (* the group JIDs                                           *)
  Tasks,       (* the ids of scheduled tasks                               *)
  Home,        (* the group each task belongs to: its chat_jid             *)
  Limit,       (* MAX_CONCURRENT_CONTAINERS, at least 1                    *)
  MaxRetries,  (* MAX_RETRIES                                              *)
  MaxTimers    (* bound of the model: retry timers pending for one group   *)

None == "none"
MessageRun == "messages"

ASSUME GroupsAssumption == IsFiniteSet(Groups)
ASSUME TasksAssumption ==
  /\ None \notin Tasks
  /\ MessageRun \notin Tasks
  /\ Home \in [Tasks -> Groups]
ASSUME LimitAssumption == Limit \in Nat \ {0}
ASSUME RetryAssumption == MaxRetries \in Nat /\ MaxTimers \in Nat

VARIABLES
  running,          (* what each group runs: active, isTaskContainer and   *)
                    (* runningTaskId of its GroupState in one value        *)
  pendingMessages,  (* a message check was asked for and not started       *)
  pendingTasks,     (* the tasks queued for each group                     *)
  retryCount,       (* consecutive failed message runs of each group       *)
  retryTimers,      (* scheduled retries (setTimeout) that have not fired  *)
  waitingGroups,    (* groups that found no free slot, in arrival order    *)
  activeCount,      (* the queue's own count of running containers         *)
  shuttingDown,
  shutdownCall      (* the promise of shutdown(): none, waiting, resolved  *)

vars == <<running, pendingMessages, pendingTasks, retryCount, retryTimers,
          waitingGroups, activeCount, shuttingDown, shutdownCall>>

Init ==
  /\ running = [g \in Groups |-> None]
  /\ pendingMessages = [g \in Groups |-> FALSE]
  /\ pendingTasks = [g \in Groups |-> <<>>]
  /\ retryCount = [g \in Groups |-> 0]
  /\ retryTimers = [g \in Groups |-> 0]
  /\ waitingGroups = <<>>
  /\ activeCount = 0
  /\ shuttingDown = FALSE
  /\ shutdownCall = "none"

Active(g) == running[g] # None
Busy == {g \in Groups : Active(g)}
HasWork(g) == pendingTasks[g] # <<>> \/ pendingMessages[g]
AtLimitOffByOne == activeCount > Limit  (* mutant *)
AtLimit == activeCount >= Limit

(***************************************************************************)
(* Asking for work: enqueueMessageCheck and enqueueTask.                   *)
(***************************************************************************)

(* Mutants: the list is not searched first; the group is not added.        *)
WaitForSlotAgain(g) == waitingGroups' = Append(waitingGroups, g)
WaitForSlotUnlisted(g) == waitingGroups' = Tail(Append(waitingGroups, g))

(* The arrival of g at the end of the waiting list, unless it is there.    *)
WaitForSlot(g) ==
  waitingGroups' = IF g \in Range(waitingGroups)
                   THEN waitingGroups ELSE Append(waitingGroups, g)

StartNow(g, run) ==
  /\ running' = [running EXCEPT ![g] = run]
  /\ activeCount' = activeCount + 1

MessageCheck(g) ==
  /\ ~shuttingDown
  /\ \/ /\ Active(g)
        /\ pendingMessages' = [pendingMessages EXCEPT ![g] = TRUE]
        /\ UNCHANGED <<running, activeCount, waitingGroups>>
     \/ /\ ~Active(g) /\ AtLimit
        /\ pendingMessages' = [pendingMessages EXCEPT ![g] = TRUE]
        /\ WaitForSlot(g)
        /\ UNCHANGED <<running, activeCount>>
     \/ /\ ~Active(g) /\ ~AtLimit
        /\ StartNow(g, MessageRun)
        /\ pendingMessages' = [pendingMessages EXCEPT ![g] = FALSE]
        /\ UNCHANGED waitingGroups
  /\ UNCHANGED <<pendingTasks, retryCount, shuttingDown, shutdownCall>>

EnqueueMessageCheck(g) == MessageCheck(g) /\ UNCHANGED retryTimers

(* The queue knows task t: it runs or is queued.                           *)
KnownIfQueued(t) == t \in Range(pendingTasks[Home[t]])  (* mutant *)
Known(t) == running[Home[t]] = t \/ t \in Range(pendingTasks[Home[t]])

EnqueueTask(t) ==
  LET g == Home[t] IN
  /\ ~shuttingDown /\ ~Known(t)
  /\ \/ /\ Active(g)
        /\ pendingTasks' = [pendingTasks EXCEPT ![g] = Append(@, t)]
        /\ UNCHANGED <<running, activeCount, waitingGroups>>
     \/ /\ ~Active(g) /\ AtLimit
        /\ pendingTasks' = [pendingTasks EXCEPT ![g] = Append(@, t)]
        /\ WaitForSlot(g)
        /\ UNCHANGED <<running, activeCount>>
     \/ /\ ~Active(g) /\ ~AtLimit
        /\ StartNow(g, t)
        /\ UNCHANGED <<pendingTasks, waitingGroups>>
  /\ UNCHANGED <<pendingMessages, retryCount, retryTimers, shuttingDown, shutdownCall>>

(***************************************************************************)
(* The end of a run, the `finally` blocks of runForGroup and runTask: the  *)
(* slot is released, a waiting shutdown is told if it was the last one,    *)
(* and drainGroup hands the slot on.                                       *)
(***************************************************************************)

QueuedRunMessagesFirst(g) ==  (* mutant *)
  IF pendingMessages[g] THEN MessageRun ELSE Head(pendingTasks[g])

(* What a group taken from its queue runs: tasks come before messages.     *)
QueuedRun(g) == IF pendingTasks[g] # <<>> THEN Head(pendingTasks[g]) ELSE MessageRun

(* The groups of S leave the queue: one task each, or the message check.   *)
Dequeue(S) ==
  /\ pendingTasks' = [g \in Groups |-> IF g \in S /\ pendingTasks[g] # <<>>
                                       THEN Tail(pendingTasks[g]) ELSE pendingTasks[g]]
  /\ pendingMessages' = [g \in Groups |->
                           pendingMessages[g] /\ ~(g \in S /\ pendingTasks[g] = <<>>)]

(* drainWaiting's loop shifts waitingGroups until it has started a run on  *)
(* each of the free slots or the list is empty: how many entries it shifts.*)
Popped(free) ==
  LET Stop(k) == \/ k = Len(waitingGroups)
                 \/ Cardinality({i \in 1 .. k : HasWork(waitingGroups[i])}) = free
  IN  CHOOSE k \in 0 .. Len(waitingGroups) :
        Stop(k) /\ \A j \in 0 .. k - 1 : ~Stop(j)

(* drainGroup(g) after g released its slot: g's own work first, then the   *)
(* waiting list; nothing once shutting down.                               *)
OwnWorkFirstInShutdown(g) == HasWork(g)  (* mutant *)
OwnWorkFirst(g) == ~shuttingDown /\ HasWork(g)
ShiftedNever(g) == 0  (* mutant: the waiting list is not drained *)
Shifted(g) == IF shuttingDown \/ HasWork(g) THEN 0 ELSE Popped(Limit - (activeCount - 1))
Started(g) ==
  IF OwnWorkFirst(g) THEN {g}
  ELSE {h \in Groups : HasWork(h) /\ \E i \in 1 .. Shifted(g) : waitingGroups[i] = h}

NotifyBeforeDecrement ==  (* mutant *)
  shutdownCall' = IF shutdownCall = "waiting" /\ activeCount = 0
                  THEN "resolved" ELSE shutdownCall
NotifyIfIdle ==
  shutdownCall' = IF shutdownCall = "waiting" /\ activeCount = 1
                  THEN "resolved" ELSE shutdownCall

Release(g) ==
  /\ running' = [h \in Groups |-> IF h \in Started(g) THEN QueuedRun(h)
                                  ELSE IF h = g THEN None ELSE running[h]]
  /\ activeCount' = activeCount - 1 + Cardinality(Started(g))
  /\ waitingGroups' = SubSeq(waitingGroups, Shifted(g) + 1, Len(waitingGroups))
  /\ Dequeue(Started(g))
  /\ NotifyIfIdle
  /\ UNCHANGED shuttingDown

(* processMessagesFn returned true.                                        *)
MessagesDone(g) ==
  /\ running[g] = MessageRun
  /\ retryCount' = [retryCount EXCEPT ![g] = 0]
  /\ UNCHANGED retryTimers
  /\ Release(g)

(* scheduleRetry.  Mutants: the limit is tested before the increment, the  *)
(* failure is not counted, the timer is not armed.                         *)
GivesUpLate(g) == retryCount[g] > MaxRetries
GivesUp(g) == retryCount[g] + 1 > MaxRetries
NotCounted(g) == UNCHANGED retryCount
CountFailure(g) == retryCount' = [retryCount EXCEPT ![g] = @ + 1]
NotArmed(g) == UNCHANGED retryTimers
ArmTimer(g) ==
  /\ retryTimers[g] < MaxTimers
  /\ retryTimers' = [retryTimers EXCEPT ![g] = @ + 1]

(* It returned false or threw: scheduleRetry arms a timer, or gives up     *)
(* after MaxRetries of them.                                               *)
MessagesFailed(g) ==
  /\ running[g] = MessageRun
  /\ IF GivesUp(g)
     THEN retryCount' = [retryCount EXCEPT ![g] = 0] /\ UNCHANGED retryTimers
     ELSE CountFailure(g) /\ ArmTimer(g)
  /\ Release(g)

(* A task's promise settled; a rejection is logged and changes nothing.    *)
TaskSettled(g) ==
  /\ running[g] \in Tasks
  /\ UNCHANGED <<retryCount, retryTimers>>
  /\ Release(g)

RetryTimerFires(g) ==
  /\ retryTimers[g] > 0
  /\ retryTimers' = [retryTimers EXCEPT ![g] = @ - 1]
  /\ \/ MessageCheck(g)
     \/ /\ shuttingDown
        /\ UNCHANGED <<running, pendingMessages, pendingTasks, retryCount,
                       waitingGroups, activeCount, shuttingDown, shutdownCall>>

AtOnce == "resolved"  (* mutant: running containers are not waited for *)
ShutdownAnswer == IF activeCount = 0 THEN "resolved" ELSE "waiting"
Shutdown ==
  /\ ~shuttingDown
  /\ shuttingDown' = TRUE
  /\ shutdownCall' = ShutdownAnswer
  /\ UNCHANGED <<running, pendingMessages, pendingTasks, retryCount, retryTimers,
                 waitingGroups, activeCount>>

RunSettles(g) == MessagesDone(g) \/ MessagesFailed(g) \/ TaskSettled(g)
Request == (\E g \in Groups : EnqueueMessageCheck(g)) \/ (\E t \in Tasks : EnqueueTask(t))

Next ==
  \/ Request
  \/ \E g \in Groups : MessagesDone(g) \/ MessagesFailed(g) \/ TaskSettled(g) \/ RetryTimerFires(g)
  \/ Shutdown

Spec == Init /\ [][Next]_vars

(* Every run's promise settles and every armed timer fires; nobody is      *)
(* obliged to ask for work or to shut down.                                *)
Fairness == \A g \in Groups : WF_vars(RunSettles(g)) /\ WF_vars(RetryTimerFires(g))
FairSpec == Spec /\ Fairness
=============================================================================
