----------------------------- MODULE Scheduler ------------------------------
(***************************************************************************)
(* Scheduled tasks (src/src/task-scheduler.ts, the scheduled_tasks table   *)
(* of src/src/db.ts, and the tick of src/src/orchestrator.ts).  A polling  *)
(* loop hands the tasks that are due to the run queue, each with the row   *)
(* as it was read; a task's run ends by computing its next run from that   *)
(* copy and writing it back.  The rows outlive the process.                *)
(*                                                                         *)
(* The command line's schedule-once runs `tick` in a process of its own on *)
(* the same database: it executes every task it finds due, one after the   *)
(* other, and knows nothing of the server's queue.                         *)
(*                                                                         *)
(* The queue is GroupQueue with all its state and steps.                   *)
(***************************************************************************)
EXTENDS GroupQueue, FiniteSetsExt

CONSTANTS
  Kind,        (* schedule_type of each task: once, interval or cron       *)
  Every,       (* the interval of a task, or the grid of its cron rule     *)
  Cli,         (* whether the command line is used beside the server       *)
  MaxNow,      (* bound of the model: minutes                              *)
  MaxRestarts  (* bound of the model: restarts of the server               *)

ASSUME SchedulerAssumption ==
  /\ Kind \in [Tasks -> {"once", "interval", "cron"}]
  /\ Every \in [Tasks -> Nat \ {0}]
  /\ Cli \in BOOLEAN
  /\ MaxNow \in Nat /\ MaxRestarts \in Nat

Never == -1   (* next_run is NULL *)

VARIABLES
  now,
  row,          (* the table: status and next_run of each task             *)
  orphans,      (* tasks whose group_folder is no longer registered        *)
  due,          (* tasks the poll in progress has yet to look at           *)
  snap,         (* next_run in the copy of the row the queue holds         *)
  worked,       (* tasks whose agent is done and whose row is not written  *)
  cliDue,       (* tasks the tick in progress has yet to execute           *)
  cliRun,       (* the one it executes                                     *)
  cliNow,       (* the time it was given                                   *)
  cliSnap,      (* next_run of the rows it read                            *)
  carriedOut,   (* history: tasks the server's agents have done, except    *)
                (* those whose row it did not live to write                *)
  restarts

rowVars == <<row, orphans, carriedOut>>
cliVars == <<cliDue, cliRun, cliNow, cliSnap>>
lifeVars == <<worked, restarts>>
schedVars == <<now, rowVars, cliVars, due, snap, lifeVars>>
allVars == <<vars, schedVars>>

SchedInit ==
  /\ Init
  /\ now = 0
  /\ row = [t \in Tasks |-> [status |-> "absent", next |-> Never]]
  /\ orphans = {}
  /\ due = {}
  /\ snap = [t \in Tasks |-> Never]
  /\ cliDue = {} /\ cliRun = None /\ cliNow = 0
  /\ cliSnap = [t \in Tasks |-> Never]
  /\ worked = {} /\ carriedOut = {} /\ restarts = 0

Steady == due = {}
Exists(t) == row[t].status \in {"active", "paused", "completed"}
IsDue(t, time) == row[t].status = "active" /\ row[t].next # Never /\ row[t].next <= time

(* getDueTasks.                                                            *)
DueAt(time) == {t \in Tasks : IsDue(t, time)}

(***************************************************************************)
(* computeNextRun: never again, the next point of the task's own grid that *)
(* is after `time`, or of the cron rule's.                                 *)
(***************************************************************************)
NextFromNow(t, last, time) ==  (* mutant: the interval starts at the end of the run *)
  CASE Kind[t] = "once" -> Never
    [] Kind[t] = "interval" -> time + Every[t]
    [] Kind[t] = "cron" -> (time \div Every[t] + 1) * Every[t]

NextOneStep(t, last, time) ==  (* mutant: missed runs are caught up one by one *)
  CASE Kind[t] = "once" -> Never
    [] Kind[t] = "interval" -> last + Every[t]
    [] Kind[t] = "cron" -> (time \div Every[t] + 1) * Every[t]

NextRun(t, last, time) ==
  CASE Kind[t] = "once" -> Never
    [] Kind[t] = "interval" -> last + Every[t] * Max({1, (time - last) \div Every[t] + 1})
    [] Kind[t] = "cron" -> (time \div Every[t] + 1) * Every[t]

(* updateTaskAfterRun: a task without a next run is completed; a row that  *)
(* was deleted in the meantime stays deleted.                              *)
AfterRunUpserts(t, next) ==  (* mutant: the row is written back as a whole *)
  row' = [row EXCEPT ![t] = [status |-> IF next = Never THEN "completed" ELSE "active",
                             next |-> next]]
AfterRunNotCompleted(t, next) ==  (* mutant: the row of a once task is left alone *)
  row' = IF Exists(t) /\ next # Never THEN [row EXCEPT ![t].next = next] ELSE row

AfterRun(t, next) ==
  row' = IF Exists(t)
         THEN [row EXCEPT ![t] = [status |-> IF next = Never THEN "completed" ELSE @.status,
                                  next |-> next]]
         ELSE row

(***************************************************************************)
(* What the agents' tools and the command line do to the table.            *)
(***************************************************************************)

(* createOnce is given any time, the others compute the first one.         *)
Create(t) ==
  /\ Steady /\ row[t].status = "absent"
  /\ \E next \in 0 .. MaxNow :
       /\ Kind[t] = "interval" => next = now + Every[t]
       /\ Kind[t] = "cron" => next = (now \div Every[t] + 1) * Every[t]
       /\ row' = [row EXCEPT ![t] = [status |-> "active", next |-> next]]
  /\ UNCHANGED <<vars, now, orphans, carriedOut, cliVars, due, snap, lifeVars>>

SetStatus(t, status) ==
  /\ Steady /\ Exists(t)
  /\ row' = [row EXCEPT ![t].status = status]
  /\ UNCHANGED <<vars, now, orphans, carriedOut, cliVars, due, snap, lifeVars>>

PauseTask(t) == SetStatus(t, "paused")
ResumeTask(t) == SetStatus(t, "active")
CancelTask(t) == SetStatus(t, "deleted")

(* The group is registered again with another folder; its tasks keep the   *)
(* folder they were created with.                                          *)
MoveGroup(g) ==
  /\ Steady
  /\ \E t \in Tasks : Home[t] = g /\ Exists(t) /\ t \notin orphans
  /\ orphans' = orphans \cup {t \in Tasks : Home[t] = g /\ Exists(t)}
  /\ UNCHANGED <<vars, now, row, carriedOut, cliVars, due, snap, lifeVars>>

(***************************************************************************)
(* The polling loop.  It runs to its end without an await, so its steps    *)
(* are taken in a row: nothing else happens while due is not empty.        *)
(***************************************************************************)

Poll ==
  /\ Steady /\ ~shuttingDown
  /\ due' = DueAt(now)
  /\ due' # {}
  /\ UNCHANGED <<vars, now, rowVars, cliVars, snap, lifeVars>>

PollTask(t) ==
  /\ t \in due
  /\ \A u \in due : row[t].next <= row[u].next
  /\ due' = due \ {t}
  /\ \/ EnqueueTask(t) /\ snap' = [snap EXCEPT ![t] = row[t].next]
     \/ Known(t) /\ UNCHANGED <<vars, snap>>
  /\ UNCHANGED <<now, rowVars, cliVars, lifeVars>>

(* The agent has done the task's work, well or badly; the end of its turn  *)
(* and the sending of its result are awaited before the row is written.    *)
AgentDone(t) ==
  /\ Steady
  /\ running[Home[t]] = t /\ t \notin worked
  /\ worked' = worked \cup {t}
  /\ carriedOut' = carriedOut \cup {t}
  /\ UNCHANGED <<vars, now, row, orphans, cliVars, due, snap, restarts>>

(* The task of g settles: with its row written, or given up because its    *)
(* folder was not found when the run began, which leaves the row as it is. *)
(* Whether the folder was there then is open for a group that was moved.   *)
TaskReturns(g) ==
  LET t == running[g] IN
  /\ Steady
  /\ TaskSettled(g)
  /\ \/ t \in worked /\ AfterRun(t, NextRun(t, snap[t], now))
     \/ t \in orphans \ worked /\ UNCHANGED row
  /\ worked' = worked \ {t}
  /\ UNCHANGED <<now, orphans, carriedOut, cliVars, due, snap, restarts>>

(***************************************************************************)
(* tick, in the process of the command line: what it finds due at the time *)
(* it is given, which may lie ahead, is executed in turn.  It looks at the *)
(* rows once.                                                              *)
(***************************************************************************)

CliTick ==
  /\ Steady /\ Cli
  /\ cliRun = None /\ cliDue = {}
  /\ cliNow' \in now .. MaxNow
  /\ cliDue' = DueAt(cliNow')
  /\ cliDue' # {}
  /\ cliSnap' = [t \in Tasks |-> row[t].next]
  /\ UNCHANGED <<vars, now, rowVars, cliRun, due, snap, lifeVars>>

CliBegin(t) ==
  /\ Steady
  /\ cliRun = None /\ t \in cliDue
  /\ cliRun' = t
  /\ cliDue' = cliDue \ {t}
  /\ UNCHANGED <<vars, now, rowVars, cliNow, cliSnap, due, snap, lifeVars>>

CliReturns ==
  /\ Steady
  /\ cliRun # None
  /\ AfterRun(cliRun, NextRun(cliRun, cliSnap[cliRun], cliNow))
  /\ cliRun' = None
  /\ UNCHANGED <<vars, now, orphans, carriedOut, cliDue, cliNow, cliSnap, due, snap, lifeVars>>

(***************************************************************************)
(* Time, the other users of the queue, and the server's life.              *)
(***************************************************************************)

Advance ==
  /\ Steady /\ now < MaxNow
  /\ now' = now + 1
  /\ UNCHANGED <<vars, rowVars, cliVars, due, snap, lifeVars>>

Messages(g) ==
  /\ Steady
  /\ EnqueueMessageCheck(g) \/ MessagesDone(g)
  /\ UNCHANGED schedVars

Stop == Steady /\ Shutdown /\ UNCHANGED schedVars

(* A crash, or the end of a stopped server, and a new start.               *)
Restart ==
  /\ restarts < MaxRestarts
  /\ restarts' = restarts + 1
  /\ worked' = {}
  /\ carriedOut' = carriedOut \ worked
  /\ due' = {}
  /\ snap' = [t \in Tasks |-> Never]
  /\ running' = [g \in Groups |-> None]
  /\ pendingMessages' = [g \in Groups |-> FALSE]
  /\ pendingTasks' = [g \in Groups |-> <<>>]
  /\ retryCount' = [g \in Groups |-> 0]
  /\ retryTimers' = [g \in Groups |-> 0]
  /\ waitingGroups' = <<>>
  /\ activeCount' = 0
  /\ shuttingDown' = FALSE
  /\ shutdownCall' = "none"
  /\ UNCHANGED <<now, row, orphans, cliVars>>

SchedNext ==
  \/ \E t \in Tasks : \/ Create(t) \/ PauseTask(t) \/ ResumeTask(t) \/ CancelTask(t)
                      \/ PollTask(t) \/ AgentDone(t) \/ CliBegin(t)
  \/ \E g \in Groups : MoveGroup(g) \/ TaskReturns(g) \/ Messages(g)
  \/ Poll \/ CliTick \/ CliReturns \/ Advance \/ Stop \/ Restart

SchedSpec == SchedInit /\ [][SchedNext]_allVars

(* The loop polls again and again and finishes its polls, agents come to   *)
(* their end, runs settle and time passes.  Fairness of what waits for a   *)
(* poll to finish is strong: a poll is one uninterrupted stretch of code,  *)
(* so its inner states take no turn away from anybody.                     *)
SchedFairness ==
  /\ WF_allVars(Poll)
  /\ WF_allVars(\E t \in Tasks : PollTask(t))
  /\ SF_allVars(Advance)
  /\ \A g \in Groups :
       SF_allVars(\/ \E t \in Tasks : Home[t] = g /\ AgentDone(t)
                  \/ TaskReturns(g)
                  \/ Steady /\ MessagesDone(g) /\ UNCHANGED schedVars)
SchedFairSpec == SchedSpec /\ SchedFairness

-----------------------------------------------------------------------------

(* Types of the columns and of the loop's locals.                          *)
SchedTypeOK ==
  /\ now \in 0 .. MaxNow
  /\ row \in [Tasks -> [status : {"absent", "active", "paused", "completed", "deleted"},
                        next : Int]]
  /\ orphans \cup due \cup cliDue \subseteq Tasks
  /\ cliRun \in Tasks \cup {None}
  /\ snap \in [Tasks -> Int]
  /\ worked \cup carriedOut \subseteq Tasks

(* What the queue executes was due: the copy of the row in the queue says  *)
(* so whatever happened to the row since, and without the command line the *)
(* row itself still has the time of the copy, so the next run is computed  *)
(* from the row's last one.                                                *)
QueuedWasDue ==
  \A t \in Tasks : Known(t) =>
    /\ snap[t] # Never /\ snap[t] <= now
    /\ ~Cli => row[t].next = snap[t]

(* The server carries a once task out again only if it had ended between   *)
(* the end of the task's agent and the write of its row; not because the   *)
(* task is paused and resumed at any moment, completed and resumed, queued *)
(* twice, or interrupted by a restart before its work was done.            *)
OnceRunsOnce ==
  [][\A t \in Tasks :
       ~Cli /\ Kind[t] = "once" /\ t \in worked' \ worked => t \notin carriedOut]_allVars

(* An interval task keeps its phase: however long runs take, however many  *)
(* due times are missed, and whoever executes it, its times stay on the    *)
(* grid it began with.                                                     *)
PhaseKept ==
  [][\A t \in Tasks : Kind[t] = "interval" /\ Exists(t) =>
       (row'[t].next - row[t].next) % Every[t] = 0]_allVars

(* A run of the server leaves its task's next time in the future: a        *)
(* recurring task whose due times were missed runs once for all of them    *)
(* and not once for each.  (The command line counts from the time it was   *)
(* given, which may have passed when it writes.)                           *)
NoBacklog ==
  [][\A t \in Tasks :
       row'[t].next # row[t].next /\ row[t].status # "absent" /\ cliRun' = cliRun =>
         row'[t].next > now \/ row'[t].next = Never]_allVars

(* A pause or a cancellation while the task runs is not undone when the    *)
(* run ends: a recurring task stays paused, a deleted one deleted.         *)
StatusStands ==
  [][\A t \in Tasks :
       /\ row[t].status = "deleted" => row'[t].status = "deleted"
       /\ row[t].status = "paused" /\ Kind[t] # "once" /\ ~ResumeTask(t) =>
            row'[t].status \in {"paused", "deleted"}]_allVars

(* An active task that falls due is executed or its row is changed; a      *)
(* restart does not lose it.  Not so if its folder is gone or the server   *)
(* stops, or if its group waits for a slot for good while the groups that  *)
(* run always have more work of their own (WaitingIsServed).               *)
DueTaskIsExecuted ==
  \A t \in Tasks :
    IsDue(t, now) ~> \/ ~IsDue(t, now) \/ t \in orphans \/ shuttingDown
                     \/ [](AtLimit /\ Home[t] \in Range(waitingGroups))

(* Work in a group is one at a time, scheduled or not.                     *)
GroupRunsAlone == \A t \in Tasks : cliRun = t => ~Active(Home[t])
=============================================================================
