# Verification of NanoClaw's host

NanoClaw (`src/`) is a Node.js host that connects chat channels to an agent.
Every chat group has its own agent container; the host stores messages, decides
when a group's container runs, executes scheduled tasks, and carries out the
tool requests of the agents.  This directory holds a model of the host in TLA+,
the TLC runs that check it on small instances, and TLAPS proofs about its core.

JavaScript runs to completion between two `await`s.  One action of a model is
one such stretch of code: a public method up to its first `await`, a timer's
callback, the continuation of an `await`, a `finally` block with everything it
calls.  Concurrency in the host is the interleaving of these stretches, plus
crashes and, for the database, a second process (the command line).

## 1. Inventory

| component | source | state | operations | works with |
|---|---|---|---|---|
| run queue | `src/src/group-queue.ts` | per group: active, pending messages, pending tasks, retry count; `activeCount`, `waitingGroups`, `shuttingDown` | enqueueMessageCheck, enqueueTask, end of a run, retry timer, shutdown | called by message loop and scheduler; calls their callbacks back |
| message loop | `src/src/orchestrator.ts` (onMessage, processMessagesFn, handleInbound, start, stop), messages table of `db.ts` | messages, last bot message, cursor per group; the batch of a running loop | receive, store, read a batch, handle one message, recover at start | channels, run queue, agent execution |
| scheduler | `src/src/task-scheduler.ts`, `scheduled_tasks` of `db.ts`, tick in `orchestrator.ts` and `index.ts` | rows with status and next run; copies of rows in the queue | create, pause, resume, cancel, poll, execute, write back | run queue, agent execution, command line |
| group registry | `orchestrator.ts` (registerGroup, syncRegisteredGroups), `registered_groups` of `db.ts` | rows of the table, with a unique folder; entries in memory | register, set a model, change mounts, synchronise, start with default groups | everything that addresses a group; a second process on the table |
| agent execution | `runTaskForGroup`, `codex-runtime.ts`, `container-runner.ts` | execution record, container, event and request files | start, poll, cancel, finish | tool requests, credentials |
| tool requests | `tool-handler.ts`, control plane in `orchestrator.ts` | none of its own | send, schedule, pause, register, with authorization by source group | scheduler, registry, channels |
| provider credentials | `auth/*.ts`, `provider_auth` of `db.ts` | one row of a table; logins under way with their callback server; what containers were given | refresh, OAuth login, device login, logout | agent execution, main group's commands, command line, the issuer of tokens |
| web gateway | `web-gateway.ts`, `channels/web-channel.ts` | sockets, sessions, subscribers, rate limit buckets | connect, close, stop | group registry, message loop, orchestrator's stop |
| remote control | `remote-control.ts` | session, child process, state file | start, restore, stop | not called by the host at this commit |
| IPC watcher | `ipc.ts` | request files | poll, process | not started by the host at this commit |
| mount and sender policy | `mount-security.ts`, `sender-allowlist.ts` | none | decide | agent execution, channels |

Configuration, logging, formatting, setup scripts and the program inside the
container are listed in `PROJECT.json` and have no behaviour over time that
the host's correctness rests on.

**What is hard.**  The queue's bookkeeping is spread over a counter, a list and
per-group fields that four kinds of events change in any order; retries come
from timers that outlive the situation they were armed in; a message is stored,
announced, read and handled in four different steps, with a crash possible
between any two; the cursor moves before the work it stands for is done; a
queued task is executed from a copy of its row; a second process works on the
same rows.  A registration that takes a used folder deletes another group's row,
while memory keeps the group.  The credential is one row that several turns
refresh at once, each over several awaits, with refresh tokens that may be good
for one use; logins and logouts replace it meanwhile, and codex refreshes copies
of it in containers.  A login waits for a browser, a timer and a user at once,
on a port there is one of.

**What makes each component correct.**

* Run queue: the limit, no lost wake-up, no idle slot, no duplicate task, tasks
  before messages, bounded retries that are never forgotten, a shutdown that
  waits for the last run and does finish.
* Message loop: what is stored is read after any interleaving and any crash,
  messages are given to the agent at most once and in the order of their times, a
  batch belongs to one run and only a rejection or a crash drops it, nothing is
  passed over unread in the absence of faults.
* Scheduler: what runs was due, a once task whose row was written runs no more,
  missed times do not pile up, intervals keep their phase, a pause or cancellation
  is not undone, a due task is executed unless its group starves.
* Group registry: the memory has every row as the table has it, but for what
  another process has just changed; of groups that share a folder at most one
  has kept its row; nobody but the main group ever gets its rights; an agent
  elsewhere changes its own group and tasks only.
* Agent execution: events arrive once and in order, none is left behind, a
  request is carried out once, the record claims no false success, a turn ends.
* Credentials: the row keeps a refresh token the issuer accepts; the last login
  or logout decides whose it is; a login frees its port, forgets its tokens and
  ends, unless an await without a limit keeps it up.
* Web gateway: the group of a connected user is in memory; stop() ends, whatever
  connected users do.

The hazards these properties answer to are listed with their lines in
`PROJECT.json`.

## 2. Modules

| module | models | extends |
|---|---|---|
| `RunContract` | what the run queue promises, without waiting list, counters or timers | |
| `GroupQueue` | the run queue | |
| `GroupQueueProps` | its properties and the refinement of `RunContract` | `GroupQueue` |
| `GroupQueueProofs` | theorems about it | `GroupQueueProps` |
| `DeliveryContract` | what the host promises about messages, without clock, cursors, queue or process; a theorem about it | |
| `MessageLoop` | messages, cursors, batches and the life of the process, around the queue; the refinement of `DeliveryContract` | `GroupQueue` |
| `MessageLoopProofs` | theorems about it | `MessageLoop`, `GroupQueueProofs` |
| `Scheduler` | rows, polling loop, command line, around the queue | `GroupQueue` |
| `SchedulerProofs` | theorems about it | `Scheduler`, `GroupQueueProofs` |
| `AgentTurn` | one turn of an agent: host, agent-runner and tool processes over their files | |
| `AgentTurnProofs` | theorems about it | `AgentTurn` |
| `GroupRegistry` | rows and entries of groups, what commands and tool requests do to them, authorization | |
| `GroupRegistryProofs` | theorems about it | `GroupRegistry` |
| `WebGateway` | connections, sessions, subscriptions and stop, around the registry | `GroupRegistry` |
| `WebGatewayProofs` | it implements the registry; theorems | `WebGateway`, `GroupRegistryProofs` |
| `Credentials` | the provider's credential, its refreshes, logins and logouts, and its issuer | |
| `CredentialsProofs` | theorems about it | `Credentials` |
| `MC*` | the instances | |

### GroupQueue

`running[g]` is `active`, `isTaskContainer` and `runningTaskId` of a
`GroupState` in one value: nothing, a message run, or a task.  The code sets
and clears the three together.  `enqueueMessageCheck` is `EnqueueMessageCheck`
(`MessageCheck` is its body, which a retry timer also runs), `enqueueTask` is
`EnqueueTask`; each has a disjunct for every branch of the code.  A run is the
synchronous start, which is part of the step that starts it, and its end:
`MessagesDone`, `MessagesFailed` (with `scheduleRetry`) and `TaskSettled`, each
with the whole `finally` block in `Release`: the slot, `notifyIfIdle`,
`drainGroup` and `drainWaiting`.  `Popped` says how far `drainWaiting`'s loop
shifts the list: to the first point where the free slots are used or the list is
empty.  `registerProcess`, `notifyIdle` and `sendMessage` have no caller at this
commit; without them `groupFolder` stays null and `closeStdin` returns at once.

### MessageLoop

The queue with the database around it.  Each action that lets the queue start a
message run conjoins `ReadBatches`, because `processMessagesFn` reads its batch
and saves the cursor before its first `await`.  The query orders by time and by
nothing else, so `ReadResults` has every outcome it may have: all that is unread,
or any window of it that leaves out no newer message; a batch is handled from the
earliest time on, and messages of one millisecond in any order (`Handling`).  A
message is its time and whether it calls the agent (it carries the trigger, from
an allowed sender, or its group needs no trigger).  `booting` are the checks
`start()` has yet to queue; no other action is possible in between.  `Down`
empties what is in memory and leaves the database.  What may go wrong is a
parameter, `Faults`, so that a run can say under which faults its properties
hold.

The loop implements `DeliveryContract`, in which a group has a log of messages
with their times; the newest are taken in hand and given one by one in the order
of the times.  The log is the stored messages (`Times`), what is read is what the
cursor is behind (`BehindCursor`), what is in hand is the batch of the running
loop, and what was given is `attempted`.  The contract is `Lossless` when no
fault is possible and one read returns all there is (`NothingGoesWrong`);
otherwise a message may be lost in four ways and no other: the batch it is in is
forgotten, by a crash or a rejection (`Forgets`); a read is full and left it out
for messages no older (`Full`); nothing was read from its group yet and it is no
later than the bot's last message (`Hidden`); it has the time of a message that
was read (`Overlooks`).  The contract does not ask for these losses and does not
excuse others: a read that is not full leaves out nothing but hidden messages, a
group that was read from before has no hidden ones, and what has a later time
than everything read is never overlooked.

### Scheduler

A row is a status and `next_run`; time is in minutes of the model.  `Poll` reads
the due rows and `PollTask` enqueues them in the order of the query; the loop has
no `await` between these steps, so nothing else is enabled while `due` is not
empty.  `snap` is `next_run` in the copy of the row the queue holds, from which
`runScheduledTask` computes the next run.  Between the end of a task's agent
(`AgentDone`) and the write of its row (`TaskReturns`) the code awaits the end of
the turn and the sending of the result; `worked` are the tasks in that window,
and a restart may fall into it.  `carriedOut` is history: what was done and not
interrupted in the window.  `CliTick`, `CliBegin` and `CliReturns` are `tick` in
the command line's process.  `MoveGroup` gives a group another folder, after
which its tasks find no group and return early.

### AgentTurn

One call of `runTaskForGroup`, from its execution record to the record's final
status, with `ContainerRunner.run` inside it.  `host` is the place the two
generators have reached; every `await` on the way is a value of it.  The other
side is the agent-runner (`agent`, from its start to its exit) and one
`nanoclaw-tool` process per call that codex makes (`tool[r]`).  They share files:
`events` is the events file, `requests` and `responses` the two directories,
`marker` is `done.json`.  A file is not written in one go, so what a reader may
find half written is a disjunct of its own: `ReadHalfEvent`, `ReadHalfRequest` (a
request that exists and is empty), and `ToolFails` for a response.  A half line
may have whole lines before it, which are handed on before it is parsed.
`executor` is chosen in `Init`: the container engine, whose client turns a signal
into an exit code, or a plain process, for which Node reports no code.  With the
container engine the child is the client of `docker exec`
(`container-runner.ts:59`), and the code takes the client's exit for the agent's
end (`container-runner.ts:170`); the model does too, so a client that dies while
the agent goes on is not in it.  `Abort` is what every exception does: the loop
over the events is left, nothing behind it runs, the record says failed.  An
event is a message, an error, `done` or anything else (`note`, what a tool
process may still append after the end); requests are answered in any order
`readdir` gives.  After the host is over the child's `close` is not followed any
more.  `cancel` has no caller at this commit and is left out, and so are a crash
of the host in the middle of a turn and a container engine that fails to remove a
container.

### GroupRegistry

`table` has the rows of `registered_groups`, `registeredGroups` the server's
memory; both are functions on the groups they know.  `Put` is
`setRegisteredGroup`: `INSERT OR REPLACE` takes the place of the group's own row
and of any row with the same folder.  `Synced` is `syncRegisteredGroups`, which
adds and replaces entries and removes none.  `Register` is `registerGroup` with
what its callers add for a group that needs no trigger; `WriteAndSync` is a
change of a model or of mounts, both of which read the row and not the memory.
`Boot` is `createOrchestrator` with the default groups it registers, the control
group after the others (`WithDefaults`), since either may take the other's row.
What a main group's commands do is `MainCommand`, what a tool may ask for in the
name of the group of its execution record is `ToolRequest`, and `Authorized` is
the check both task and mount requests pass; the mounts themselves are reduced to
what `validateMount` grants.  `OtherStarts` and `OtherCommand` are a second
process with an orchestrator of its own, such as the command line's `send`;
`foreign` remembers whom it changed since the server last looked.

### WebGateway

The registry with the users of the web gateway, each a group `web:<user>` whose
folder name is computed from the id and may be the same for two ids.  `Connect`
is the upgrade of a connection with `handleSocket`: registration, session,
subscription; before it the connection was taken by the server (`Accept`).
`Stop`, `GatewayStop` and `Exit` are the part of the orchestrator's `stop()` the
gateway takes: the queue drains (connections may still be made), the server is
closed with the sockets the gateway knows, and the process ends when the server
has lost its last connection.  `server.close()` only refuses new connections: one
that was accepted before may still be upgraded, or stay as it is.

### Credentials

`store` is the row of `provider_auth`.  `refreshIfNeeded` is three steps:
`Call` reads the row, `IssuerAnswers` is the request at the issuer, and
`AnswerArrives` writes the answer over whatever the row holds by then.  A login
is a chain of phases (`login[p]`) in the server or on the command line:
`LoginStarts` opens the callback port if it is free, the wait for the browser
ends by `GoodCallback`, `BadCallback` or `CallbackTimeout`, a code may be pasted
on the command line, a device login polls, and `Exchanged` and `LoggedIn` fetch
and store the tokens.  `Ends` is the `finally` block up to its `await`: the port
is free from then on, and the login returns when the connections of the browser
are closed (`Closed`).  The issuer is external and
either rotates refresh tokens or does not (`rotates`, chosen in `Init`).
Containers are given a copy of the credential and may refresh it themselves.
`lost`, `lastWord`, `overtaken` and `undone` are history: they name the
exceptions of the properties and change nothing.

## 3. Runs

| run | instance | shows |
|---|---|---|
| `queue_safety` | 3 groups, 2 tasks of one group, 2 slots, 1 retry | the invariants of the queue, the refinement (tasks before messages is part of it), shutdown completes, an unfed queue comes to rest |
| `queue_starvation` (violation) | 2 groups with a task each, 1 slot, 2 retries | a waiting group need not be served |
| `loop_safety` | main group and chat, 1 task, 1 slot, 3 messages, 2 starts, window 2, all faults | unread calls are pending, messages are handled once and in the order of their times, only rejections and crashes drop messages of a batch, the contract of delivery is implemented |
| `loop_delivery` | the same without faults, window 3 | nothing passed over, every call handled |
| `loop_retry` (violation) | the same with rejections | a failed run's messages are not retried |
| `scheduler_server` | two groups sharing one slot, a once task of one and an interval task of the other, messages of both, 2 minutes, a restart | a once task is repeated only by a restart between its work and the write of its row, due tasks are executed unless their group starves |
| `scheduler_cli` | a cron and an interval task, server and command line | phase, pauses and cancellations under two writers, missed times do not pile up |
| `scheduler_alone` (violation) | the same | command line and server run in one group at once |
| `turn_protocol` | a turn with two tool calls, either executor | events once and in order, none left behind, requests carried out once, no false success, turns end, calls are answered |
| `turn_outlives` (violation) | the same | an exception leaves agent and container |
| `registry` | main group and two web users with one folder name, 2 folders, 1 task, a second process, 3 changes | memory follows the table, sharers of a folder lost their row, only the control group is main, ordinary groups are confined, connected users are served, stop ends but for connections that were never upgraded |
| `credentials` | 2 turns, server and command line with an account each, 2 refresh tokens, lost answers, crashes, refreshing containers, either policy | the row is not stranded, the last word counts, the port is freed, logins end but for awaits without a limit |

**Bounds.**  `MaxTimers` retry timers may be pending for a group; more than one
occur because a message check that succeeds in starting a run does not clear an
older timer.  Three groups on two slots are the smallest instance where a slot
can be handed to another group while a third keeps running, and where
`waitingGroups` orders two groups.  Two tasks in one group are needed for the
order and for duplicates.  In the message loop two groups on one slot make each
wait for the other; three messages allow a batch of two after or before another
one; a window of two then cuts one off, and with two or three of one millisecond
the cut has more than one outcome; two starts allow one crash or stop with
recovery.  `MaxClock` bounds stored messages together with `MaxMessages`.  In the
scheduler beside the command line, periods of 2 and 3 in four minutes give two
due times of each task and a missed one.  For the server alone two groups contend
for one slot, so that a due task may wait for a run of the other group, or for
good; an interval of a minute makes the one task due again while it runs, and the
restart may fall into the window between a task's work and the write of its row.
Two minutes are two due times with one more under way.  A turn needs no bound but
the number of tool calls: two of them let one be listed, carried out and answered
while the other is being written; the longest events file then has eight events.
In the registry `MaxChanges` counts registrations, changes and task requests
together: three are a registration that takes another group's folder, a change of
the group that lost its row, and one that brings it back, with any number of
connections, syncs, restarts and crashes in between; two users with one folder
name give the same by connecting.  The theorems of `GroupRegistryProofs` say that
more changes add nothing.  Two turns, two accounts and two refresh tokens
(`MaxIssued`) are one login and one rotation, or two logins, with two refreshes
under way during either; a longer chain of rotations is left to the theorems,
which hold for every `MaxIssued`.  All runs set `CHECK_DEADLOCK FALSE`: the
system may really stop, after a shutdown or when nobody asks for anything, and
the bounds stop it too.

**Fairness.**  Queue: a run's promise settles (`WF` of `RunSettles`) and an armed
timer fires (`WF` of `RetryTimerFires`); both are Node's event loop, given that
the callback settles, which agent execution owes.  Nobody is obliged to send,
schedule or stop.  `RunSettles` is one action, so a run may fail every time.
Message loop: the same, and `start()` finishes queueing its checks; `Boot` is not
fair (the service files restart the host, an operator may not). `CallsAreHandled`
therefore excuses a process that is stopped or down, and assumes that task
requests end, because of the starvation that `queue_starvation` shows.
Scheduler: the loop polls and finishes its poll, agents come to their end, runs
settle, the clock advances.  What waits for a poll to end has strong fairness:
the intermediate states of a poll are no turns of the event loop, so they may not
count as moments in which others were disabled.  A restart is not fair;
`DueTaskIsExecuted` holds with and without one.  It excuses a server that stops,
a task whose folder is gone, and a group that stays in the waiting list for good
while the slots are taken, the starvation of `queue_starvation`, which the
instance has room for.  Agent turn: the host's promises settle, the agent-runner
and the tool processes proceed, and a dead child's `close` is emitted.  That
codex comes to an end is its time limit's doing (`AgentStep` includes its failure
and not its success), given that it obeys the signal.  Nothing obliges a process
to die or a channel to refuse.  `TurnEnds` excuses the one case the code does not
end: without the container engine, an agent that is killed has no exit code, and
the loop waits for one.  Gateway: the queue's shutdown completes
(`queue_safety`), a socket that was told to close is closed or terminated by its
library, and `stop()` goes on; a browser may stay connected for ever, with or
without a complete request.  `StopEnds` therefore excuses a connection that was
accepted and not upgraded when the sockets were closed: nobody closes it, and
while it lasts `stop()` waits.  Credentials: the five-minute timer of the
callback fires and granted tokens are stored (`LoginProceeds`); users, browsers,
the issuer and the command that opens the browser owe nothing.  `LoginEnds`
excuses a login that one of the code's awaits without a limit (`Unlimited`) keeps
up for good: that command, the prompt, the polls of a device, the exchange of the
code, and the browser's connections, which the end of a login waits for.  What it
claims is that nothing else does, and that the wait for a callback always ends.

## 4. What is proved

All theorems are for every value of the constants, from the assumptions named in
the modules.  Every invariant, action property and refinement that a passing run
checks is also a theorem.  Out of the prover's reach, hence checked by TLC only,
is liveness under fairness: `ShutdownCompletes`, `ComesToRest`,
`CallsAreHandled`, `DueTaskIsExecuted`, `TurnEnds`, `CallsAreAnswered`,
`StopEnds` and `LoginEnds`.  The type invariants of `MessageLoop` and
`Scheduler` and the properties `BatchIsOwned` and `QueuedWasDue` are theorems
that no run checks by themselves: they are parts or consequences of the
invariants below.

### The run queue (`GroupQueueProofs`)

For all groups, tasks, limits and retry bounds (finitely many groups, a limit of
at least one, tasks distinct from the two special values of `running`, each with
a home group):

* the safety properties that `queue_safety` checks: `TypeOK`, `ConcurrencyLimit`,
  `WaitingSound`, `NoLostWakeup`, `WorkConserving`, `NoDuplicateTask`,
  `ShutdownQuiescent`, `FailureKeepsRetry`;
* the action property `TasksBeforeMessages`, which no run checks by itself: the
  contract has it, and `queue_safety` checks the contract;
* `QueueImplementsContract`: every behaviour of the queue is one of
  `RunContract`.

The invariant is `QueueInv`.  None of its parts is inductive alone.  The end of
a run starts a group from the list without looking at it, so the count stays
right only because of `WaitingSound`; `WaitingSound` survives a new entry only
because an idle group off the list has no work (`NoLostWakeup`); and a freed slot
goes to exactly one waiting group because no slot was free before
(`WorkConserving`).  That last fact is also what tames `drainWaiting`'s loop:
`PoppedOne` shows that it shifts exactly one entry, so `ReleaseCases` splits the
end of a run into three: the group keeps its slot, hands it to the first waiting
group, or frees it.  Each case is a lemma.  Retry counts need nothing from the
rest and have an invariant of their own (`RetryTypes`); that failures are not
forgotten is proved group by group (`RetryPromised`).

### The message loop (`MessageLoopProofs`, `DeliveryContract`)

For any groups and tasks, any window, any number of messages and starts and every
choice of `Faults`.  First, the queue's invariant carries over
(`QueueInvariantInLoop`): a step of the loop is a step of the queue, or it leaves
the queue alone, or it puts it back into its initial state.  So do the queue's
contract (`LoopKeepsRunContract`: every step is one of the contract's, but for
the end of a process, after which the next one begins where the contract begins)
and the limit (`LimitHoldsInLoop`).

`LoopInv` adds what the database and the callbacks owe each other.  Stored times
only grow, strictly where ties are excluded (`StoreSound`); what was read lies
behind the cursor, and what was attempted before what is in the batch
(`ReadSound`); a batch has the message run of its group (`BatchHasRun`), so that
nobody reads a second one while it is handled.  `UnreadIsPending` needs
`ReadSound` and the queue: an unread call is pending in the queue or among the
checks of the boot, and the run that is started leaves none, because a cursor
moves to the newest time of what it read and nothing older is stored later.
Since ties are left open, "an unread call" is one that every outcome of the read
would find (`ReadFacts` says what those outcomes have in common).  From the
invariant follow `HandledOnceInOrder`, `BatchIsOwned` and `NothingPassedOver`.
Two are action properties.  `CursorOnlyForward`: no step, crash, retry or
recovery takes a cursor back.  `OnlyFaultsDropBatches` (theorem
`BatchesAreFinished`): a message stays in its batch until the agent is given it,
unless `handleInbound` rejects or the process crashes; the exit after `stop()`
drops none, because a drained queue has no run and a batch has one.

`LoopImplementsDelivery` proves `LoopSpec => ImplementsDelivery`, step by step:
storing a message is `Grows` (and `Overlooks`, if it has the cursor's time),
reading a batch is `Takes` (`ReadingDelivers`, for every outcome of the read),
handling a message is `Gives`, and a crash or a rejection is `Forgets`.  The one
step that is two of the contract's for one group, a message that arrives and is
read at once, is why `Takes` speaks of the new log.  The contract is strict where
nothing goes wrong, so this includes the absence of loss; elsewhere it bounds
each loss to its cause.  `ContractDelivers`, about the contract alone, says that
it is worth implementing: whoever keeps it gives every message at most once and
none after a later one, and loses none when `Lossless`.

### The scheduler (`SchedulerProofs`)

For any tasks of any kind and interval, any length of time, any number of
restarts, with the command line and without.  Again the queue's invariant and its
contract carry over (`QueueInvariantInScheduler`, `SchedulerKeepsRunContract`).
`SchedInv` is about copies: of a task the queue holds, or the command line has in
its list, the copy is of a row that exists, its time had come when it was taken,
and it is on the task's grid of times (`CopySound`, `CliSound`, `GridSound`);
without the command line the row still has the time of the copy, because nothing
but the task's own run writes it and the queue holds a task once
(`NoDuplicateTask`).  `OnceRunsOnce` follows for a server alone: a once task that
was carried out either has its run still under way or is out of the queue with
its row deleted or without a time (`OnceSound`), through pauses, resumptions and
restarts.  Only a restart between a task's work and the write of its row opens
the way to a second execution; that window is the property's one exception.  The
action properties are proved row by row from `RowChanges`, which lists who writes
a row at all: `PhaseKept` by the arithmetic of `computeNextRun` on the grid,
`NoBacklog` because the server computes from the present and not from the due
time, and `StatusStands` because the write at the end of a run touches the status
of a once task only.

### An agent's turn (`AgentTurnProofs`)

For any set of tool calls and either executor: `TurnTypeOK`, `EventsInOrder`,
`NothingUnsaid`, `CompletedIsTrue` and `CarriedOutOnce`.  `TurnInv` tells three
stories.  What was delivered and what was read is the part of the events file
before the offset (`EventsFollow`).  What tells the host that the agent is at its
end, be it the marker, an exit code or the close event, is true when it is seen
and stays true (`EndsKnown`): behind it only tools speak (`AgentLeaves`), so the
one read the host does after it has seen an end finds all the agent had to say
(`Heard`), and a record that says completed has seen every error (`ErrorsCount`).
The requests that were carried out are those in `seen`, each once
(`RequestsOnce`); that a listing never offers a request that was seen is the part
that makes it inductive.

### Groups and the gateway (`GroupRegistryProofs`, `WebGatewayProofs`)

For any groups, folders, default groups (with distinct folders, the control
group among them) and tasks: `MemoryFollowsTable`, `OnlyControlIsMain`,
`SharersLostTheirRow` and `OrdinaryGroupsTouchOnlyThemselves`.  The invariant
`RegInv` adds that folders are unique in the table (`FoldersUnique`), the fact
that the deletions in `Put` and `WithMissing` keep: without it a write could
remove a second row the memory still has, and `MemoryFollowsTable` would say
nothing about groups that share a folder.  That an ordinary group is confined
needs it too: a change of mounts rewrites a row with its own folder, which
removes nobody else's because nobody else's row has it.

`GatewayRespectsRegistry` proves `WebSpec => RegSpec`: a user who connects is a
registration the main group could have asked for (`ConnectIsCommand`), so all of
the above holds with the gateway running.  `UsersAreServed` then needs only that
nothing but the end of the process takes a group from the memory
(`MemoryGrows`) and that the process ends with its sockets.

### The credential (`CredentialsProofs`)

For any number of turns refreshing at once, any accounts and tokens, either
policy of the issuer and every mishap: `CredTypeOK`, `PortFreed`, `NotStranded`
and `LastWordCounts`.  `NotStranded` is about a race, and the argument is one of
secrecy: while a refresh token is on its way to the row, no row, request or
container knows it, and no two answers carry the same one (`TokensArePrivate`),
so nobody can use it up before it arrives; and a token that is used up while it
is in the row has its successor on the way, or the loss of the successor is
recorded.  That needs the issuer never to repeat a token (`TokensIssued`) and to
accept what it has just handed out (`PendingLive`).  `LastWordCounts` rests on
`WordsFollow`: an answer is for the account that was asked about, and a turn that
asked after the last login or logout asked about that one.

## 5. What the code does that may surprise

Four runs end in a counterexample; each contradicts something the repository
says (`findings` in `PROJECT.json`).

* A group that is asked for again during each of its runs keeps its slot for
  good, because `drainGroup` looks at the group's own work first.  The contract
  that `RunContract` states has no promise of service for this reason.
* `processMessagesFn` saves the cursor before it handles the batch.  When
  `handleInbound` rejects, the retry finds nothing to read.
* `tick` executes tasks outside the run queue.
* A turn that ends by an exception (a channel refuses a message, a file is read
  before it is complete) leaves its agent running and its container in place, and
  the group's slot goes to the next run.

The model also shows, without contradicting any text, how a stored message can
stay unanswered: a crash in the middle of a batch; a message stored in the
millisecond of the last one read; more messages than one read returns, of which
the newest are taken; and, for a group that has no cursor yet, a message of the
bot that is stored after the call and before the read.  `NothingPassedOver` is
stated for an empty `Faults` and, group by group, while its messages fit into one
read; with any of these it fails.  The contract of delivery names each of these
losses.  A once task is carried out again if the server ends between the end of
the task's agent and the write of its row, and so would be an interval task for
the same due time.  The scheduler executes a task that is paused or deleted while
it waits in the queue; the row then keeps its status (`StatusStands`), a once
task becomes completed.  A task whose group lost its folder is enqueued again at
every poll.  When `createSession` rejects, the execution record stays queued.  A
codex that fails without any output leaves a record that says completed.  A
request that is written after the last listing of a turn is never answered; the
tool process ends with its container, or waits on if there is none. The client of
`docker exec` stands for the agent: when only the client dies, the code takes the
agent for ended.

`stop()` closes the sockets the gateway knows and waits for every connection the
server has.  One that was accepted before and is upgraded after, or never, is
closed by nobody, and `stop()` waits as long as it lasts.  A login likewise
returns only when the browser has let go of its connections, though its port is
free by then; and a device login polls, and an exchange waits, without a limit of
its own.

Of groups: `GroupRegistry` states two more properties that no run checks because
the code does not have them, each refuted in a few steps.  `FoldersAreSeparate`:
a group that is registered with a used folder, or a second web user whose id
gives the same folder name, takes the row; both groups are in memory and work in
one folder until the next start, when only the newcomer is left
(`docs/SECURITY.md:24` says that groups do not share writable folders).
`ControlStaysMain`: the main group can be registered again like any other and is
then no main group, in the table too, and no command gives the rights back.
`MemoryFollowsTable` excepts what another process changed, and so does
`SessionIsServed`: a user whose group is known from such a row only is connected
without an entry in memory, and not served if the row is replaced before the next
sync.

Of credentials: a refresh that was under way during a logout writes the row
again, and one that was under way during a login replaces the new account by the
old (`LastWordCounts` names this exception).  Of two turns that refresh at once
with an issuer that rotates, the second is refused, and that turn fails.  A
container that refreshes its copy strands the row.  A callback that comes before
the command that opens the browser has returned and that carries an error rejects
a promise nobody awaits yet, which ends the process; a good callback after the
wait is over is welcomed and ignored.  In the main group a device login shows the
code to enter only when it is over, so it can only expire there.

## 6. Not modelled, and the plan

Left out because no step of the program takes it: remote control
(`remote-control.ts`) and the IPC watcher (`ipc.ts`), which no file of `src/src`
imports at this commit; `registerProcess`, `notifyIdle` and `sendMessage` of the
run queue; `cancel` of the container runner.  Left out because nothing about them
unfolds in time: configuration, logging, formatting, setup scripts, static files,
the browser client.

What remains, in this order:

1. Around `AgentTurn`: `cancelTask` on the execution record against the end of
   the turn, and the records a crash of the host leaves behind.
2. Two processes on the message tables: the command line's `send` saves the
   whole map of cursors.
3. A contract of the scheduler (for each task a due time, an execution and its
   next time) that hides the queue and the copies of rows, as `DeliveryContract`
   hides cursors and batches.
4. The gateway's rate limit and the connections it refuses.

Abstracted throughout: texts, prompts, logging, file formats, the agent's
answers, and the delays of timers (a timer may fire at any time after it was
armed).  Invalid interval values, which `computeNextRun` replaces by a minute,
API keys, and rows with an invalid folder are left out.
