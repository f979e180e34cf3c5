---------------------------- MODULE MessageLoop -----------------------------
(***************************************************************************)
(* How a chat message travels from its channel to the agent, around the    *)
(* run queue (src/src/orchestrator.ts, src/src/db.ts): a channel's message *)
(* is stored and a check of its group is queued; the group's message run   *)
(* reads what was stored since the group's cursor, moves the cursor to the *)
(* last message it read, saves it, and hands the messages to handleInbound *)
(* one after the other.  Messages and cursors are in the database and      *)
(* outlive the process; the queue and the batches of running loops do not. *)
(* The database orders messages by their time alone: among those of one    *)
(* millisecond it may return and cut off any.                              *)
(*                                                                         *)
(* The queue is GroupQueue with all its state and steps.  A step of it     *)
(* that starts a message run includes the synchronous prefix of            *)
(* processMessagesFn, which reads the batch.                               *)
(***************************************************************************)
EXTENDS GroupQueue, FiniteSetsExt

CONSTANTS
  Triggerless,   (* groups that need no trigger word: the main group and   *)
                 (* those with requiresTrigger false                       *)
  MainGroups,    (* groups whose agent may write to every group            *)
  Window,        (* how many messages one read returns (200)               *)
  Faults,        (* what may go wrong: a subset of AllFaults               *)
  MaxMessages,   (* bound of the model: messages in all                    *)
  MaxClock,      (* bound of the model: milliseconds                       *)
  MaxBoots       (* bound of the model: starts of the process              *)

(* crash: the process dies.  throw: handleInbound rejects, as it does when *)
(* the provider's credential is missing or the channel is gone.  tie: two  *)
(* messages in one millisecond.  bot: an agent writes to a group outside   *)
(* its message run.                                                        *)
AllFaults == {"crash", "throw", "tie", "bot"}

ASSUME LoopAssumption ==
  /\ Triggerless \subseteq Groups
  /\ MainGroups \subseteq Triggerless
  /\ Faults \subseteq AllFaults
  /\ Window \in Nat \ {0}
  /\ MaxMessages \in Nat /\ MaxClock \in Nat /\ MaxBoots \in Nat

VARIABLES
  up,         (* the process runs                                          *)
  booting,    (* groups start() has yet to queue a check for               *)
  boots,
  clock,      (* the time of the last stored message, in ms                *)
  stored,     (* messages of each group: time, and whether it is a call,   *)
              (* a message that carries the trigger or needs none          *)
  botAt,      (* time of the last message of the bot in a group, 0 if none *)
  cursor,     (* last_agent_timestamp of a group, 0 if it has none         *)
  batch,      (* messages read by the group's run and not yet handled      *)
  attempted   (* history: messages handleInbound was called with           *)

dbVars == <<clock, stored, botAt, cursor, attempted>>
loopVars == <<up, booting, boots, batch>>
allVars == <<vars, dbVars, loopVars>>

LoopInit ==
  /\ Init
  /\ up = FALSE
  /\ booting = {}
  /\ boots = 0
  /\ clock = 0
  /\ stored = [g \in Groups |-> <<>>]
  /\ botAt = [g \in Groups |-> 0]
  /\ cursor = [g \in Groups |-> 0]
  /\ batch = [g \in Groups |-> {}]
  /\ attempted = [g \in Groups |-> {}]

Serving == up /\ booting = {}

(* A write in this millisecond, or in the next.                            *)
Tick ==
  /\ clock' \in (IF "tie" \in Faults /\ clock > 0 THEN {clock, clock + 1} ELSE {clock + 1})
  /\ clock' <= MaxClock

(***************************************************************************)
(* Reading a batch.                                                        *)
(***************************************************************************)

(* Mutant: the bot's last message counts for a group that has a cursor.    *)
SinceBot(g) == IF cursor[g] > botAt[g] THEN cursor[g] ELSE botAt[g]
Since(g) == IF cursor[g] # 0 THEN cursor[g] ELSE botAt[g]

(* What a read of g's messages may return when the store holds msgs: all   *)
(* that are unread, or a window of them that leaves out no newer one.      *)
Unread(g, msgs) == {i \in DOMAIN msgs[g] : msgs[g][i].at > Since(g)}
ReadResults(g, msgs) ==
  {got \in SUBSET Unread(g, msgs) :
     /\ Cardinality(got) <= Window
     /\ got = Unread(g, msgs) \/ Cardinality(got) = Window
     /\ \A i \in got, j \in Unread(g, msgs) \ got : msgs[g][j].at <= msgs[g][i].at}

(* Whether a group that got these messages is called.  Mutant: only the    *)
(* last one is searched for the trigger.                                   *)
CalledByLast(g, msgs, got) ==
  \E i \in got : msgs[g][i].call /\ \A j \in got : msgs[g][j].at <= msgs[g][i].at
Called(g, msgs, got) == \E i \in got : msgs[g][i].call

(* Where its cursor moves: to the time of the last one.  Mutant: past the  *)
(* present.                                                                *)
CursorToNow(g, msgs, got) == clock + 2
CursorAfter(g, msgs, got) == Max({msgs[g][i].at : i \in got})

(* The prefix of processMessagesFn for the groups of S, whose message runs *)
(* begin in this step; left is what other runs have left to handle.  A     *)
(* group without a call among its messages leaves them for later.          *)
ReadBatches(S, left, msgs) ==
  \E got \in [S -> SUBSET UNION {DOMAIN msgs[g] : g \in S}] :
    LET due == {g \in S : Called(g, msgs, got[g])} IN
    /\ \A g \in S : got[g] \in ReadResults(g, msgs)
    /\ batch' = [g \in Groups |-> IF g \in due THEN got[g] ELSE left[g]]
    /\ cursor' = [g \in Groups |->
                    IF g \in due THEN CursorAfter(g, msgs, got[g]) ELSE cursor[g]]

(* The groups whose message run begins when a check of g finds a slot, and *)
(* when the run of g ends.                                                 *)
BeginsOnCheck(g) == IF ~shuttingDown /\ ~Active(g) /\ ~AtLimit THEN {g} ELSE {}
BeginsOnRelease(g) == {h \in Started(g) : pendingTasks[h] = <<>>}

(***************************************************************************)
(* The channels' callback and the agent's own messages.                    *)
(***************************************************************************)

(* onMessage: the message is stored before the check is queued, and the    *)
(* check may start the run that reads it.  When stopping it is discarded.  *)
OnMessage(g, call) ==
  /\ Serving /\ ~shuttingDown
  /\ g \in Triggerless => call
  /\ Cardinality(UNION {{h} \X DOMAIN stored[h] : h \in Groups}) < MaxMessages
  /\ Tick
  /\ stored' = [stored EXCEPT ![g] = Append(@, [at |-> clock', call |-> call])]
  /\ EnqueueMessageCheck(g)
  /\ ReadBatches(BeginsOnCheck(g), batch, stored')
  /\ UNCHANGED <<up, booting, boots, botAt, attempted>>

(* An agent writes to group g from another run than g's message run: the   *)
(* bot's message is stored with the others and hides older ones from a     *)
(* group that has no cursor.                                               *)
BotPosts(g) ==
  /\ Serving /\ "bot" \in Faults
  /\ \E h \in Groups : Active(h) /\ (h = g \/ h \in MainGroups)
  /\ Tick
  /\ botAt' = [botAt EXCEPT ![g] = clock']
  /\ UNCHANGED <<vars, loopVars, stored, cursor, attempted>>

(***************************************************************************)
(* The loop of a message run.                                              *)
(***************************************************************************)

(* The loop of g is at message i, the earliest of those it has left.       *)
(* Mutant: the messages of a batch are handled all at once.                *)
HandlingAny(g, i) == Serving /\ running[g] = MessageRun /\ i \in batch[g]
Handling(g, i) ==
  /\ Serving /\ running[g] = MessageRun
  /\ i \in batch[g] /\ \A j \in batch[g] : stored[g][i].at <= stored[g][j].at

(* handleInbound resolves: it ran the agent, or ignored the message.       *)
MessageHandled(g) ==
  \E i \in batch[g] :
    /\ Handling(g, i)
    /\ attempted' = [attempted EXCEPT ![g] = @ \cup {i}]
    /\ batch' = [batch EXCEPT ![g] = @ \ {i}]
    /\ UNCHANGED <<vars, up, booting, boots, clock, stored, botAt, cursor>>

(* It rejects, which ends the run; what is left of the batch is forgotten. *)
HandlingThrows(g) ==
  \E i \in batch[g] :
    /\ Handling(g, i)
    /\ "throw" \in Faults /\ stored[g][i].call
    /\ attempted' = [attempted EXCEPT ![g] = @ \cup {i}]
    /\ MessagesFailed(g)
    /\ ReadBatches(BeginsOnRelease(g), [batch EXCEPT ![g] = {}], stored)
    /\ UNCHANGED <<up, booting, boots, clock, stored, botAt>>

(* The loop is done, or there was nothing to do.                           *)
RunReturns(g) ==
  /\ Serving
  /\ batch[g] = {}
  /\ MessagesDone(g)
  /\ ReadBatches(BeginsOnRelease(g), batch, stored)
  /\ UNCHANGED <<up, booting, boots, clock, stored, botAt, attempted>>

(***************************************************************************)
(* Scheduled tasks and retries, as far as they concern messages.           *)
(***************************************************************************)

TaskRequested(t) ==
  /\ Serving
  /\ EnqueueTask(t)
  /\ UNCHANGED <<dbVars, loopVars>>

TaskReturns(g) ==
  /\ Serving
  /\ TaskSettled(g)
  /\ ReadBatches(BeginsOnRelease(g), batch, stored)
  /\ UNCHANGED <<up, booting, boots, clock, stored, botAt, attempted>>

Retry(g) ==
  /\ Serving
  /\ RetryTimerFires(g)
  /\ ReadBatches(BeginsOnCheck(g), batch, stored)
  /\ UNCHANGED <<up, booting, boots, clock, stored, botAt, attempted>>

(***************************************************************************)
(* The life of the process.                                                *)
(***************************************************************************)

BootsNobody == {}  (* mutant: start() queues no checks *)
Recovered == Groups

(* createOrchestrator and start(): a check of every group is queued, which *)
(* recovers the messages an earlier process stored and did not read.  The  *)
(* checks are queued in one go; nothing else happens in between.           *)
Boot ==
  /\ ~up /\ boots < MaxBoots
  /\ up' = TRUE
  /\ boots' = boots + 1
  /\ booting' = Recovered
  /\ UNCHANGED <<vars, dbVars, batch>>

BootCheck(g) ==
  /\ g \in booting
  /\ booting' = booting \ {g}
  /\ EnqueueMessageCheck(g)
  /\ ReadBatches(BeginsOnCheck(g), batch, stored)
  /\ UNCHANGED <<up, boots, clock, stored, botAt, attempted>>

(* stop(): stopping and the queue's shuttingDown are set together.         *)
Stop ==
  /\ Serving
  /\ Shutdown
  /\ UNCHANGED <<dbVars, loopVars>>

(* The process is gone and with it everything but the database.            *)
Down ==
  /\ up' = FALSE
  /\ booting' = {}
  /\ batch' = [g \in Groups |-> {}]
  /\ running' = [g \in Groups |-> None]
  /\ pendingMessages' = [g \in Groups |-> FALSE]
  /\ pendingTasks' = [g \in Groups |-> <<>>]
  /\ retryCount' = [g \in Groups |-> 0]
  /\ retryTimers' = [g \in Groups |-> 0]
  /\ waitingGroups' = <<>>
  /\ activeCount' = 0
  /\ shuttingDown' = FALSE
  /\ shutdownCall' = "none"
  /\ UNCHANGED <<boots, dbVars>>

Exit == up /\ shutdownCall = "resolved" /\ Down
Crash == up /\ "crash" \in Faults /\ Down

LoopNext ==
  \/ \E g \in Groups : \/ \E call \in BOOLEAN : OnMessage(g, call)
                      \/ BotPosts(g) \/ MessageHandled(g) \/ HandlingThrows(g)
                      \/ RunReturns(g) \/ TaskReturns(g) \/ Retry(g) \/ BootCheck(g)
  \/ \E t \in Tasks : TaskRequested(t)
  \/ Boot \/ Stop \/ Exit \/ Crash

LoopSpec == LoopInit /\ [][LoopNext]_allVars

(* handleInbound and tasks settle, timers fire, start() finishes.  Nobody  *)
(* is obliged to write, to start the process again or to stop it.          *)
LoopFairness ==
  /\ \A g \in Groups :
       /\ WF_allVars(MessageHandled(g) \/ HandlingThrows(g) \/ RunReturns(g) \/ TaskReturns(g))
       /\ WF_allVars(Retry(g))
       /\ WF_allVars(BootCheck(g))
LoopFairSpec == LoopSpec /\ LoopFairness

-----------------------------------------------------------------------------

(* Types of the database's columns and of the loops' batches.              *)
LoopTypeOK ==
  /\ up \in BOOLEAN
  /\ booting \subseteq Groups
  /\ boots \in Nat /\ clock \in Nat
  /\ stored \in [Groups -> Seq([at : Nat, call : BOOLEAN])]
  /\ botAt \in [Groups -> 0 .. clock]
  /\ cursor \in [Groups -> 0 .. clock]
  /\ \A g \in Groups : attempted[g] \cup batch[g] \subseteq DOMAIN stored[g]

(* A group that any read would find called has a check of its messages     *)
(* queued, or start() is about to queue one: the database and the queue,   *)
(* which only meet in the callbacks, never disagree, and in particular not *)
(* after a crash between a message's storage and its reading.              *)
UnreadIsPending ==
  \A g \in Groups :
    up /\ ~shuttingDown /\ (\A got \in ReadResults(g, stored) : Called(g, stored, got))
      => pendingMessages[g] \/ g \in booting

(* No message is given to the agent twice, whatever runs fail, are retried *)
(* or are cut short by a crash, and none after a later one of its group:   *)
(* what is in a batch was not attempted, and no earlier than what was.     *)
(* Messages of one millisecond may come in any order.                      *)
HandledOnceInOrder ==
  \A g \in Groups : \A i \in attempted[g], j \in batch[g] :
    i # j /\ stored[g][i].at <= stored[g][j].at

(* Only a running message run holds a batch, and what it holds is behind   *)
(* the cursor, so that no other run reads it.                              *)
BatchIsOwned ==
  \A g \in Groups : batch[g] # {} =>
    running[g] = MessageRun /\ \A i \in batch[g] : stored[g][i].at <= cursor[g]

(* A message that was read, and that no later run will read again, stays   *)
(* in its batch until the agent is given it: only a rejection of its run   *)
(* or a crash loses it.  In particular the end of the process after stop() *)
(* does not: stop() waits for the loops before it closes the database.     *)
OnlyFaultsDropBatches ==
  [][\A g \in Groups : \/ batch[g] \subseteq batch'[g] \cup attempted'[g]
                       \/ HandlingThrows(g)
                       \/ Crash /\ shutdownCall # "resolved"]_allVars

(* Without crashes, rejections, ties and messages of the bot, the cursor   *)
(* only passes what the agent has got or is about to get, in every group   *)
(* whose messages fit into one read.                                       *)
NothingPassedOver ==
  Faults = {} => \A g \in Groups : Len(stored[g]) <= Window =>
    \A i \in DOMAIN stored[g] :
      stored[g][i].at <= cursor[g] => i \in attempted[g] \cup batch[g]

(* What the contract of delivery speaks of: the times of a group's         *)
(* messages, which of them lie behind its cursor, and whether anything can *)
(* go wrong (a fault, or more messages than one read returns).             *)
Times == [g \in Groups |-> [i \in DOMAIN stored[g] |-> stored[g][i].at]]
BehindCursor == [g \in Groups |-> {i \in DOMAIN stored[g] : stored[g][i].at <= cursor[g]}]
NothingGoesWrong == Faults = {} /\ MaxMessages <= Window

Delivery == INSTANCE DeliveryContract WITH
  Lossless <- NothingGoesWrong, log <- Times, spoken <- botAt,
  read <- BehindCursor, inHand <- batch, given <- attempted

(* Whatever fails, crashes, is retried or started again, the messages of a *)
(* group are taken from the newest end and given one by one in the order   *)
(* of their times, none of them twice.  One is lost only if a batch is     *)
(* dropped, a read is full, the bot spoke to a group nothing was read from *)
(* yet, or it shares its time with one that was read.                      *)
ImplementsDelivery == Delivery!Spec

(* A run that fails leaves the messages it did not get done unread, for    *)
(* the retry that was armed for it to read again.                          *)
FailedRunKeepsMessages ==
  [][\A g \in Groups : retryTimers'[g] > retryTimers[g] =>
       \A i \in batch[g] : i \in Unread(g, stored)']_allVars

(* Without those faults every call reaches the agent, unless the process   *)
(* stops first; and with them it is at least read.                         *)
Halts == shuttingDown \/ ~up
CallsAreHandled ==
  <>[][\A t \in Tasks : ~EnqueueTask(t)]_allVars =>
    \A g \in Groups, i \in 1 .. MaxMessages :
      i \in DOMAIN stored[g] /\ stored[g][i].call ~> i \in attempted[g] \/ Halts
=============================================================================
