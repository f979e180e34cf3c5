------------------------------ MODULE AgentTurn ------------------------------
(***************************************************************************)
(* One execution of an agent: runTaskForGroup (src/src/orchestrator.ts),   *)
(* ContainerRunner.run (src/src/runner/container-runner.ts), the           *)
(* agent-runner (src/container/agent-runner/src/index.ts) and the          *)
(* nanoclaw-tool processes (tool-bridge.ts) the agent starts.              *)
(*                                                                         *)
(* Host and agent share a directory.  The agent appends events to a file,  *)
(* leaves tool requests and, when it is done, a marker; the host polls     *)
(* for all three, hands the events to the orchestrator, carries out the    *)
(* requests and leaves responses, for which the tool processes poll.  The  *)
(* host also sees the exit code of the process it spawned.                 *)
(*                                                                         *)
(* One action is one stretch of code between two awaits.  A file that is   *)
(* being written can be found empty or half written: a read that meets it  *)
(* so is a disjunct of its own.                                            *)
(***************************************************************************)
EXTENDS Integers, Sequences, FiniteSets

CONSTANT Calls      (* the tool calls the agent may make                   *)

ASSUME CallsAssumption == IsFiniteSet(Calls) /\ "none" \notin Calls

VARIABLES
  executor,   (* config.containerExecutor                                  *)
  host,       (* where runTaskForGroup and run() are                       *)
  record,     (* status of the execution record                            *)
  status,     (* the status the turn is heading for                        *)
  container,  (* the container exists                                      *)
  offset,     (* events read so far                                        *)
  slice,      (* events read and not yet handed on                         *)
  half,       (* the last line of that read was being written              *)
  listed,     (* request files of the current listing not yet looked at    *)
  seen,       (* seenToolRequests                                          *)
  current,    (* the request being carried out                             *)
  final,      (* the loop has ended                                        *)
  done,       (* the host has seen the marker                              *)
  exitCode,   (* childExitCode                                             *)
  closed,     (* the child's close event was emitted                       *)
  agent,      (* where the agent-runner is                                 *)
  result,     (* how codex ended                                           *)
  exit,       (* how the agent-runner ended                                *)
  tool,       (* where each nanoclaw-tool process is                       *)
  events,     (* the events file                                           *)
  requests,   (* the request files written                                 *)
  responses,  (* the responses written                                     *)
  marker,     (* done.json exists                                          *)
  delivered,  (* history: events the orchestrator got                      *)
  carriedOut  (* history: how often each request was carried out           *)

fileVars == <<events, requests, responses, marker>>
agentVars == <<agent, result, exit, tool>>
loopVars == <<offset, slice, half, listed, seen, current, final, done>>
childVars == <<exitCode, closed>>
historyVars == <<delivered, carriedOut>>
vars == <<executor, host, record, status, container, loopVars, childVars,
          agentVars, fileVars, historyVars>>

NoCall == "none"

Init ==
  /\ executor \in {"engine", "process"}
  /\ host = "idle" /\ record = "none" /\ status = "completed"
  /\ container = FALSE
  /\ offset = 0 /\ slice = <<>> /\ half = FALSE
  /\ listed = {} /\ seen = {} /\ current = NoCall
  /\ final = FALSE /\ done = FALSE
  /\ exitCode = "null" /\ closed = FALSE
  /\ agent = "off" /\ result = "none" /\ exit = "none"
  /\ tool = [r \in Calls |-> "idle"]
  /\ events = <<>> /\ requests = {} /\ responses = {} /\ marker = FALSE
  /\ delivered = <<>>
  /\ carriedOut = [r \in Calls |-> 0]

(***************************************************************************)
(* The agent-runner and its tools.                                         *)
(***************************************************************************)

Emit(e) == events' = Append(events, e)

(* An agent step leaves the host alone.  What an agent still does when the *)
(* host has turned away from it is not followed.                           *)
Stay ==
  /\ host # "over"
  /\ UNCHANGED <<executor, host, record, status, container, loopVars, childVars, historyVars>>

(* main() has read its request; codex is started and announced.            *)
AgentBoots ==
  /\ agent = "boot" /\ agent' = "codex"
  /\ Emit("note")
  /\ UNCHANGED <<result, exit, tool, requests, responses, marker>> /\ Stay

(* Codex exits, fails with some output or is stopped at its time limit, or *)
(* fails without a word.  Tool processes it started may outlive a failure. *)
CodexEnds(how) ==
  /\ agent = "codex" /\ agent' = "report"
  /\ how = "ok" => \A r \in Calls : tool[r] \in {"idle", "ended"}
  /\ result' = how
  /\ UNCHANGED <<exit, tool, fileVars>> /\ Stay

(* The last messages of codex, if there are any, then an error, if codex   *)
(* failed and said why.                                                    *)
AgentReports ==
  /\ agent = "report"
  /\ agent' = IF result = "failed" THEN "error" ELSE "finish"
  /\ Emit("message") \/ UNCHANGED events
  /\ UNCHANGED <<result, exit, tool, requests, responses, marker>> /\ Stay

AgentReportsError ==
  /\ agent = "error" /\ agent' = "finish"
  /\ Emit("error")
  /\ UNCHANGED <<result, exit, tool, requests, responses, marker>> /\ Stay

AgentFinishes ==
  /\ agent = "finish" /\ agent' = "mark"
  /\ Emit("done")
  /\ UNCHANGED <<result, exit, tool, requests, responses, marker>> /\ Stay

AgentMarks ==
  /\ agent = "mark" /\ agent' = "leave"
  /\ marker' = TRUE
  /\ UNCHANGED <<result, exit, tool, events, requests, responses>> /\ Stay

AgentExits ==
  /\ agent = "leave" /\ agent' = "dead"
  /\ exit' = "zero"
  /\ UNCHANGED <<result, tool, fileVars>> /\ Stay

(* main() rejects: no credential, codex not found, a file not writable.    *)
AgentFails ==
  /\ agent \in {"boot", "codex", "report", "error", "finish", "mark"}
  /\ agent' = "dead" /\ exit' = "nonzero"
  /\ UNCHANGED <<result, tool, fileVars>> /\ Stay

AgentKilled ==
  /\ agent \notin {"off", "dead"}
  /\ agent' = "dead" /\ exit' = "signal"
  /\ UNCHANGED <<result, tool, fileVars>> /\ Stay

(* nanoclaw-tool announces its call, writes the request, polls for the     *)
(* response and announces it.                                              *)
ToolCalls(r) ==
  /\ agent = "codex" /\ tool[r] = "idle"
  /\ tool' = [tool EXCEPT ![r] = "asking"]
  /\ Emit("note")
  /\ UNCHANGED <<agent, result, exit, requests, responses, marker>> /\ Stay

ToolAsks(r) ==
  /\ tool[r] = "asking"
  /\ tool' = [tool EXCEPT ![r] = "asked"]
  /\ requests' = requests \cup {r}
  /\ UNCHANGED <<agent, result, exit, events, responses, marker>> /\ Stay

ToolAnswered(r) ==
  /\ tool[r] = "asked" /\ r \in responses
  /\ tool' = [tool EXCEPT ![r] = "ended"]
  /\ Emit("note")
  /\ UNCHANGED <<agent, result, exit, requests, responses, marker>> /\ Stay

(* The response is found while it is being written; or the process dies    *)
(* with codex.                                                             *)
ToolFails(r) ==
  /\ \/ tool[r] = "asked" /\ host = "answer" /\ current = r
     \/ tool[r] \in {"asking", "asked"} /\ agent # "codex"
  /\ tool' = [tool EXCEPT ![r] = "ended"]
  /\ UNCHANGED <<agent, result, exit, fileVars>> /\ Stay

(***************************************************************************)
(* The host: the start of a turn.                                          *)
(***************************************************************************)

(* runTaskForGroup up to its first await.                                  *)
Begin ==
  /\ host = "idle" /\ host' = "session"
  /\ record' = "queued"
  /\ UNCHANGED <<executor, status, container, loopVars, childVars, agentVars, fileVars, historyVars>>

(* createSession rejects; the record stays as it is.                       *)
SessionFails ==
  /\ host = "session" /\ host' = "over"
  /\ status' = "rejected"
  /\ UNCHANGED <<executor, record, container, loopVars, childVars, agentVars, fileVars, historyVars>>

SessionCreated ==
  /\ host = "session" /\ host' = "spawn"
  /\ record' = "running"
  /\ UNCHANGED <<executor, status, container, loopVars, childVars, agentVars, fileVars, historyVars>>

(* The turn ends by an exception: run() is left where it is, whatever it   *)
(* had started, and the record says failed.                                *)
Abort ==
  /\ host' = "over"
  /\ status' = "aborted"
  /\ record' = "failed"

(* No credential, a directory or the container cannot be made.             *)
SpawnFails ==
  /\ host = "spawn"
  /\ Abort
  /\ UNCHANGED <<executor, container, loopVars, childVars, agentVars, fileVars, historyVars>>

Spawn ==
  /\ host = "spawn" /\ host' = "test"
  /\ container' = (executor = "engine")
  /\ agent' = "boot"
  /\ UNCHANGED <<executor, record, status, loopVars, childVars, result, exit, tool, fileVars, historyVars>>

(***************************************************************************)
(* The host: the polling loop.                                             *)
(***************************************************************************)

LoopWhileUnmarked ==  (* mutant: the exit code does not end the loop *)
  ~done
LoopGoesOn == ~done /\ exitCode = "null"

NoLastRead == IF LoopGoesOn THEN "events" ELSE "lastProbe"  (* mutant *)
AfterTest == "events"

LoopTest ==
  /\ host = "test" /\ host' = AfterTest
  /\ final' = ~LoopGoesOn
  /\ UNCHANGED <<executor, record, status, container, offset, slice, half, listed, seen, current, done,
                 childVars, agentVars, fileVars, historyVars>>

AfterEvents == IF final THEN "lastProbe" ELSE "list"

(* The last line of the file is being written and is not JSON yet.         *)
Appending ==
  \/ agent \in {"codex", "report", "error"}
  \/ \E r \in Calls : tool[r] = "asked" /\ r \in responses

(* readPendingEvents.                                                      *)
OffsetOfSlice == Len(events) - offset  (* mutant: the length of the new part *)
OffsetPastEnd == Len(events) + 1  (* mutant *)
NewOffset == Len(events)
ReadEvents ==
  /\ host = "events"
  /\ slice' = SubSeq(events, offset + 1, Len(events))
  /\ offset' = NewOffset
  /\ half' \in BOOLEAN /\ (half' => Appending)
  /\ host' = IF slice' = <<>> /\ ~half' THEN AfterEvents ELSE "yield"
  /\ UNCHANGED <<executor, record, status, container, listed, seen, current, final, done,
                 childVars, agentVars, fileVars, historyVars>>

(* A line is parsed when the ones before it are handed on.                 *)
ReadHalfEvent ==
  /\ host = "yield" /\ slice = <<>>
  /\ Abort
  /\ UNCHANGED <<executor, container, loopVars, childVars, agentVars, fileVars, historyVars>>

(* The orchestrator's turn with an event: a message is sent to the chat,   *)
(* an error makes the turn a failed one.                                   *)
Deliver ==
  /\ host = "yield" /\ slice # <<>>
  /\ delivered' = Append(delivered, Head(slice))
  /\ status' = IF Head(slice) = "error" THEN "failed" ELSE status
  /\ slice' = Tail(slice)
  /\ host' = IF slice' = <<>> /\ ~half THEN AfterEvents ELSE "yield"
  /\ UNCHANGED <<executor, record, container, offset, half, listed, seen, current, final, done,
                 childVars, agentVars, fileVars, carriedOut>>

(* The channel refuses the message, which ends the turn and with it run(). *)
SendFails ==
  /\ host = "yield" /\ slice # <<>> /\ Head(slice) = "message"
  /\ Abort
  /\ UNCHANGED <<executor, container, loopVars, childVars, agentVars, fileVars, historyVars>>

(* readdir: what is new.  A file that is being made, or was left empty by  *)
(* a process that died, may be among it.                                   *)
FreshOnce(files) == IF seen = {} THEN files ELSE {}  (* mutant *)
Fresh(files) == files \ seen
ListRequests ==
  /\ host = "list" /\ host' = "request"
  /\ \E empty \in SUBSET {r \in Calls : tool[r] # "idle" /\ r \notin requests} :
       listed' = Fresh(requests \cup empty)
  /\ UNCHANGED <<executor, record, status, container, offset, slice, half, seen, current, final, done,
                 childVars, agentVars, fileVars, historyVars>>

NotRemembered(r) == seen  (* mutant *)
Remembered(r) == seen \cup {r}

(* The next request is read, remembered and carried out.  The control      *)
(* plane's refusal is a response like any other.                           *)
CarryOut(r) ==
  /\ host = "request" /\ r \in listed /\ r \in requests
  /\ host' = "answer"
  /\ listed' = listed \ {r}
  /\ seen' = Remembered(r)
  /\ current' = r
  /\ carriedOut' = [carriedOut EXCEPT ![r] = @ + 1]
  /\ UNCHANGED <<executor, record, status, container, offset, slice, half, final, done,
                 childVars, agentVars, fileVars, delivered>>

ReadHalfRequest(r) ==
  /\ host = "request" /\ r \in listed /\ r \notin requests
  /\ Abort
  /\ UNCHANGED <<executor, container, loopVars, childVars, agentVars, fileVars, historyVars>>

Answer ==
  /\ host = "answer" /\ host' = "request"
  /\ responses' = responses \cup {current}
  /\ current' = NoCall
  /\ UNCHANGED <<executor, record, status, container, offset, slice, half, listed, seen, final, done,
                 childVars, agentVars, events, requests, marker, historyVars>>

(* All requests are looked at; the marker is looked for, before the next   *)
(* round or, in the end, for the last time.                                *)
Probe ==
  /\ host = "request" /\ listed = {} /\ host' = "test"
  /\ done' = marker
  /\ UNCHANGED <<executor, record, status, container, offset, slice, half, listed, seen, current, final,
                 childVars, agentVars, fileVars, historyVars>>

(***************************************************************************)
(* The host: the end of a turn.                                            *)
(***************************************************************************)

(* A nonzero exit code without the marker is reported by run() itself.     *)
NeverUnexpected == FALSE  (* mutant *)
UnexpectedExit == exitCode = "nonzero" /\ ~(done \/ marker)

LastProbe ==
  /\ host = "lastProbe"
  /\ done' = (done \/ marker)
  /\ IF UnexpectedExit
     THEN delivered' = delivered \o <<"error", "done">> /\ status' = "failed"
     ELSE UNCHANGED <<delivered, status>>
  /\ host' = IF exitCode = "null" THEN "awaitClose" ELSE "remove"
  /\ UNCHANGED <<executor, record, container, offset, slice, half, listed, seen, current, final,
                 childVars, agentVars, fileVars, carriedOut>>

(* The child's close event.  A process that was ended by a signal has no   *)
(* exit code; docker exec turns the signal into one.  The listener that    *)
(* run() adds last hears only a close that comes after it.                 *)
ChildCloses ==
  /\ host # "over" /\ agent = "dead" /\ ~closed
  /\ closed' = TRUE
  /\ exitCode' = CASE exit = "signal" /\ executor = "process" -> "null"
                   [] exit = "zero" -> "zero"
                   [] OTHER -> "nonzero"
  /\ host' = IF host = "awaitClose" THEN "remove" ELSE host
  /\ UNCHANGED <<executor, record, status, container, loopVars, agentVars, fileVars, historyVars>>

(* The container is removed with what runs in it, and the record gets the  *)
(* turn's status.                                                          *)
LeaveContainer == container  (* mutant *)
ContainerLeft == FALSE
End ==
  /\ host = "remove" /\ host' = "over"
  /\ container' = ContainerLeft
  /\ tool' = [r \in Calls |-> IF executor = "engine" THEN "ended" ELSE tool[r]]
  /\ record' = status
  /\ UNCHANGED <<executor, status, loopVars, childVars, agent, result, exit, fileVars, historyVars>>

HostStep ==
  \/ SessionFails \/ SessionCreated \/ SpawnFails \/ Spawn
  \/ LoopTest \/ ReadEvents \/ ReadHalfEvent \/ Deliver \/ SendFails
  \/ ListRequests \/ (\E r \in Calls : CarryOut(r) \/ ReadHalfRequest(r)) \/ Answer \/ Probe
  \/ LastProbe \/ End
AgentStep ==
  \/ AgentBoots \/ (\E how \in {"failed", "silent"} : CodexEnds(how))
  \/ AgentReports \/ AgentReportsError \/ AgentFinishes \/ AgentMarks \/ AgentExits
ToolStep(r) == ToolAsks(r) \/ ToolAnswered(r)

Next ==
  \/ Begin \/ HostStep \/ ChildCloses
  \/ AgentStep \/ CodexEnds("ok") \/ AgentFails \/ AgentKilled
  \/ \E r \in Calls : ToolCalls(r) \/ ToolStep(r) \/ ToolFails(r)

Spec == Init /\ [][Next]_vars

(* The host's promises settle, the agent-runner proceeds (its time limit   *)
(* ends codex), a dead child's close event is emitted, tools proceed.      *)
Fairness ==
  /\ WF_vars(HostStep) /\ WF_vars(AgentStep) /\ WF_vars(ChildCloses)
  /\ \A r \in Calls : WF_vars(ToolStep(r))
FairSpec == Spec /\ Fairness

-----------------------------------------------------------------------------

(* Types of the variables, and the places host, agent and tools can be in. *)
TurnTypeOK ==
  /\ record \in {"none", "queued", "running", "completed", "failed"}
  /\ status \in {"completed", "failed", "rejected", "aborted"}
  /\ host \in {"idle", "session", "spawn", "test", "events", "yield", "list", "request",
               "answer", "lastProbe", "awaitClose", "remove", "over"}
  /\ offset \in 0 .. Len(events)
  /\ listed \cup seen \cup requests \cup responses \subseteq Calls
  /\ current \in Calls \cup {NoCall}
  /\ half \in BOOLEAN
  /\ exitCode \in {"null", "zero", "nonzero"}

(* The turn came to its own end, not to an exception.                      *)
Returned == host = "over" /\ status \in {"completed", "failed"}

(* The orchestrator gets the agent's events once each and in order,        *)
(* however its reads fall between the appends of several processes.        *)
EventsInOrder == host \notin {"remove", "over"} => delivered \o slice = SubSeq(events, 1, offset)

(* A turn that returns has handed on everything the agent-runner said,     *)
(* also what it said between the last poll and its death.                  *)
NothingUnsaid == Returned => \A i \in DOMAIN events : events[i] # "note" => i <= offset

(* A record says completed only if the agent-runner left its marker and no *)
(* error was reported, however the process ended.                          *)
CompletedIsTrue ==
  record = "completed" => marker /\ \A i \in DOMAIN events : events[i] # "error"

(* A tool request is carried out at most once, though its file is listed   *)
(* in every round, and a response exists only for one that was.            *)
CarriedOutOnce == \A r \in Calls : carriedOut[r] <= 1 /\ (r \in responses => carriedOut[r] = 1)

(* When a turn returns, and the run queue gives the group's slot to the    *)
(* next one, its agent is dead and its container gone.                     *)
ReturnedLeavesNothing == Returned => agent = "dead" /\ ~container

(* The same of every turn that is over, also one that ended by an          *)
(* exception.                                                              *)
NothingOutlivesTurn == host = "over" => agent \in {"off", "dead"} /\ ~container

(* Every turn ends, however its agent does, except that an agent that is   *)
(* no container and is ended by a signal leaves no exit code to be seen.   *)
TurnEnds == host = "session" ~> host = "over" \/ (executor = "process" /\ exit = "signal")

(* A tool request is answered, unless the turn comes to its end first.     *)
CallsAreAnswered ==
  \A r \in Calls : r \in requests ~> r \in responses \/ final \/ host = "over"
=============================================================================
