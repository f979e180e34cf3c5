-------------------------- MODULE AgentTurnProofs ---------------------------
(***************************************************************************)
(* Proofs about one turn of an agent, for any set of tool calls.           *)
(*                                                                         *)
(* The events, the requests and the end of the agent are three stories     *)
(* with an invariant each.  EventsFollow: what was handed on and what was  *)
(* read is the part of the file before the offset.  EndsKnown: whatever    *)
(* tells the host that the agent is at its end (marker, exit code, close)  *)
(* is true when it is seen and stays true, so that one more read of the    *)
(* events finds all the agent-runner said (Heard).  RequestsOnce: seen is  *)
(* the set of requests that were carried out.                              *)
(***************************************************************************)
EXTENDS AgentTurn, SequenceTheorems, TLAPS

Events == {"note", "message", "error", "done"}
Early == {"idle", "session", "spawn"}
Late == {"lastProbe", "awaitClose", "remove"}

(* The variables the module's own type invariant leaves open.              *)
TurnTypes ==
  /\ TurnTypeOK
  /\ events \in Seq(Events) /\ slice \in Seq(Events) /\ delivered \in Seq(Events)
  /\ carriedOut \in [Calls -> Nat]
  /\ {marker, done, final, closed, container} \subseteq BOOLEAN
  /\ record = "completed" => host = "over"

(* What ends the turn, and what it says of the agent.                      *)
EndsKnown ==
  /\ agent = "leave" => marker
  /\ done => marker
  /\ marker => agent \in {"leave", "dead"}
  /\ exitCode # "null" => closed
  /\ closed => agent = "dead"
  /\ exit = "zero" => marker
  /\ exitCode = "zero" => exit = "zero"
  /\ final => done \/ exitCode # "null"
  /\ host \in Late => final
  /\ host = "awaitClose" => exitCode = "null"
  /\ host = "remove" => agent = "dead"
  /\ host \in Early => agent = "off"
  /\ host # "over" => status \in {"completed", "failed"}

(* What was handed on, what was read, and the file.                        *)
EventsFollow ==
  /\ EventsInOrder
  /\ host # "over" => (slice # <<>> \/ half <=> host = "yield")

(* The agent-runner has said nothing after the offset.                     *)
AllSaid == \A i \in DOMAIN events : events[i] # "note" => i <= offset
Heard ==
  /\ host \in Late \/ (host = "yield" /\ final) => AllSaid
  /\ NothingUnsaid

(* Errors, from the events file to the record.                             *)
NoErrorIn(s) == \A i \in DOMAIN s : s[i] # "error"
ErrorsCount ==
  /\ host \notin {"remove", "over"} /\ status = "completed" => NoErrorIn(delivered)
  /\ host \in {"awaitClose", "remove"} /\ status = "completed" => marker /\ NoErrorIn(events)
  /\ CompletedIsTrue

RequestsOnce ==
  /\ \A r \in Calls : carriedOut[r] = IF r \in seen THEN 1 ELSE 0
  /\ responses \subseteq seen
  /\ listed \cap seen = {}
  /\ host = "answer" => current \in seen
-----------------------------------------------------------------------------
(* A step is one of the agent's side, the close event, or the host's.      *)

AgentSide ==
  \/ AgentStep \/ CodexEnds("ok") \/ AgentFails \/ AgentKilled
  \/ \E r \in Calls : ToolCalls(r) \/ ToolStep(r) \/ ToolFails(r)

(* What all steps of the agent's side have in common.                      *)
LEMMA AgentMoves ==
  ASSUME AgentSide
  PROVE  /\ host # "over"
         /\ UNCHANGED <<executor, host, record, status, container, loopVars, childVars,
                        historyVars, responses>>
         /\ events' = events \/ \E e \in Events : events' = Append(events, e)
         /\ agent = "off" => agent' = "off"
BY DEF AgentSide, AgentStep, ToolStep, AgentBoots, CodexEnds, AgentReports, AgentReportsError,
       AgentFinishes, AgentMarks, AgentExits, AgentFails, AgentKilled, ToolCalls, ToolAsks,
       ToolAnswered, ToolFails, Stay, Emit, Events, fileVars

(* Once the marker is there the agent-runner only leaves, and what is      *)
(* still announced are the ends of tools.                                  *)
LEMMA AgentLeaves ==
  ASSUME AgentSide, agent = "leave" => marker, exit = "zero" => marker,
         marker => agent \in {"leave", "dead"}
  PROVE  /\ agent \in {"leave", "dead"} =>
              /\ agent' \in {"leave", "dead"}
              /\ events' = events \/ events' = Append(events, "note")
         /\ agent = "dead" => agent' = "dead" /\ exit' = exit
         /\ marker => marker'
         /\ agent' = "leave" => marker'
         /\ exit' = "zero" => marker'
         /\ marker' => agent' \in {"leave", "dead"}
BY DEF AgentSide, AgentStep, ToolStep, AgentBoots, CodexEnds, AgentReports, AgentReportsError,
       AgentFinishes, AgentMarks, AgentExits, AgentFails, AgentKilled, ToolCalls, ToolAsks,
       ToolAnswered, ToolFails, Stay, Emit, fileVars
HostSide == Begin \/ HostStep \/ ChildCloses
LEMMA StepSides ==
  ASSUME [Next]_vars
  PROVE  AgentSide \/ HostSide \/ UNCHANGED vars
BY DEF Next, AgentSide, HostSide

(* How the host's side ends a turn by an exception.                        *)
Aborts ==
  /\ host \in {"spawn", "events", "yield", "request"}
  /\ Abort
  /\ UNCHANGED <<executor, container, loopVars, childVars, agentVars, fileVars, historyVars>>
LEMMA HostCases ==
  ASSUME HostSide
  PROVE  \/ Begin \/ SessionFails \/ SessionCreated \/ Spawn \/ Aborts \/ LoopTest
         \/ ReadEvents \/ Deliver \/ ListRequests \/ (\E r \in Calls : CarryOut(r))
         \/ Answer \/ Probe \/ LastProbe \/ End \/ ChildCloses
BY DEF HostSide, HostStep, SpawnFails, ReadHalfEvent, SendFails, ReadHalfRequest, Aborts

(* The files and the agent, as the host's side leaves them.                *)
LEMMA HostMoves ==
  ASSUME HostSide
  PROVE  /\ UNCHANGED <<events, requests, marker, result, exit>>
         /\ agent' = agent \/ (host = "spawn" /\ agent' = "boot")
<1>1. CASE Begin \/ SessionFails \/ SessionCreated \/ Spawn \/ Aborts
  BY <1>1 DEF Begin, SessionFails, SessionCreated, Spawn, Aborts, fileVars, agentVars
<1>2. CASE LoopTest \/ ReadEvents \/ Deliver \/ ListRequests \/ (\E r \in Calls : CarryOut(r))
  BY <1>2 DEF LoopTest, ReadEvents, Deliver, ListRequests, CarryOut, fileVars, agentVars
<1>3. CASE Answer \/ Probe \/ LastProbe \/ End \/ ChildCloses
  BY <1>3 DEF Answer, Probe, LastProbe, End, ChildCloses, fileVars, agentVars
<1> QED BY <1>1, <1>2, <1>3, HostCases

-----------------------------------------------------------------------------
(* What ends a turn.                                                       *)

LEMMA EndsKnownStep ==
  ASSUME EndsKnown, [Next]_vars
  PROVE  EndsKnown'
<1>1. CASE AgentSide
  BY <1>1, AgentMoves, AgentLeaves DEF EndsKnown, Early, Late, loopVars, childVars
<1>2. CASE Begin \/ SessionFails \/ SessionCreated \/ Spawn \/ Aborts
  BY <1>2 DEF EndsKnown, Early, Late, Begin, SessionFails, SessionCreated, Spawn, Aborts, Abort,
              loopVars, childVars, agentVars, fileVars
<1>3. CASE LoopTest
  BY <1>3 DEF EndsKnown, Early, Late, LoopTest, LoopGoesOn, AfterTest, childVars, agentVars, fileVars
<1>9. CASE ReadEvents
  <2>1. host' \in {"yield", "list", "lastProbe"} /\ (host' = "lastProbe" => final)
    BY <1>9 DEF ReadEvents, AfterEvents
  <2> QED BY <1>9, <2>1 DEF EndsKnown, Early, Late, ReadEvents, childVars, agentVars, fileVars
<1>10. CASE Deliver
  <2>1. host' \in {"yield", "list", "lastProbe"} /\ (host' = "lastProbe" => final)
    BY <1>10 DEF Deliver, AfterEvents
  <2>2. status' \in {status, "failed"} /\ host = "yield"
    BY <1>10 DEF Deliver
  <2> QED BY <1>10, <2>1, <2>2 DEF EndsKnown, Early, Late, Deliver, childVars, agentVars, fileVars
<1>4. CASE ListRequests \/ (\E r \in Calls : CarryOut(r)) \/ Answer \/ Probe
  BY <1>4 DEF EndsKnown, Early, Late, ListRequests, CarryOut, Answer, Probe,
              childVars, agentVars, fileVars
<1>5. CASE LastProbe
  BY <1>5 DEF EndsKnown, Early, Late, LastProbe, childVars, agentVars, fileVars
<1>6. CASE End
  BY <1>6 DEF EndsKnown, Early, Late, End, loopVars, childVars, fileVars
<1>7. CASE ChildCloses
  BY <1>7 DEF EndsKnown, Early, Late, ChildCloses, loopVars, agentVars, fileVars
<1>8. CASE UNCHANGED vars
  BY <1>8 DEF EndsKnown, Early, Late, vars, loopVars, childVars, agentVars, fileVars
<1> QED BY <1>1, <1>2, <1>3, <1>4, <1>5, <1>6, <1>7, <1>8, <1>9, <1>10, StepSides, HostCases
-----------------------------------------------------------------------------
(* The events.                                                             *)

(* Appending to a file changes nothing before its end.                     *)
LEMMA AppendBefore ==
  ASSUME NEW S, NEW s \in Seq(S), NEW e \in S, NEW n \in 0 .. Len(s)
  PROVE  SubSeq(Append(s, e), 1, n) = SubSeq(s, 1, n)
<1>1. /\ Append(s, e) \in Seq(S) /\ Len(Append(s, e)) = Len(s) + 1
      /\ \A i \in 1 .. Len(s) : Append(s, e)[i] = s[i] /\ s[i] \in S
      /\ Len(s) \in Nat
  BY AppendProperties, ElementOfSeq, LenProperties
<1>2. /\ SubSeq(Append(s, e), 1, n) \in Seq(S) /\ Len(SubSeq(Append(s, e), 1, n)) = n
      /\ \A i \in 1 .. n : SubSeq(Append(s, e), 1, n)[i] = Append(s, e)[i]
  <2>1. \A i \in 1 .. n : Append(s, e)[i] \in S
    BY <1>1
  <2> QED BY <1>1, <2>1, SubSeqProperties
<1>3. /\ SubSeq(s, 1, n) \in Seq(S) /\ Len(SubSeq(s, 1, n)) = n
      /\ \A i \in 1 .. n : SubSeq(s, 1, n)[i] = s[i]
  <2>1. \A i \in 1 .. n : s[i] \in S
    BY <1>1
  <2> QED BY <1>1, <2>1, SubSeqProperties
<1>4. \A i \in 1 .. n : SubSeq(Append(s, e), 1, n)[i] = SubSeq(s, 1, n)[i]
  BY <1>1, <1>2, <1>3
<1> QED BY <1>2, <1>3, <1>4, SeqEqual

(* Reading on from n, and handing on the first of what was read.           *)
LEMMA ReadOn ==
  ASSUME NEW S, NEW s \in Seq(S), NEW n \in 0 .. Len(s)
  PROVE  SubSeq(s, 1, n) \o SubSeq(s, n + 1, Len(s)) = SubSeq(s, 1, Len(s))
<1>1. Len(s) \in Nat /\ 1 \in 1 .. Len(s) + 1 /\ n \in 1 - 1 .. Len(s) /\ Len(s) \in n .. Len(s)
  BY LenProperties
<1> QED BY <1>1, ConcatAdjacentSubSeq

LEMMA HandOn ==
  ASSUME NEW S, NEW d \in Seq(S), NEW s \in Seq(S), s # <<>>
  PROVE  /\ Append(d, Head(s)) \in Seq(S) /\ Tail(s) \in Seq(S)
         /\ Append(d, Head(s)) \o Tail(s) = d \o s
<1>1. /\ Head(s) \in S /\ Tail(s) \in Seq(S) /\ <<Head(s)>> \in Seq(S)
      /\ Append(d, Head(s)) = d \o <<Head(s)>> /\ Append(d, Head(s)) \in Seq(S)
  BY HeadTailProperties, AppendProperties, AppendIsConcat
<1>2. (d \o <<Head(s)>>) \o Tail(s) = d \o (<<Head(s)>> \o Tail(s))
  BY <1>1, ConcatAssociative
<1>3. <<Head(s)>> \o Tail(s) = s
  OBVIOUS
<1> QED BY <1>1, <1>2, <1>3

LEMMA AnySubSeq ==
  ASSUME NEW S, NEW s \in Seq(S), NEW n \in Nat
  PROVE  SubSeq(s, n + 1, Len(s)) \in Seq(S)
<1>1. \A i \in n + 1 .. Len(s) : s[i] \in S
  BY LenProperties, ElementOfSeq
<1> QED BY <1>1, LenProperties, SubSeqProperties

LEMMA TurnTypesStep ==
  ASSUME TurnTypes, EndsKnown, EventsFollow, RequestsOnce, [Next]_vars
  PROVE  TurnTypes'
<1> USE DEF TurnTypes, TurnTypeOK
<1>1. CASE AgentSide
  <2>1. events' \in Seq(Events) /\ Len(events) <= Len(events')
    <3>1. ASSUME NEW e \in Events, events' = Append(events, e)
          PROVE  events' \in Seq(Events) /\ Len(events) <= Len(events')
      BY <3>1, AppendProperties, LenProperties
    <3>2. Len(events) <= Len(events)
      BY LenProperties
    <3> QED BY <1>1, <3>1, <3>2, AgentMoves
  <2>2. requests' \subseteq Calls /\ marker' \in BOOLEAN
    BY <1>1 DEF AgentSide, AgentStep, ToolStep, AgentBoots, CodexEnds, AgentReports,
       AgentReportsError, AgentFinishes, AgentMarks, AgentExits, AgentFails, AgentKilled,
       ToolCalls, ToolAsks, ToolAnswered, ToolFails, fileVars
  <2>3. offset' \in 0 .. Len(events')
    BY <1>1, <2>1, AgentMoves, LenProperties DEF loopVars
  <2> QED BY <1>1, <2>1, <2>2, <2>3, AgentMoves DEF loopVars, childVars, historyVars
<1>2. CASE Begin \/ SessionFails \/ SessionCreated \/ Spawn \/ Aborts
  BY <1>2 DEF Begin, SessionFails, SessionCreated, Spawn, Aborts, Abort,
              loopVars, childVars, agentVars, fileVars, historyVars
<1>3. CASE LoopTest
  BY <1>3 DEF LoopTest, LoopGoesOn, AfterTest, childVars, agentVars, fileVars, historyVars
<1>4. CASE ReadEvents
  <2>1. slice' \in Seq(Events) /\ offset' \in 0 .. Len(events)
    BY <1>4, AnySubSeq, LenProperties DEF ReadEvents, NewOffset
  <2> QED BY <1>4, <2>1 DEF ReadEvents, AfterEvents, childVars, agentVars, fileVars, historyVars
<1>5. CASE Deliver
  <2>1. delivered' \in Seq(Events) /\ slice' \in Seq(Events)
    BY <1>5, HandOn DEF Deliver, EventsFollow
  <2>2. status' \in {status, "failed"} /\ host' \in {"yield", "list", "lastProbe"}
    BY <1>5 DEF Deliver, AfterEvents
  <2> QED BY <1>5, <2>1, <2>2 DEF Deliver, childVars, agentVars, fileVars, historyVars
<1>6. CASE ListRequests \/ (\E r \in Calls : CarryOut(r)) \/ Answer \/ Probe
  <2>1. CASE ListRequests
    BY <2>1 DEF ListRequests, Fresh, childVars, agentVars, fileVars, historyVars
  <2>2. CASE \E r \in Calls : CarryOut(r)
    <3>1. PICK r \in Calls : CarryOut(r)
      BY <2>2
    <3>2. carriedOut' \in [Calls -> Nat]
      BY <3>1 DEF CarryOut
    <3> QED BY <3>1, <3>2 DEF CarryOut, Remembered, childVars, agentVars, fileVars
  <2>3. CASE Answer
    BY <2>3 DEF Answer, RequestsOnce, childVars, agentVars, fileVars, historyVars
  <2>4. CASE Probe
    BY <2>4 DEF Probe, childVars, agentVars, fileVars, historyVars
  <2> QED BY <1>6, <2>1, <2>2, <2>3, <2>4
<1>7. CASE LastProbe
  <2>1. delivered' \in Seq(Events)
    <3>1. <<"error", "done">> \in Seq(Events)
      BY DEF Events
    <3> QED BY <1>7, <3>1, ConcatProperties DEF LastProbe
  <2> QED BY <1>7, <2>1 DEF LastProbe, childVars, agentVars, fileVars
<1>8. CASE End
  BY <1>8 DEF End, ContainerLeft, EndsKnown, loopVars, childVars, fileVars, historyVars
<1>9. CASE ChildCloses
  BY <1>9 DEF ChildCloses, loopVars, agentVars, fileVars, historyVars
<1>10. CASE UNCHANGED vars
  BY <1>10 DEF vars, loopVars, childVars, agentVars, fileVars, historyVars
<1> QED BY <1>1, <1>2, <1>3, <1>4, <1>5, <1>6, <1>7, <1>8, <1>9, <1>10, StepSides, HostCases
LEMMA EventsFollowStep ==
  ASSUME TurnTypes, EndsKnown, EventsFollow, [Next]_vars
  PROVE  EventsFollow'
<1> USE DEF TurnTypes, TurnTypeOK, EventsFollow, EventsInOrder
<1>1. CASE AgentSide
  <2>1. ASSUME NEW e \in Events, events' = Append(events, e)
        PROVE  SubSeq(events', 1, offset) = SubSeq(events, 1, offset)
    BY <2>1, AppendBefore
  <2> QED BY <1>1, <2>1, AgentMoves DEF loopVars, historyVars
<1>2. CASE Begin \/ SessionFails \/ SessionCreated \/ Spawn \/ Aborts
  BY <1>2 DEF Begin, SessionFails, SessionCreated, Spawn, Aborts, Abort,
              loopVars, childVars, agentVars, fileVars, historyVars
<1>3. CASE LoopTest
  BY <1>3 DEF LoopTest, AfterTest, childVars, agentVars, fileVars, historyVars
<1>4. CASE ReadEvents
  <2>1. delivered = SubSeq(events, 1, offset)
    BY <1>4, ConcatEmptySeq DEF ReadEvents
  <2>2. delivered \o slice' = SubSeq(events, 1, offset')
    BY <1>4, <2>1, ReadOn DEF ReadEvents, NewOffset
  <2>3. host' # "over" /\ (slice' # <<>> \/ half' <=> host' = "yield")
    BY <1>4 DEF ReadEvents, AfterEvents
  <2> QED BY <1>4, <2>2, <2>3 DEF ReadEvents, fileVars, historyVars
<1>5. CASE Deliver
  <2>1. delivered' \o slice' = delivered \o slice
    BY <1>5, HandOn DEF Deliver
  <2>2. host' # "over" /\ (slice' # <<>> \/ half' <=> host' = "yield")
    BY <1>5 DEF Deliver, AfterEvents
  <2> QED BY <1>5, <2>1, <2>2 DEF Deliver, fileVars
<1>6. CASE ListRequests \/ (\E r \in Calls : CarryOut(r)) \/ Answer \/ Probe
  BY <1>6 DEF ListRequests, CarryOut, Answer, Probe, fileVars, historyVars
<1>7. CASE LastProbe
  BY <1>7 DEF LastProbe, UnexpectedExit, fileVars
<1>8. CASE End
  BY <1>8 DEF End, loopVars
<1>9. CASE ChildCloses
  BY <1>9 DEF ChildCloses, loopVars, fileVars, historyVars
<1>10. CASE UNCHANGED vars
  BY <1>10 DEF vars, loopVars, fileVars, historyVars
<1> QED BY <1>1, <1>2, <1>3, <1>4, <1>5, <1>6, <1>7, <1>8, <1>9, <1>10, StepSides, HostCases

-----------------------------------------------------------------------------
(* What the agent-runner said, and what the record says of it.             *)

(* A note at the end of the file leaves AllSaid as it was.                 *)
LEMMA NoteAppended ==
  ASSUME events \in Seq(Events), events' = Append(events, "note")
  PROVE  /\ AllSaid /\ offset' = offset => AllSaid'
         /\ NoErrorIn(events) => NoErrorIn(events')
<1>1. /\ DOMAIN events = 1 .. Len(events) /\ Len(events) \in Nat
      /\ DOMAIN events' = 1 .. Len(events) + 1
      /\ \A i \in DOMAIN events : events'[i] = events[i]
      /\ events'[Len(events) + 1] = "note"
  BY AppendProperties, LenProperties DEF Events
<1> QED BY <1>1 DEF AllSaid, NoErrorIn

(* The agent's side once the marker or its death is known.                 *)
LEMMA AgentQuiet ==
  ASSUME TurnTypes, EndsKnown, AgentSide, agent \in {"leave", "dead"}
  PROVE  /\ AllSaid => AllSaid'
         /\ NoErrorIn(events) => NoErrorIn(events')
<1>1. events' = events \/ events' = Append(events, "note")
  BY AgentLeaves DEF EndsKnown
<1>2. offset' = offset
  BY AgentMoves DEF loopVars
<1> QED BY <1>1, <1>2, NoteAppended DEF TurnTypes, AllSaid, NoErrorIn

LEMMA FinalIsQuiet ==
  ASSUME EndsKnown, final
  PROVE  agent \in {"leave", "dead"}
BY DEF EndsKnown

LEMMA HeardStep ==
  ASSUME TurnTypes, EndsKnown, EventsFollow, Heard, [Next]_vars
  PROVE  Heard'
<1> USE DEF Heard, NothingUnsaid, AllSaid, Returned, Late
<1>1. CASE AgentSide
  <2>1. host # "over" /\ host' = host /\ final' = final
    BY <1>1, AgentMoves DEF loopVars
  <2>2. ASSUME host \in Late \/ (host = "yield" /\ final)
        PROVE  AllSaid'
    <3>1. final
      BY <2>2 DEF EndsKnown
    <3>2. AllSaid
      BY <2>2
    <3> QED BY <1>1, <3>1, <3>2, FinalIsQuiet, AgentQuiet
  <2> QED BY <2>1, <2>2
<1>2. CASE Begin \/ SessionFails \/ SessionCreated \/ Spawn \/ Aborts
  BY <1>2 DEF Begin, SessionFails, SessionCreated, Spawn, Aborts, Abort, EndsKnown
<1>3. CASE LoopTest
  BY <1>3 DEF LoopTest, AfterTest
<1>4. CASE ReadEvents
  <2>1. offset' = Len(events) /\ events' = events /\ host' # "over"
    BY <1>4 DEF ReadEvents, NewOffset, AfterEvents, fileVars
  <2>2. AllSaid'
    BY <2>1, LenProperties DEF TurnTypes
  <2> QED BY <2>1, <2>2
<1>5. CASE Deliver
  <2>1. host' # "over" /\ (host' = "yield" /\ final' => host = "yield" /\ final)
    BY <1>5 DEF Deliver, AfterEvents
  <2>2. host' \in Late => host = "yield" /\ final
    BY <1>5 DEF Deliver, AfterEvents
  <2> QED BY <1>5, <2>1, <2>2 DEF Deliver, fileVars
<1>6. CASE ListRequests \/ (\E r \in Calls : CarryOut(r)) \/ Answer \/ Probe
  BY <1>6 DEF ListRequests, CarryOut, Answer, Probe
<1>7. CASE LastProbe \/ End \/ ChildCloses
  BY <1>7 DEF LastProbe, End, ChildCloses, loopVars, fileVars
<1>8. CASE UNCHANGED vars
  BY <1>8 DEF vars, loopVars, fileVars
<1> QED BY <1>1, <1>2, <1>3, <1>4, <1>5, <1>6, <1>7, <1>8, StepSides, HostCases
LEMMA ErrorsCountStep ==
  ASSUME TurnTypes, EndsKnown, EventsFollow, Heard, ErrorsCount, [Next]_vars
  PROVE  ErrorsCount'
<1> USE DEF ErrorsCount, CompletedIsTrue
<1>0. CompletedIsTrue <=> (record = "completed" => marker /\ NoErrorIn(events))
  BY DEF NoErrorIn
<1>1. CASE AgentSide
  <2>1. /\ UNCHANGED <<host, status, record, delivered>>
        /\ host # "over" /\ (marker => marker')
    BY <1>1, AgentMoves, AgentLeaves DEF historyVars, EndsKnown
  <2>2. record' # "completed"
    BY <2>1 DEF TurnTypes
  <2>3. host \in {"awaitClose", "remove"} => agent \in {"leave", "dead"}
    BY FinalIsQuiet DEF EndsKnown, Late
  <2>4. host \in {"awaitClose", "remove"} /\ NoErrorIn(events) => NoErrorIn(events')
    BY <1>1, <2>3, AgentQuiet
  <2> QED BY <2>1, <2>2, <2>4 DEF NoErrorIn
<1>2. CASE Begin \/ SessionFails \/ SessionCreated \/ Spawn \/ Aborts
  BY <1>2 DEF TurnTypes, Begin, SessionFails, SessionCreated, Spawn, Aborts, Abort, historyVars, fileVars
<1>3. CASE LoopTest \/ ReadEvents \/ ListRequests \/ (\E r \in Calls : CarryOut(r)) \/ Answer \/ Probe
  <2>1. UNCHANGED <<status, record, delivered, events, marker>> /\ host \notin {"remove", "over"}
    BY <1>3 DEF LoopTest, ReadEvents, ListRequests, CarryOut, Answer, Probe, fileVars, historyVars
  <2>2. host' \notin {"awaitClose", "remove"}
    BY <1>3 DEF LoopTest, AfterTest, ReadEvents, AfterEvents, ListRequests, CarryOut, Answer, Probe
  <2> QED BY <2>1, <2>2 DEF NoErrorIn
<1>4. CASE Deliver
  <2>1. /\ host = "yield" /\ host' \in {"yield", "list", "lastProbe"}
        /\ UNCHANGED <<record, events, marker>>
        /\ status' = "completed" => Head(slice) # "error" /\ status = "completed"
    BY <1>4 DEF Deliver, AfterEvents, fileVars
  <2>2. slice \in Seq(Events) /\ delivered \in Seq(Events) /\ slice # <<>>
    BY <1>4 DEF TurnTypes, Deliver
  <2>3. /\ Head(slice) \in Events /\ delivered' = Append(delivered, Head(slice))
        /\ DOMAIN delivered' = 1 .. Len(delivered) + 1 /\ DOMAIN delivered = 1 .. Len(delivered)
        /\ \A i \in DOMAIN delivered : delivered'[i] = delivered[i]
        /\ delivered'[Len(delivered) + 1] = Head(slice)
        /\ Len(delivered) \in Nat
    BY <1>4, <2>2, HeadTailProperties, AppendProperties, LenProperties DEF Deliver
  <2>4. status' = "completed" => NoErrorIn(delivered')
    BY <2>1, <2>3 DEF NoErrorIn
  <2> QED BY <2>1, <2>4 DEF NoErrorIn, TurnTypes
<1>5. CASE LastProbe
  <2>1. /\ host = "lastProbe" /\ host' \in {"awaitClose", "remove"}
        /\ UNCHANGED <<record, events, marker>>
        /\ status' = "completed" => status = "completed" /\ ~UnexpectedExit /\ delivered' = delivered
    BY <1>5 DEF LastProbe, fileVars
  <2>2. delivered = SubSeq(events, 1, offset) /\ AllSaid
    BY <2>1, ConcatEmptySeq DEF EventsFollow, EventsInOrder, TurnTypes, Heard, Late
  <2>3. ASSUME status' = "completed" PROVE NoErrorIn(events)
    <3>1. NoErrorIn(delivered)
      BY <2>1, <2>3
    <3>2. /\ DOMAIN delivered = 1 .. offset
          /\ \A i \in 1 .. offset : delivered[i] = events[i]
      <4>1. /\ Len(events) \in Nat /\ DOMAIN events = 1 .. Len(events) /\ offset \in 0 .. Len(events)
            /\ \A i \in 1 .. offset : events[i] \in Events
        BY LenProperties, ElementOfSeq DEF TurnTypes, TurnTypeOK
      <4> QED BY <2>2, <4>1, SubSeqProperties, LenProperties
    <3>3. DOMAIN events = 1 .. Len(events) /\ offset \in Nat
      BY LenProperties DEF TurnTypes, TurnTypeOK
    <3> QED BY <2>2, <3>1, <3>2, <3>3 DEF AllSaid, NoErrorIn
  <2>4. ASSUME status' = "completed" PROVE marker
    BY <2>1, <2>4 DEF EndsKnown, UnexpectedExit, Late, TurnTypes, TurnTypeOK
  <2> QED BY <2>1, <2>3, <2>4 DEF NoErrorIn, TurnTypes
<1>6. CASE End
  BY <1>0, <1>6 DEF End, fileVars, historyVars, NoErrorIn
<1>7. CASE ChildCloses
  BY <1>7 DEF ChildCloses, loopVars, fileVars, historyVars, NoErrorIn
<1>8. CASE UNCHANGED vars
  BY <1>8 DEF vars, loopVars, fileVars, historyVars, NoErrorIn
<1> QED BY <1>1, <1>2, <1>3, <1>4, <1>5, <1>6, <1>7, <1>8, StepSides, HostCases

-----------------------------------------------------------------------------
(* The requests.                                                           *)

LEMMA RequestsOnceStep ==
  ASSUME TurnTypes, RequestsOnce, [Next]_vars
  PROVE  RequestsOnce'
<1> USE DEF RequestsOnce
<1>1. CASE AgentSide
  BY <1>1, AgentMoves DEF loopVars, historyVars
<1>2. CASE Begin \/ SessionFails \/ SessionCreated \/ Spawn \/ Aborts
  BY <1>2 DEF Begin, SessionFails, SessionCreated, Spawn, Aborts, Abort, loopVars, fileVars, historyVars
<1>3. CASE LoopTest \/ ReadEvents \/ Deliver
  BY <1>3 DEF LoopTest, AfterTest, ReadEvents, Deliver, AfterEvents, fileVars, historyVars
<1>4. CASE ListRequests
  BY <1>4 DEF ListRequests, Fresh, fileVars, historyVars
<1>5. ASSUME NEW r \in Calls, CarryOut(r) PROVE RequestsOnce'
  <2>1. r \notin seen /\ seen' = seen \cup {r} /\ responses' = responses
    BY <1>5 DEF CarryOut, Remembered, fileVars
  <2>2. \A q \in Calls : carriedOut'[q] = IF q = r THEN carriedOut[r] + 1 ELSE carriedOut[q]
    BY <1>5 DEF CarryOut, TurnTypes
  <2>3. listed' = listed \ {r} /\ current' = r
    BY <1>5 DEF CarryOut
  <2> QED BY <2>1, <2>2, <2>3
<1>6. CASE Answer \/ Probe
  BY <1>6 DEF Answer, Probe, fileVars, historyVars
<1>7. CASE LastProbe \/ End \/ ChildCloses
  BY <1>7 DEF LastProbe, End, ChildCloses, loopVars, fileVars, historyVars
<1>8. CASE UNCHANGED vars
  BY <1>8 DEF vars, loopVars, fileVars, historyVars
<1> QED BY <1>1, <1>2, <1>3, <1>4, <1>5, <1>6, <1>7, <1>8, StepSides, HostCases

-----------------------------------------------------------------------------
TurnInv == TurnTypes /\ EndsKnown /\ EventsFollow /\ Heard /\ ErrorsCount /\ RequestsOnce

LEMMA TurnInvHolds == Spec => []TurnInv
<1>1. Init => TurnInv
  <2> SUFFICES ASSUME Init PROVE TurnInv
    OBVIOUS
  <2>1. TurnTypes
    <3>1. <<>> \in Seq(Events) /\ Len(events) = 0
      BY EmptySeq DEF Init
    <3>2. half \in BOOLEAN
      BY DEF Init
    <3>3. TurnTypeOK
      BY <3>1, <3>2 DEF Init, TurnTypeOK
    <3> QED BY <3>1, <3>3 DEF Init, TurnTypes
  <2>2. EventsFollow
    <3>1. SubSeq(events, 1, offset) = <<>>
      BY SubSeqEmpty DEF Init
    <3> QED BY <3>1, ConcatEmptySeq, EmptySeq DEF Init, EventsFollow, EventsInOrder
  <2>3. EndsKnown /\ Heard /\ ErrorsCount /\ RequestsOnce
    BY DEF Init, EndsKnown, Heard, NothingUnsaid, Returned, Late, Early, ErrorsCount, CompletedIsTrue,
           NoErrorIn, RequestsOnce
  <2> QED BY <2>1, <2>2, <2>3 DEF TurnInv
<1>2. TurnInv /\ [Next]_vars => TurnInv'
  BY TurnTypesStep, EndsKnownStep, EventsFollowStep, HeardStep, ErrorsCountStep, RequestsOnceStep
     DEF TurnInv
<1> QED BY <1>1, <1>2, PTL DEF Spec

(* The variables keep their types, and the host the places of its code.    *)
THEOREM TurnTypeCorrect == Spec => []TurnTypeOK
<1>1. TurnInv => TurnTypeOK
  BY DEF TurnInv, TurnTypes
<1> QED BY <1>1, TurnInvHolds, PTL

(* The orchestrator gets the events of the file, each once and in order    *)
(* (readPendingEvents and the loop over what it returns).                  *)
THEOREM EventsArriveInOrder == Spec => []EventsInOrder
<1>1. TurnInv => EventsInOrder
  BY DEF TurnInv, EventsFollow
<1> QED BY <1>1, TurnInvHolds, PTL

(* A turn that returns has handed on all the agent-runner said: the read   *)
(* after the loop of run() comes after the agent's end.                    *)
THEOREM NothingLeftUnsaid == Spec => []NothingUnsaid
<1>1. TurnInv => NothingUnsaid
  BY DEF TurnInv, Heard
<1> QED BY <1>1, TurnInvHolds, PTL

(* A record that says completed has the marker and no error behind it      *)
(* (runTaskForGroup's final status).                                       *)
THEOREM CompletedMeansSuccess == Spec => []CompletedIsTrue
<1>1. TurnInv => CompletedIsTrue
  BY DEF TurnInv, ErrorsCount
<1> QED BY <1>1, TurnInvHolds, PTL

(* A tool request is carried out once at most, and only what was carried   *)
(* out is answered (seenToolRequests).                                     *)
THEOREM RequestsCarriedOutOnce == Spec => []CarriedOutOnce
<1>1. TurnInv => CarriedOutOnce
  BY DEF TurnInv, RequestsOnce, CarriedOutOnce
<1> QED BY <1>1, TurnInvHolds, PTL
=============================================================================
