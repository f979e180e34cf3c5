---------------------------- MODULE RunContract -----------------------------
(***************************************************************************)
(* What the run queue promises to the orchestrator and the scheduler, with *)
(* no word on how it keeps its promise: no waiting list, no counters, no   *)
(* timers.                                                                 *)
(*                                                                         *)
(*   - A group runs one thing at a time, and at most Limit groups run.     *)
(*   - What runs was asked for.  What was asked for stays asked for until  *)
(*     it runs; tasks of a group run once per request, in the order they   *)
(*     were asked for, and before the group's messages.                    *)
(*   - A run ends only by itself: nothing replaces or preempts it.         *)
(*   - Once closed, nothing is accepted and nothing starts.                *)
(***************************************************************************)
EXTENDS Integers, Sequences, FiniteSets

CONSTANTS Groups, Tasks, Home, Limit, None, MessageRun

VARIABLES
  run,             (* what each group runs                                 *)
  messagesWanted,  (* whether its messages are to be processed             *)
  tasksWanted,     (* the tasks it is to execute, in order                 *)
  closed

vars == <<run, messagesWanted, tasksWanted, closed>>

Init ==
  /\ run = [g \in Groups |-> None]
  /\ messagesWanted = [g \in Groups |-> FALSE]
  /\ tasksWanted = [g \in Groups |-> <<>>]
  /\ closed = FALSE

Wanted(g) == tasksWanted[g] # <<>> \/ messagesWanted[g]
Running(r) == {g \in Groups : r[g] # None}

WantMessages(g) ==
  /\ ~closed
  /\ messagesWanted' = [messagesWanted EXCEPT ![g] = TRUE]
  /\ UNCHANGED <<run, tasksWanted, closed>>

WantTask(t) ==
  /\ ~closed
  /\ tasksWanted' = [tasksWanted EXCEPT ![Home[t]] = Append(@, t)]
  /\ UNCHANGED <<run, messagesWanted, closed>>

(* A request that is served at once, in a free slot, by an idle group that *)
(* has nothing else to do.                                                 *)
Serve(g, r) ==
  /\ ~closed
  /\ run[g] = None
  /\ ~Wanted(g)
  /\ Cardinality(Running(run)) < Limit
  /\ run' = [run EXCEPT ![g] = r]
  /\ UNCHANGED <<messagesWanted, tasksWanted, closed>>

(* Group g's run ends and the groups of S, g itself perhaps among them,    *)
(* begin what they want next.                                              *)
Turnover(g, S) ==
  /\ run[g] # None
  /\ \A h \in S : (h = g \/ run[h] = None) /\ Wanted(h) /\ ~closed
  /\ run' = [h \in Groups |->
               IF h \in S
               THEN IF tasksWanted[h] # <<>> THEN Head(tasksWanted[h]) ELSE MessageRun
               ELSE IF h = g THEN None ELSE run[h]]
  /\ Cardinality(Running(run')) <= Limit
  /\ tasksWanted' = [h \in Groups |-> IF h \in S /\ tasksWanted[h] # <<>>
                                      THEN Tail(tasksWanted[h]) ELSE tasksWanted[h]]
  /\ messagesWanted' = [h \in Groups |->
                          messagesWanted[h] /\ (h \in S => tasksWanted[h] # <<>>)]
  /\ UNCHANGED closed

Close == closed' = TRUE /\ UNCHANGED <<run, messagesWanted, tasksWanted>>

Next ==
  \/ \E g \in Groups : WantMessages(g) \/ Serve(g, MessageRun)
  \/ \E t \in Tasks : WantTask(t) \/ Serve(Home[t], t)
  \/ \E g \in Groups, S \in SUBSET Groups : Turnover(g, S)
  \/ Close

Spec == Init /\ [][Next]_vars
=============================================================================
