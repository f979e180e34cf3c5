---------------------------- MODULE MCScheduler -----------------------------
(***************************************************************************)
(* Instances of Scheduler for TLC.  The server alone: two groups with one  *)
(* slot between them, a once task of the one and an interval task of the   *)
(* other, and messages of both.  Beside the command line: one group with   *)
(* two recurring tasks, which compete with each other and its messages.    *)
(***************************************************************************)
EXTENDS Scheduler, TLC

CONSTANTS g1, g2, t1, t2

MCTwoHomes == (t1 :> g1) @@ (t2 :> g2)
MCOneHome == (t1 :> g1) @@ (t2 :> g1)
MCKind == (t1 :> "once") @@ (t2 :> "interval")
MCRecurring == (t1 :> "cron") @@ (t2 :> "interval")
MCEveryMinute == (t1 :> 3) @@ (t2 :> 1)
MCEvery == (t1 :> 3) @@ (t2 :> 2)
=============================================================================
