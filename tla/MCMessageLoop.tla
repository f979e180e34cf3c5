--------------------------- MODULE MCMessageLoop ----------------------------
(***************************************************************************)
(* Instances of MessageLoop for TLC: the main group g1 and a chat g2 that  *)
(* needs the trigger word, with one scheduled task in g2, share one slot,  *)
(* so that each waits for the other's runs.                                *)
(***************************************************************************)
EXTENDS MessageLoop, TLC

CONSTANTS g1, g2, t1

MCHome == t1 :> g2
=============================================================================
