---------------------------- MODULE MCGroupQueue ----------------------------
(***************************************************************************)
(* Instances of GroupQueue for TLC, and the properties checked on them.    *)
(* Three groups compete for Limit slots; two tasks belong to one group, so *)
(* that their order and their priority over its messages matter, and the   *)
(* other groups have messages only.                                        *)
(***************************************************************************)
EXTENDS GroupQueueProps, TLC

CONSTANTS g1, g2, g3, t1, t2

MCGroups == {g1, g2, g3}
MCHome == (t1 :> g1) @@ (t2 :> g1)
MCHomeSplit == (t1 :> g1) @@ (t2 :> g2)
MCTwoGroups == {g1, g2}
=============================================================================
