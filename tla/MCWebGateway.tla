---------------------------- MODULE MCWebGateway ----------------------------
(***************************************************************************)
(* The instance of WebGateway for TLC: the main group and two web users    *)
(* whose ids give the same folder name, each with one connection at a      *)
(* time.                                                                   *)
(***************************************************************************)
EXTENDS WebGateway, TLC

CONSTANTS control, u1, u2, main, web

MCHomeFolder == control :> main
MCUserOf == (1 :> u1) @@ (2 :> u2)
MCWebFolder == (u1 :> web) @@ (u2 :> web)
=============================================================================
