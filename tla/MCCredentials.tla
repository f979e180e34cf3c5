---------------------------- MODULE MCCredentials ---------------------------
(***************************************************************************)
(* The instance of Credentials for TLC: two turns that may refresh at once *)
(* and two accounts, one for the logins of each process.                   *)
(***************************************************************************)
EXTENDS Credentials

MCAccountsOf == [p \in Processes |-> IF p = "server" THEN {"a"} ELSE {"b"}]
=============================================================================
