-------------------------- MODULE MCDaemonScheduler --------------------------
(***************************************************************************)
(* Two queries, one of which publishes outside any workspace, and two      *)
(* structural jobs that publish to the same workspace, of one client. The  *)
(* limits are the smallest at which every one of them can bind.            *)
(***************************************************************************)
EXTENDS DaemonScheduler, TLC

CONSTANTS q1, q2, s1, s2, cli, ws

MCPoolOf == q1 :> "query" @@ q2 :> "query" @@ s1 :> "structural" @@ s2 :> "structural"
MCClientOf == [j \in Jobs |-> cli]
MCWorkspaceOf == q1 :> None @@ q2 :> None @@ s1 :> ws @@ s2 :> ws
MCConcurrency == [p \in Pools |-> IF p = "structural" THEN 2 ELSE 1]
MCMaxInFlight == cli :> 3

=============================================================================
