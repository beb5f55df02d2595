---------------------------- MODULE MCMcpServer ----------------------------
(* Two desktop programs, of which the first publishes two snapshots: a     *)
(* class of an archive, then no project at all.                            *)
EXTENDS McpServer, TLC

CONSTANTS g1, g2, p1, p2, c1, apk, Main, None

MCViews == <<[project |-> apk, class |-> Main], [project |-> None, class |-> None]>>
MCRevision == g1 :> 2 @@ g2 :> 0
=============================================================================
