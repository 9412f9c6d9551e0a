---------------------------- MODULE MCTaskWorker ----------------------------
(* Two slots and three executions, so that a reconnect can exceed a limit. *)
EXTENDS TaskWorker

CONSTANTS h1, h2, h3, t1, t2

MCHandler == {h1, h2, h3}
MCTask == {t1, t2}
=============================================================================
