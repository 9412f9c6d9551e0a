--------------------------- MODULE MCPendingTasks ---------------------------
(* Two workers, so that one of an earlier attempt meets one of a later.    *)
EXTENDS PendingTasks

MCWorker == {"w1", "w2"}
=============================================================================
