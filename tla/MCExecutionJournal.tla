------------------------- MODULE MCExecutionJournal -------------------------
(* One execution tree with a subflow.                                      *)
EXTENDS ExecutionJournal, TLC
CONSTANTS a, a1, w1, w2, q1

MCEvent ==
    a :> {[runs |-> {a, a1}, completed |-> None], [runs |-> {a}, completed |-> a]}
=============================================================================
