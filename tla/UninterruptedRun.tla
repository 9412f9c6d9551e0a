-------------------------- MODULE UninterruptedRun --------------------------
(***************************************************************************)
(* What a run promises, without schedulers, journals or crashes: the       *)
(* results of its steps are recorded one by one.  A result is recorded     *)
(* when nothing that the input of the step needs is missing, and is never  *)
(* replaced.                                                               *)
(***************************************************************************)
EXTENDS ItemState

CONSTANT Item

VARIABLES
    flow,               \* the flow (and input) of each item
    recorded            \* the results of the steps of each item

RunInit ==
    /\ flow \in [Item -> Flow]
    /\ recorded = [i \in Item |-> NewItem.results]

Record(i, s, result) ==
    /\ recorded[i][s] = NotRun
    /\ InputNeeds(flow[i], s, recorded[i]) = {}
    /\ recorded' = [recorded EXCEPT ![i][s] = result]
    /\ UNCHANGED flow

RunNext == \E i \in Item, s \in Step, result \in FlowResult : Record(i, s, result)

RunSpec == RunInit /\ [][RunNext]_<<flow, recorded>>
=============================================================================
