--------------------------- MODULE MCRunRecovery ---------------------------
(* The flows of MCItemsState, one item, across crashes.                    *)
EXTENDS RunRecovery, MCItemsState

OneItem == {i1}
SuccessResult == {"null", "object"}
=============================================================================
