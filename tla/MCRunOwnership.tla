--------------------------- MODULE MCRunOwnership ---------------------------
(* Two orchestrators and one run.  A process that has lost its lease is    *)
(* needed again when an executor fails after that.                         *)
EXTENDS RunOwnership

CONSTANTS n1, n2, r1
MCNode == {n1, n2}
MCRun == {r1}
MCIngress == {n1}
MCFaultPlans == {<<f>> : f \in Fault \ {"expiry"}} \union {<<"expiry", "execution">>}
=============================================================================
