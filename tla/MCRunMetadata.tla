---------------------------- MODULE MCRunMetadata ----------------------------
(* A root with one item and a subflow with two.                            *)
EXTENDS RunMetadata, TLC

CONSTANTS a, a1, w1

MCRun == {a, a1}
MCRootOf == a :> a @@ a1 :> a
MCItems == a :> {1} @@ a1 :> {1, 2}

(* A subflow with a step that failed is failed, whatever its items say.    *)
One(x) == [i \in {1} |-> x]
Two(x) == [i \in {1, 2} |-> IF i = 1 THEN x ELSE "completed"]
Comes(x, s) == [results |-> x, status |-> s]
MCFate ==
    a :> {Comes(One("completed"), "Completed"), Comes(One("failed"), "Failed")}
    @@ a1 :> {Comes(Two("completed"), "Completed"), Comes(Two("completed"), "Failed"),
              Comes(Two("failed"), "Failed")}
=============================================================================
