--------------------------- MODULE MCRouterBench ---------------------------
(* RouterBench on plans of at most seven calls: "strict" reserves the most a *)
(* Haiku call can cost, "practical" does not, "verification" stops at its    *)
(* first failure, "dear" is expected to pass its cap, the rules of "changed" *)
(* are not the frozen ones.                                                  *)
EXTENDS RouterBench

Strict == [schedule |-> <<"haiku", "jev", "haiku", "rules", "jev", "haiku", "haiku">>,
           reservation |-> [bedrock |-> 2, typesafe |-> 1],
           maxCall |-> [bedrock |-> 2, typesafe |-> 1],
           expected |-> [bedrock |-> 0, typesafe |-> 0],
           cap |-> [bedrock |-> 5, typesafe |-> 2, total |-> 6],
           stopOnFirstFailure |-> FALSE, frozen |-> TRUE, usageReported |-> TRUE]

Practical == [Strict EXCEPT
           !.schedule = <<"haiku", "haiku", "rules", "haiku", "jev", "haiku">>,
           !.reservation = [bedrock |-> 1, typesafe |-> 1],
           !.maxCall = [bedrock |-> 3, typesafe |-> 1],
           !.cap = [bedrock |-> 3, typesafe |-> 1, total |-> 4],
           !.usageReported = FALSE]

Verification == [Strict EXCEPT !.schedule = <<"jev", "jev", "jev">>,
           !.cap = [bedrock |-> 0, typesafe |-> 3, total |-> 3],
           !.stopOnFirstFailure = TRUE]

Dear == [Strict EXCEPT !.expected = [bedrock |-> 1, typesafe |-> 1]]

Changed == [Strict EXCEPT !.frozen = FALSE]

AllPlans == {Strict, Practical, Verification, Dear, Changed}
UnreportedPlans == {[Strict EXCEPT !.usageReported = FALSE]}
=============================================================================
