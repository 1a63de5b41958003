------------------------- MODULE MCAttemptLifecycle -------------------------
(* A handful of requests, two takers and a ticket or two.                    *)
EXTENDS AttemptLifecycle, TLC

CONSTANTS ann, bob, t1, t2

OneBearer == [t \in {t1} |-> ann]
BearerOf == [t \in {t1, t2} |-> ann]
SameRequests == Permutations(Starts) \cup Permutations(Submits) \cup Permutations(Marks)
                    \cup Permutations(Written)
=============================================================================
