------------------------- MODULE MCExecutionManager -------------------------
(* Instances of ExecutionManager for TLC. *)
EXTENDS ExecutionManager, TLC

CONSTANTS e1, e2, e3, w1, w2, p1, p2

OneProvider == [e \in Execs |-> p1]
TwoProviders == [e \in Execs |-> IF e = e3 THEN p2 ELSE p1]
SecondUnknown == [e \in Execs |-> IF e = e2 THEN p2 ELSE p1]
NoCancel == [e \in Execs |-> 0]
OneCancel == [e \in Execs |-> 1]
TwoCancels == [e \in Execs |-> 2]
OnlyFirstOnce == [e \in Execs |-> IF e = e1 THEN 1 ELSE 0]
OneEach == [p \in Providers |-> 1]
NoLimit == [p \in Providers |-> 10]
WaitForFirst == [w \in Waiters |-> e1]

FirstTwo == Permutations({e1, e2})
=============================================================================
