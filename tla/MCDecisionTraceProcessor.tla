---------------------- MODULE MCDecisionTraceProcessor ----------------------
(* Small instances of DecisionTraceProcessor for TLC. *)
EXTENDS DecisionTraceProcessor, TLC

CONSTANTS e1, e2, e3, w1, w2, v1, v2

TwoEvents == {e1, e2}
ThreeEvents == {e1, e2, e3}
OneEvent == {e1}
NoEvents == {}
TwoWorkers == {w1, w2}
OneWorker == {w1}
OneMapper == {v1}
TwoMappers == {v1, v2}
Second == {e2}
Third == {e3}
SomeTokens == 1 .. 7
AllFaults == {"timeout", "crash", "garbled", "slow"}
PlainFaults == {"timeout", "crash", "slow"}

\* The two workers run the same code and are interchangeable.
Interchangeable == Permutations(TwoWorkers)
============================================================================
