---------------------------- MODULE MCVoiceQuota ----------------------------
(* Small instances of VoiceQuota for TLC. *)
EXTENDS VoiceQuota, TLC

CONSTANTS p1, p2, r1, r2, r3

OneProcess == {p1}
TwoProcesses == {p1, p2}
TwoRequests == {r1, r2}
ThreeRequests == {r1, r2, r3}

\* Requests are just names.
Interchangeable == Permutations(ThreeRequests)
============================================================================
