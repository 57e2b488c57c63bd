------------------------- MODULE MCMockRegistration -------------------------
(* Small instances of MockRegistration for TLC. *)
EXTENDS MockRegistration, TLC

CONSTANTS d1, d2, r1, r2, r3, r4, a, b, x, y

TwoDevices == {d1, d2}

ThreeRequests == {r1, r2, r3}

TwoLists == {a, b}
OneList == {a}
TwoContexts == {x, y}

\* In context y no list is valid.
RejectedInY == {<<a, y>>, <<b, y>>}
NoneRejected == {}

\* The records are valid at first.
MCInit == Init /\ context = x
MCSpec == MCInit /\ [][Next]_vars

\* Devices and lists are alike, and a request is just a name.
Interchangeable == Permutations(TwoDevices) \union Permutations(ThreeRequests)
                   \union Permutations(TwoLists)
=============================================================================
