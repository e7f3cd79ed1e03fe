----------------------------- MODULE MCRecovery -----------------------------
EXTENDS Recovery

\* Two versions that agree on one chunk, and a tree of neither.
T(a, b, c) == [x \in Chunks |-> CASE x = "a" -> a [] x = "b" -> b [] x = "c" -> c]
TwoVersions == <<T(1, 1, 1), T(1, 2, 2)>>
Damaged == {T(0, 0, 1), T(1, 0, 2)}
OneVersion == <<T(1, 1, 1)>>
=============================================================================
