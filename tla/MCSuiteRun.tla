----------------------------- MODULE MCSuiteRun -----------------------------
\* SuiteRun for TLC: the suites of N tests over the capabilities.
EXTENDS SuiteRun

CONSTANTS a, b     \* two capabilities

Test(needs, produces) == [needs |-> needs, produces |-> produces, teardown |-> FALSE]

Cleanup == [needs |-> {a}, produces |-> {}, teardown |-> TRUE]

\* A producer, a consumer that produces in its turn, one that closes a cycle
\* with it, a last consumer and a cleanup.
Menu == {Test({}, {a}), Test({a}, {b}), Test({b}, {a}), Test({b}, {}), Cleanup}

\* Every suite of N of these that ends in a cleanup: chains stored back to
\* front, several producers of one need, cycles with a test downstream of them,
\* several cleanups.
FromMenu == {s \in [1 .. N -> Menu] : s[N].teardown}

=============================================================================
