------------------------------ MODULE MCRunLock ------------------------------
\* RunLock for TLC: invocations are model values. (They are interchangeable, but
\* a liveness property is checked, which symmetry would not be sound for.)
EXTENDS RunLock

=============================================================================
