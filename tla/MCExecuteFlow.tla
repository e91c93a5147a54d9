---------------------------- MODULE MCExecuteFlow ----------------------------
\* ExecuteFlow for TLC; the configurations give all its constants values.
EXTENDS ExecuteFlow
=============================================================================
