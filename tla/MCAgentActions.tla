--------------------------- MODULE MCAgentActions ---------------------------
\* Three calls, of which one may be killed.
EXTENDS AgentActions
=============================================================================
