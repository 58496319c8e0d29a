--------------------------- MODULE MCAgentActions ---------------------------
EXTENDS AgentActions

CONSTANTS a, b

\* Two ports, each behind a tunnel of its own.
TwoPorts == <<a, b>>
=============================================================================
