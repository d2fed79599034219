---------------------------- MODULE MCAgentTask ----------------------------
EXTENDS AgentTask
CONSTANTS u1, c1, c2, g, k
=============================================================================
