----------------------------- MODULE MCSubagent -----------------------------
EXTENDS Subagent
CONSTANTS s1, s2, emit
=============================================================================
