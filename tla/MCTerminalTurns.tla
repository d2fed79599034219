--------------------------- MODULE MCTerminalTurns ---------------------------
EXTENDS TerminalTurns
CONSTANTS m1, m2, m3, c1, c2
==============================================================================
