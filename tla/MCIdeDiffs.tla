----------------------------- MODULE MCIdeDiffs -----------------------------
EXTENDS IdeDiffs
CONSTANTS d1, d2, d3, p
OneFile == [d \in Diffs |-> p]
==============================================================================
