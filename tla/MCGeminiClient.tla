--------------------------- MODULE MCGeminiClient ---------------------------
(* Short sessions for TLC: messages of the user and one that brings tool    *)
(* results, and a saved conversation.  Its first turn is two entries long,  *)
(* so that sendMessageStream, when it resumes the conversation without      *)
(* them, leaves a whole turn.                                               *)
EXTENDS GeminiClient

CONSTANTS m1, m2, r1, r2

Old(speaker, i) == Entry(speaker, << <<"saved", i>> >>)
OldSession == << Old("human", 1), Old("ai", 2), Old("human", 3), Old("ai", 4) >>
MCSaved == {OldSession}
=============================================================================
