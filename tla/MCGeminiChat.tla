---------------------------- MODULE MCGeminiChat ----------------------------
(* Small conversations for TLC: three messages, the last of which may bring  *)
(* back the results of the tool calls of the second, after a past of six to  *)
(* eight entries, or of none.                                                *)
EXTENDS GeminiChat

CONSTANTS m1, m2, m3

MCAnswers == [m \in Messages |-> IF m = m3 THEN m2 ELSE None]

Old(speaker, i) == Entry(speaker, << <<"past", i>> >>, 1)
Chatting == << Old("human", 1), Old("ai", 2), Old("human", 3), Old("ai", 4),
               Old("human", 5), Old("ai", 6) >>
Working == << Old("human", 1), Old("ai", 2), Old("human", 3), Old("call", 4),
              Old("tool", 5), Old("ai", 6) >>
Busy == << Old("human", 1), Old("ai", 2), Old("human", 3), Old("ai", 4),
           Old("human", 5), Old("call", 6), Old("tool", 7) >>
MCPast == {<<>>, Chatting, Working, Busy}
=============================================================================
