------------------------- MODULE GeminiClientProofs -------------------------
(***************************************************************************)
(* Theorems about GeminiClient: how often a summary is requested in vain,  *)
(* that no compression separates a response from its call, the types, and  *)
(* that while there is a chat nothing that was said is lost or repeated.   *)
(***************************************************************************)
EXTENDS GeminiClient, SequenceFacts

(* OneWastedSummary is not inductive: it does not say that a failure is     *)
(* remembered, nor that no automatic request is under way once there has    *)
(* been one.                                                                *)
WastedInv ==
  /\ wasted \in {0, 1}
  /\ wasted = 1 => failed = TRUE
  /\ turn.pc = "summarising" /\ ~ Forced => wasted = 0
  /\ DOMAIN turn = DOMAIN Idle

(* What the two ways to begin something and its end leave in turn.          *)
LEMMA TurnFields ==
  ASSUME NEW h, NEW m
  PROVE  /\ BeginSummary(h, m) => /\ DOMAIN turn' = DOMAIN Idle
                                  /\ turn'.pc = "summarising" /\ turn'.message = m
         /\ BeginTurn(h, m) => DOMAIN turn' = DOMAIN Idle /\ turn'.pc = "streaming"
         /\ AfterSummary(h) => DOMAIN turn' = DOMAIN Idle /\ turn'.pc # "summarising"
<1>1. ASSUME BeginSummary(h, m)
      PROVE  /\ DOMAIN turn' = DOMAIN Idle
             /\ turn'.pc = "summarising" /\ turn'.message = m
  BY <1>1 DEF BeginSummary, Idle
<1>2. ASSUME NEW n, BeginTurn(h, n)
      PROVE  DOMAIN turn' = DOMAIN Idle /\ turn'.pc = "streaming"
  BY <1>2 DEF BeginTurn, Idle
<1>3. AfterSummary(h) => DOMAIN turn' = DOMAIN Idle /\ turn'.pc # "summarising"
  <2>1. CASE Forced
    BY <2>1 DEF AfterSummary, Idle
  <2>2. CASE ~ Forced
    BY <1>2, <2>2 DEF AfterSummary
  <2> QED BY <2>1, <2>2
<1> QED BY <1>1, <1>2, <1>3

(* A message that is sent again is still the one that streams.              *)
LEMMA NextAttemptFields ==
  ASSUME turn.pc = "streaming", DOMAIN turn = DOMAIN Idle, NextAttempt
  PROVE  DOMAIN turn' = DOMAIN Idle /\ turn'.pc # "summarising"
<1>1. DOMAIN Idle = {"pc", "message", "attempt", "kept", "curated"}
  BY DEF Idle
<1>2. CASE turn' = Idle
  BY <1>2 DEF Idle
<1>3. CASE turn' = [turn EXCEPT !.attempt = turn.attempt + 1]
  BY <1>1, <1>3
<1> QED BY <1>2, <1>3 DEF NextAttempt

(* A chat that is started forgets the failures of the one before.           *)
LEMMA NewlyStartedKeeps ==
  ASSUME WastedInv, NewlyStarted
  PROVE  wasted' \in {0, 1} /\ (wasted' = 1 => failed' = TRUE)
BY DEF WastedInv, NewlyStarted

(* The invariant holds initially,                                          *)
LEMMA WastedInit ==
  ASSUME Init
  PROVE  WastedInv
BY DEF Init, WastedInv, Idle

(* and every step keeps it.                                                *)
LEMMA WastedStep ==
  ASSUME WastedInv, [Next]_vars
  PROVE  WastedInv'
<1> USE DEF WastedInv, Forced
<1>1. CASE UNCHANGED vars
  BY <1>1 DEF vars
<1>2. CASE ResetChat
  BY <1>2, NewlyStartedKeeps DEF ResetChat, IsIdle
<1>3. CASE GenerateDirectMessage
  BY <1>3, NewlyStartedKeeps DEF GenerateDirectMessage, IsIdle
<1>4. CASE RefreshAuth
  BY <1>4 DEF RefreshAuth, IsIdle
<1>5. CASE TryCompressChat
  <2>1. DOMAIN turn' = DOMAIN Idle /\ turn'.message = None
    BY <1>5, TurnFields DEF TryCompressChat
  <2> QED BY <1>5, <2>1 DEF TryCompressChat
<1>6. ASSUME NEW h \in Saved, SetHistory(h)
      PROVE  WastedInv'
  BY <1>6 DEF SetHistory, IsIdle
<1>7. ASSUME NEW m \in Messages, SendMessageStream(m)
      PROVE  WastedInv'
  <2>1. wasted' \in {0, 1} /\ (wasted' = 1 => failed' = TRUE)
    BY <1>7, NewlyStartedKeeps DEF SendMessageStream
  <2>2. \/ BeginSummary(IF chat = None THEN Resumed ELSE chat, m) /\ ~ failed'
        \/ BeginTurn(IF chat = None THEN Resumed ELSE chat, m)
    BY <1>7, Zenon DEF SendMessageStream
  <2>3. CASE BeginSummary(IF chat = None THEN Resumed ELSE chat, m) /\ ~ failed'
    <3>1. wasted' # 1
      BY <2>1, <2>3
    <3>2. DOMAIN turn' = DOMAIN Idle
      BY <2>3, TurnFields
    <3> QED BY <2>1, <3>1, <3>2
  <2>4. CASE BeginTurn(IF chat = None THEN Resumed ELSE chat, m)
    <3>1. DOMAIN turn' = DOMAIN Idle /\ turn'.pc # "summarising"
      BY <2>4, TurnFields
    <3> QED BY <2>1, <3>1
  <2> QED BY <2>2, <2>3, <2>4
<1>8. ASSUME NEW m \in Messages, AddHistory(m)
      PROVE  WastedInv'
  <2>1. DOMAIN turn' = DOMAIN Idle /\ turn'.pc = "idle"
    BY <1>8 DEF AddHistory, Idle
  <2>2. wasted' \in {0, 1} /\ (wasted' = 1 => failed' = TRUE)
    BY <1>8, NewlyStartedKeeps DEF AddHistory
  <2> QED BY <2>1, <2>2
<1>9. CASE SummaryArrives
  BY <1>9, TurnFields DEF SummaryArrives
<1>10. CASE SummaryTooLong
  <2>1. DOMAIN turn' = DOMAIN Idle /\ turn'.pc # "summarising"
    BY <1>10, TurnFields DEF SummaryTooLong
  <2>2. CASE Forced
    BY <1>10, <2>1, <2>2 DEF SummaryTooLong
  <2>3. CASE ~ Forced
    <3>1. wasted = 0 /\ wasted' = wasted + 1
      BY <1>10, <2>3 DEF SummaryTooLong
    <3>2. failed' = TRUE
      BY <1>10, <2>3, Zenon DEF SummaryTooLong
    <3> QED BY <2>1, <3>1, <3>2
  <2> QED BY <2>2, <2>3
<1>11. CASE SummaryFails \/ StreamFails
  BY <1>11 DEF SummaryFails, StreamFails, Idle
<1>12. CASE ReplyArrives \/ StreamBroken
  BY <1>12, NextAttemptFields DEF ReplyArrives, StreamBroken
<1>13. CASE ToolsCalled
  <2>1. DOMAIN turn' = DOMAIN Idle /\ turn'.pc = "tools"
    BY <1>13 DEF ToolsCalled, Idle
  <2> QED BY <1>13, <2>1 DEF ToolsCalled
<1> QED
  BY <1>1, <1>2, <1>3, <1>4, <1>5, <1>6, <1>7, <1>8, <1>9, <1>10, <1>11, <1>12,
     <1>13
  DEF Next, UserEvent, SummaryEvent, StreamEvent

(* Whatever the user and the model server do, at most one automatic         *)
(* compression in a row is paid for and thrown away.                        *)
THEOREM AtMostOneWasted == Spec => []OneWastedSummary
<1>1. WastedInv => OneWastedSummary
  BY DEF WastedInv, OneWastedSummary
<1> QED BY <1>1, WastedInit, WastedStep, PTL DEF Spec

-----------------------------------------------------------------------------
(* ToolPairsIntact                                                         *)

(* A history, of whatever kind its entries are.                             *)
IsSeq(h) == \E S : h \in Seq(S)

(* A history may be cut behind any entry,                                   *)
LEMMA PrefixIntact ==
  ASSUME NEW h, IsSeq(h), PairsIntact(h), NEW k \in 1..(Len(h) + 1)
  PROVE  IsSeq(SubSeq(h, 1, k - 1)) /\ PairsIntact(SubSeq(h, 1, k - 1))
<1>1. PICK S : h \in Seq(S)
  BY DEF IsSeq
<1> DEFINE p == SubSeq(h, 1, k - 1)
<1>2. /\ p \in Seq(S) /\ Len(p) = k - 1
      /\ \A i \in 1..(k - 1) : p[i] = h[i]
  BY <1>1, LenProperties, SubSeqProperties
<1>3. PairsIntact(p)
  BY <1>1, <1>2, LenProperties DEF PairsIntact
<1> QED BY <1>2, <1>3 DEF IsSeq

(* its rest stands alone where no tool response begins it,                  *)
LEMMA SuffixIntact ==
  ASSUME NEW h, IsSeq(h), PairsIntact(h), NEW k \in 1..(Len(h) + 1),
         k <= Len(h) => h[k].speaker # "tool"
  PROVE  IsSeq(SubSeq(h, k, Len(h))) /\ PairsIntact(SubSeq(h, k, Len(h)))
<1>1. PICK S : h \in Seq(S)
  BY DEF IsSeq
<1> DEFINE q == SubSeq(h, k, Len(h))
<1>2. /\ q \in Seq(S) /\ Len(q) = Len(h) - k + 1
      /\ \A i \in 1..Len(q) : q[i] = h[k + i - 1]
  BY <1>1, LenProperties, SubSeqProperties
<1>3. PairsIntact(q)
  BY <1>1, <1>2, LenProperties DEF PairsIntact
<1> QED BY <1>2, <1>3 DEF IsSeq

(* and two histories may follow one another.                                *)
LEMMA ConcatIntact ==
  ASSUME NEW g, NEW h, IsSeq(g), IsSeq(h)
  PROVE  /\ IsSeq(g \o h)
         /\ PairsIntact(g) /\ PairsIntact(h) => PairsIntact(g \o h)
<1>1. PICK S : g \in Seq(S) /\ h \in Seq(S)
  <2>1. PICK T : g \in Seq(T)
    BY DEF IsSeq
  <2>2. PICK U : h \in Seq(U)
    BY DEF IsSeq
  <2>3. g \in Seq(T \cup U) /\ h \in Seq(T \cup U)
    BY <2>1, <2>2, SeqMonotonic
  <2> QED BY <2>3
<1>2. /\ g \o h \in Seq(S) /\ Len(g \o h) = Len(g) + Len(h)
      /\ \A i \in 1..(Len(g) + Len(h)) :
           (g \o h)[i] = IF i <= Len(g) THEN g[i] ELSE h[i - Len(g)]
  BY <1>1, ConcatProperties
<1>3. Len(g) \in Nat /\ Len(h) \in Nat
  BY <1>1, LenProperties
<1>4. ASSUME PairsIntact(g), PairsIntact(h)
      PROVE  PairsIntact(g \o h)
  <2> SUFFICES ASSUME NEW i \in 1..(Len(g) + Len(h)), (g \o h)[i].speaker = "tool"
               PROVE  i > 1 /\ (g \o h)[i - 1].speaker = "call"
    BY <1>2 DEF PairsIntact
  <2>1. CASE i <= Len(g)
    BY <1>2, <1>3, <1>4, <2>1 DEF PairsIntact
  <2>2. CASE i > Len(g)
    <3>1. h[i - Len(g)].speaker = "tool" /\ i - Len(g) \in 1..Len(h)
      BY <1>2, <1>3, <2>2
    <3>2. i - Len(g) > 1 /\ h[(i - Len(g)) - 1].speaker = "call"
      BY <1>4, <3>1 DEF PairsIntact
    <3>3. (g \o h)[i - 1] = h[(i - 1) - Len(g)]
      BY <1>2, <1>3, <2>2, <3>2
    <3> QED BY <1>3, <3>2, <3>3
  <2> QED BY <1>3, <2>1, <2>2
<1> QED BY <1>2, <1>4 DEF IsSeq

(* What an action adds to a chat brings its own calls.                      *)
LEMMA AddedIntact ==
  ASSUME NEW m, NEW attempt, NEW h
  PROVE  /\ IsSeq(Content(m, attempt)) /\ PairsIntact(Content(m, attempt))
         /\ IsSeq(<<Reply(m)>>) /\ PairsIntact(<<Reply(m)>>)
         /\ IsSeq(<<Note(m)>>) /\ PairsIntact(<<Note(m)>>)
         /\ IsSeq(<<Cancelled(m)>>) /\ PairsIntact(<<Cancelled(m)>>)
         /\ IsSeq(Snapshot(h)) /\ PairsIntact(Snapshot(h))
         /\ IsSeq(<<>>) /\ PairsIntact(<<>>)
<1>1. ASSUME NEW says, NEW speaker, speaker # "tool"
      PROVE  /\ IsSeq(<<Entry(speaker, says)>>)
             /\ PairsIntact(<<Entry(speaker, says)>>)
  <2> DEFINE s == <<Entry(speaker, says)>>
  <2>1. s \in Seq({Entry(speaker, says)})
    OBVIOUS
  <2>2. Len(s) = 1 /\ s[1].speaker = speaker
    BY DEF Entry
  <2>3. PairsIntact(s)
    <3> HIDE DEF s
    <3> QED BY <1>1, <2>2 DEF PairsIntact
  <2> QED BY <2>1, <2>3, Zenon DEF IsSeq
<1>2. ASSUME NEW a, NEW b, NEW v, NEW w, v # "tool", w # "tool" \/ v = "call"
      PROVE  /\ IsSeq(<<Entry(v, a), Entry(w, b)>>)
             /\ PairsIntact(<<Entry(v, a), Entry(w, b)>>)
  <2> DEFINE s == <<Entry(v, a), Entry(w, b)>>
  <2>1. s \in Seq({Entry(v, a), Entry(w, b)})
    OBVIOUS
  <2>2. Len(s) = 2 /\ s[1].speaker = v /\ s[2].speaker = w
    BY DEF Entry
  <2>3. PairsIntact(s)
    <3> HIDE DEF s
    <3> QED BY <1>2, <2>2 DEF PairsIntact
  <2> QED BY <2>1, <2>3, Zenon DEF IsSeq
<1>3. IsSeq(Content(m, attempt)) /\ PairsIntact(Content(m, attempt))
  BY <1>1, <1>2 DEF Content
<1>4. IsSeq(Snapshot(h)) /\ PairsIntact(Snapshot(h))
  BY <1>2 DEF Snapshot
<1>5. IsSeq(<<>>) /\ PairsIntact(<<>>)
  <2>1. <<>> \in Seq({})
    OBVIOUS
  <2> QED BY <2>1 DEF IsSeq, PairsIntact
<1> QED BY <1>1, <1>3, <1>4, <1>5 DEF Reply, Note, Cancelled

(* What is known of the holders: each holds a sequence or None, and while a *)
(* summary is requested the chat and what was cut off make up the history,  *)
(* cut where no tool response starts.                                       *)
CutInTwo ==
  /\ IsSeq(turn.curated)
  /\ \E k \in 1..(Len(turn.curated) + 1) :
       /\ chat = SubSeq(turn.curated, 1, k - 1)
       /\ turn.kept = SubSeq(turn.curated, k, Len(turn.curated))
       /\ k <= Len(turn.curated) => turn.curated[k].speaker # "tool"
HoldersInv ==
  /\ chat # None => IsSeq(chat)
  /\ previous # None => IsSeq(previous)
  /\ stored # None => IsSeq(stored)
  /\ turn.pc # "idle" => IsSeq(chat)
  /\ DOMAIN turn = DOMAIN Idle
  /\ turn.pc = "summarising" => CutInTwo

(* The two halves of a history that is cut bring their own calls.           *)
LEMMA HalvesIntact ==
  ASSUME CutInTwo
  PROVE  /\ IsSeq(chat) /\ IsSeq(turn.kept)
         /\ PairsIntact(turn.curated) => PairsIntact(chat) /\ PairsIntact(turn.kept)
<1>1. PICK k \in 1..(Len(turn.curated) + 1) :
         /\ chat = SubSeq(turn.curated, 1, k - 1)
         /\ turn.kept = SubSeq(turn.curated, k, Len(turn.curated))
         /\ k <= Len(turn.curated) => turn.curated[k].speaker # "tool"
  BY DEF CutInTwo
<1>2. ASSUME PairsIntact(turn.curated)
      PROVE  PairsIntact(chat) /\ PairsIntact(turn.kept)
  BY <1>1, <1>2, PrefixIntact, SuffixIntact DEF CutInTwo
<1>3. IsSeq(chat) /\ IsSeq(turn.kept)
  <2>1. PICK S : turn.curated \in Seq(S)
    BY DEF CutInTwo, IsSeq
  <2>2. chat \in Seq(S) /\ turn.kept \in Seq(S)
    BY <1>1, <2>1, LenProperties, SubSeqProperties
  <2> QED BY <2>2, Zenon DEF IsSeq
<1> QED BY <1>2, <1>3

(* The client goes on with h: its chat is h, or the half of h that is to be *)
(* summarised.                                                              *)
GoesOnWith(h) ==
  /\ IsSeq(chat') /\ DOMAIN turn' = DOMAIN Idle
  /\ turn'.pc = "summarising" => CutInTwo'
  /\ PairsIntact(h) => PairsIntact(chat') /\ PairsIntact(Whole')

(* Outside a compression the chat itself is what the client goes on with.  *)
LEMMA ChatGoesOn ==
  ASSUME IsSeq(chat'), DOMAIN turn' = DOMAIN Idle, turn'.pc # "summarising"
  PROVE  GoesOnWith(chat')
BY DEF GoesOnWith, Whole

(* The client goes on with a summary, with a turn, or with what follows a   *)
(* summary.                                                                 *)
LEMMA SummaryGoesOn ==
  ASSUME NEW h, NEW m, IsSeq(h), BeginSummary(h, m)
  PROVE  GoesOnWith(h)
<1>1. PICK k \in 1..(Len(h) + 1) :
         /\ \E i \in AfterFraction(h) : Cut(h, i, k)
         /\ chat' = SubSeq(h, 1, k - 1)
         /\ turn' = [Idle EXCEPT !.pc = "summarising", !.message = m,
                                 !.kept = SubSeq(h, k, Len(h)), !.curated = h]
  BY DEF BeginSummary
<1>2. /\ turn'.pc = "summarising" /\ DOMAIN turn' = DOMAIN Idle
      /\ turn'.kept = SubSeq(h, k, Len(h)) /\ turn'.curated = h
  BY <1>1 DEF Idle
<1>3. k <= Len(h) => h[k].speaker # "tool"
  <2>1. PICK S : h \in Seq(S)
    BY DEF IsSeq
  <2>2. Len(h) \in Nat
    BY <2>1, LenProperties
  <2> QED BY <1>1, <2>2 DEF Cut
<1>4. CutInTwo'
  BY <1>1, <1>2, <1>3 DEF CutInTwo
<1>5. IsSeq(chat') /\ (PairsIntact(h) => PairsIntact(chat'))
  <2>1. PICK S : h \in Seq(S)
    BY DEF IsSeq
  <2>2. chat' \in Seq(S)
    BY <1>1, <2>1, LenProperties, SubSeqProperties
  <2>3. PairsIntact(h) => PairsIntact(chat')
    BY <1>1, PrefixIntact
  <2> QED BY <2>2, <2>3, Zenon DEF IsSeq
<1> QED BY <1>2, <1>4, <1>5 DEF GoesOnWith, Whole

(* The turn of a message begins with the history, or with it and a note.   *)
LEMMA TurnGoesOn ==
  ASSUME NEW h, NEW m, IsSeq(h), BeginTurn(h, m)
  PROVE  GoesOnWith(h) /\ turn'.pc = "streaming"
<1>1. DOMAIN turn' = DOMAIN Idle /\ turn'.pc = "streaming"
  BY TurnFields
<1>2. CASE chat' = h
  BY <1>1, <1>2, ChatGoesOn
<1>3. CASE chat' = Append(h, Note(m))
  <2>1. PICK S : h \in Seq(S)
    BY DEF IsSeq
  <2>2. chat' = h \o <<Note(m)>>
    BY <1>3, <2>1, AppendIsConcat
  <2>3. IsSeq(chat') /\ (PairsIntact(h) => PairsIntact(chat'))
    BY <2>2, AddedIntact, ConcatIntact
  <2> QED BY <1>1, <2>3 DEF GoesOnWith, Whole
<1> QED BY <1>2, <1>3 DEF BeginTurn

(* A compression ends with the history it is given, or with a turn on it.  *)
LEMMA SummaryLeavesOff ==
  ASSUME NEW h, IsSeq(h), AfterSummary(h)
  PROVE  GoesOnWith(h)
<1>1. CASE Forced
  BY <1>1, ChatGoesOn, TurnFields DEF AfterSummary
<1>2. CASE ~ Forced
  BY <1>2, TurnGoesOn DEF AfterSummary
<1> QED BY <1>1, <1>2

(* A chat that is started holds a sequence.                                 *)
LEMMA StartedIsSeq ==
  ASSUME HoldersInv
  PROVE  IsSeq(Started(<<>>)) /\ IsSeq(Resumed) /\ IsSeq(Reset)
<1>1. ASSUME NEW extra, IsSeq(extra)
      PROVE  IsSeq(Started(extra))
  BY <1>1, AddedIntact, ConcatIntact DEF HoldersInv, Started
<1>2. IsSeq(<<>>)
  BY AddedIntact
<1>3. previous # None => IsSeq(SubSeq(previous, 3, Len(previous)))
  <2> SUFFICES ASSUME previous # None
               PROVE  IsSeq(SubSeq(previous, 3, Len(previous)))
    OBVIOUS
  <2>1. PICK S : previous \in Seq(S)
    BY DEF HoldersInv, IsSeq
  <2>2. SubSeq(previous, 3, Len(previous)) \in Seq(S)
    BY <2>1, LenProperties, SubSeqProperties
  <2> QED BY <2>2, Zenon DEF IsSeq
<1> QED BY <1>1, <1>2, <1>3 DEF Resumed, Reset

(* HoldersInv holds initially; every step keeps it, and the pairs.          *)
LEMMA HoldersInit ==
  ASSUME Init
  PROVE  HoldersInv
BY DEF Init, HoldersInv, Idle

(* What ToolPairsIntact says of a step.                                     *)
KeepsPairs ==
  chat # None /\ chat' # None /\ PairsIntact(Whole) =>
    PairsIntact(chat') /\ PairsIntact(Whole')

(* A step that goes on with a history which brings its own calls if the     *)
(* one it replaces does.                                                    *)
LEMMA GoingOn ==
  ASSUME HoldersInv, NEW h, GoesOnWith(h),
         chat # None /\ PairsIntact(Whole) => PairsIntact(h),
         UNCHANGED previous, stored' \in {stored, None}
  PROVE  HoldersInv' /\ KeepsPairs
<1>1. HoldersInv'
  BY DEF HoldersInv, GoesOnWith
<1>2. KeepsPairs
  BY DEF KeepsPairs, GoesOnWith
<1> QED BY <1>1, <1>2

(* Starting a chat keeps the stored history or lets go of it.              *)
LEMMA NewlyStartedStored ==
  ASSUME NewlyStarted
  PROVE  stored' \in {stored, None}
BY DEF NewlyStarted

(* A step that changes no chat.                                             *)
LEMMA ChatUntouched ==
  ASSUME HoldersInv, UNCHANGED holders,
         turn' = turn \/ (DOMAIN turn' = DOMAIN Idle /\ turn'.pc # "summarising"),
         turn'.pc # "idle" => turn.pc # "idle"
  PROVE  HoldersInv' /\ KeepsPairs
<1>1. PairsIntact(Whole) => PairsIntact(chat)
  BY HalvesIntact DEF HoldersInv, Whole
<1>2. CASE turn' = turn
  <2>1. HoldersInv'
    BY <1>2 DEF HoldersInv, holders, CutInTwo
  <2>2. Whole' = Whole
    BY <1>2 DEF Whole, holders
  <2> QED BY <1>1, <2>1, <2>2 DEF KeepsPairs, holders
<1>3. CASE DOMAIN turn' = DOMAIN Idle /\ turn'.pc # "summarising"
  <2>1. HoldersInv'
    BY <1>3 DEF HoldersInv, holders
  <2>2. Whole' = chat
    BY <1>3 DEF Whole, holders
  <2> QED BY <1>1, <2>1, <2>2 DEF KeepsPairs, holders
<1> QED BY <1>2, <1>3

(* Every step keeps the invariant and does what ToolPairsIntact says of it. *)
LEMMA HoldersStep ==
  ASSUME HoldersInv, [Next]_vars
  PROVE  HoldersInv' /\ KeepsPairs
<1>1. CASE UNCHANGED vars
  <2>1. UNCHANGED holders /\ turn' = turn
    BY <1>1 DEF vars, holders
  <2> QED BY <2>1, ChatUntouched
<1>2. CASE ResetChat
  <2>1. IsSeq(chat') /\ DOMAIN turn' = DOMAIN Idle /\ turn'.pc # "summarising"
    BY <1>2, StartedIsSeq, AddedIntact DEF ResetChat, IsIdle, HoldersInv, Reset
  <2>2. IsSeq(previous') /\ stored' \in {stored, None}
    BY <1>2, AddedIntact, NewlyStartedStored DEF ResetChat
  <2>3. HoldersInv'
    BY <2>1, <2>2 DEF HoldersInv
  <2>4. KeepsPairs
    BY <1>2, <2>1, AddedIntact DEF KeepsPairs, ResetChat, Reset, Whole
  <2> QED BY <2>3, <2>4
<1>3. CASE GenerateDirectMessage
  <2>1. GoesOnWith(chat')
    BY <1>3, ChatGoesOn, StartedIsSeq DEF GenerateDirectMessage, IsIdle, HoldersInv
  <2> QED BY <1>3, <2>1, GoingOn, NewlyStartedStored DEF GenerateDirectMessage
<1>4. CASE RefreshAuth
  BY <1>4 DEF RefreshAuth, IsIdle, HoldersInv, KeepsPairs
<1>5. CASE TryCompressChat
  <2>1. GoesOnWith(chat) /\ Whole = chat
    BY <1>5, SummaryGoesOn DEF TryCompressChat, IsIdle, HoldersInv, Whole
  <2> QED BY <1>5, <2>1, GoingOn DEF TryCompressChat
<1>6. ASSUME NEW h \in Saved, SetHistory(h)
      PROVE  HoldersInv' /\ KeepsPairs
  <2>1. IsSeq(h) /\ PairsIntact(h)
    BY SavedOK DEF IsSeq
  <2>2. HoldersInv'
    BY <1>6, <2>1 DEF SetHistory, HoldersInv, IsIdle
  <2>3. KeepsPairs
    BY <1>6, <2>1 DEF SetHistory, KeepsPairs, IsIdle, Whole
  <2> QED BY <2>2, <2>3
<1>7. ASSUME NEW m \in Messages, SendMessageStream(m)
      PROVE  HoldersInv' /\ KeepsPairs
  <2> DEFINE h == IF chat = None THEN Resumed ELSE chat
  <2>1. IsSeq(h)
    BY StartedIsSeq DEF HoldersInv
  <2>2. BeginSummary(h, m) \/ BeginTurn(h, m)
    BY <1>7, Zenon DEF SendMessageStream
  <2>3. GoesOnWith(h)
    <3> HIDE DEF h
    <3> QED BY <2>1, <2>2, SummaryGoesOn, TurnGoesOn
  <2>4. chat # None => Whole = h
    BY <1>7 DEF SendMessageStream, IsIdle, Whole
  <2>5. UNCHANGED previous /\ stored' \in {stored, None}
    BY <1>7, NewlyStartedStored DEF SendMessageStream
  <2> HIDE DEF h
  <2> QED BY <2>3, <2>4, <2>5, GoingOn
<1>8. ASSUME NEW m \in Messages, AddHistory(m)
      PROVE  HoldersInv' /\ KeepsPairs
  <2> DEFINE h == IF chat = None THEN Reset ELSE chat
             g == IF m \in Results THEN << Cancelled(m) >> ELSE Content(m, 1)
  <2>1. IsSeq(h) /\ IsSeq(g) /\ PairsIntact(g)
    BY StartedIsSeq, AddedIntact DEF HoldersInv
  <2>2. chat' = h \o g /\ turn' = Idle
    BY <1>8 DEF AddHistory
  <2>3. chat # None => Whole = h
    BY <1>8 DEF AddHistory, IsIdle, Whole
  <2>4. IsSeq(previous') \/ previous' = previous
    BY <1>8, AddedIntact DEF AddHistory
  <2>5. stored' \in {stored, None}
    BY <1>8, NewlyStartedStored DEF AddHistory
  <2> HIDE DEF h, g
  <2>6. IsSeq(chat') /\ (PairsIntact(h) => PairsIntact(chat'))
    BY <2>1, <2>2, ConcatIntact
  <2>7. HoldersInv'
    BY <2>2, <2>4, <2>5, <2>6 DEF HoldersInv, Idle
  <2>8. KeepsPairs
    BY <2>2, <2>3, <2>6 DEF KeepsPairs, Whole, Idle
  <2> QED BY <2>7, <2>8
<1>9. CASE SummaryArrives
  <2> DEFINE h == Snapshot(chat) \o turn.kept
  <2>1. IsSeq(h) /\ (PairsIntact(Whole) => PairsIntact(h))
    BY <1>9, HalvesIntact, AddedIntact, ConcatIntact
    DEF SummaryArrives, HoldersInv, Whole
  <2>2. AfterSummary(h) /\ UNCHANGED previous /\ stored' \in {stored, None}
    BY <1>9 DEF SummaryArrives
  <2> HIDE DEF h
  <2> QED BY <2>1, <2>2, SummaryLeavesOff, GoingOn
<1>10. CASE SummaryTooLong
  <2>1. IsSeq(turn.curated) /\ Whole = turn.curated
    BY <1>10 DEF SummaryTooLong, HoldersInv, CutInTwo, Whole
  <2> QED BY <1>10, <2>1, SummaryLeavesOff, GoingOn DEF SummaryTooLong
<1>11. CASE SummaryFails \/ StreamFails
  BY <1>11, ChatUntouched DEF SummaryFails, StreamFails, Idle
<1>12. CASE ReplyArrives
  <2> DEFINE g == Content(turn.message, turn.attempt) \o << Reply(turn.message) >>
  <2>1. IsSeq(g) /\ PairsIntact(g)
    BY AddedIntact, ConcatIntact
  <2>2. chat' = chat \o g
    <3>1. IsSeq(chat)
      BY <1>12 DEF ReplyArrives, HoldersInv
    <3> QED BY <1>12, <3>1, AddedIntact DEF ReplyArrives, IsSeq
  <2>3. Whole = chat /\ IsSeq(chat)
    BY <1>12 DEF ReplyArrives, HoldersInv, Whole
  <2>4. DOMAIN turn' = DOMAIN Idle /\ turn'.pc # "summarising"
    BY <1>12, NextAttemptFields DEF ReplyArrives, HoldersInv
  <2> HIDE DEF g
  <2>5. IsSeq(chat') /\ (PairsIntact(chat) => PairsIntact(chat'))
    BY <2>1, <2>2, <2>3, ConcatIntact
  <2> QED BY <1>12, <2>3, <2>4, <2>5, ChatGoesOn, GoingOn DEF ReplyArrives
<1>13. CASE StreamBroken
  BY <1>13, NextAttemptFields, ChatUntouched DEF StreamBroken, HoldersInv
<1>14. CASE ToolsCalled
  <2>1. Whole = chat /\ IsSeq(chat)
    BY <1>14 DEF ToolsCalled, HoldersInv, Whole
  <2>2. IsSeq(chat') /\ (PairsIntact(chat) => PairsIntact(chat'))
    BY <1>14, <2>1, AddedIntact, ConcatIntact DEF ToolsCalled
  <2>3. DOMAIN turn' = DOMAIN Idle /\ turn'.pc # "summarising"
    BY <1>14 DEF ToolsCalled, Idle
  <2> QED BY <1>14, <2>1, <2>2, <2>3, ChatGoesOn, GoingOn DEF ToolsCalled
<1> QED
  BY <1>1, <1>2, <1>3, <1>4, <1>5, <1>6, <1>7, <1>8, <1>9, <1>10, <1>11, <1>12,
     <1>13, <1>14
  DEF Next, UserEvent, SummaryEvent, StreamEvent

(* However a chat is cut, summarised, put back or continued, a compression  *)
(* and what follows never leave a tool response without its call.           *)
THEOREM CallsKeepResponses == Spec => ToolPairsIntact
<1>1. HoldersInv /\ [Next]_vars => [KeepsPairs]_vars
  BY HoldersStep
<1>2. HoldersInv /\ [Next]_vars => HoldersInv'
  BY HoldersStep
<1>3. [][KeepsPairs]_vars => ToolPairsIntact
  BY PTL DEF KeepsPairs, ToolPairsIntact
<1> QED BY <1>1, <1>2, <1>3, HoldersInit, PTL DEF Spec
-----------------------------------------------------------------------------
(* TypeOK                                                                  *)

(* A history whose entries are entries of a chat.                           *)
IsChat(h) == h \in Seq(Entries)

(* The empty one is one.                                                   *)
LEMMA EmptyIsChat == IsChat(<<>>)
BY DEF IsChat

(* Every such history has the type of one, and those that can be loaded are *)
(* such histories.                                                          *)
LEMMA ChatIsHistory ==
  ASSUME NEW h
  PROVE  /\ IsChat(h) => IsHistory(h)
         /\ h \in Saved => IsChat(h)
<1>1. ASSUME IsChat(h)
      PROVE  IsHistory(h)
  <2>1. \A e \in Entries : DOMAIN e = {"speaker", "says"} /\ e.speaker \in Speakers
    BY DEF Entries
  <2>2. \A i \in 1..Len(h) : h[i] \in Entries
    BY <1>1 DEF IsChat
  <2> QED BY <2>1, <2>2 DEF IsHistory
<1> QED BY <1>1, SavedOK DEF IsChat

(* What can be made of one or two histories.                                *)
LEMMA ChatsFromChats ==
  ASSUME NEW g, NEW h, IsChat(g), IsChat(h)
  PROVE  /\ IsChat(g \o h)
         /\ \A k \in Nat \ {0} : \A n \in 0..Len(h) : IsChat(SubSeq(h, k, n))
<1>1. g \in Seq(Entries) /\ h \in Seq(Entries)
  BY DEF IsChat
<1>2. g \o h \in Seq(Entries)
  BY <1>1
<1>3. ASSUME NEW k \in Nat \ {0}, NEW n \in 0..Len(h)
      PROVE  SubSeq(h, k, n) \in Seq(Entries)
  BY <1>1, LenProperties, SubSeqProperties
<1> QED BY <1>2, <1>3 DEF IsChat

(* What can be said.                                                       *)
Sayable == SaidBefore \cup (Messages \X Kinds)

(* A chat says a sequence of what can be said, two in a row what either     *)
(* says, the one after the other.                                           *)
LEMMA ChatSays ==
  ASSUME NEW g, NEW h, IsChat(g), IsChat(h)
  PROVE  Says(g) \in Seq(Sayable) /\ Says(g \o h) = Says(g) \o Says(h)
<1>1. \A x : Says(x) = FlattenSeq(Sayings(x))
  BY DEF Says, Sayings
<1>2. \A e \in Entries : e.says \in Seq(Sayable)
  BY DEF Entries, Sayable
<1>3. FlattenSeq(Sayings(g)) \in Seq(Sayable) /\ InTurn(g, h)
  BY <1>2, SayConcat DEF IsChat
<1> QED BY <1>1, <1>3 DEF InTurn

(* Nothing says nothing, one entry what is in it.                           *)
LEMMA SaysLittle == Says(<<>>) = <<>> /\ \A e : Says(<<e>>) = e.says
<1>1. \A x : Says(x) = FlattenSeq(Sayings(x))
  BY DEF Says, Sayings
<1> QED BY <1>1, SayNothing, SayOne

(* What the client adds to a chat or puts in its place.                     *)
LEMMA AddedIsChat ==
  /\ IsChat(<<>>)
  /\ \A h : IsChat(h) => IsChat(Snapshot(h))
  /\ \A m \in Messages :
       /\ IsChat(<<Reply(m)>>) /\ IsChat(<<Note(m)>>) /\ IsChat(<<Cancelled(m)>>)
       /\ \A attempt : IsChat(Content(m, attempt))
<1>1. ASSUME NEW v \in Speakers, NEW a \in Seq(Sayable)
      PROVE  Entry(v, a) \in Entries
  BY DEF Entries, Entry, Sayable
<1>2. ASSUME NEW v \in Speakers, NEW a \in Seq(Sayable)
      PROVE  IsChat(<<Entry(v, a)>>)
  <2> DEFINE e == Entry(v, a)
  <2>1. e \in Entries
    BY <1>1
  <2> HIDE DEF e
  <2>2. <<e>> \in Seq(Entries)
    BY <2>1
  <2> QED BY <2>2 DEF IsChat, e
<1>3. ASSUME NEW v \in Speakers, NEW w \in Speakers,
             NEW a \in Seq(Sayable), NEW b \in Seq(Sayable)
      PROVE  IsChat(<<Entry(v, a), Entry(w, b)>>)
  <2> DEFINE e == Entry(v, a)  f == Entry(w, b)
  <2>1. e \in Entries /\ f \in Entries
    BY <1>1
  <2> HIDE DEF e, f
  <2>2. <<e, f>> \in Seq(Entries)
    BY <2>1
  <2> QED BY <2>2 DEF IsChat, e, f
<1>4. /\ "human" \in Speakers /\ "ai" \in Speakers /\ "call" \in Speakers
      /\ "tool" \in Speakers /\ "mixed" \in Speakers
  BY DEF Speakers
<1>5. ASSUME NEW h, IsChat(h)
      PROVE  IsChat(Snapshot(h))
  <2>1. Says(h) \in Seq(Sayable) /\ <<>> \in Seq(Sayable)
    BY <1>5, ChatSays
  <2> QED BY <1>3, <1>4, <2>1 DEF Snapshot
<1>6. ASSUME NEW m \in Messages
      PROVE  /\ IsChat(<<Reply(m)>>) /\ IsChat(<<Note(m)>>) /\ IsChat(<<Cancelled(m)>>)
             /\ \A attempt : IsChat(Content(m, attempt))
  <2>1. ASSUME NEW x \in Sayable, NEW y \in Sayable
        PROVE  /\ <<x>> \in Seq(Sayable) /\ <<x, y>> \in Seq(Sayable)
               /\ <<x>> \o <<y>> \in Seq(Sayable)
    OBVIOUS
  <2>2. \A kind \in Kinds : <<m, kind>> \in Sayable
    BY DEF Sayable
  <2>3. /\ "note" \in Kinds /\ "question" \in Kinds /\ "reminder" \in Kinds
        /\ "call" \in Kinds /\ "result" \in Kinds /\ "reply" \in Kinds
    BY DEF Kinds
  <2>4. /\ IsChat(<<Reply(m)>>) /\ IsChat(<<Note(m)>>) /\ IsChat(<<Cancelled(m)>>)
    BY <1>2, <1>4, <2>1, <2>2, <2>3 DEF Reply, Note, Cancelled
  <2>5. ASSUME NEW attempt
        PROVE  IsChat(Content(m, attempt))
    BY <1>2, <1>3, <1>4, <2>1, <2>2, <2>3 DEF Content, Question, Reminder
  <2> QED BY <2>4, <2>5
<1> QED BY <1>5, <1>6, EmptyIsChat

(* The parts of TypeOK: what the client does, and the histories it holds,   *)
(* the one that is summarised or continued among them.                      *)
TurnOK(t) ==
  /\ DOMAIN t = DOMAIN Idle
  /\ t.pc \in {"idle", "summarising", "streaming", "tools"}
  /\ t.message \in Messages \cup {None} /\ t.attempt \in 0..MaxRetries
  /\ t.pc = "streaming" => t.message \in Messages /\ t.attempt \in 1..MaxRetries
  /\ IsChat(t.kept) /\ IsChat(t.curated)
HoldsChats ==
  /\ chat # None => IsChat(chat)
  /\ previous # None => IsChat(previous)
  /\ stored # None => IsChat(stored)
  /\ turn.pc # "idle" => IsChat(chat)
SettingsOK ==
  /\ failed \in BOOLEAN /\ todos \in BOOLEAN
  /\ unsent \subseteq Messages /\ refreshes \in 0..MaxRefreshes
TypeInv == TurnOK(turn) /\ HoldsChats /\ SettingsOK

(* Each of them leaves what it should.                                      *)
LEMMA IdleOK == TurnOK(Idle) /\ Idle.pc = "idle"
BY EmptyIsChat DEF TurnOK, Idle, MaxRetries

(* What a request for a summary leaves is of its type,                     *)
LEMMA SummaryBegins ==
  ASSUME NEW h, NEW m \in Messages \cup {None}, IsChat(h), BeginSummary(h, m)
  PROVE  IsChat(chat') /\ TurnOK(turn')
<1>1. PICK k \in 1..(Len(h) + 1) :
         /\ chat' = SubSeq(h, 1, k - 1)
         /\ turn' = [Idle EXCEPT !.pc = "summarising", !.message = m,
                                 !.kept = SubSeq(h, k, Len(h)), !.curated = h]
  BY DEF BeginSummary
<1>2. Len(h) \in Nat
  BY LenProperties DEF IsChat
<1>3. IsChat(SubSeq(h, 1, k - 1)) /\ IsChat(SubSeq(h, k, Len(h)))
  <2>1. \A j \in Nat \ {0} : \A n \in 0..Len(h) : IsChat(SubSeq(h, j, n))
    BY ChatsFromChats
  <2> QED BY <1>2, <2>1
<1>4. /\ DOMAIN turn' = DOMAIN Idle /\ turn'.pc = "summarising"
      /\ turn'.message = m /\ turn'.attempt = 0
      /\ turn'.kept = SubSeq(h, k, Len(h)) /\ turn'.curated = h
  BY <1>1 DEF Idle
<1> QED BY <1>1, <1>3, <1>4 DEF TurnOK, MaxRetries

(* and what the beginning of a turn,                                       *)
LEMMA TurnBegins ==
  ASSUME NEW h, NEW m \in Messages, IsChat(h), BeginTurn(h, m)
  PROVE  IsChat(chat') /\ TurnOK(turn')
<1>1. IsChat(chat')
  <2>1. CASE chat' = h
    BY <2>1
  <2>2. CASE chat' = Append(h, Note(m))
    <3>1. chat' = h \o <<Note(m)>>
      BY <2>2, AppendIsConcat DEF IsChat
    <3> QED BY <3>1, AddedIsChat, ChatsFromChats
  <2> QED BY <2>1, <2>2 DEF BeginTurn
<1>2. /\ DOMAIN turn' = DOMAIN Idle /\ turn'.pc = "streaming"
      /\ turn'.message = m /\ turn'.attempt = 1
      /\ turn'.kept = <<>> /\ turn'.curated = <<>>
  BY DEF BeginTurn, Idle
<1> QED BY <1>1, <1>2, EmptyIsChat DEF TurnOK, MaxRetries

(* the end of a summary                                                    *)
LEMMA SummaryEnds ==
  ASSUME NEW h, IsChat(h), TurnOK(turn), AfterSummary(h)
  PROVE  IsChat(chat') /\ TurnOK(turn')
<1>1. turn.message \in Messages \cup {None}
  BY DEF TurnOK
<1>2. CASE Forced
  BY <1>2, IdleOK DEF AfterSummary
<1>3. CASE ~ Forced
  <2>1. BeginTurn(h, turn.message) /\ turn.message \in Messages
    BY <1>1, <1>3 DEF AfterSummary, Forced
  <2> QED BY <2>1, TurnBegins
<1> QED BY <1>2, <1>3

(* and the end of an attempt leave.                                        *)
LEMMA AttemptEnds ==
  ASSUME TurnOK(turn), turn.pc = "streaming", NextAttempt
  PROVE  TurnOK(turn')
<1>1. CASE turn' = Idle
  BY <1>1, IdleOK
<1>2. CASE turn' = [turn EXCEPT !.attempt = turn.attempt + 1]
           /\ turn.attempt < MaxRetries
  <2>1. DOMAIN turn = {"pc", "message", "attempt", "kept", "curated"}
    BY DEF TurnOK, Idle
  <2>2. /\ DOMAIN turn' = DOMAIN turn /\ turn'.pc = turn.pc
        /\ turn'.message = turn.message /\ turn'.attempt = turn.attempt + 1
        /\ turn'.kept = turn.kept /\ turn'.curated = turn.curated
    BY <1>2, <2>1
  <2> QED BY <1>2, <2>2 DEF TurnOK, MaxRetries
<1> QED BY <1>1, <1>2 DEF NextAttempt

(* What the chat records of the turn that streams.                          *)
LEMMA RecordedIsChat ==
  ASSUME IsChat(chat), TurnOK(turn), turn.pc = "streaming"
  PROVE  LET m == turn.message  a == turn.attempt
         IN  /\ IsChat(Content(m, a)) /\ IsChat(<<Reply(m)>>)
             /\ IsChat(chat \o Content(m, a))
             /\ IsChat(chat \o Content(m, a) \o <<Reply(m)>>)
<1>1. turn.message \in Messages
  BY DEF TurnOK
<1>2. IsChat(Content(turn.message, turn.attempt)) /\ IsChat(<<Reply(turn.message)>>)
  BY <1>1, AddedIsChat
<1>3. IsChat(chat \o Content(turn.message, turn.attempt))
  BY <1>2, ChatsFromChats
<1> QED BY <1>2, <1>3, ChatsFromChats

(* A chat that is started is one, from whatever it takes over.              *)
LEMMA StartedIsChat ==
  ASSUME HoldsChats
  PROVE  IsChat(Started(<<>>)) /\ IsChat(Resumed) /\ IsChat(Reset)
<1>1. ASSUME NEW extra, IsChat(extra)
      PROVE  IsChat(Started(extra))
  BY <1>1, AddedIsChat, ChatsFromChats DEF HoldsChats, Started
<1>2. IsChat(<<>>)
  BY AddedIsChat
<1>3. previous # None => IsChat(SubSeq(previous, 3, Len(previous)))
  <2> SUFFICES ASSUME IsChat(previous)
               PROVE  IsChat(SubSeq(previous, 3, Len(previous)))
    BY DEF HoldsChats
  <2>1. Len(previous) \in Nat
    BY LenProperties DEF IsChat
  <2> QED BY <2>1, ChatsFromChats
<1> QED BY <1>1, <1>2, <1>3 DEF Resumed, Reset

(* A step that leaves the other holders as they are, or empty.              *)
LEMMA ChatHeld ==
  ASSUME HoldsChats, IsChat(chat'), previous' = previous \/ IsChat(previous'),
         stored' \in {stored, None}
  PROVE  HoldsChats'
BY DEF HoldsChats

(* A chat that is started keeps the type of the settings.                  *)
LEMMA NewlyStartedSettings ==
  ASSUME NewlyStarted, failed \in BOOLEAN
  PROVE  failed' \in BOOLEAN /\ stored' \in {stored, None}
BY DEF NewlyStarted

(* The invariant holds initially,                                          *)
LEMMA TypeInit ==
  ASSUME Init
  PROVE  TypeInv
<1>1. TurnOK(turn) /\ turn.pc = "idle"
  BY IdleOK DEF Init
<1>2. HoldsChats
  BY <1>1 DEF Init, HoldsChats
<1>3. SettingsOK
  <2>1. refreshes \in 0..MaxRefreshes
    BY ConstantsOK DEF Init
  <2> QED BY <2>1, Zenon DEF Init, SettingsOK
<1> QED BY <1>1, <1>2, <1>3 DEF TypeInv

(* and every step keeps it.                                                *)
LEMMA TypeStep ==
  ASSUME TypeInv, [Next]_vars
  PROVE  TypeInv'
<1> USE DEF TypeInv, settings, holders
<1>1. CASE UNCHANGED vars
  BY <1>1 DEF vars, TurnOK, HoldsChats, SettingsOK
<1>2. CASE ResetChat
  <2>1. IsChat(chat') /\ IsChat(previous')
    BY <1>2, StartedIsChat, AddedIsChat DEF ResetChat, Reset
  <2>2. stored' \in {stored, None} /\ SettingsOK'
    BY <1>2, NewlyStartedSettings DEF ResetChat, SettingsOK
  <2>3. TurnOK(turn')
    BY <1>2 DEF ResetChat
  <2> QED BY <2>1, <2>2, <2>3, ChatHeld
<1>3. CASE GenerateDirectMessage
  <2>1. IsChat(chat') /\ UNCHANGED previous
    BY <1>3, StartedIsChat DEF GenerateDirectMessage
  <2>2. stored' \in {stored, None} /\ SettingsOK'
    BY <1>3, NewlyStartedSettings DEF GenerateDirectMessage, SettingsOK
  <2>3. TurnOK(turn')
    BY <1>3 DEF GenerateDirectMessage
  <2> QED BY <2>1, <2>2, <2>3, ChatHeld
<1>4. CASE RefreshAuth
  <2>1. HoldsChats'
    BY <1>4 DEF RefreshAuth, HoldsChats, IsIdle
  <2>2. SettingsOK'
    <3>1. refreshes' \in 0..MaxRefreshes
      BY <1>4, ConstantsOK DEF RefreshAuth, SettingsOK
    <3> QED BY <1>4, <3>1, Zenon DEF RefreshAuth, SettingsOK
  <2>3. TurnOK(turn')
    BY <1>4 DEF RefreshAuth
  <2> QED BY <2>1, <2>2, <2>3
<1>5. CASE TryCompressChat
  <2>1. IsChat(chat) /\ BeginSummary(chat, None)
    BY <1>5 DEF TryCompressChat, HoldsChats
  <2>2. IsChat(chat') /\ TurnOK(turn')
    BY <2>1, SummaryBegins
  <2>3. UNCHANGED <<previous, stored>> /\ SettingsOK'
    BY <1>5 DEF TryCompressChat, SettingsOK
  <2> QED BY <2>2, <2>3, ChatHeld
<1>6. ASSUME NEW h \in Saved, SetHistory(h)
      PROVE  TypeInv'
  <2>1. HoldsChats'
    BY <1>6, ChatIsHistory DEF SetHistory, HoldsChats, IsIdle
  <2>2. TurnOK(turn') /\ SettingsOK'
    BY <1>6 DEF SetHistory, SettingsOK
  <2> QED BY <2>1, <2>2
<1>7. ASSUME NEW m \in Messages, SendMessageStream(m)
      PROVE  TypeInv'
  <2> DEFINE h == IF chat = None THEN Resumed ELSE chat
  <2>1. IsChat(h)
    BY StartedIsChat DEF HoldsChats
  <2>2. BeginSummary(h, m) \/ BeginTurn(h, m)
    BY <1>7, Zenon DEF SendMessageStream
  <2>3. IsChat(chat') /\ TurnOK(turn')
    <3> HIDE DEF h
    <3> QED BY <2>1, <2>2, SummaryBegins, TurnBegins
  <2>4. UNCHANGED previous /\ stored' \in {stored, None} /\ SettingsOK'
    <3>1. NewlyStarted /\ UNCHANGED <<previous, todos, refreshes>>
          /\ unsent' = unsent \ {m}
      BY <1>7, Zenon DEF SendMessageStream
    <3> QED BY <3>1, NewlyStartedSettings DEF SettingsOK
  <2> QED BY <2>3, <2>4, ChatHeld
<1>8. ASSUME NEW m \in Messages, AddHistory(m)
      PROVE  TypeInv'
  <2> DEFINE h == IF chat = None THEN Reset ELSE chat
             g == IF m \in Results THEN << Cancelled(m) >> ELSE Content(m, 1)
  <2>1. IsChat(h) /\ IsChat(g)
    BY StartedIsChat, AddedIsChat DEF HoldsChats
  <2>2. chat' = h \o g /\ turn' = Idle
    BY <1>8 DEF AddHistory
  <2>3. IsChat(chat') /\ TurnOK(turn')
    <3> HIDE DEF h, g
    <3> QED BY <2>1, <2>2, ChatsFromChats, IdleOK
  <2>4. previous' = previous \/ IsChat(previous')
    BY <1>8, AddedIsChat DEF AddHistory
  <2>5. stored' \in {stored, None} /\ SettingsOK'
    BY <1>8, NewlyStartedSettings DEF AddHistory, SettingsOK
  <2> QED BY <2>3, <2>4, <2>5, ChatHeld
<1>9. CASE SummaryArrives
  <2> DEFINE h == Snapshot(chat) \o turn.kept
  <2>1. IsChat(h)
    BY <1>9, AddedIsChat, ChatsFromChats DEF TurnOK, HoldsChats, SummaryArrives
  <2>2. AfterSummary(h)
    BY <1>9 DEF SummaryArrives
  <2>3. IsChat(chat') /\ TurnOK(turn')
    <3> HIDE DEF h
    <3> QED BY <2>1, <2>2, SummaryEnds
  <2>4. UNCHANGED <<previous, stored>> /\ SettingsOK'
    BY <1>9 DEF SummaryArrives, SettingsOK
  <2> QED BY <2>3, <2>4, ChatHeld
<1>10. CASE SummaryTooLong
  <2>1. IsChat(turn.curated)
    BY DEF TurnOK
  <2>2. IsChat(chat') /\ TurnOK(turn')
    BY <1>10, <2>1, SummaryEnds DEF SummaryTooLong
  <2>3. UNCHANGED <<previous, stored>> /\ SettingsOK'
    BY <1>10 DEF SummaryTooLong, SettingsOK
  <2> QED BY <2>2, <2>3, ChatHeld
<1>11. CASE SummaryFails \/ StreamFails
  BY <1>11, IdleOK DEF SummaryFails, StreamFails, HoldsChats, SettingsOK
<1>12. CASE ReplyArrives
  <2>1. IsChat(chat)
    BY <1>12 DEF ReplyArrives, HoldsChats
  <2>2. IsChat(chat')
    BY <1>12, <2>1, RecordedIsChat DEF ReplyArrives
  <2>3. TurnOK(turn')
    BY <1>12, AttemptEnds DEF ReplyArrives
  <2>4. UNCHANGED <<previous, stored>> /\ SettingsOK'
    BY <1>12 DEF ReplyArrives, SettingsOK
  <2> QED BY <2>2, <2>3, <2>4, ChatHeld
<1>13. CASE StreamBroken
  <2>1. IsChat(chat)
    BY <1>13 DEF StreamBroken, HoldsChats
  <2>2. TurnOK(turn')
    BY <1>13, AttemptEnds DEF StreamBroken
  <2> QED BY <1>13, <2>1, <2>2 DEF StreamBroken, HoldsChats, SettingsOK
<1>14. CASE ToolsCalled
  <2>1. IsChat(chat)
    BY <1>14 DEF ToolsCalled, HoldsChats
  <2>2. IsChat(chat')
    BY <1>14, <2>1, RecordedIsChat DEF ToolsCalled
  <2>3. TurnOK(turn')
    BY <1>14, EmptyIsChat DEF ToolsCalled, TurnOK, Idle, MaxRetries
  <2>4. UNCHANGED <<previous, stored>> /\ SettingsOK'
    BY <1>14 DEF ToolsCalled, SettingsOK
  <2> QED BY <2>2, <2>3, <2>4, ChatHeld
<1> QED
  BY <1>1, <1>2, <1>3, <1>4, <1>5, <1>6, <1>7, <1>8, <1>9, <1>10, <1>11, <1>12,
     <1>13, <1>14
  DEF Next, UserEvent, SummaryEvent, StreamEvent

(* Every holder of the conversation holds a history or nothing, and no      *)
(* message is tried more often than MaxRetries, whatever is sent, restored, *)
(* compressed or handed to another client, and in whatever order.           *)
THEOREM TypeCorrect == Spec => []TypeOK
<1>1. TypeInv => TypeOK
  BY ChatIsHistory DEF TypeInv, TurnOK, HoldsChats, SettingsOK, TypeOK
<1> QED BY <1>1, TypeInit, TypeStep, PTL DEF Spec

-----------------------------------------------------------------------------
(* KeepsTheConversation                                                    *)

(* The parts of a history that is cut say what it says.                     *)
LEMMA PartsSay ==
  ASSUME TypeInv, HoldersInv, turn.pc = "summarising"
  PROVE  /\ IsChat(chat) /\ IsChat(turn.kept) /\ IsChat(turn.curated)
         /\ Says(turn.curated) = Says(chat) \o Says(turn.kept)
<1>1. IsChat(chat) /\ IsChat(turn.kept) /\ IsChat(turn.curated)
  BY DEF TypeInv, TurnOK, HoldsChats
<1>2. PICK k \in 1..(Len(turn.curated) + 1) :
         /\ chat = SubSeq(turn.curated, 1, k - 1)
         /\ turn.kept = SubSeq(turn.curated, k, Len(turn.curated))
  BY DEF HoldersInv, CutInTwo
<1>3. chat \o turn.kept = turn.curated
  <2> DEFINE h == turn.curated
  <2>1. h \in Seq(Entries) /\ Len(h) \in Nat
    BY <1>1, LenProperties DEF IsChat
  <2> HIDE DEF h
  <2>2. k - 1 \in 0..Len(h) /\ (k - 1) + 1 = k
    BY <1>2, <2>1 DEF h
  <2>3. SubSeq(h, 1, k - 1) \o SubSeq(h, (k - 1) + 1, Len(h)) = h
    BY <2>1, <2>2, TwoParts
  <2> QED BY <1>2, <2>2, <2>3 DEF h
<1> QED BY <1>1, <1>3, ChatSays

(* A summary says what it replaces.                                         *)
LEMMA SummarySays ==
  ASSUME NEW h, IsChat(h)
  PROVE  Says(Snapshot(h)) = Says(h)
<1> DEFINE a == Entry("human", Says(h))  b == Entry("ai", <<>>)
<1>1. a.says = Says(h) /\ b.says = <<>> /\ Snapshot(h) = <<a, b>>
  BY DEF Entry, Snapshot
<1>2. Says(h) \in Seq(Sayable) /\ <<>> \in Seq(Sayable)
  BY ChatSays
<1>3. a \in Entries /\ b \in Entries
  BY <1>2 DEF Entry, Entries, Sayable, Speakers
<1> HIDE DEF a, b
<1>4. IsChat(<<a>>) /\ IsChat(<<b>>) /\ <<a>> \o <<b>> = <<a, b>>
  BY <1>3, PairIsConcat DEF IsChat
<1>5. Says(<<a, b>>) = a.says \o b.says
  BY <1>4, ChatSays, SaysLittle
<1>6. Says(h) \o <<>> = Says(h)
  BY <1>2
<1> QED BY <1>1, <1>5, <1>6

(* The conversation of a client that has a chat is what it works with.      *)
LEMMA SaidIs ==
  /\ IsChat(chat) => Said = Says(Whole)
  /\ IsChat(chat') => Said' = Says(Whole')
BY NoneIsNoHistory DEF IsChat, Said

(* A client that goes on with h, with a message m, says what h says, but    *)
(* for a note that goes before m.                                           *)
GoesOnSaying(h, m) == Said' = Says(h) \/ Said' = Says(h) \o Note(m).says

(* One that asks for a summary of h says what h says.                       *)
LEMMA SummaryBeginsSaying ==
  ASSUME NEW h, NEW m \in Messages \cup {None}, IsChat(h), BeginSummary(h, m)
  PROVE  Said' = Says(h)
<1>1. turn'.pc = "summarising" /\ turn'.curated = h
  BY DEF BeginSummary, Idle
<1>2. IsChat(chat')
  BY SummaryBegins
<1> QED BY <1>1, <1>2, SaidIs DEF Whole

(* One that begins a turn with h goes on with it,                          *)
LEMMA TurnBeginsSaying ==
  ASSUME NEW h, NEW m \in Messages, IsChat(h), BeginTurn(h, m)
  PROVE  GoesOnSaying(h, m)
<1>1. turn'.pc = "streaming"
  BY TurnFields
<1>2. Said' = Says(chat')
  BY <1>1, TurnBegins, SaidIs DEF Whole
<1>3. CASE chat' = h
  BY <1>2, <1>3 DEF GoesOnSaying
<1>4. CASE chat' = Append(h, Note(m))
  <2>1. chat' = h \o <<Note(m)>>
    BY <1>4, AppendIsConcat DEF IsChat
  <2>2. Says(chat') = Says(h) \o Says(<<Note(m)>>)
    BY <2>1, AddedIsChat, ChatSays
  <2> QED BY <1>2, <2>2, SaysLittle DEF GoesOnSaying
<1> QED BY <1>3, <1>4 DEF BeginTurn

(* What KeepsTheConversation says of a step.                                *)
Keeps ==
  \/ Said' = Said \/ Grows \/ SaysAgain \/ StartsAfresh
  \/ chat = None
  \/ turn.pc = "summarising" /\ chat' = chat

(* and so does one whose summary has ended, with h for its chat.            *)
LEMMA SummaryEndsKeeps ==
  ASSUME NEW h, IsChat(h), TurnOK(turn), AfterSummary(h), Says(h) = Said,
         turn.pc = "summarising"
  PROVE  Keeps
<1>1. CASE Forced
  <2>1. chat' = h /\ turn'.pc = "idle"
    BY <1>1, IdleOK DEF AfterSummary
  <2> QED BY <2>1, SaidIs DEF Keeps, Whole
<1>2. CASE ~ Forced
  <2>1. BeginTurn(h, turn.message) /\ turn.message \in Messages
    BY <1>2 DEF AfterSummary, Forced, TurnOK
  <2>2. GoesOnSaying(h, turn.message)
    BY <2>1, TurnBeginsSaying
  <2> QED BY <1>2, <2>2 DEF GoesOnSaying, Keeps, Grows
<1> QED BY <1>1, <1>2

(* What an attempt records, with or without a reply, is added, whole, to    *)
(* what was said.                                                           *)
LEMMA RecordingAdds ==
  ASSUME IsChat(chat), Said = Says(chat), NEW m \in Messages, NEW attempt \in 1..MaxRetries,
         turn'.pc # "summarising",
         \/ chat' = chat \o Content(m, attempt)
         \/ chat' = chat \o Content(m, attempt) \o <<Reply(m)>>
  PROVE  Records(m, attempt)
<1> DEFINE c == Content(m, attempt)
<1>1. IsChat(c) /\ IsChat(<<Reply(m)>>)
  BY AddedIsChat
<1>2. IsChat(chat') => Said' = Says(chat')
  BY SaidIs DEF Whole
<1>3. /\ IsChat(chat \o c) /\ Says(chat \o c) = Said \o Says(c)
      /\ Said \in Seq(Sayable) /\ Says(c) \in Seq(Sayable)
  BY <1>1, ChatsFromChats, ChatSays
<1>4. CASE chat' = chat \o c
  <2>1. (Said \o Says(c)) \o <<>> = Said \o Says(c)
    BY <1>3
  <2>2. Said' = Said \o Says(c) \o (IF FALSE THEN Reply(m).says ELSE <<>>)
    BY <1>2, <1>3, <1>4, <2>1
  <2> QED BY <2>2 DEF Records
<1>5. CASE chat' = chat \o c \o <<Reply(m)>>
  <2>1. IsChat(chat') /\ Says(chat') = Says(chat \o c) \o Reply(m).says
    <3> DEFINE g == chat \o c
    <3>1. IsChat(g) /\ chat' = g \o <<Reply(m)>>
      BY <1>3, <1>5
    <3> HIDE DEF g
    <3>2. IsChat(chat') /\ Says(chat') = Says(g) \o Says(<<Reply(m)>>)
      BY <1>1, <3>1, ChatsFromChats, ChatSays
    <3> QED BY <3>2, SaysLittle DEF g
  <2>2. Said' = Said \o Says(c) \o (IF TRUE THEN Reply(m).says ELSE <<>>)
    BY <1>2, <1>3, <2>1
  <2> QED BY <2>2 DEF Records
<1> QED BY <1>4, <1>5

(* What addHistory adds is added whole.                                     *)
LEMMA AddingAdds ==
  ASSUME IsChat(chat), Said = Says(chat), NEW g, IsChat(g),
         turn'.pc # "summarising", chat' = chat \o g
  PROVE  Said' = Said \o Says(g)
<1>1. IsChat(chat') /\ Says(chat') = Said \o Says(g)
  BY ChatsFromChats, ChatSays
<1> QED BY <1>1, SaidIs DEF Whole

(* A message is sent once more only while todos are left.                   *)
RetryInv == turn.attempt \in 2..MaxRetries => todos

LEMMA RetryStep ==
  ASSUME TypeInv, RetryInv, [Next]_vars
  PROVE  RetryInv'
<1>1. CASE UNCHANGED vars
  BY <1>1 DEF vars, RetryInv
<1> SUFFICES ASSUME Next
             PROVE  RetryInv'
  BY <1>1
<1>0. TurnOK(turn)
  BY DEF TypeInv
<1>a. Idle.attempt = 0
  BY DEF Idle
<1>b. ASSUME turn' = turn, UNCHANGED todos PROVE RetryInv'
  BY <1>b DEF RetryInv
<1>c. ASSUME turn'.attempt \in {0, 1} PROVE RetryInv'
  BY <1>c DEF RetryInv
<1>d. \A h, m : BeginSummary(h, m) \/ BeginTurn(h, m) => turn'.attempt \in {0, 1}
  BY DEF BeginSummary, BeginTurn, Idle
<1>e. ASSUME NextAttempt, UNCHANGED todos PROVE RetryInv'
  <2>1. CASE todos
    BY <1>e, <2>1 DEF RetryInv
  <2>2. CASE ~ todos
    BY <1>a, <1>c, <1>e, <2>2 DEF NextAttempt
  <2> QED BY <2>1, <2>2
<1>2. CASE ResetChat \/ GenerateDirectMessage \/ RefreshAuth
           \/ \E h \in Saved : SetHistory(h)
  BY <1>2, <1>b
  DEF ResetChat, GenerateDirectMessage, RefreshAuth, SetHistory, settings
<1>3. CASE TryCompressChat
  BY <1>3, <1>c, <1>d DEF TryCompressChat
<1>4. ASSUME NEW m \in Messages, SendMessageStream(m) PROVE RetryInv'
  <2>1. \E h : BeginSummary(h, m) \/ BeginTurn(h, m)
    BY <1>4, Zenon DEF SendMessageStream
  <2> QED BY <2>1, <1>c, <1>d
<1>5. ASSUME NEW m \in Messages, AddHistory(m) PROVE RetryInv'
  BY <1>5, <1>a, <1>c DEF AddHistory
<1>6. CASE SummaryArrives \/ SummaryTooLong
  <2>1. \E h : AfterSummary(h)
    BY <1>6 DEF SummaryArrives, SummaryTooLong
  <2> QED BY <2>1, <1>a, <1>c, <1>d DEF AfterSummary
<1>7. CASE SummaryFails \/ StreamFails
  BY <1>7, <1>a, <1>c DEF SummaryFails, StreamFails
<1>8. CASE ReplyArrives \/ StreamBroken
  BY <1>8, <1>e DEF ReplyArrives, StreamBroken, settings
<1>9. CASE ToolsCalled
  BY <1>9, <1>c DEF ToolsCalled, Idle
<1> QED
  BY <1>2, <1>3, <1>4, <1>5, <1>6, <1>7, <1>8, <1>9
  DEF Next, UserEvent, SummaryEvent, StreamEvent

(* Every step of the client keeps the conversation.                         *)
LEMMA ConversationStep ==
  ASSUME TypeInv, HoldersInv, RetryInv, [Next]_vars
  PROVE  Keeps
<1>1. CASE UNCHANGED vars
  <2>1. Said' = Said
    BY <1>1 DEF vars, Said, Whole
  <2> QED BY <2>1 DEF Keeps
<1> SUFFICES ASSUME Next, chat # None
             PROVE  Keeps
  BY <1>1 DEF Keeps
<1>0. IsChat(chat) /\ TurnOK(turn) /\ Said = Says(Whole)
  BY SaidIs DEF TypeInv, HoldsChats
<1>a. turn.pc # "summarising" => Said = Says(chat)
  BY <1>0 DEF Whole
<1>2. CASE ResetChat
  <2>1. chat' = <<>> /\ turn' = turn /\ turn.pc = "idle"
    BY <1>2 DEF ResetChat, Reset, IsIdle
  <2>2. Said' = <<>>
    BY <2>1, SaidIs, EmptyIsChat, SaysLittle DEF Whole
  <2> QED BY <2>2 DEF Keeps, StartsAfresh
<1>3. CASE GenerateDirectMessage
  BY <1>3 DEF GenerateDirectMessage
<1>4. CASE RefreshAuth
  <2>1. /\ turn.pc = "idle" /\ chat' = None
        /\ previous' = IF chat \in {None, <<>>} THEN None ELSE chat
    BY <1>4 DEF RefreshAuth, IsIdle
  <2>2. CASE chat = <<>>
    <3>1. Said' = Says(<<>>) /\ Said = Says(<<>>)
      BY <1>a, <2>1, <2>2 DEF Said
    <3> QED BY <3>1 DEF Keeps
  <2>3. CASE chat # <<>>
    <3>1. Said' = Says(chat) /\ Said = Says(chat)
      BY <1>a, <2>1, <2>3 DEF Said
    <3> QED BY <3>1 DEF Keeps
  <2> QED BY <2>2, <2>3
<1>5. CASE TryCompressChat
  <2>1. BeginSummary(chat, None) /\ turn.pc = "idle"
    BY <1>5 DEF TryCompressChat, IsIdle
  <2> QED BY <1>0, <1>a, <2>1, SummaryBeginsSaying DEF Keeps
<1>6. ASSUME NEW h \in Saved, SetHistory(h)
      PROVE  Keeps
  <2>1. chat' = h /\ turn' = turn /\ turn.pc = "idle"
    BY <1>6 DEF SetHistory, IsIdle
  <2>2. Said' = Says(h)
    BY <2>1, SaidIs, ChatIsHistory DEF Whole
  <2> QED BY <2>2 DEF Keeps, StartsAfresh
<1>7. ASSUME NEW m \in Messages, SendMessageStream(m)
      PROVE  Keeps
  <2>1. turn.pc # "summarising"
    BY <1>7 DEF SendMessageStream, IsIdle
  <2>2. BeginSummary(chat, m) \/ BeginTurn(chat, m)
    BY <1>7, Zenon DEF SendMessageStream
  <2>3. Said' = Says(chat) \/ GoesOnSaying(chat, m)
    BY <1>0, <2>2, SummaryBeginsSaying, TurnBeginsSaying
  <2>4. m \in unsent \ unsent'
    BY <1>7 DEF SendMessageStream
  <2> QED BY <1>a, <2>1, <2>3, <2>4 DEF GoesOnSaying, Keeps, Grows
<1>8. ASSUME NEW m \in Messages, AddHistory(m)
      PROVE  Keeps
  <2>1. turn.pc # "summarising" /\ turn'.pc # "summarising"
    BY <1>8 DEF AddHistory, IsIdle, Idle
  <2>2. chat' = chat \o <<Cancelled(m)>> \/ chat' = chat \o Content(m, 1)
    BY <1>8 DEF AddHistory
  <2>3. m \in unsent \ unsent'
    BY <1>8 DEF AddHistory
  <2>4. IsChat(<<Cancelled(m)>>) /\ IsChat(Content(m, 1))
    BY AddedIsChat DEF MaxRetries
  <2>5. Said' = Said \o Cancelled(m).says \/ Said' = Said \o Says(Content(m, 1))
    BY <1>0, <1>a, <2>1, <2>2, <2>4, AddingAdds, SaysLittle
  <2> QED BY <2>3, <2>5 DEF Keeps, Grows
<1>9. CASE SummaryArrives
  <2> DEFINE h == Snapshot(chat) \o turn.kept
  <2>1. turn.pc = "summarising" /\ AfterSummary(h)
    BY <1>9 DEF SummaryArrives
  <2>2. IsChat(h) /\ Says(h) = Says(chat) \o Says(turn.kept)
    <3>1. IsChat(Snapshot(chat)) /\ IsChat(turn.kept)
      BY <1>0, AddedIsChat DEF TurnOK
    <3> QED BY <1>0, <3>1, ChatsFromChats, ChatSays, SummarySays
  <2>3. Says(h) = Said
    BY <1>0, <2>1, <2>2, PartsSay DEF Whole
  <2> HIDE DEF h
  <2> QED BY <1>0, <2>1, <2>2, <2>3, SummaryEndsKeeps
<1>10. CASE SummaryTooLong
  <2>1. turn.pc = "summarising" /\ AfterSummary(turn.curated) /\ IsChat(turn.curated)
    BY <1>0, <1>10 DEF SummaryTooLong, TurnOK
  <2> QED BY <1>0, <2>1, SummaryEndsKeeps DEF Whole
<1>11. CASE SummaryFails
  BY <1>11 DEF SummaryFails, holders, Keeps
<1>12. CASE ReplyArrives \/ ToolsCalled
  <2>1. turn.pc = "streaming" /\ turn'.pc # "summarising"
    <3>1. DOMAIN turn = DOMAIN Idle
      BY <1>0 DEF TurnOK
    <3> QED BY <1>12, <3>1, NextAttemptFields DEF ReplyArrives, ToolsCalled, Idle
  <2>2. turn.message \in Messages /\ turn.attempt \in 1..MaxRetries
    BY <1>0, <2>1 DEF TurnOK
  <2>3. \/ chat' = chat \o Content(turn.message, turn.attempt)
        \/ chat' = chat \o Content(turn.message, turn.attempt) \o <<Reply(turn.message)>>
    BY <1>12 DEF ReplyArrives, ToolsCalled
  <2>4. Records(turn.message, turn.attempt)
    BY <1>0, <1>a, <2>1, <2>2, <2>3, RecordingAdds
  <2>5. turn.attempt = 1 \/ turn.attempt \in 2..MaxRetries
    BY <2>2 DEF MaxRetries
  <2> QED BY <2>1, <2>4, <2>5 DEF Keeps, Grows, SaysAgain, RetryInv
<1>13. CASE StreamBroken \/ StreamFails
  <2>1. turn.pc = "streaming" /\ turn'.pc # "summarising" /\ chat' = chat
    <3>1. DOMAIN turn = DOMAIN Idle
      BY <1>0 DEF TurnOK
    <3> QED BY <1>13, <3>1, NextAttemptFields
        DEF StreamBroken, StreamFails, holders, Idle
  <2>2. Said' = Said
    BY <1>0, <1>a, <2>1, SaidIs DEF Whole
  <2> QED BY <2>2 DEF Keeps
<1> QED
  BY <1>2, <1>3, <1>4, <1>5, <1>6, <1>7, <1>8, <1>9, <1>10, <1>11, <1>12, <1>13
  DEF Next, UserEvent, SummaryEvent, StreamEvent

(* While there is a chat and requests for a summary are answered, nothing   *)
(* that was said is lost or reordered, and nothing is repeated but a        *)
(* message that is sent once more for todos: a compression says what it     *)
(* replaces, and every other step adds one turn, whole, or starts afresh.   *)
THEOREM ConversationIsKept == Spec => KeepsTheConversation
<1>1. TypeInv /\ HoldersInv /\ RetryInv /\ [Next]_vars => [Keeps]_vars
  BY ConversationStep
<1>2. HoldersInv /\ [Next]_vars => HoldersInv'
  BY HoldersStep
<1>3. Init => RetryInv
  BY DEF Init, Idle, RetryInv
<1>4. [][Keeps]_vars => KeepsTheConversation
  BY PTL DEF Keeps, KeepsTheConversation
<1> QED
  BY <1>1, <1>2, <1>3, <1>4, HoldersInit, RetryStep, TypeInit, TypeStep, PTL
  DEF Spec
=============================================================================
