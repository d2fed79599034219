----------------------------- MODULE GeminiChat -----------------------------
(***************************************************************************)
(* GeminiChat (packages/core/src/core/geminiChat.ts) and the               *)
(* HistoryService it owns (services/history/HistoryService.ts): messages   *)
(* are sent with the whole history, a turn is recorded when its stream has *)
(* ended, and old history is replaced by a summary when the token count    *)
(* gets near the context limit.                                            *)
(*                                                                         *)
(* An action is the code between two awaits.  The awaits of the model      *)
(* server's answers and of the retry timer are events; those on promises   *)
(* inside the program (the previous stream, a compression, the tokenizer   *)
(* chain, which does no I/O) settle before the next event (EventTurn), but *)
(* the senders they wake run in any order.                                 *)
(*                                                                         *)
(* Operators named X_Y, next to X, are mutants: X with a plausible bug.    *)
(***************************************************************************)
EXTENDS Naturals, FiniteSets, SequencesExt

CONSTANTS
  Messages,    \* what is sent with sendMessageStream, each once
  Answers,     \* the message whose tool calls a message brings back, or None
  Past,        \* the histories a chat may be started from
  Threshold,   \* compression-threshold * context-limit
  Window,      \* limit - safety margin - completion budget
  UsageReported, \* may the provider report usage with a reply
  Client,      \* "serial": one message at a time; "concurrent"
  None

ASSUME ConstantsOK ==
  /\ Answers \in [Messages -> Messages \cup {None}]
  /\ Threshold \in Nat /\ Window \in Nat
  /\ UsageReported \in SUBSET BOOLEAN \ {{}}
  /\ Client \in {"serial", "concurrent"}
  /\ None \notin Messages

(* The fraction of the history a compression keeps is 1/Preserve; it does   *)
(* nothing when fewer than MinCompress entries would be summarised.         *)
Preserve == 5
MinCompress == 4

VARIABLES
  history,      \* HistoryService.history
  total,        \* HistoryService.totalTokens, the tokenizer chain drained
  isCompressing,
  pendingOperations, \* add() and clear() calls made while isCompressing
  sendPromise,  \* the send whose streamDonePromise it is, None if resolved
  compressionPromise, \* the send that made it, or None for null
  send          \* the state of each sendMessageStream call

vars == <<history, total, isCompressing, pendingOperations, sendPromise,
          compressionPromise, send>>
serviceVars == <<history, total, isCompressing, pendingOperations>>

(* An entry stands for what was said in it: a summary for all it replaces.  *)
(* An entry is one token, and one that came with usage metadata is counted  *)
(* with the tokens of the whole request that produced it.                   *)
Entry(speaker, says, tokens) ==
  [speaker |-> speaker, says |-> says, tokens |-> tokens]
Clear == [speaker |-> "clear", says |-> <<>>, tokens |-> 0]
Note(m) == Entry("human", << <<m, "note">> >>, 1)

(* What a message adds: a question, or the tool calls it answers together   *)
(* with their results (the reply with the calls was not recorded itself).   *)
Content(m) ==
  IF Answers[m] = None
  THEN << Entry("human", << <<m, "question">> >>, 1) >>
  ELSE << Entry("call", << <<m, "call">> >>, 1),
          Entry("tool", << <<m, "result">> >>, 1) >>
Reply(m, tokens) == Entry("ai", << <<m, "reply">> >>, tokens)
PendingTokens(m) == Len(Content(m))

Waiting == {"waiting", "joining", "deciding", "compressing", "sending",
            "recompressing", "rechecking", "streaming", "retrying"}
Ended == {"done", "called", "failed", "forgotten"}
NewSend == [pc |-> "new", on |-> None, attempt |-> 0, request |-> 0,
            summary |-> "none", summarised |-> <<>>, kept |-> <<>>]

Says(entries) == FlattenSeq([i \in 1..Len(entries) |-> entries[i].says])

SumTokens(entries) ==
  LET sum[i \in 0..Len(entries)] == IF i = 0 THEN 0 ELSE sum[i - 1] + entries[i].tokens
  IN  sum[Len(entries)]

(* The tool calls of a turn and their results are next to each other.       *)
Paired(h) ==
  /\ \A i \in 1..Len(h) : h[i].speaker = "call" =>
       i < Len(h) /\ h[i + 1].speaker = "tool"
  /\ \A i \in 1..Len(h) : h[i].speaker = "tool" =>
       i > 1 /\ h[i - 1].speaker = "call"

(* A chat starts from what an earlier one has recorded: nothing twice, tool *)
(* calls with their results, and nothing of what will be said now.          *)
Speakers == {"human", "ai", "call", "tool"}
Kinds == {"note", "question", "call", "result", "reply"}
SaidBefore == UNION {UNION {Range(h[i].says) : i \in 1..Len(h)} : h \in Past}
ASSUME PastOK ==
  /\ \A h \in Past :
       /\ h \in Seq([speaker : Speakers, says : Seq(SaidBefore), tokens : Nat \ {0}])
       /\ Paired(h) /\ IsInjective(Says(h))
  /\ SaidBefore \cap (Messages \X Kinds) = {}

IsEntry(e, speakers) ==
  DOMAIN e = {"speaker", "says", "tokens"} /\ e.speaker \in speakers /\ e.tokens \in Nat

SendOK ==
  /\ DOMAIN send = Messages
  /\ \A m \in Messages :
       /\ DOMAIN send[m] = DOMAIN NewSend
       /\ send[m].pc \in {"new", "noted"} \cup Waiting \cup Ended
       /\ send[m].on \in Messages \cup {None}
       /\ send[m].summary \in {"none", "running", "ok", "failed"}
  /\ sendPromise \in Messages \cup {None}
  /\ compressionPromise \in Messages \cup {None}
TypeOK ==
  /\ SendOK
  /\ \A m \in Messages : send[m].attempt \in 0..2
  /\ \A i \in 1..Len(history) : IsEntry(history[i], Speakers)
  /\ \A i \in 1..Len(pendingOperations) :
       IsEntry(pendingOperations[i], Speakers \cup {"clear"})
  /\ total \in Nat /\ isCompressing \in BOOLEAN

Init ==
  /\ history \in Past
  /\ total = SumTokens(history)
  /\ isCompressing = FALSE /\ pendingOperations = <<>>
  /\ sendPromise = None /\ compressionPromise = None
  /\ send = [m \in Messages |-> NewSend]

-----------------------------------------------------------------------------
(* HistoryService                                                          *)

(* The history after a run of add() and clear() calls.                      *)
IsClear(e) == e.speaker = "clear"
After(h, ops) ==
  IF \E i \in 1..Len(ops) : IsClear(ops[i])
  THEN SubSeq(ops, SelectLastInSeq(ops, IsClear) + 1, Len(ops))
  ELSE h \o ops

(* clear() sets totalTokens to 0 at once; the tokens of every add() of the  *)
(* same run are added later, by the tokenizer chain, those of entries that  *)
(* a later clear() of the run has removed again included.                   *)
Counted_ClearLate(t, ops) ==
  IF \E i \in 1..Len(ops) : IsClear(ops[i]) THEN 0 ELSE t + SumTokens(ops)
Counted(t, ops) ==
  (IF \E i \in 1..Len(ops) : IsClear(ops[i]) THEN 0 ELSE t) + SumTokens(ops)

Perform(ops) ==
  /\ IF isCompressing
     THEN /\ pendingOperations' = pendingOperations \o ops
          /\ UNCHANGED <<history, total>>
     ELSE /\ history' = After(history, ops)
          /\ total' = Counted(total, ops)
          /\ UNCHANGED pendingOperations
  /\ UNCHANGED isCompressing

(* The calls of applyCompression, then endCompression: the lock is opened   *)
(* and everything that was queued runs, in order.                           *)
EndCompression(ops) ==
  /\ isCompressing' = FALSE /\ pendingOperations' = <<>>
  /\ history' = After(history, pendingOperations \o ops)
  /\ total' = Counted(total, pendingOperations \o ops)

-----------------------------------------------------------------------------
(* Compression                                                             *)

(* adjustForToolCallBoundary.  A call at the boundary has its response      *)
(* right behind it if it has one, so the scan over responses has passed it. *)
Boundary_Ignored(h, index) == index
Boundary(h, index) ==
  LET first == CHOOSE i \in index..Len(h) :
                 /\ \A j \in index..(i - 1) : h[j + 1].speaker = "tool"
                 /\ i = Len(h) \/ h[i + 1].speaker # "tool"
  IN  IF first > 0 /\ h[first].speaker = "call" THEN first - 1 ELSE first

(* getCompressionSplit: how many of the oldest entries are summarised.      *)
Split(h) ==
  LET index == Boundary(h, (Len(h) * (Preserve - 1)) \div Preserve)
  IN  IF index < MinCompress THEN 0 ELSE index

(* performCompression up to the model's answer.                             *)
BeginCompression_OneOff(m, pc) ==
  /\ isCompressing' = TRUE
  /\ UNCHANGED <<history, total, pendingOperations>>
  /\ send' = [send EXCEPT ![m].pc = pc,
        ![m].summary = IF pc = "compressing" THEN "running" ELSE @,
        ![m].summarised = Says(SubSeq(history, 1, Split(history))),
        ![m].kept = SubSeq(history, Split(history), Len(history))]
BeginCompression(m, pc) ==
  /\ isCompressing' = TRUE
  /\ UNCHANGED <<history, total, pendingOperations>>
  /\ send' = [send EXCEPT ![m].pc = pc,
        ![m].summary = IF pc = "compressing" THEN "running" ELSE @,
        ![m].summarised = Says(SubSeq(history, 1, Split(history))),
        ![m].kept = SubSeq(history, Split(history) + 1, Len(history))]

(* applyCompression: the summary, an acknowledgement, the kept entries.     *)
Rebuilt_DropsKept(m) ==
  << Clear, Entry("human", send[m].summarised, 1), Entry("ai", <<>>, 1) >>
Rebuilt(m) ==
  << Clear, Entry("human", send[m].summarised, 1), Entry("ai", <<>>, 1) >>
    \o send[m].kept

-----------------------------------------------------------------------------
(* The life of a message                                                   *)

Goto(m, pc) == send' = [send EXCEPT ![m].pc = pc]

(* The promises a sender waits for.  summary tells how the compression that *)
(* compressionPromise stood for has ended.                                  *)
StreamOver(on) == on # None => send[on].pc \in Ended
MayJoin(m) ==
  send[m].pc = "joining" /\ send[send[m].on].summary \in {"ok", "failed"}
Awake(m) == \/ send[m].pc \in {"deciding", "sending", "rechecking"}
            \/ send[m].pc = "waiting" /\ StreamOver(send[m].on)
            \/ MayJoin(m)
EventTurn == \A m \in Messages : ~ Awake(m)

(* A client that answers tool calls has their results only after the reply. *)
ClientReady(m) ==
  /\ Answers[m] # None => send[Answers[m]].pc = "called"
  /\ Client = "serial" =>
       \A x \in Messages \ {m} : send[x].pc \in {"new"} \cup Ended

(* client.ts puts a note on the IDE's state before a message.               *)
AddNote(m) ==
  /\ EventTurn
  /\ send[m].pc = "new" /\ ClientReady(m)
  /\ Perform(<< Note(m) >>)
  /\ Goto(m, "noted")
  /\ UNCHANGED <<sendPromise, compressionPromise>>

SendMessageStream(m) ==
  /\ EventTurn
  /\ send[m].pc \in {"new", "noted"} /\ ClientReady(m)
  /\ send' = [send EXCEPT ![m].pc = "waiting", ![m].on = sendPromise]
  /\ UNCHANGED <<serviceVars, sendPromise, compressionPromise>>

(* ensureCompressionBeforeSend: a compression under way is joined.          *)
CheckCompression(m) ==
  /\ send[m].pc = "waiting" /\ StreamOver(send[m].on)
  /\ send' = IF compressionPromise = None
             THEN [send EXCEPT ![m].pc = "deciding"]
             ELSE [send EXCEPT ![m].pc = "joining", ![m].on = compressionPromise]
  /\ UNCHANGED <<serviceVars, sendPromise, compressionPromise>>

(* The promise settles; if it was rejected, so is the call that joined it.  *)
CompressionJoined(m) ==
  /\ MayJoin(m)
  /\ compressionPromise' = None
  /\ Goto(m, IF send[send[m].on].summary = "ok" THEN "deciding" ELSE "failed")
  /\ UNCHANGED <<serviceVars, sendPromise>>

(* shouldCompress, and performCompression up to its first await.  With too  *)
(* little to compress it opens the lock again at once.  A send that does    *)
(* not compress becomes sendPromise and its generator starts.  Joiners are  *)
(* awake a few ticks before anyone decides.                                 *)
Decide(m) ==
  /\ send[m].pc = "deciding"
  /\ \A x \in Messages : ~ MayJoin(x)
  /\ \/ /\ total + PendingTokens(m) < Threshold
        /\ sendPromise' = m /\ Goto(m, "sending")
        /\ UNCHANGED <<serviceVars, compressionPromise>>
     \/ /\ total + PendingTokens(m) >= Threshold
        /\ Split(history) = 0
        /\ EndCompression(<<>>)
        /\ compressionPromise' = None
        /\ sendPromise' = m /\ Goto(m, "sending")
     \/ /\ total + PendingTokens(m) >= Threshold
        /\ Split(history) # 0
        /\ BeginCompression(m, "compressing")
        /\ compressionPromise' = m
        /\ UNCHANGED sendPromise

(* The model's summary arrives, or the request for it fails.                *)
CompressionSettles_NoFinally(m, ok) ==
  /\ EventTurn
  /\ send[m].pc = "compressing"
  /\ IF ok THEN EndCompression(Rebuilt(m)) ELSE UNCHANGED serviceVars
  /\ compressionPromise' = None
  /\ sendPromise' = IF ok THEN m ELSE sendPromise
  /\ send' = [send EXCEPT
       ![m].summary = IF ok THEN "ok" ELSE "failed",
       ![m].pc = IF ok THEN "sending" ELSE "failed",
       ![m].summarised = <<>>, ![m].kept = <<>>]
CompressionSettles(m, ok) ==
  /\ EventTurn
  /\ send[m].pc = "compressing"
  /\ EndCompression(IF ok THEN Rebuilt(m) ELSE <<>>)
  /\ compressionPromise' = None
  /\ sendPromise' = IF ok THEN m ELSE sendPromise
  /\ send' = [send EXCEPT
       ![m].summary = IF ok THEN "ok" ELSE "failed",
       ![m].pc = IF ok THEN "sending" ELSE "failed",
       ![m].summarised = <<>>, ![m].kept = <<>>]

(* The request leaves with the history as it is now.                        *)
Request(m) ==
  send' = [send EXCEPT ![m].pc = "streaming", ![m].attempt = @ + 1,
             ![m].request = Len(history) + PendingTokens(m)]

(* enforceContextWindow                                                     *)
Fits(m) == total + PendingTokens(m) <= Window
EnforceContextWindow(m) ==
  /\ send[m].pc = "sending"
  /\ \/ Fits(m) /\ Request(m) /\ UNCHANGED serviceVars
     \/ /\ ~ Fits(m) /\ Split(history) = 0
        /\ EndCompression(<<>>)
        /\ Goto(m, "rechecking")
     \/ /\ ~ Fits(m) /\ Split(history) # 0
        /\ BeginCompression(m, "recompressing")
  /\ UNCHANGED <<sendPromise, compressionPromise>>

WindowCompressionSettles(m, ok) ==
  /\ EventTurn
  /\ send[m].pc = "recompressing"
  /\ EndCompression(IF ok THEN Rebuilt(m) ELSE <<>>)
  /\ send' = [send EXCEPT ![m].pc = IF ok THEN "rechecking" ELSE "failed",
                          ![m].summarised = <<>>, ![m].kept = <<>>]
  /\ UNCHANGED <<sendPromise, compressionPromise>>

Recheck_Trusts(m) ==
  /\ send[m].pc = "rechecking"
  /\ Request(m)
  /\ UNCHANGED <<serviceVars, sendPromise, compressionPromise>>
Recheck(m) ==
  /\ send[m].pc = "rechecking"
  /\ IF Fits(m) THEN Request(m) ELSE Goto(m, "failed")
  /\ UNCHANGED <<serviceVars, sendPromise, compressionPromise>>

(* The stream ends with an answer, which recordHistory adds together with   *)
(* the message; a reply that calls tools is not added: the calls come back  *)
(* with their results.                                                      *)
StreamEnds(m, reply, usage) ==
  /\ EventTurn
  /\ send[m].pc = "streaming"
  /\ Perform(Content(m) \o
       IF reply = "text"
       THEN << Reply(m, IF usage THEN send[m].request + 1 ELSE 1) >> ELSE <<>>)
  /\ Goto(m, IF reply = "text" THEN "done" ELSE "called")
  /\ UNCHANGED <<sendPromise, compressionPromise>>

(* It ends without one: retried once, after a delay.  It fails, or its      *)
(* consumer stops reading: nothing of the turn is recorded.                 *)
StreamInvalid_Recounts(m) ==
  /\ EventTurn
  /\ send[m].pc = "streaming"
  /\ send' = [send EXCEPT ![m].pc = "retrying", ![m].attempt = 0]
  /\ UNCHANGED <<serviceVars, sendPromise, compressionPromise>>
StreamInvalid_RetriesTwice(m) ==
  /\ EventTurn
  /\ send[m].pc = "streaming"
  /\ Goto(m, IF send[m].attempt <= 2 THEN "retrying" ELSE "failed")
  /\ UNCHANGED <<serviceVars, sendPromise, compressionPromise>>
StreamInvalid(m) ==
  /\ EventTurn
  /\ send[m].pc = "streaming"
  /\ Goto(m, IF send[m].attempt < 2 THEN "retrying" ELSE "failed")
  /\ UNCHANGED <<serviceVars, sendPromise, compressionPromise>>
StreamFails(m) ==
  /\ EventTurn
  /\ send[m].pc = "streaming" /\ Goto(m, "failed")
  /\ UNCHANGED <<serviceVars, sendPromise, compressionPromise>>
RetryDue(m) ==
  /\ EventTurn
  /\ send[m].pc = "retrying" /\ Goto(m, "sending")
  /\ UNCHANGED <<serviceVars, sendPromise, compressionPromise>>

(* resetChat; the user has no way to start it while a message is under way. *)
ClearHistory ==
  /\ EventTurn
  /\ \A m \in Messages : send[m].pc \in {"new"} \cup Ended
  /\ Perform(<< Clear >>)
  /\ send' = [m \in Messages |-> IF send[m].pc = "new" THEN send[m]
                                 ELSE [send[m] EXCEPT !.pc = "forgotten"]]
  /\ UNCHANGED <<sendPromise, compressionPromise>>

-----------------------------------------------------------------------------
ClientEvent == \E m \in Messages : AddNote(m) \/ SendMessageStream(m)
Progress(m) ==
  \/ CheckCompression(m) \/ CompressionJoined(m) \/ Decide(m)
  \/ EnforceContextWindow(m) \/ Recheck(m)
ServerEvent(m) ==
  \/ \E ok \in BOOLEAN : CompressionSettles(m, ok) \/ WindowCompressionSettles(m, ok)
  \/ \E reply \in {"text", "calls"}, usage \in UsageReported :
       StreamEnds(m, reply, usage)
  \/ StreamInvalid(m) \/ StreamFails(m) \/ RetryDue(m)

Next ==
  \/ ClientEvent \/ ClearHistory
  \/ \E m \in Messages : Progress(m) \/ ServerEvent(m)

Spec == Init /\ [][Next]_vars

(* Fairness: the program runs on, the model server's answers and the retry  *)
(* timer come; what the client does is up to it.                            *)
Fairness == \A m \in Messages : WF_vars(Progress(m)) /\ WF_vars(ServerEvent(m))
FairSpec == Spec /\ Fairness

-----------------------------------------------------------------------------
(* Safety                                                                  *)

Idle == \A m \in Messages : send[m].pc \in {"new", "noted"} \cup Ended
Recorded == history \o pendingOperations

(* Nothing is in the history twice, be it on its own or in a summary: the   *)
(* entries a compression keeps replace the ones they were copied from.      *)
NothingTwice == IsInjective(Says(Recorded))

(* The tool calls of a turn and their results stay next to each other:      *)
(* neither the end of a summary nor the queue comes between the two.        *)
ToolPairsIntact == Paired(history)

(* The count that decides about compression and about the context window    *)
(* never falls short of the history, through any number of clears, queued   *)
(* additions and overlapping compressions.                                  *)
NeverUndercounts == total >= Len(history)

(* A request never exceeds the context window, not even when a compression  *)
(* or a retry came between the check and the request.                       *)
RequestFits ==
  [][\A m \in Messages : send'[m].pc = "streaming" /\ send[m].pc # "streaming" =>
       Len(history) + PendingTokens(m) <= Window]_vars

(* The lock is held by a compression in progress, and what was queued under *)
(* it is applied before it is gone: an idle chat has an open lock, an empty *)
(* queue and no compression that a later send would wait for.               *)
LockReleased ==
  /\ isCompressing => \E m \in Messages : send[m].pc \in {"compressing", "recompressing"}
  /\ pendingOperations # <<>> => isCompressing
  /\ compressionPromise # None => send[compressionPromise].pc = "compressing"

-----------------------------------------------------------------------------
(* Liveness: every message gets its reply or an error, however sends wait   *)
(* for each other's streams and join each other's compressions.             *)
EverySendEnds ==
  \A m \in Messages : send[m].pc = "waiting" ~> send[m].pc \in Ended

-----------------------------------------------------------------------------
(* Refinement: what the history, its summaries and the queue stand for only *)
(* grows, by whole turns, until the history is cleared.                     *)
Turn(m, replied) ==
  Says(Content(m)) \o IF replied THEN << <<m, "reply">> >> ELSE <<>>
History == INSTANCE Conversation WITH
  said <- Says(Recorded), Past <- {Says(h) : h \in Past},
  Turns <- {Says(<< Note(m) >>) : m \in Messages} \cup
           {Turn(m, replied) : m \in Messages, replied \in BOOLEAN}
KeepsTheConversation == History!Spec
=============================================================================
