---------------------------- MODULE GeminiClient ----------------------------
(***************************************************************************)
(* GeminiClient (packages/core/src/core/client.ts) with the part of Config *)
(* that replaces it (config/config.ts, refreshAuth): who holds the         *)
(* conversation while chats are started, cleared, restored, summarised on  *)
(* request or before a message, and handed to the next client when the     *)
(* user changes provider or credentials.                                   *)
(*                                                                         *)
(* The client is the terminal: it takes a command or a message only when   *)
(* the one before it has ended.  An action is the code between two answers *)
(* of the model server.  What the chat does to its own history meanwhile   *)
(* (GeminiChat) never changes what the history stands for.                 *)
(*                                                                         *)
(* Operators named X_Y, next to X, are mutants: X with a plausible bug.    *)
(***************************************************************************)
EXTENDS Naturals, SequencesExt

CONSTANTS
  Messages,    \* what the user, the tools or a command add, each once
  Results,     \* the messages that bring tool calls back with their results
  Texts,       \* the messages that are strings, as the terminal's; the others
               \* are lists of parts
  Saved,       \* histories /chat resume and /restore can load
  Threshold,   \* tokens from which a message is preceded by a compression
  MaxRefreshes, \* bound: calls of refreshAuth
  None

ASSUME ConstantsOK ==
  /\ Results \subseteq Messages /\ Texts \subseteq Messages \ Results
  /\ Threshold \in Nat /\ MaxRefreshes \in Nat

(* MAX_RETRIES: attempts of a message while todos are left.                 *)
MaxRetries == 2

VARIABLES
  chat,      \* the history of the current chat, None when there is no chat
  previous,  \* _previousHistory, None when undefined
  stored,    \* _storedHistoryService: the history in it, or None
  failed,    \* hasFailedCompressionAttempt
  todos,     \* are there todos in progress or pending
  turn,      \* what the client is doing
  unsent,    \* messages that have not been sent yet
  refreshes, \* calls of refreshAuth so far
  wasted     \* history variable: automatic summaries thrown away in a row

vars == <<chat, previous, stored, failed, todos, turn, unsent, refreshes, wasted>>
holders == <<chat, previous, stored>>
settings == <<todos, unsent, refreshes>>

(* An entry stands for what was said in it, a summary for all it replaces.  *)
(* The speaker of a user entry tells what tryCompressChat sees in it: a     *)
(* "tool" entry holds tool responses and nothing else, a "mixed" one text   *)
(* or calls as well.                                                        *)
Entry(speaker, says) == [speaker |-> speaker, says |-> says]
Note(m) == Entry("human", << <<m, "note">> >>)
Question(m) == << <<m, "question">> >>
Reminder(m) == << <<m, "reminder">> >>
Cancelled(m) == Entry("mixed", << <<m, "call">>, <<m, "result">> >>)
Reply(m) == Entry("ai", << <<m, "reply">> >>)
Says(entries) == FlattenSeq([i \in 1..Len(entries) |-> entries[i].says])

(* What the chat records of a message, or of calls with their results.  The *)
(* second attempt brings a reminder of the todos, which is added to a list  *)
(* of parts but takes the place of a string.                                *)
Content(m, attempt) ==
  CASE m \in Results /\ attempt = 1 ->
         << Entry("call", << <<m, "call">> >>), Entry("tool", << <<m, "result">> >>) >>
    [] m \in Results /\ attempt # 1 ->
         << Entry("call", << <<m, "call">> >>),
            Entry("mixed", << <<m, "result">> >> \o Reminder(m)) >>
    [] m \notin Results /\ attempt = 1 -> << Entry("human", Question(m)) >>
    [] m \in Texts /\ attempt # 1 -> << Entry("human", Reminder(m)) >>
    [] OTHER -> << Entry("human", Question(m) \o Reminder(m)) >>

(* What sendMessage adds to a chat that is asked for its summary, and how   *)
(* the chat that takes its place begins.                                    *)
Scratchpad == << Entry("human", << <<"prompt">> >>), Entry("ai", << <<"snapshot">> >>) >>
Snapshot(entries) == << Entry("human", Says(entries)), Entry("ai", <<>>) >>

(* Tool responses stand behind their calls.  It is assumed of what can be   *)
(* restored: setHistory takes it as it was saved, without a look at it; so  *)
(* is that it is a history at all.                                          *)
PairsIntact(h) ==
  \A i \in 1..Len(h) : h[i].speaker = "tool" => i > 1 /\ h[i - 1].speaker = "call"
Speakers == {"human", "ai", "call", "tool", "mixed"}
IsHistory(h) ==
  \A i \in 1..Len(h) : DOMAIN h[i] = {"speaker", "says"} /\ h[i].speaker \in Speakers

(* What can be said: what is in a saved history and what the client adds.   *)
Kinds == {"note", "question", "reminder", "call", "result", "reply"}
SaidIn(e) == {e.says[i] : i \in DOMAIN e.says}
SaidBefore == UNION {UNION {SaidIn(h[i]) : i \in DOMAIN h} : h \in Saved}
Entries == [speaker : Speakers, says : Seq(SaidBefore \cup (Messages \X Kinds))]
ASSUME SavedOK == \A h \in Saved : h \in Seq(Entries) /\ PairsIntact(h)
ASSUME NoneIsNoHistory == None \notin Seq(Entries)

Idle == [pc |-> "idle", message |-> None, attempt |-> 0, kept |-> <<>>,
         curated |-> <<>>]
IsIdle == turn.pc = "idle"
Forced == turn.message = None  \* a compression the user asked for

TypeOK ==
  /\ chat # None => IsHistory(chat)
  /\ previous # None => IsHistory(previous)
  /\ stored # None => IsHistory(stored)
  /\ failed \in BOOLEAN /\ todos \in BOOLEAN
  /\ DOMAIN turn = DOMAIN Idle
  /\ turn.pc \in {"idle", "summarising", "streaming", "tools"}
  /\ turn.message \in Messages \cup {None} /\ turn.attempt \in 0..MaxRetries
  /\ IsHistory(turn.kept) /\ IsHistory(turn.curated)
  /\ unsent \subseteq Messages /\ refreshes \in 0..MaxRefreshes

Init ==
  /\ chat = None /\ previous = None /\ stored = None
  /\ failed = FALSE /\ todos \in BOOLEAN
  /\ turn = Idle /\ unsent = Messages
  /\ refreshes = 0 /\ wasted = 0

-----------------------------------------------------------------------------
(* Starting and replacing chats                                            *)

(* startChat(extra): the history of the new chat.  A stored HistoryService  *)
(* is used again, with what is in it.                                       *)
Started(extra) == (IF stored = None THEN <<>> ELSE stored) \o extra

(* sendMessageStream starts the missing chat with the previous history but  *)
(* for its first two entries, where older versions had their context.       *)
Resumed ==
  Started(IF previous = None THEN <<>> ELSE SubSeq(previous, 3, Len(previous)))

(* resetChat, which /clear calls; setTools and addHistory do when there is  *)
(* no chat.                                                                 *)
Reset == IF chat = None THEN Started(<<>>) ELSE <<>>
NewlyStarted ==
  IF chat = None THEN stored' = None /\ failed' = FALSE /\ wasted' = 0
  ELSE UNCHANGED <<stored, failed, wasted>>
ResetChat ==
  /\ IsIdle
  /\ chat' = Reset /\ previous' = <<>>
  /\ NewlyStarted
  /\ UNCHANGED <<turn, settings>>

(* addHistory: the directory context, the output of a shell command, or     *)
(* calls that were all cancelled and go back to the model later.            *)
AddHistory(m) ==
  /\ IF m \in Results THEN turn.pc = "tools" ELSE IsIdle
  /\ m \in unsent
  /\ chat' = (IF chat = None THEN Reset ELSE chat) \o
             (IF m \in Results THEN << Cancelled(m) >> ELSE Content(m, 1))
  /\ previous' = IF chat = None THEN <<>> ELSE previous
  /\ NewlyStarted
  /\ turn' = Idle /\ unsent' = unsent \ {m}
  /\ UNCHANGED <<todos, refreshes>>

(* setHistory: /chat resume and /restore.                                   *)
SetHistory(h) ==
  /\ IsIdle
  /\ chat' = IF chat = None THEN None ELSE h
  /\ previous' = h
  /\ UNCHANGED <<stored, failed, wasted, turn, settings>>

(* generateDirectMessage (/subagent save in auto mode) leaves the history   *)
(* of a chat alone, but starts an empty one if there is none.               *)
GenerateDirectMessage ==
  /\ IsIdle /\ chat = None
  /\ chat' = Started(<<>>)
  /\ NewlyStarted
  /\ UNCHANGED <<previous, turn, settings>>

(* Config.refreshAuth replaces the client.  Only a client that has a chat   *)
(* is asked for its history.                                                *)
RefreshAuth ==
  /\ IsIdle /\ refreshes < MaxRefreshes
  /\ refreshes' = refreshes + 1
  /\ chat' = None
  /\ stored' = chat
  /\ previous' = IF chat \in {None, <<>>} THEN None ELSE chat
  /\ failed' = FALSE /\ wasted' = 0
  /\ UNCHANGED <<todos, turn, unsent>>

-----------------------------------------------------------------------------
(* tryCompressChat                                                         *)

(* The summarised part reaches to 70% of the characters, wherever that is,  *)
(* and from there to k, where the next turn starts.                         *)
AfterFraction(h) == DOMAIN h
Cut_AtOnce(h, i, k) == k = i
Cut(h, i, k) ==
  LET starts == {j \in DOMAIN h : h[j].speaker \in {"human", "mixed"}}
  IN  /\ k \in starts \cup {Len(h) + 1} /\ i <= k
      /\ \A j \in i..(k - 1) : j \notin starts

(* The chat is cut to the part to be summarised and asked for the summary.  *)
BeginSummary(h, m) ==
  \E i \in AfterFraction(h), k \in 1..(Len(h) + 1) :
    /\ Cut(h, i, k)
    /\ chat' = SubSeq(h, 1, k - 1)
    /\ turn' = [Idle EXCEPT !.pc = "summarising", !.message = m,
                            !.kept = SubSeq(h, k, Len(h)), !.curated = h]

(* The turn of a message begins, with the IDE context if there is any and   *)
(* no call waits for its response.                                          *)
HasPendingToolCall(h) == h # <<>> /\ Last(h).speaker = "call"
BeginTurn(h, m) ==
  /\ \/ chat' = h
     \/ ~ HasPendingToolCall(h) /\ chat' = Append(h, Note(m))
  /\ turn' = [Idle EXCEPT !.pc = "streaming", !.message = m, !.attempt = 1]

(* After a compression the message goes on; a command has ended.            *)
AfterSummary(h) ==
  IF Forced
  THEN chat' = h /\ turn' = Idle
  ELSE BeginTurn(h, turn.message)

(* /compress                                                                *)
TryCompressChat ==
  /\ IsIdle /\ chat \notin {None, <<>>}
  /\ BeginSummary(chat, None)
  /\ UNCHANGED <<previous, stored, failed, wasted, settings>>

SummaryArrives_DropsKept ==
  /\ turn.pc = "summarising" /\ chat # <<>>
  /\ AfterSummary(Snapshot(chat))
  /\ failed' = FALSE /\ wasted' = 0
  /\ UNCHANGED <<previous, stored, settings>>
(* (The summary of nothing makes the chat longer: see SummaryTooLong.)       *)
SummaryArrives ==
  /\ turn.pc = "summarising" /\ chat # <<>>
  /\ AfterSummary(Snapshot(chat) \o turn.kept)
  /\ failed' = FALSE /\ wasted' = 0
  /\ UNCHANGED <<previous, stored, settings>>

(* The new chat is longer than the old one: the old history is put back.    *)
SummaryTooLong_Forgets ==
  /\ turn.pc = "summarising"
  /\ AfterSummary(turn.curated)
  /\ failed' = FALSE
  /\ wasted' = IF Forced THEN 0 ELSE wasted + 1
  /\ UNCHANGED <<previous, stored, settings>>
SummaryTooLong ==
  /\ turn.pc = "summarising"
  /\ AfterSummary(turn.curated)
  /\ failed' = ~ Forced
  /\ wasted' = IF Forced THEN 0 ELSE wasted + 1
  /\ UNCHANGED <<previous, stored, settings>>

(* The request for the summary throws; nothing puts the history back.       *)
SummaryFails ==
  /\ turn.pc = "summarising"
  /\ turn' = Idle
  /\ UNCHANGED <<holders, failed, wasted, settings>>

-----------------------------------------------------------------------------
(* sendMessageStream                                                       *)

(* A message of the user, or the results of the tools the last turn called. *)
(* A chat is started if there is none, and compressed if it is too long,    *)
(* unless that has failed before.                                           *)
SendMessageStream(m) ==
  /\ IF m \in Results THEN turn.pc = "tools" ELSE IsIdle
  /\ m \in unsent /\ unsent' = unsent \ {m}
  /\ NewlyStarted
  /\ LET h == IF chat = None THEN Resumed ELSE chat
     IN  \/ /\ h # <<>> /\ ~ failed' /\ Len(h) >= Threshold
            /\ BeginSummary(h, m)
         \/ /\ h = <<>> \/ failed' \/ Len(h) < Threshold
            /\ BeginTurn(h, m)
  /\ UNCHANGED <<previous, todos, refreshes>>

(* After an attempt without tool calls: the message is sent again, with a   *)
(* reminder, while todos are left and attempts too.                         *)
NextAttempt_StartsOver ==
  turn' = IF todos
          THEN [turn EXCEPT !.attempt = IF @ < MaxRetries THEN @ + 1 ELSE 1] ELSE Idle
NextAttempt_OneMore ==
  turn' = IF todos /\ turn.attempt <= MaxRetries
          THEN [turn EXCEPT !.attempt = @ + 1] ELSE Idle
NextAttempt ==
  turn' = IF todos /\ turn.attempt < MaxRetries
          THEN [turn EXCEPT !.attempt = @ + 1] ELSE Idle

(* The stream ends with a reply; the chat records the turn.                 *)
ReplyArrives ==
  /\ turn.pc = "streaming"
  /\ chat' = chat \o Content(turn.message, turn.attempt) \o << Reply(turn.message) >>
  /\ NextAttempt
  /\ UNCHANGED <<previous, stored, failed, wasted, settings>>

(* It ends with tool calls, which the chat records with their results.  The *)
(* tools may work on the todo list.                                         *)
ToolsCalled ==
  /\ turn.pc = "streaming" /\ unsent \cap Results # {}
  /\ chat' = chat \o Content(turn.message, turn.attempt)
  /\ turn' = [Idle EXCEPT !.pc = "tools"]
  /\ todos' \in BOOLEAN
  /\ UNCHANGED <<previous, stored, failed, wasted, unsent, refreshes>>

(* InvalidStream or UserCancelled: nothing is recorded, but the todos are   *)
(* looked at as after a reply.                                              *)
StreamBroken ==
  /\ turn.pc = "streaming"
  /\ NextAttempt
  /\ UNCHANGED <<holders, failed, wasted, settings>>

(* Error or LoopDetected ends the turn at once.                             *)
StreamFails ==
  /\ turn.pc = "streaming"
  /\ turn' = Idle
  /\ UNCHANGED <<holders, failed, wasted, settings>>

-----------------------------------------------------------------------------
UserEvent ==
  \/ ResetChat \/ GenerateDirectMessage \/ RefreshAuth \/ TryCompressChat
  \/ \E h \in Saved : SetHistory(h)
  \/ \E m \in Messages : SendMessageStream(m) \/ AddHistory(m)
SummaryEvent == SummaryArrives \/ SummaryTooLong \/ SummaryFails
StreamEvent == ReplyArrives \/ ToolsCalled \/ StreamBroken \/ StreamFails

Next == UserEvent \/ SummaryEvent \/ StreamEvent

Spec == Init /\ [][Next]_vars

(* The model server answers every request, or the request fails.            *)
FairSpec ==
  Spec /\ WF_vars(SummaryEvent) /\ WF_vars(StreamEvent)

-----------------------------------------------------------------------------
(* Safety.  Whole is the history the client works with, also while the      *)
(* chat is cut; Said is the conversation as the user knows it.              *)
Whole == IF turn.pc = "summarising" THEN turn.curated ELSE chat
Said == Says(CASE chat # None -> Whole
               [] chat = None /\ previous # None -> previous
               [] OTHER -> <<>>)

(* What an attempt of a message records: the message, and a reply if the    *)
(* model called no tools.                                                   *)
Records(m, attempt) ==
  \E replied \in BOOLEAN :
    Said' = Said \o Says(Content(m, attempt)) \o
            (IF replied THEN Reply(m).says ELSE <<>>)

(* What a step may add: a message by its first attempt; one that is new, by *)
(* addHistory, or the IDE context that goes before it; or that context      *)
(* after a compression.                                                     *)
Grows ==
  \/ turn.pc = "streaming" /\ turn.attempt = 1 /\ Records(turn.message, 1)
  \/ \E m \in unsent \ unsent' :
       Said' \in {Said \o Says(Content(m, 1)), Said \o Cancelled(m).says,
                 Said \o Note(m).says}
  \/ turn.pc = "summarising" /\ ~ Forced /\ Said' = Said \o Note(turn.message).says
StartsAfresh == Said' = <<>> \/ Said' \in {Says(h) : h \in Saved}

(* The one thing that may be said twice: while todos are left a message is  *)
(* sent once more (client.ts:1420), and what it holds, tool calls and their *)
(* results included, is recorded again behind the first attempt.            *)
SaysAgain ==
  /\ todos /\ turn.pc = "streaming" /\ turn.attempt \in 2..MaxRetries
  /\ Records(turn.message, turn.attempt)

(* While there is a chat and requests for a summary are answered, no        *)
(* sequence of messages, retries, commands and compressions, be they        *)
(* useful or not, loses or reorders what was said, and nothing is repeated  *)
(* but a message that is sent once more for todos.                          *)
KeepsTheConversation ==
  [][ \/ Said' = Said \/ Grows \/ SaysAgain \/ StartsAfresh
      \/ chat = None
      \/ turn.pc = "summarising" /\ chat' = chat ]_vars

(* Whatever part of a chat is cut off, put back or kept, tool responses     *)
(* stand behind their calls (those sent together with a reminder excepted,  *)
(* and the chat that resumes a history without its first two entries, which *)
(* may be a call and what led to it).                                       *)
ToolPairsIntact ==
  [][ chat # None /\ chat' # None /\ PairsIntact(Whole) =>
        PairsIntact(chat') /\ PairsIntact(Whole') ]_vars

(* After a compression made the history longer none is tried again before a *)
(* message until the user asks for one or the chat is replaced: at most one *)
(* automatic request for a summary is wasted.                               *)
OneWastedSummary == wasted <= 1

(* A change of credentials or provider keeps the conversation: neither the  *)
(* new client nor the chat it starts loses or repeats any of it.            *)
AuthKeepsConversation ==
  [][ chat = None => Said' = Said \/ Grows ]_vars

-----------------------------------------------------------------------------
(* Liveness: a message that waits for a summary or a stream ends, whatever  *)
(* todos are left: it is not repeated for ever.                             *)
EveryTurnEnds ==
  turn.pc \in {"summarising", "streaming"} ~> turn.pc \in {"idle", "tools"}
=============================================================================
