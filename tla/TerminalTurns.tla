---------------------------- MODULE TerminalTurns ----------------------------
(***************************************************************************)
(* The turns of the terminal: useGeminiStream                              *)
(* (packages/cli/src/ui/hooks/useGeminiStream.ts) with useReactToolSche-   *)
(* duler.ts beneath it and the shell commands of shellCommandProcessor.ts. *)
(*                                                                         *)
(* A handler reads the state of the render that made it, not the present   *)
(* one: a message is queued or sent by what was rendered, and the tools of *)
(* a turn are reported to the closures of the render that sent its mes-    *)
(* sage.  Refs (the queue, turnCancelledRef, abortControllerRef) are read  *)
(* as they are.  Every render also makes a new CoreToolScheduler, since    *)
(* its callback is a new function; all of them write the one list of calls *)
(* the terminal shows.  An action is the code between two awaits; a render *)
(* is one action with its effects.                                         *)
(*                                                                         *)
(* Operators named X_Y, next to X, are mutants: X with a plausible bug.    *)
(***************************************************************************)
EXTENDS Naturals, Sequences, SequencesExt

CONSTANTS
  Messages,  \* what the user types, each once
  Commands,  \* those that are commands: they run a tool or in the shell
  Slots,     \* the tool calls one stream may request
  MaxRounds, \* bound: streams of one turn
  MaxEscs,   \* bound: cancellations
  None

ASSUME ConstantsOK ==
  /\ Commands \subseteq Messages
  /\ MaxRounds \in Nat \ {0} /\ MaxEscs \in Nat
  /\ None \notin Messages

VARIABLES
  turn,          \* the turn of every message
  queue,         \* queuedSubmissionsRef
  isResponding,  \* the React state of that name
  listed,        \* the turn whose tool calls the terminal lists, or None
  turnCancelled, \* turnCancelledRef
  aborter,       \* the turn abortControllerRef can abort, or None
  seen,          \* what the last render saw
  scheduler,     \* the scheduler of the last render: named by the first
                 \* turn that takes it, None before
  line,          \* turns whose tool calls are in a scheduler, oldest first
  escs,
  overlapped,    \* history variable: two schedulers held calls at once
  unanswered,    \* history variable: turns with calls of the model that have
                 \* neither been submitted nor put into the history
  lost           \* history variable: turns whose calls a cancellation took
                 \* out of a scheduler's queue, or whose stream failed after
                 \* it had asked for them

history == <<overlapped, unanswered, lost>>
vars == <<turn, queue, isResponding, listed, turnCancelled, aborter, seen,
          scheduler, line, escs, history>>

Steps == {"new", "queued", "timer", "preparing", "streaming", "tools",
          "shell", "done", "dropped"}
Statuses == {"none", "waiting", "validating", "awaiting", "scheduled",
             "executing", "ended", "cancelled"}
StreamingStates == {"Idle", "Responding", "WaitingForConfirmation"}

NoCalls == [c \in Slots |-> "none"]

(* heard is the isResponding the closures of the turn were made with;      *)
(* cancelled is a history variable: the user cancelled this turn.          *)
FreshTurn ==
  [pc |-> "new", sched |-> None, heard |-> FALSE, aborted |-> FALSE,
   calls |-> NoCalls, client |-> FALSE, rounds |-> 0, cancelled |-> FALSE]

Init ==
  /\ turn = [m \in Messages |-> FreshTurn]
  /\ queue = <<>> /\ line = <<>>
  /\ isResponding = FALSE /\ turnCancelled = FALSE /\ overlapped = FALSE
  /\ listed = None /\ aborter = None /\ scheduler = None
  /\ seen = [streaming |-> "Idle", responding |-> FALSE]
  /\ escs = 0
  /\ unanswered = {} /\ lost = {}

------------------------------------------------------------------------------
(* Rendering.                                                              *)

(* streamingState: any call listed that is not reported yet keeps the      *)
(* terminal responding.                                                    *)
StreamingState ==
  IF listed # None /\ \E c \in Slots : turn[listed].calls[c] = "awaiting"
  THEN "WaitingForConfirmation"
  ELSE IF isResponding \/ listed # None THEN "Responding" ELSE "Idle"

(* A submission taken off the queue is on its way in a timer.              *)
TakeNext_Peeks(q, t) ==
  IF q = <<>> THEN [queue |-> q, turn |-> t]
  ELSE [queue |-> q, turn |-> [t EXCEPT ![Head(q)].pc = "timer"]]
TakeNext(q, t) ==
  IF q = <<>> THEN [queue |-> q, turn |-> t]
  ELSE [queue |-> Tail(q), turn |-> [t EXCEPT ![Head(q)].pc = "timer"]]
scheduleNextQueuedSubmission(q, t) ==
  LET next == TakeNext(q, t) IN queue' = next.queue /\ turn' = next.turn

(* The effect of a render that shows the terminal idle anew.               *)
WhenIdle_Forgets(streaming) == UNCHANGED <<queue, turn>>
WhenIdle(streaming) ==
  IF streaming = "Idle" /\ seen.streaming # "Idle"
  THEN scheduleNextQueuedSubmission(queue, turn)
  ELSE UNCHANGED <<queue, turn>>

Render ==
  LET now == [streaming |-> StreamingState, responding |-> isResponding]
  IN  /\ seen # now \/ scheduler # None
      /\ seen' = now
      /\ scheduler' = None
      /\ WhenIdle(now.streaming)
      /\ UNCHANGED <<isResponding, listed, turnCancelled, aborter, line, escs,
                     history>>

------------------------------------------------------------------------------
(* Submitting.                                                             *)

(* submitQuery up to the await of prepareQueryForGemini.                   *)
SubmitQuery(m) ==
  IF seen.streaming # "Idle"
  THEN /\ queue' = Append(queue, m)
       /\ turn' = [turn EXCEPT ![m].pc = "queued"]
       /\ UNCHANGED <<turnCancelled, aborter, scheduler>>
  ELSE /\ scheduler' = IF scheduler = None THEN m ELSE scheduler
       /\ turn' = [turn EXCEPT ![m].pc = "preparing", ![m].sched = scheduler',
                               ![m].heard = seen.responding]
       /\ aborter' = m
       /\ turnCancelled' = FALSE
       /\ UNCHANGED queue

(* The user enters a message; the timer of a queued one fires.             *)
Type(m) ==
  /\ turn[m].pc = "new"
  /\ SubmitQuery(m)
  /\ UNCHANGED <<isResponding, listed, seen, line, escs, history>>

TimerFires(m) ==
  /\ turn[m].pc = "timer"
  /\ SubmitQuery(m)
  /\ UNCHANGED <<isResponding, listed, seen, line, escs, history>>

------------------------------------------------------------------------------
(* The calls of a turn in its scheduler.                                   *)

(* schedule: the calls wait while the scheduler has others.                *)
WithCalls(t, m, wanted) ==
  LET status == IF \E n \in Range(line) : t[n].sched = t[m].sched
                THEN "waiting" ELSE "validating"
  IN  [t EXCEPT ![m].pc = "tools",
                ![m].calls = [c \in Slots |-> IF c \in wanted THEN status
                                                        ELSE "none"]]
Scheduled(m) ==
  /\ line' = Append(line, m)
  /\ listed' = IF \E n \in Range(line) : turn[n].sched = turn[m].sched
               THEN listed ELSE m
  /\ overlapped' = (overlapped \/ \E n \in Range(line) :
                                     turn[n].sched # turn[m].sched)

Present(calls) == {c \in Slots : calls[c] # "none"}

(* attemptExecutionOfScheduledCalls: all start when none is left to decide. *)
Started(calls) ==
  IF \A c \in Present(calls) : calls[c] \in {"scheduled", "ended", "cancelled"}
  THEN [c \in Slots |-> IF calls[c] = "scheduled" THEN "executing" ELSE calls[c]]
  ELSE calls

(* checkAndNotifyCompletion: the list is cleared and the next batch of the *)
(* same scheduler begins and is listed.                                    *)
Behind(t, m) == {n \in Range(line) \ {m} : t[n].sched = t[m].sched}
Ahead(n, o) == \E i, j \in DOMAIN line : i < j /\ line[i] = n /\ line[j] = o
NextInLine(t, m) ==
  IF Behind(t, m) = {} THEN {None}
  ELSE {n \in Behind(t, m) : \A o \in Behind(t, m) : ~Ahead(o, n)}
Without(m) == RemoveAt(line, CHOOSE i \in DOMAIN line : line[i] = m)
Begun(t, n) ==
  IF n = None THEN t
  ELSE [t EXCEPT ![n].calls = [c \in Slots |-> IF @[c] = "waiting"
                                               THEN "validating" ELSE @[c]]]

(* handleCompletedTools: nothing if the closure was responding; the tools  *)
(* of a command are only marked; cancelled calls go to the history; other  *)
(* results are submitted as a continuation, which makes this the turn the  *)
(* user can cancel.                                                        *)
Deaf_Now(m) == isResponding
Deaf(m) == turn[m].heard
Continues(m, calls) ==
  ~Deaf(m) /\ ~turn[m].client /\ \E c \in Present(calls) : calls[c] = "ended"
Answered(m, calls) == IF Deaf(m) THEN calls ELSE NoCalls

handleCompletedTools(m, calls) ==
  LET rest == [turn EXCEPT ![m].calls = Answered(m, calls),
                 ![m].pc = IF Continues(m, calls) THEN "streaming" ELSE "done",
                 ![m].rounds = IF Continues(m, calls) THEN @ + 1 ELSE @,
                 ![m].aborted = IF Continues(m, calls) THEN FALSE ELSE @]
  IN  /\ \E next \in NextInLine(turn, m) :
           turn' = Begun(rest, next) /\ listed' = next
      /\ line' = Without(m)
      /\ unanswered' = IF Deaf(m) THEN unanswered ELSE unanswered \ {m}
      /\ IF Continues(m, calls)
         THEN aborter' = m /\ turnCancelled' = FALSE /\ isResponding' = TRUE
         ELSE UNCHANGED <<aborter, turnCancelled, isResponding>>

(* Every change of a call is notified: the scheduler's list replaces the   *)
(* one listed, and a batch whose calls are all terminal is reported.       *)
Notified(m, changed) ==
  LET calls == Started(changed)
  IN  IF \A c \in Present(calls) : calls[c] \in {"ended", "cancelled"}
      THEN handleCompletedTools(m, calls)
      ELSE /\ turn' = [turn EXCEPT ![m].calls = calls]
           /\ listed' = m
           /\ UNCHANGED <<line, aborter, turnCancelled, isResponding, unanswered>>

Unscheduled == UNCHANGED <<queue, seen, scheduler, escs, overlapped, lost>>

(* A call is refused as aborted, fails, needs approval, or does not.       *)
Validate(m, c) ==
  /\ turn[m].calls[c] = "validating"
  /\ \E status \in {"awaiting", "scheduled", "ended"}
                    \cup IF turn[m].aborted THEN {"cancelled"} ELSE {} :
       Notified(m, [turn[m].calls EXCEPT ![c] = status])
  /\ Unscheduled

(* The user can answer a prompt that is listed.                            *)
Answer(m, c) ==
  /\ turn[m].calls[c] = "awaiting"
  /\ listed = m /\ seen.streaming = "WaitingForConfirmation"
  /\ \E status \in IF turn[m].aborted THEN {"cancelled"}
                   ELSE {"scheduled", "cancelled"} :
       Notified(m, [turn[m].calls EXCEPT ![c] = status])
  /\ Unscheduled

Finish(m, c) ==
  /\ turn[m].calls[c] = "executing"
  /\ Notified(m, [turn[m].calls EXCEPT
                    ![c] = IF turn[m].aborted THEN "cancelled" ELSE "ended"])
  /\ Unscheduled

------------------------------------------------------------------------------
(* What becomes of a message once prepareQueryForGemini has looked at it.  *)

(* It goes to the model.                                                   *)
Stream(m) ==
  /\ m \notin Commands
  /\ turn[m].pc = "preparing"
  /\ turn' = [turn EXCEPT ![m].pc = "streaming", ![m].rounds = 1]
  /\ isResponding' = TRUE
  /\ UNCHANGED <<queue, listed, turnCancelled, aborter, seen, scheduler, line,
                 escs, history>>

(* It is handled at once, or is refused: the next one is taken.            *)
Handled(m) ==
  /\ turn[m].pc = "preparing"
  /\ scheduleNextQueuedSubmission(queue, [turn EXCEPT ![m].pc = "done"])
  /\ UNCHANGED <<isResponding, listed, turnCancelled, aborter, seen, scheduler,
                 line, escs, history>>

(* It is a command that calls a tool.                                      *)
ScheduleTool(m, c) ==
  /\ m \in Commands
  /\ turn[m].pc = "preparing"
  /\ Scheduled(m)
  /\ scheduleNextQueuedSubmission(queue,
       WithCalls([turn EXCEPT ![m].client = TRUE], m, {c}))
  /\ UNCHANGED <<isResponding, turnCancelled, aborter, seen, scheduler, escs,
                 unanswered, lost>>

(* It is a shell command: onExec keeps the terminal responding.            *)
RunShell(m) ==
  /\ m \in Commands
  /\ turn[m].pc = "preparing"
  /\ scheduleNextQueuedSubmission(queue, [turn EXCEPT ![m].pc = "shell"])
  /\ isResponding' = TRUE
  /\ UNCHANGED <<listed, turnCancelled, aborter, seen, scheduler, line, escs,
                 history>>

ShellEnds(m) ==
  /\ turn[m].pc = "shell"
  /\ turn' = [turn EXCEPT ![m].pc = "done"]
  /\ isResponding' = FALSE
  /\ UNCHANGED <<queue, listed, turnCancelled, aborter, seen, scheduler, line,
                 escs, history>>

------------------------------------------------------------------------------
(* Streams.                                                                *)

(* The finally of submitQuery, over the turns t and the queue q.           *)
Finally_Guarded(q, t) ==
  IF turnCancelled THEN queue' = q /\ turn' = t /\ UNCHANGED isResponding
  ELSE isResponding' = FALSE /\ scheduleNextQueuedSubmission(q, t)
Finally(q, t) ==
  /\ isResponding' = FALSE
  /\ IF turnCancelled THEN queue' = q /\ turn' = t
                      ELSE scheduleNextQueuedSubmission(q, t)

(* The queue is emptied: what was in it is never sent.                     *)
Dropped(t) == [n \in Messages |-> IF t[n].pc = "queued"
                                  THEN [t[n] EXCEPT !.pc = "dropped"] ELSE t[n]]

(* An aborted stream may still say that the user cancelled: unless         *)
(* turnCancelledRef is set that empties the queue.                         *)
StreamEnds(m, wanted, saysCancelled) ==
  /\ turn[m].pc = "streaming"
  /\ saysCancelled => turn[m].aborted
  /\ wanted # {} => turn[m].rounds < MaxRounds
  /\ LET clears == saysCancelled /\ ~turnCancelled
         after  == IF wanted = {} THEN [turn EXCEPT ![m].pc = "done"]
                                  ELSE WithCalls(turn, m, wanted)
     IN  Finally(IF clears THEN <<>> ELSE queue,
                 IF clears THEN Dropped(after) ELSE after)
  /\ IF wanted = {} THEN UNCHANGED <<line, listed, overlapped>> ELSE Scheduled(m)
  /\ unanswered' = IF wanted = {} THEN unanswered ELSE unanswered \cup {m}
  /\ UNCHANGED <<turnCancelled, aborter, seen, scheduler, escs, lost>>

(* A stream that throws: the tools it had asked for are forgotten.         *)
StreamThrows(m) ==
  /\ turn[m].pc = "streaming"
  /\ \E hers \in {{}, {m}} : /\ unanswered' = unanswered \cup hers
                            /\ lost' = lost \cup hers
  /\ Finally(queue, [turn EXCEPT ![m].pc = "done"])
  /\ UNCHANGED <<listed, turnCancelled, aborter, seen, scheduler, line, escs,
                 overlapped>>

(* cancelOngoingRequest.  The abort takes calls that wait behind others    *)
(* out of their scheduler; nobody looks at the promise this rejects.       *)
cancelOngoingRequest ==
  /\ escs < MaxEscs /\ escs' = escs + 1
  /\ seen.streaming = "Responding" /\ ~turnCancelled
  /\ turnCancelled' = TRUE
  /\ isResponding' = FALSE
  /\ queue' = <<>>
  /\ LET waits == aborter # None /\ \E c \in Slots : turn[aborter].calls[c] = "waiting"
     IN  /\ turn' = [n \in Messages |->
              IF n # aborter THEN Dropped(turn)[n]
              ELSE [turn[n] EXCEPT
                      !.aborted = TRUE,
                      !.cancelled = @ \/ turn[n].pc \in {"streaming", "tools"},
                      !.pc = IF waits THEN "done" ELSE @,
                      !.calls = IF waits THEN NoCalls ELSE @]]
         /\ line' = IF waits THEN Without(aborter) ELSE line
         /\ lost' = IF waits THEN lost \cup {aborter} ELSE lost
  /\ UNCHANGED <<listed, aborter, seen, scheduler, overlapped, unanswered>>

------------------------------------------------------------------------------
Internal ==
  \/ Render
  \/ \E m \in Messages :
       \/ TimerFires(m)
       \/ Stream(m)
       \/ Handled(m)
       \/ RunShell(m)
       \/ ShellEnds(m)
       \/ StreamThrows(m)
       \/ \E c \in Slots :
            \/ ScheduleTool(m, c)
            \/ Validate(m, c)
            \/ Answer(m, c)
            \/ Finish(m, c)
       \/ \E wanted \in SUBSET Slots, saysCancelled \in BOOLEAN :
            StreamEnds(m, wanted, saysCancelled)

Done ==
  /\ \A m \in Messages : turn[m].pc \in {"done", "dropped", "queued", "tools"}
  /\ UNCHANGED vars

Next == Internal \/ cancelOngoingRequest \/ Done \/ \E m \in Messages : Type(m)

Spec == Init /\ [][Next]_vars

(* Every step but the user's typing and cancelling comes: renders, timers, *)
(* streams and tools end by themselves, prompts that are shown are         *)
(* answered.                                                               *)
FairSpec == Spec /\ WF_vars(Internal)

------------------------------------------------------------------------------
TypeOK ==
  /\ \A m \in Messages :
       /\ turn[m].pc \in Steps
       /\ turn[m].sched \in Messages \cup {None}
       /\ turn[m].calls \in [Slots -> Statuses]
       /\ turn[m].rounds \in 0..MaxRounds
       /\ turn[m].pc = "queued" <=> m \in Range(queue)
       /\ turn[m].pc = "tools" <=> m \in Range(line)
  /\ IsInjective(queue) /\ IsInjective(line)
  /\ listed \in Range(line) \cup {None}
  /\ aborter \in Messages \cup {None} /\ scheduler \in Messages \cup {None}
  /\ isResponding \in BOOLEAN /\ turnCancelled \in BOOLEAN
  /\ seen \in [streaming : StreamingStates, responding : BOOLEAN]

(* The terminal says it is responding only while a stream or a shell       *)
(* command runs, whatever order turns end in: it never spins for nothing,  *)
(* with all that is typed going to the queue.                              *)
NeverSpinsForNothing ==
  isResponding => \E m \in Messages : turn[m].pc \in {"streaming", "shell"}

(* However turns, cancellations and renders fall together, the terminal    *)
(* ends up idle with nothing queued or on its way: no message is left in   *)
(* queuedSubmissionsRef with nobody to take it.                            *)
ComesToRest ==
  <>[](seen.streaming = "Idle" /\ queue = <<>>
       /\ \A m \in Messages : turn[m].pc # "timer")

(* Tool calls that reach a scheduler are answered, submitted as results or *)
(* put into the history as cancelled: handleCompletedTools does nothing if *)
(* its closure was made while the terminal responded (useGeminiStream.ts:  *)
(* 1026) and nobody reports the calls again, but no turn has such a        *)
(* closure.  There are three exceptions.  Two schedulers held calls at     *)
(* once: each replaces the list of the other, and a prompt may vanish.     *)
(* And two kinds of calls are lost with nothing sent or recorded: those a  *)
(* cancellation finds waiting in a scheduler's queue (the promise it       *)
(* rejects, coreToolScheduler.ts:607-615, is ignored), and those of a      *)
(* stream that fails after it asked for them.                              *)
CallsAreAnswered ==
  <>[](\/ overlapped
       \/ /\ \A m \in Messages : turn[m].calls = NoCalls
          /\ unanswered \subseteq lost)

(* A turn the user cancelled shows nothing more ("Prevents additional      *)
(* output after a user initiated cancel", useGeminiStream.ts:545): its     *)
(* stream runs only while turnCancelledRef holds its output back.          *)
CancelledTurnsAreMuted ==
  \A m \in Messages :
    turn[m].pc = "streaming" /\ turn[m].cancelled => turnCancelled
==============================================================================
